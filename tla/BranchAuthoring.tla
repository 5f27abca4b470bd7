--------------------------- MODULE BranchAuthoring ---------------------------
(* How lexongraph-streaming-indexer writes the entries of a branch: the bits a *)
(* dimension gets, the codes of the entries and the bytes they are packed into *)
(* with the descriptor that says how to read them.  Vectors are integers, in   *)
(* the rotated coordinates where an encoding has a rotation, and a weight      *)
(* stands for the logarithm of a dimension's explained variance.               *)
EXTENDS BranchPayload

CONSTANT
    Tasks           \* branches to write: policy, bit budgets, place, vectors and weights

VARIABLES
    task,           \* the branch
    at,             \* start, rest (bits are left to give), quantize, done or failed
    widths,         \* the bits of every dimension
    left,           \* bits that no dimension has yet
    codes,          \* the quantized codes of every entry
    written         \* the encoding, descriptor and payloads

vars == <<task, at, widths, left, codes, written>>

Dims == Len(task.weights)
Dimensions == [i \in 1 .. Dims |-> i]
Abs(x) == IF x < 0 THEN 0 - x ELSE x
Nothing == [encoding |-> "none"]

Init ==
    /\ task \in Tasks
    /\ at = "start"
    /\ widths = <<>> /\ left = 0 /\ codes = <<>> /\ written = Nothing

-----------------------------------------------------------------------------
(* Bits.                                                                       *)

\* resolve_branch_bit_budget.
BitBudget ==
    IF task.root THEN task.budgets.root
    ELSE IF task.level = 1 THEN task.budgets.lowest ELSE task.budgets.interior

\* What allocate_variable_bit_widths wants to add to the one bit of a dimension,
\* as a fraction of WeightSum: its share by weight, or an even one.
Weight(i) == IF \A j \in 1 .. Dims : task.weights[j] = 0 THEN 1 ELSE task.weights[i]
WeightSum == FoldLeft(LAMBDA sum, i : sum + Weight(i), 0, Dimensions)
Remaining == IF BitBudget = 0 THEN 0 ELSE BitBudget * Dims - Dims
Desired(i) == Weight(i) * Remaining

\* BaseWidth below without the limit of a dimension.
UnlimitedWidth(i) == 1 + Desired(i) \div WeightSum

BaseWidth(i) == 1 + Min({Desired(i) \div WeightSum, MaxBitWidth - 1})

\* The dimensions by what rounding took from them, the largest part first.
ByRemainder ==
    SortSeq(Dimensions, LAMBDA i, j : \/ Desired(i) % WeightSum > Desired(j) % WeightSum
                                      \/ Desired(i) % WeightSum = Desired(j) % WeightSum /\ i < j)

\* One bit for dimension i, if there is one and it may have it.
GiveBit(given, i) ==
    IF given.left = 0 \/ given.widths[i] >= MaxBitWidth THEN given
    ELSE [widths |-> [given.widths EXCEPT ![i] = @ + 1], left |-> given.left - 1]

-----------------------------------------------------------------------------
(* Codes.                                                                      *)

\* exact_f32_centroid and subtract_f32_vectors: how far entry e is from the mean
\* in dimension i, times the number of entries.
Entries == DOMAIN task.vectors
Delta(e, i) ==
    Len(task.vectors) * task.vectors[e][i]
    - FoldLeft(LAMBDA sum, v : sum + v[i], 0, task.vectors)

MaxAbs(i) == Max({Abs(Delta(e, i)) : e \in Entries})
CodeMax(width) == 2 ^ (width - 1) - 1

\* compute_quantization_scales and round_ties_even: the scale of a dimension is
\* MaxAbs / CodeMax, or 1 when either is 0.
RoundTiesEven(p, q) ==
    LET low == p \div q IN
    IF 2 * (p % q) < q THEN low
    ELSE IF 2 * (p % q) > q THEN low + 1
    ELSE IF low % 2 = 0 THEN low ELSE low + 1

\* Code below, rounded towards zero.
TruncatedCode(e, i, width) ==
    IF MaxAbs(i) = 0 \/ CodeMax(width) = 0 THEN 0
    ELSE ((Abs(Delta(e, i)) * CodeMax(width)) \div MaxAbs(i)) * (IF Delta(e, i) < 0 THEN 0 - 1 ELSE 1)

Clamp(x, most) == IF x > most THEN most ELSE IF x < 0 - most THEN 0 - most ELSE x

Code(e, i, width) ==
    LET exact == IF MaxAbs(i) = 0 \/ CodeMax(width) = 0 THEN Delta(e, i)
                 ELSE RoundTiesEven(Delta(e, i) * CodeMax(width), MaxAbs(i))
    IN  Clamp(exact, CodeMax(width))

\* write_lsb_first_bits: what a value of so many bits, written from bit `start`
\* on, adds to byte b.  No bit is written twice, so that | is +.
ByteBits(value, width, start, b) ==
    LET low == 8 * (b - 1) - start IN
    CASE low \notin -7 .. width - 1 -> 0
      [] low \in 0 .. width - 1     -> (value \div 2 ^ low) % 256
      [] OTHER                      -> ((value % 256) * 2 ^ (0 - low)) % 256

WriteBits(bytes, start, width, value) ==
    [b \in DOMAIN bytes |-> bytes[b] + ByteBits(value, width, start, b)]

\* pack_quantized_delta_vector: centred codes, one dimension after the other.
PackVector(code) ==
    FoldLeft(LAMBDA out, i : [bytes |-> WriteBits(out.bytes, out.bit, widths[i], code[i] + 2 ^ (widths[i] - 1)),
                              bit   |-> out.bit + widths[i]],
             [bytes |-> [b \in 1 .. ByteLen(BitLen(widths)) |-> 0], bit |-> 0], Dimensions).bytes

-----------------------------------------------------------------------------
(* encode_branch_entries.                                                      *)

Descriptor(base, rotation, quantization) ==
    [version |-> 1, logical |-> task.logical, dims |-> Dims, base |-> base, rotation |-> rotation,
     quantization |-> quantization]

Fail ==
    /\ at' = "failed"
    /\ UNCHANGED <<task, widths, left, codes, written>>

\* A policy with a descriptor is for f32le only; uniform widths are at least 1
\* and variable ones at most MaxBitWidth on average.
RefuseTask ==
    /\ at = "start"
    /\ task.policy # "ordinary"
    /\ \/ task.logical # "f32le"
       \/ task.policy \in UniformQ /\ BitBudget = 0
       \/ task.policy \in VariableQ /\ BitBudget > MaxBitWidth
    /\ Fail

\* Entries that keep their floats, of 4 bytes each.
WriteFloats ==
    /\ at = "start"
    /\ \/ task.policy = "ordinary" /\ task.logical \in Ordinary
       \/ task.policy \in Floats /\ task.logical = "f32le"
    /\ written' = [encoding   |-> IF task.policy = "ordinary" THEN task.logical ELSE task.policy,
                   descriptor |-> Descriptor(IF task.policy = "pca-rot-delta-f32le" THEN "good" ELSE "none",
                                             IF task.policy = "ordinary" THEN "none" ELSE "good",
                                             NoQuantization),
                   payloads   |-> [e \in Entries |-> [b \in 1 .. 4 * Dims |-> 0]]]
    /\ at' = "done"
    /\ UNCHANGED <<task, widths, left, codes>>

UniformWidths ==
    /\ at = "start" /\ task.logical = "f32le"
    /\ task.policy \in UniformQ /\ BitBudget > 0
    /\ widths' = [i \in 1 .. Dims |-> BitBudget]
    /\ at' = "quantize"
    /\ UNCHANGED <<task, left, codes, written>>

BaseWidths ==
    /\ at = "start" /\ task.logical = "f32le"
    /\ task.policy \in VariableQ /\ BitBudget <= MaxBitWidth
    /\ widths' = [i \in 1 .. Dims |-> BaseWidth(i)]
    /\ left' = Remaining - (BitLen(widths') - Dims)
    /\ at' = "rest"
    /\ UNCHANGED <<task, codes, written>>

\* A round over the dimensions; one that gives no bit is an error.
GiveRest ==
    /\ at = "rest" /\ left > 0
    /\ \E given \in {FoldLeft(GiveBit, [widths |-> widths, left |-> left], ByRemainder)} :
          /\ widths' = given.widths /\ left' = given.left
          /\ at' = IF given.left = left THEN "failed" ELSE "rest"
    /\ UNCHANGED <<task, codes, written>>

RestGiven ==
    /\ at = "rest" /\ left = 0
    /\ at' = "quantize"
    /\ UNCHANGED <<task, widths, left, codes, written>>

Quantize ==
    /\ at = "quantize"
    /\ codes' = [e \in Entries |-> [i \in 1 .. Dims |-> Code(e, i, widths[i])]]
    /\ written' =
          [encoding   |-> task.policy,
           descriptor |-> Descriptor("good", IF task.policy \in Rotated THEN "good" ELSE "none",
                             [mode |-> IF task.policy \in UniformQ THEN 1 ELSE 2,
                              uniform |-> task.policy \in UniformQ, width |-> BitBudget,
                              variable |-> task.policy \in VariableQ, widths |-> widths, scales |-> "good"]),
           payloads   |-> [e \in Entries |-> PackVector(codes'[e])]]
    /\ at' = "done"
    /\ UNCHANGED <<task, widths, left>>

Next ==
    \/ RefuseTask \/ WriteFloats \/ UniformWidths \/ BaseWidths \/ GiveRest \/ RestGiven \/ Quantize

Spec == Init /\ [][Next]_vars

-----------------------------------------------------------------------------

\* Bits given by weight: every dimension has 1 to 31, a heavier one no fewer than
\* a lighter one, all together as many as a uniform width would take, and a budget
\* that fits can always be given.
BitsExact ==
    /\ task.policy \in VariableQ /\ at \in {"quantize", "done"} =>
          /\ \A i \in 1 .. Dims : widths[i] \in 1 .. MaxBitWidth
          /\ \A i, j \in 1 .. Dims : task.weights[i] > task.weights[j] => widths[i] >= widths[j]
          /\ BitLen(widths) = Dims * Max({1, BitBudget})
    /\ task.policy \in VariableQ /\ task.logical = "f32le" /\ BitBudget <= MaxBitWidth => at # "failed"

\* What the indexer writes, lexongraph-block accepts and reads as the codes that
\* were written; each code is the nearest that its width has, whose error is at
\* most half a step.
WrittenReadable ==
    at = "done" /\ IsEbcp(written.encoding) =>
        /\ ~DescriptorRefused(written.descriptor, written.encoding, Dims)
        /\ \A e \in Entries :
              /\ ~PayloadRefused(written.payloads[e], Widths(written.descriptor, written.encoding, Dims))
              /\ Reconstruction(written.payloads[e], written.descriptor, written.encoding, Dims) = {"value"}
        /\ written.encoding \notin Floats => \A e \in Entries :
              /\ Unpack(written.payloads[e], widths) = codes[e]
              /\ \A i \in 1 .. Dims :
                    /\ Abs(codes[e][i]) <= CodeMax(widths[i])
                    /\ CodeMax(widths[i]) > 0 /\ MaxAbs(i) > 0 =>
                          2 * Abs(Delta(e, i) * CodeMax(widths[i]) - codes[e][i] * MaxAbs(i)) <= MaxAbs(i)
=============================================================================
