---------------------------- MODULE BranchPayload ----------------------------
(* The branch encodings of lexongraph-block (EBCP): the descriptor a branch    *)
(* must carry in its extension map, the payloads it admits and how a payload   *)
(* is taken apart.  A payload is a sequence of bytes.  A vector of floats in   *)
(* the descriptor is "none", "bad" (the wrong length, or a value that is not   *)
(* finite, or for scale factors below zero), "good" (no value above 2^30) or   *)
(* "huge" (finite, but larger).  What a rotation computes is left out, except  *)
(* whether it may leave the finite range.                                      *)
EXTENDS Integers, Sequences, FiniteSets, SequencesExt, FiniteSetsExt

Rotated   == {"pca-rot-f32le", "pca-rot-delta-f32le", "pca-rot-delta-uq", "pca-rot-delta-vbq"}
Floats    == {"pca-rot-f32le", "pca-rot-delta-f32le"}
UniformQ  == {"pca-rot-delta-uq", "ambient-delta-uq"}
VariableQ == {"pca-rot-delta-vbq"}

IsEbcp(encoding) == encoding \in Floats \cup UniformQ \cup VariableQ
Ordinary == {"f32le", "f16le", "i8", "pq4"}
KnownEncoding(encoding) == encoding \in Ordinary \/ IsEbcp(encoding)

MaxBitWidth == 31

\* parse_f32_vector_bytes looks at the length and at whether values are finite.
Accepted == {"good", "huge"}

\* parse_ebcp_quantization: q is the metadata as written; a uniform width of 0
\* with `uniform` FALSE is a field that is absent, and so are no widths.
NoQuantization == [mode |-> 0]
QuantizationRefused(q, encoding, dims) ==
    \/ q.scales \notin Accepted
    \/ encoding \in Floats
    \/ encoding \in UniformQ /\ (q.mode # 1 \/ ~q.uniform \/ q.width \notin 1 .. MaxBitWidth \/ q.variable)
    \/ encoding \in VariableQ /\ (q.mode # 2 \/ q.uniform \/ ~q.variable
                                  \/ Len(q.widths) # dims \/ \E i \in DOMAIN q.widths : q.widths[i] \notin 1 .. MaxBitWidth)

\* parse_ebcp_descriptor_fields: every encoding has the metadata it needs, and
\* none that it does not.
DescriptorRefused(d, encoding, dims) ==
    \/ d.version # 1 \/ d.logical # "f32le" \/ d.dims # dims
    \/ d.base = "bad" \/ d.rotation = "bad"
    \/ d.quantization # NoQuantization /\ QuantizationRefused(d.quantization, encoding, dims)
    \/ (encoding \in Rotated) # (d.rotation \in Accepted)
    \/ (encoding # "pca-rot-f32le") # (d.base \in Accepted)
    \/ (encoding \in UniformQ \cup VariableQ) # (d.quantization # NoQuantization)

\* The bits of every dimension.
Widths(d, encoding, dims) ==
    IF encoding \in VariableQ THEN d.quantization.widths
    ELSE [i \in 1 .. dims |-> IF encoding \in Floats THEN 32 ELSE d.quantization.width]

BitLen(widths) == FoldLeft(LAMBDA n, w : n + w, 0, widths)
ByteLen(bits) == (bits + 7) \div 8

\* A check of the padding that takes the bits from the wrong end.
PaddingFromLow(payload, bits) == bits % 8 # 0 /\ payload # <<>> /\ Last(payload) % 2 ^ (8 - (bits % 8)) # 0

\* validate_zero_ebcp_padding_bits: the bits of the last byte that no dimension uses.
PaddingSet(payload, bits) == bits % 8 # 0 /\ payload # <<>> /\ Last(payload) \div 2 ^ (bits % 8) # 0

\* validate_branch_ebcp_payload_lengths.
PayloadRefused(payload, widths) ==
    Len(payload) # ByteLen(BitLen(widths)) \/ PaddingSet(payload, BitLen(widths))

\* extract_lsb_first_bits: bits count from 0, the lowest of a byte first.
BitAt(payload, bit) == (payload[bit \div 8 + 1] \div 2 ^ (bit % 8)) % 2
Extract(payload, start, width) ==
    FoldLeft(LAMBDA n, bit : n + BitAt(payload, start + bit) * 2 ^ bit, 0, [i \in 1 .. width |-> i - 1])

\* unpack_quantized_payload: the centred code of every dimension.
Unpack(payload, widths) ==
    [i \in DOMAIN widths |-> Extract(payload, BitLen(SubSeq(widths, 1, i - 1)), widths[i]) - 2 ^ (widths[i] - 1)]

\* The length that the decoder of an encoding asks for, and the metadata; pq4 has
\* no logical value.
ElementBytes(encoding) == CASE encoding = "f32le" -> 4 [] encoding = "f16le" -> 2 [] encoding = "i8" -> 1
ShapeFits(payload, d, encoding, dims) ==
    CASE encoding \in Floats    -> Len(payload) = 4 * dims
      [] encoding \in UniformQ  -> /\ d.quantization # NoQuantization /\ d.quantization.mode = 1
                                   /\ Len(payload) = ByteLen(dims * d.quantization.width)
      [] encoding \in VariableQ -> /\ d.quantization # NoQuantization /\ d.quantization.mode = 2
                                   /\ Len(d.quantization.widths) = dims
                                   /\ Len(payload) = ByteLen(BitLen(d.quantization.widths))
      [] encoding = "pq4"       -> FALSE
      [] OTHER                  -> Len(payload) = dims * ElementBytes(encoding)

\* Values of floating-point payloads, by their exponent: all of its bits are set in
\* a value that is not finite, and a large f32 is one of at least 2^65.
NotFinite32(payload, i) == payload[4 * i] % 128 = 127 /\ payload[4 * i - 1] >= 128
NotFinite16(payload, i) == (payload[2 * i] % 128) \div 4 = 31
Large32(payload, i)     == payload[4 * i] % 128 >= 96

StoredFinite(payload, encoding) ==
    /\ encoding \in Floats \cup {"f32le"} => \A i \in 1 .. Len(payload) \div 4 : ~NotFinite32(payload, i)
    /\ encoding = "f16le" => \A i \in 1 .. Len(payload) \div 2 : ~NotFinite16(payload, i)

\* reconstruct_ebcp_ambient_embedding adds the products of values and rotation to
\* the base: below these sizes no sum can leave the finite range.
MayOverflow(payload, d, encoding) ==
    \/ d.base = "huge" \/ d.rotation = "huge"
    \/ encoding \notin Floats /\ d.quantization.scales = "huge"
    \/ encoding \in Floats /\ \E i \in 1 .. Len(payload) \div 4 : Large32(payload, i)

\* reconstruct_logical_branch_embedding_f32: the ways it may end.
Reconstruction(payload, d, encoding, dims) ==
    IF ~ShapeFits(payload, d, encoding, dims) \/ ~StoredFinite(payload, encoding) THEN {"refused"}
    ELSE IF IsEbcp(encoding) /\ MayOverflow(payload, d, encoding) THEN {"refused", "value"}
    ELSE {"value"}

\* prepare_root_comparison_target, for a target of n finite values: a root is
\* compared in its logical encoding, of which only f32le is supported.
LogicalEncoding(encoding) == IF IsEbcp(encoding) THEN "f32le" ELSE encoding
TargetPrepared(encoding, dims, n) == n = dims /\ LogicalEncoding(encoding) = "f32le"

-----------------------------------------------------------------------------
\* A payload written from its codes, for reference: bit by bit, zero to the end
\* of the last byte.
BitOf(codes, widths, bit) ==
    IF bit >= BitLen(widths) THEN 0
    ELSE LET i == CHOOSE i \in DOMAIN widths :
                      BitLen(SubSeq(widths, 1, i - 1)) <= bit /\ bit < BitLen(SubSeq(widths, 1, i))
         IN  ((codes[i] + 2 ^ (widths[i] - 1)) \div 2 ^ (bit - BitLen(SubSeq(widths, 1, i - 1)))) % 2
Pack(codes, widths) ==
    [byte \in 1 .. ByteLen(BitLen(widths)) |->
        FoldLeft(LAMBDA n, j : n + BitOf(codes, widths, (byte - 1) * 8 + j) * 2 ^ j, 0, <<0, 1, 2, 3, 4, 5, 6, 7>>)]
=============================================================================
