----------------------------- MODULE BlockCodec -----------------------------
(* lexongraph-block: blocks of both versions and the documents they are stored *)
(* as.  A document is the CBOR value that its bytes hold and the form of the   *)
(* bytes: "shortest", "longer" (an integer or a length that takes more bytes   *)
(* than it needs, which the value does not show) or "trailing" (bytes after    *)
(* the value).  A map is the sequence of its keys with the values in fields of *)
(* their own; keys are field numbers below 24, and Text is a key of text.      *)
(* Hashes are documents: SHA-256 is taken to be injective.                     *)
EXTENDS BranchPayload, TLC

CONSTANTS
    Blocks,         \* the blocks a caller may build
    Samples         \* some of these, to write wrongly

VARIABLES given, at, document, block

vars == <<given, at, document, block>>

Text == 100
Keys(m) == ToSet(m)
Distinct(m) == Cardinality(Keys(m)) = Len(m)

\* canonicalize_value on a map: its keys in order; equal keys are an error.
Sorted(m) == SortSeq(m, <)

\* integer_keyed_map, reject_unknown_keys and required_field.
FieldsRefused(m, required, optional) ==
    Text \in Keys(m) \/ ~Distinct(m) \/ ~(required \subseteq Keys(m)) \/ ~(Keys(m) \subseteq required \cup optional)

\* An entry has its fields, an embedding, and a child (0 is not a hash) or, in a
\* leaf, the keys of its metadata.
EntryRefused(entry, leaf) ==
    \/ FieldsRefused(entry.fields, IF leaf THEN {0, 1, 2} ELSE {0, 1}, {})
    \/ leaf /\ ~Distinct(entry.metadata)
    \/ ~leaf /\ entry.child = 0

\* Byte strings in the order of Vec<u8>.
LexLess(x, y) ==
    \/ Len(x) < Len(y) /\ SubSeq(y, 1, Len(x)) = x
    \/ \E i \in 1 .. Min({Len(x), Len(y)}) : x[i] < y[i] /\ SubSeq(x, 1, i - 1) = SubSeq(y, 1, i - 1)

\* Entries in order of their embeddings alone.
EmbeddingBefore(x, y) == LexLess(x.embedding, y.embedding)

\* compare_branch_entries.
EntryBefore(x, y) ==
    LexLess(x.embedding, y.embedding) \/ (x.embedding = y.embedding /\ x.child < y.child)

Refusal == [ok |-> FALSE]
Result(value) == [ok |-> TRUE, value |-> value]

CanonicalEntry(entry) == [entry EXCEPT !.fields = Sorted(@), !.metadata = Sorted(@)]
CanonicalExt(ext) == [ext EXCEPT !.keys = Sorted(@)]

\* The descriptor and the payloads of a branch; ext[0] is the descriptor.
EbcpRefused(b) ==
    /\ IsEbcp(b.encoding)
    /\ \/ ~b.ext.present \/ Text \in Keys(b.ext.keys) \/ 0 \notin Keys(b.ext.keys)
       \/ DescriptorRefused(b.ext.descriptor, b.encoding, b.dims)
       \/ \E i \in DOMAIN b.entries :
              PayloadRefused(b.entries[i].embedding, Widths(b.ext.descriptor, b.encoding, b.dims))

\* Neighbours of a sorted sequence that neither comes before the other.
Repeats(entries) == \E i \in 1 .. Len(entries) - 1 : ~EntryBefore(entries[i], entries[i + 1])

\* normalize_block of both versions.
NormalizeBranch(b) ==
    IF b.level = 0 \/ ~KnownEncoding(b.encoding) \/ ~Distinct(b.ext.keys) \/ EbcpRefused(b) THEN Refusal
    ELSE LET sorted == SortSeq(b.entries, EntryBefore)
         IN  IF Repeats(sorted) THEN Refusal
             ELSE Result([b EXCEPT !.entries = [i \in DOMAIN sorted |-> CanonicalEntry(sorted[i])], !.ext = CanonicalExt(@)])

NormalizeLeaf(b) ==
    IF b.level # 0 \/ ~KnownEncoding(b.encoding) \/ IsEbcp(b.encoding) \/ ~Distinct(b.ext.keys)
       \/ Len(b.entries) # 1 \/ ~Distinct(b.entries[1].metadata)
    THEN Refusal
    ELSE Result([b EXCEPT !.entries = <<CanonicalEntry(b.entries[1])>>, !.ext = CanonicalExt(@)])

\* A block of another type holds any value, here a map.
NormalizeCustom(b) == IF Distinct(b.ext.keys) THEN Result([b EXCEPT !.ext = CanonicalExt(@)]) ELSE Refusal

Normalize(b) ==
    IF b.version \notin {1, 2} \/ b.type = "" THEN Refusal
    ELSE IF b.type = "branch" THEN NormalizeBranch(b)
    ELSE IF b.type = "leaf" THEN NormalizeLeaf(b)
    ELSE NormalizeCustom(b)

-----------------------------------------------------------------------------
\* block_to_value and the bytes of it: the fields of a block of version 1, or of
\* the content of one of version 2, whose leaves have no level.
ExtKey(b) == IF b.ext.present THEN <<15>> ELSE <<>>
OuterKeys(b) == IF b.version = 1 THEN <<0, 1, 2, 3>> \o ExtKey(b) ELSE <<0, 1, 2>>
ContentKeys(b) ==
    IF b.version = 1 \/ b.type \notin {"branch", "leaf"} THEN <<>>
    ELSE (IF b.type = "branch" THEN <<1, 2, 3>> ELSE <<2, 3>>) \o ExtKey(b)
DocumentOf(b) ==
    [version |-> b.version, type |-> IF b.version = 1 THEN "" ELSE b.type, level |-> b.level,
     dims |-> b.dims, encoding |-> b.encoding, entries |-> b.entries, ext |-> b.ext, form |-> "shortest",
     outer |-> OuterKeys(b), inner |-> ContentKeys(b)]

Encoded(b) ==
    LET n == Normalize(b) IN IF n.ok THEN Result(DocumentOf(n.value)) ELSE Refusal

BlockOf(doc, type, keys) ==
    [version |-> doc.version, type |-> type, level |-> IF 1 \in Keys(keys) THEN doc.level ELSE 0, dims |-> doc.dims,
     encoding |-> doc.encoding, entries |-> doc.entries, ext |-> [doc.ext EXCEPT !.present = 15 \in Keys(keys)]]

EntriesRefused(doc, leaf) == \E i \in DOMAIN doc.entries : EntryRefused(doc.entries[i], leaf)

\* parse_block: version 1 tells a leaf by its level.
ParseV1(doc) ==
    LET leaf == doc.level = 0 IN
    IF FieldsRefused(doc.outer, {0, 1, 2, 3}, {15}) \/ EntriesRefused(doc, leaf) THEN Refusal
    ELSE Normalize(BlockOf(doc, IF leaf THEN "leaf" ELSE "branch", doc.outer))

\* v2::parse_block: the content of a block of a reserved type is parsed as its
\* type has it.
ParseV2(doc) ==
    IF FieldsRefused(doc.outer, {0, 1, 2}, {}) THEN Refusal
    ELSE IF doc.type = "branch" /\ (FieldsRefused(doc.inner, {1, 2, 3}, {15}) \/ EntriesRefused(doc, FALSE)) THEN Refusal
    ELSE IF doc.type = "leaf" /\ (FieldsRefused(doc.inner, {2, 3}, {15}) \/ EntriesRefused(doc, TRUE)) THEN Refusal
    ELSE Normalize([BlockOf(doc, doc.type, doc.inner) EXCEPT !.ext.present = @ \/ doc.type \notin {"branch", "leaf"}])

\* detect_block_version_value: one field 0, whatever the others are.
VersionUnknown(doc) == Len(SelectSeq(doc.outer, LAMBDA k : k = 0)) # 1 \/ Text \in Keys(doc.outer)

\* deserialize_versioned_block: the hash, one value, the block, and the bytes
\* compared with those the block is written as.
Decoded(doc, hash) ==
    IF doc # hash \/ doc.form = "trailing" \/ VersionUnknown(doc) \/ doc.version \notin {1, 2} THEN Refusal
    ELSE LET parsed == IF doc.version = 1 THEN ParseV1(doc) ELSE ParseV2(doc)
         IN  IF parsed.ok /\ Encoded(parsed.value) = Result(doc) THEN parsed ELSE Refusal

-----------------------------------------------------------------------------
Nothing == [is |-> "nothing"]

\* What may be stored: a block as it was built, without being normalized, and a
\* sample with one mistake: its fields swapped, missing, unknown, repeated or not
\* numbers, bytes to spare, another version or type.
KeyMistakes(m) ==
    {Reverse(m), Tail(m), Append(m, 9), Append(m, Text), Append(m, Last(m)), <<Head(m)>> \o m, Sorted(Append(m, 15))}
Mistakes(doc) ==
    {[doc EXCEPT !.form = f] : f \in {"longer", "trailing"}}
    \cup {[doc EXCEPT !.outer = m] : m \in KeyMistakes(doc.outer)}
    \cup {[doc EXCEPT !.inner = m] : m \in IF doc.inner = <<>> THEN {} ELSE KeyMistakes(doc.inner)}
    \cup {[doc EXCEPT !.version = v] : v \in 0 .. 3}
    \cup {[doc EXCEPT !.type = t] : t \in CASE doc.version = 1 -> {} [] doc.type = "custom" -> {""} [] OTHER -> {"branch", "leaf", ""}}
Stored ==
    {d \in {DocumentOf(b) : b \in Blocks} \cup UNION {Mistakes(DocumentOf(b)) : b \in Samples} :
        d.type = "custom" \/ (d.ext.present <=> 15 \in Keys(d.outer) \cup Keys(d.inner))}

\* What the types of the program rule out in a block, but not in a document.
Typed(b) ==
    \A i \in DOMAIN b.entries :
        /\ b.entries[i].fields = IF b.type = "leaf" THEN <<0, 1, 2>> ELSE <<0, 1>>
        /\ b.type = "branch" => b.entries[i].child # 0

\* A caller reads a stored document, or encodes a block it has built; what it gets
\* it encodes or reads again.
Init ==
    \/ given = "document" /\ document \in Stored /\ block = Nothing /\ at = "stored"
    \/ given = "block" /\ block \in {b \in Blocks : Typed(b)} /\ document = Nothing /\ at = "built"

\* deserialize_versioned_block of a document under its hash.
Decode ==
    /\ at \in {"stored", "encoded"}
    /\ \E r \in {Decoded(document, document)} :
          IF r.ok THEN at' = "decoded" /\ block' = r.value ELSE at' = "refused" /\ UNCHANGED block
    /\ UNCHANGED <<given, document>>

\* serialize_versioned_block.
Encode ==
    /\ at \in {"built", "decoded"}
    /\ \E r \in {Encoded(block)} :
          IF r.ok THEN at' = "encoded" /\ document' = r.value ELSE at' = "refused" /\ UNCHANGED document
    /\ UNCHANGED <<given, block>>

\* After a refusal the caller goes on with another block.
GoOn ==
    /\ at = "refused" /\ at' = "built" /\ given' = "block" /\ block' \in Samples /\ document' = Nothing

Next == Decode \/ Encode \/ GoOn

Spec == Init /\ [][Next]_vars

-----------------------------------------------------------------------------
\* The canonical form, for reference: what a document must look like, field by
\* field and without parsing, sorting or encoding anything.
Ascending(m) == \A i, j \in DOMAIN m : i < j => m[i] < m[j]
EntriesAscending(entries) ==
    \A i, j \in DOMAIN entries : i < j =>
        \/ LexLess(entries[i].embedding, entries[j].embedding)
        \/ entries[i].embedding = entries[j].embedding /\ entries[i].child < entries[j].child
CanonicalBody(doc, leaf, keys) ==
    /\ KnownEncoding(doc.encoding)
    /\ 15 \in Keys(keys) <=> doc.ext.present
    /\ Ascending(doc.ext.keys)
    /\ \A i \in DOMAIN doc.entries :
          /\ doc.entries[i].fields = IF leaf THEN <<0, 1, 2>> ELSE <<0, 1>>
          /\ Ascending(doc.entries[i].metadata)
          /\ ~leaf => doc.entries[i].child # 0
    /\ leaf => Len(doc.entries) = 1 /\ doc.encoding \in Ordinary
    /\ ~leaf => EntriesAscending(doc.entries) /\ ~EbcpRefused(doc)
Canonical(doc) ==
    /\ doc.form = "shortest"
    /\ doc.version = 1 =>
          /\ doc.outer \in {<<0, 1, 2, 3>>, <<0, 1, 2, 3, 15>>} /\ doc.type = ""
          /\ CanonicalBody(doc, doc.level = 0, doc.outer)
    /\ doc.version # 1 =>
          /\ doc.version = 2 /\ doc.outer = <<0, 1, 2>> /\ doc.type # ""
          /\ doc.type = "branch" => /\ doc.inner \in {<<1, 2, 3>>, <<1, 2, 3, 15>>} /\ doc.level > 0
                                    /\ CanonicalBody(doc, FALSE, doc.inner)
          /\ doc.type = "leaf" => doc.inner \in {<<2, 3>>, <<2, 3, 15>>} /\ CanonicalBody(doc, TRUE, doc.inner)
          /\ doc.type \notin {"branch", "leaf"} => Ascending(doc.ext.keys)

\* A block that some order of its entries and keys gives a canonical document.
Encodable(b) ==
    \E order \in Permutations(DOMAIN b.entries) :
        Canonical(DocumentOf([b EXCEPT !.entries = [i \in DOMAIN b.entries |-> CanonicalEntry(b.entries[order[i]])],
                                       !.ext = CanonicalExt(@)]))

\* One block has one document and one document one block: a document is accepted
\* exactly if it is canonical and is then written back byte for byte; what is
\* encoded is canonical and is never refused, and only what no order makes
\* canonical cannot be encoded.  The payloads of an accepted branch hold nothing
\* but the codes they are read as, so that entries with different bytes are
\* different entries.  Each of them can be decoded into a value to compare with a
\* target, unless a float in it is not finite or a sum leaves the finite range,
\* which is only looked at then (DSG-022 of the block crate's design): never for
\* its length or the metadata, and no quantized one whose scales, rotation and base
\* are of moderate size.
CodecExact ==
    /\ at = "refused" /\ given = "document" => ~Canonical(document)
    /\ at = "refused" /\ given = "block" => document = Nothing /\ ~Encodable(block)
    /\ at = "decoded" =>
          /\ Canonical(document)
          /\ Normalize(block) = Result(block)
          /\ DocumentOf(block) = document
          /\ block.type = "branch" /\ IsEbcp(block.encoding) =>
                /\ TargetPrepared(block.encoding, block.dims, block.dims)
                /\ \A i \in DOMAIN block.entries :
                      LET payload == block.entries[i].embedding
                          widths  == Widths(block.ext.descriptor, block.encoding, block.dims)
                          outcome == Reconstruction(payload, block.ext.descriptor, block.encoding, block.dims)
                      IN  /\ "value" \notin outcome => ~StoredFinite(payload, block.encoding)
                          /\ "refused" \in outcome =>
                                ~StoredFinite(payload, block.encoding) \/ MayOverflow(payload, block.ext.descriptor, block.encoding)
                          /\ block.encoding \notin Floats => Pack(Unpack(payload, widths), widths) = payload
    /\ at = "encoded" => Canonical(document)
=============================================================================
