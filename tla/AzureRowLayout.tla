--------------------------- MODULE AzureRowLayout ---------------------------
(* The row layout of lexongraph_block_store_azure_table_v2: how the bytes of  *)
(* a block are cut into chunks, the chunks into the string properties of as   *)
(* many table rows as the service's limits require, and what a reader checks  *)
(* before it joins them again.  Only lengths matter: a chunk is its length, a *)
(* row the sequence of its chunks with the metadata columns.                  *)
EXTENDS Naturals, Sequences, SequencesExt

MAX_ROW_PROPERTY_BYTES    == 1048576 - 48576
MAX_PROPERTY_COUNT        == 255
FIXED_ROW_PROPERTY_COUNT  == 7
MAX_CHUNK_PROPERTY_COUNT  == MAX_PROPERTY_COUNT - FIXED_ROW_PROPERTY_COUNT
MAX_STRING_PROPERTY_CHARS == 32 * 1024
RAW_CHUNK_SIZE            == 24576

DivCeil(a, b) == (a + b - 1) \div b

-----------------------------------------------------------------------------
(* Property sizes: names and strings take two bytes per character.            *)

\* A continuation key has a suffix of a dash and at least four digits.
RowKeyChars(rowIndex) ==
    IF rowIndex = 0 THEN 64 ELSE 64 + 1 + (IF rowIndex < 10000 THEN 4 ELSE 5)

ChunkNameChars(index) == 5 + (IF index < 10 THEN 1 ELSE IF index < 100 THEN 2 ELSE 3)

\* PartitionKey, RowKey, SchemaVersion, ByteLen, RowCount, RowIndex, ChunkCount.
FixedRowPropertyBytes(rowIndex) ==
    2 * (12 + 4) + 2 * (6 + RowKeyChars(rowIndex))
    + (2 * 13 + 4) + (2 * 7 + 8) + (2 * 8 + 4) + (2 * 8 + 4) + (2 * 10 + 4)

Base64EncodedLen(rawLen) == DivCeil(rawLen, 3) * 4

ChunkPropertyBytes(index, rawLen) ==
    2 * ChunkNameChars(index) + 2 * Base64EncodedLen(rawLen)

\* try_extend_row_property_bytes: a chunk of rawLen bytes may become property
\* chunk<index> of a row that has bytes already.
Extends(bytes, index, rawLen) ==
    /\ Base64EncodedLen(rawLen) <= MAX_STRING_PROPERTY_CHARS
    /\ bytes + ChunkPropertyBytes(index, rawLen) <= MAX_ROW_PROPERTY_BYTES

-----------------------------------------------------------------------------
(* Writing.                                                                   *)

\* block_bytes.chunks(RAW_CHUNK_SIZE): all of the same length but the last.
Chunks(len) ==
    [i \in 1 .. DivCeil(len, RAW_CHUNK_SIZE) |->
        IF i * RAW_CHUNK_SIZE <= len THEN RAW_CHUNK_SIZE ELSE len - (i - 1) * RAW_CHUNK_SIZE]

\* The loop of rows_from_block_bytes: finished rows, the row being filled and
\* its property bytes.
AddChunk(acc, chunk) ==
    IF Extends(acc.bytes, Len(acc.row), chunk)
    THEN [acc EXCEPT !.row = Append(@, chunk),
                     !.bytes = @ + ChunkPropertyBytes(Len(acc.row), chunk)]
    ELSE LET rows == Append(acc.rows, acc.row)
         IN  [rows  |-> rows,
              row   |-> <<chunk>>,
              bytes |-> FixedRowPropertyBytes(Len(rows)) + ChunkPropertyBytes(0, chunk)]

RowsOfChunks(len) ==
    LET chunks == Chunks(len)
        Filled[n \in 0 .. Len(chunks)] ==
            IF n = 0 THEN [rows |-> <<>>, row |-> <<>>, bytes |-> FixedRowPropertyBytes(0)]
            ELSE AddChunk(Filled[n - 1], chunks[n])
        acc == Filled[Len(chunks)]
    IN  Append(acc.rows, acc.row)

RowsFromBlockBytes(len) ==
    LET rows == RowsOfChunks(len)
    IN  [i \in 1 .. Len(rows) |->
            [byteLen |-> len, rowCount |-> Len(rows), rowIndex |-> i - 1,
             chunkCount |-> Len(rows[i]), chunks |-> rows[i]]]

Total(lengths) == FoldLeft(LAMBDA a, b : a + b, 0, lengths)

EncodedPropertyBytes(row) ==
    FixedRowPropertyBytes(row.rowIndex)
    + Total([k \in DOMAIN row.chunks |-> ChunkPropertyBytes(k - 1, row.chunks[k])])

\* from_row_chunks accepts the row: every property, their number and their sum
\* are within the service's limits.
Insertable(row) ==
    /\ \A k \in DOMAIN row.chunks : Base64EncodedLen(row.chunks[k]) <= MAX_STRING_PROPERTY_CHARS
    /\ Len(row.chunks) + FIXED_ROW_PROPERTY_COUNT <= MAX_PROPERTY_COUNT
    /\ EncodedPropertyBytes(row) <= MAX_ROW_PROPERTY_BYTES

-----------------------------------------------------------------------------
(* Reading.                                                                   *)

MaximumPossibleRows(len) == IF len = 0 THEN 1 ELSE DivCeil(len, RAW_CHUNK_SIZE)

\* simulated_row_capacity_bytes: full chunks while they fit, then the binary
\* search for the longest chunk that still does.
FullChunks(rowIndex, maxChunks) ==
    LET Fill[k \in Nat] ==
            IF k < maxChunks /\ Extends(FixedRowPropertyBytes(rowIndex)
                                        + Total([j \in 1 .. k |-> ChunkPropertyBytes(j - 1, RAW_CHUNK_SIZE)]),
                                        k, RAW_CHUNK_SIZE)
            THEN Fill[k + 1] ELSE k
    IN  Fill[0]

LongestTail(bytes, index) ==
    LET Search[low \in Nat, high \in Nat] ==
            IF low >= high THEN low
            ELSE LET candidate == DivCeil(low + high, 2)
                 IN  IF Extends(bytes, index, candidate) THEN Search[candidate, high]
                                                         ELSE Search[low, candidate - 1]
    IN  Search[0, RAW_CHUNK_SIZE]

RowCapacity(rowIndex, maxChunks) ==
    LET full  == FullChunks(rowIndex, maxChunks)
        bytes == FixedRowPropertyBytes(rowIndex)
                 + Total([j \in 1 .. full |-> ChunkPropertyBytes(j - 1, RAW_CHUNK_SIZE)])
    IN  full * RAW_CHUNK_SIZE + (IF full = maxChunks THEN 0 ELSE LongestTail(bytes, full))

\* decode_root_metadata: the columns of a root row are possible.
PossibleRoot(row) ==
    /\ row.rowCount > 0
    /\ row.rowIndex = 0
    /\ row.chunkCount <= MAX_CHUNK_PROPERTY_COUNT
    /\ row.byteLen = 0 => row.rowCount = 1 /\ row.chunkCount = 0
    /\ row.byteLen # 0 => row.chunkCount # 0
    /\ row.rowCount <= MaximumPossibleRows(row.byteLen)
    /\ row.byteLen <= RowCapacity(0, row.chunkCount)
                      + (row.rowCount - 1) * RowCapacity(1, MAX_CHUNK_PROPERTY_COUNT)

\* validate_enumeration_payload repeats those checks on the columns a page holds.
ValidEnumerationPayload(row) == PossibleRoot(row)

\* validate_row_metadata for the row at index against the root's columns, and
\* validate_chunk_property_presence.
AgreesWithRoot(row, index, root) ==
    /\ row.byteLen = root.byteLen
    /\ row.rowCount = root.rowCount
    /\ row.rowIndex = index
    /\ row.chunkCount <= MAX_CHUNK_PROPERTY_COUNT
    /\ (root.byteLen = 0) <=> (row.chunkCount = 0)
    /\ Len(row.chunks) >= row.chunkCount

\* decode_block_bytes: the rows make up a block.
Decodable(rows) ==
    /\ rows # <<>>
    /\ PossibleRoot(rows[1])
    /\ Len(rows) = rows[1].rowCount
    /\ \A i \in DOMAIN rows : AgreesWithRoot(rows[i], i - 1, rows[1])
    /\ Total([i \in DOMAIN rows |-> Total(SubSeq(rows[i].chunks, 1, rows[i].chunkCount))])
          = rows[1].byteLen

-----------------------------------------------------------------------------

\* What put writes for a block of len bytes the service takes, and get and the
\* enumeration accept; and the writer's unreachable! branches are unreachable.
RoundTrips(len) ==
    LET rows == RowsFromBlockBytes(len) IN
    /\ \A i \in DOMAIN rows : Insertable(rows[i])
    /\ \A i \in DOMAIN rows : Extends(FixedRowPropertyBytes(i - 1), 0, RAW_CHUNK_SIZE)
    /\ Decodable(rows)
    /\ ValidEnumerationPayload(rows[1])

\* With any one row of a longer block lost the rest is refused.
LossDetected(len) ==
    LET rows == RowsFromBlockBytes(len)
    IN  \A i \in DOMAIN rows : ~Decodable(RemoveAt(rows, i))

\* The binary search finds the longest chunk that fits.
TailIsLongest(rowIndex) ==
    LET full == FullChunks(rowIndex, MAX_CHUNK_PROPERTY_COUNT)
        tail == RowCapacity(rowIndex, MAX_CHUNK_PROPERTY_COUNT) - full * RAW_CHUNK_SIZE
        bytes == FixedRowPropertyBytes(rowIndex)
                 + Total([j \in 1 .. full |-> ChunkPropertyBytes(j - 1, RAW_CHUNK_SIZE)])
    IN  /\ Extends(bytes, full, tail)
        /\ ~Extends(bytes, full, tail + 1)

=============================================================================
