--------------------------- MODULE MCAzureTableV2 ---------------------------
(* TLC instances of AzureTableV2, with blocks laid out by AzureRowLayout.    *)
EXTENDS AzureTableV2, TLC

Layout == INSTANCE AzureRowLayout

\* What a root row, and a continuation row, can hold.
First == Layout!RowCapacity(0, Layout!MAX_CHUNK_PROPERTY_COUNT)
Later == Layout!RowCapacity(1, Layout!MAX_CHUNK_PROPERTY_COUNT)

\* Lengths around the ends of chunks and rows, up to three rows.
Lengths ==
    {0, 1, 2, 3}
    \cup {k * Layout!RAW_CHUNK_SIZE + d : k \in {1, 2, 14, 15, 16, 30, 31, 45}, d \in {0, 1}}
    \cup {k * Layout!RAW_CHUNK_SIZE - 1 : k \in {1, 2, 15, 16, 31, 45}}
    \cup {First, First + 1, First + Later, First + Later + 1,
          15 * Layout!RAW_CHUNK_SIZE + Later, 15 * Layout!RAW_CHUNK_SIZE + Later + 1}

ASSUME \A len \in Lengths : Layout!RoundTrips(len) /\ Layout!LossDetected(len)
ASSUME \A i \in {0, 1, 9999, 10000} : Layout!TailIsLongest(i)

RowsFor(len) == Len(Layout!RowsFromBlockBytes(len))

\* One block that takes three rows.
Three == 1 :> 3
\* A block that is a root row only, and one with a continuation row.
OneTwo == 1 :> 1 @@ 2 :> 2

\* There are blocks of one, two and three rows.
ASSUME /\ RowsFor(First) = OneTwo[1]
       /\ RowsFor(First + 1) = OneTwo[2]
       /\ RowsFor(First + Later + 1) = Three[1]
=============================================================================
