----------------------------- MODULE RowMerges -----------------------------
(***************************************************************************)
(* Adding a multiple of one sparse row to another, in place.  A row is a   *)
(* sequence of entries in the order of their columns, none of them zero.   *)
(*   merge         both rows are read side by side into scratch            *)
(*   sparse        entries of a short source are looked up one by one      *)
(*   short         the same where both rows begin with the column to clear:*)
(*                 its entry is taken out in the same move as the second   *)
(*                 entry of the source goes in                             *)
(*   binary_short  the same for rows of ones                               *)
(* Every lookup goes on from where the last one ended.                     *)
(***************************************************************************)
EXTENDS Integers, Sequences, SmallField
CONSTANTS Width, DestRows, SrcRows, Scalars
MergeAssumption ==
  /\ Width \in Nat \ {0} /\ Scalars \subseteq F \ {Zero}
  /\ DestRows \cup SrcRows \subseteq [0 .. Width - 1 -> F]

Col == 0 .. Width - 1
Kinds == {"merge", "sparse", "short", "binary_short"}

VARIABLES kind, scalar,
          dest_row, src_row,   \* what is added, as vectors
          dest, src,           \* the same as entries
          i,                   \* the next entry of the source
          search_start,        \* where the next lookup begins
          scratch, phase
vars == <<kind, scalar, dest_row, src_row, dest, src, i, search_start, scratch, phase>>
given == <<kind, scalar, dest_row, src_row, src>>

Entry(c, value) == [col |-> c, value |-> value]

\* An entry, unless it has cancelled.
SumEntry(c, value) == IF value = Zero THEN <<>> ELSE <<Entry(c, value)>>

\* The entries of a vector in the order of their columns.
EntriesOf(v) ==
  LET before[c \in 0 .. Width] ==
        IF c = 0 THEN <<>> ELSE before[c - 1] \o SumEntry(c - 1, v[c - 1])
  IN before[Width]

Binary(v) == \A c \in Col : v[c] \in {Zero, One}

\* The place of the first entry at a column or after it, from a place on.
partition_point(row, from, c) ==
  CHOOSE k \in from .. Len(row) + 1 :
    /\ \A j \in from .. k - 1 : row[j].col < c
    /\ k <= Len(row) => row[k].col >= c

\* The source begins with the column that is to be cleared.  In a short merge
\* it has been scaled to one, and the factor is what the other row has there.
Init ==
  /\ kind \in Kinds /\ scalar \in Scalars
  /\ dest_row \in DestRows /\ src_row \in {v \in SrcRows : Support(v) # {}}
  /\ kind \in {"short", "binary_short"} =>
       /\ Support(dest_row) # {}
       /\ LeadingColumn(dest_row) = LeadingColumn(src_row)
       /\ src_row[LeadingColumn(src_row)] = One
       /\ dest_row[LeadingColumn(src_row)] = scalar
  /\ kind = "binary_short" => scalar = One /\ Binary(src_row) /\ Binary(dest_row)
  /\ dest = EntriesOf(dest_row) /\ src = EntriesOf(src_row)
  /\ i = 1
  /\ search_start = IF kind = "sparse"
                    THEN partition_point(dest, 1, LeadingColumn(src_row)) ELSE 1
  /\ scratch = <<>> /\ phase = "adding"

Scaled(k) == FTimes(scalar, src[k].value)
Adding(k) == kind = k /\ phase = "adding" /\ i <= Len(src)

-----------------------------------------------------------------------------
(***************************************************************************)
(* Side by side.                                                           *)
(***************************************************************************)
\* In this kind search_start is the index in the destination.
DestLeft == search_start <= Len(dest)
TakeDest == DestLeft /\ (i <= Len(src) => dest[search_start].col < src[i].col)
TakeSrc == i <= Len(src) /\ (DestLeft => src[i].col < dest[search_start].col)

MergeDest ==
  /\ kind = "merge" /\ phase = "adding" /\ TakeDest
  /\ scratch' = Append(scratch, dest[search_start])
  /\ search_start' = search_start + 1
  /\ UNCHANGED <<given, dest, i, phase>>

MergeSrc ==
  /\ Adding("merge") /\ TakeSrc
  /\ scratch' = Append(scratch, Entry(src[i].col, Scaled(i)))
  /\ i' = i + 1
  /\ UNCHANGED <<given, dest, search_start, phase>>

MergeSum ==
  /\ Adding("merge") /\ DestLeft /\ dest[search_start].col = src[i].col
  /\ scratch' = scratch \o
       SumEntry(src[i].col, FPlus(dest[search_start].value, Scaled(i)))
  /\ search_start' = search_start + 1 /\ i' = i + 1
  /\ UNCHANGED <<given, dest, phase>>

MergeDone ==
  /\ kind = "merge" /\ phase = "adding" /\ i > Len(src) /\ ~DestLeft
  /\ dest' = scratch /\ scratch' = <<>>
  /\ phase' = "added"
  /\ UNCHANGED <<given, i, search_start>>

-----------------------------------------------------------------------------
(***************************************************************************)
(* Entry by entry.                                                         *)
(***************************************************************************)
remove_matrix_row_entry_at(row, k) == SubSeq(row, 1, k - 1) \o SubSeq(row, k + 1, Len(row))
insert_matrix_row_entry_at(row, k, e) == SubSeq(row, 1, k - 1) \o <<e>> \o SubSeq(row, k, Len(row))

\* Faulty variant: the next lookup skips what has moved into the place of an
\* entry that was removed.
AfterRemovalSkips(k) == k + 1

AfterRemoval(k) == k

\* An entry of the source is added at its place: the value that is there is
\* changed, or removed if it cancels, or the entry goes in.
AddEntryAt(k, c, value) ==
  IF k <= Len(dest) /\ dest[k].col = c
  THEN LET sum == FPlus(dest[k].value, value)
       IN IF sum = Zero
          THEN /\ dest' = remove_matrix_row_entry_at(dest, k)
               /\ search_start' = AfterRemoval(k)
          ELSE /\ dest' = [dest EXCEPT ![k].value = sum]
               /\ search_start' = k + 1
  ELSE /\ dest' = insert_matrix_row_entry_at(dest, k, Entry(c, value))
       /\ search_start' = k + 1

\* The last column tells at once that an entry goes to the end.
Lookup(c) ==
  IF dest = <<>> \/ dest[Len(dest)].col < c THEN Len(dest) + 1
  ELSE partition_point(dest, search_start, c)

add_sparse_source_matrix_row_entry ==
  /\ Adding("sparse")
  /\ AddEntryAt(Lookup(src[i].col), src[i].col, Scaled(i))
  /\ i' = i + 1
  /\ UNCHANGED <<given, scratch, phase>>

\* The first entries cancel; nothing else is to be added.
ShortPivotAlone ==
  /\ kind \in {"short", "binary_short"} /\ phase = "adding" /\ i = 1 /\ Len(src) = 1
  /\ dest' = Tail(dest)
  /\ i' = 2
  /\ UNCHANGED <<given, search_start, scratch, phase>>

\* Places are those of the row without its first entry.
PlaceAfterPivot == partition_point(dest, 2, src[2].col) - 1

\* The pivot goes and the second entry comes in one move.
add_short_matrix_row_entry_and_remove_pivot ==
  /\ Adding("short") /\ i = 1 /\ Len(src) > 1
  /\ LET k == PlaceAfterPivot
         rest == Tail(dest)
         sum == FPlus(rest[k].value, Scaled(2))
     IN IF k <= Len(rest) /\ rest[k].col = src[2].col
        THEN IF sum = Zero
             THEN dest' = remove_matrix_row_entry_at(rest, k) /\ search_start' = k
             ELSE dest' = [rest EXCEPT ![k].value = sum] /\ search_start' = k + 1
        ELSE /\ dest' = insert_matrix_row_entry_at(rest, k, Entry(src[2].col, Scaled(2)))
             /\ search_start' = k + 1
  /\ i' = 3
  /\ UNCHANGED <<given, scratch, phase>>

add_short_matrix_row_entry ==
  /\ Adding("short") /\ i > 2
  /\ AddEntryAt(Lookup(src[i].col), src[i].col, Scaled(i))
  /\ i' = i + 1
  /\ UNCHANGED <<given, scratch, phase>>

\* A row of the pivot alone takes over the source's other entries.
BinaryTakesTail ==
  /\ Adding("binary_short") /\ i = 1 /\ Len(src) > 1 /\ Len(dest) = 1
  /\ dest' = Tail(src)
  /\ i' = Len(src) + 1
  /\ UNCHANGED <<given, search_start, scratch, phase>>

\* Ones cancel where there is one already.
Cancels(k, c) == k <= Len(dest) /\ dest[k].col = c

add_binary_short_matrix_row_entry_and_remove_pivot ==
  /\ Adding("binary_short") /\ i = 1 /\ Len(src) > 1 /\ Len(dest) > 1
  /\ LET k == PlaceAfterPivot
         rest == Tail(dest)
     IN IF Cancels(k + 1, src[2].col)
        THEN dest' = remove_matrix_row_entry_at(rest, k) /\ search_start' = k
        ELSE /\ dest' = insert_matrix_row_entry_at(rest, k, Entry(src[2].col, One))
             /\ search_start' = k + 1
  /\ i' = 3
  /\ UNCHANGED <<given, scratch, phase>>

add_binary_short_matrix_row_entry_from ==
  /\ Adding("binary_short") /\ i > 2
  /\ LET k == Lookup(src[i].col)
     IN IF Cancels(k, src[i].col)
        THEN dest' = remove_matrix_row_entry_at(dest, k) /\ search_start' = AfterRemoval(k)
        ELSE /\ dest' = insert_matrix_row_entry_at(dest, k, Entry(src[i].col, One))
             /\ search_start' = k + 1
  /\ i' = i + 1
  /\ UNCHANGED <<given, scratch, phase>>

EntriesDone ==
  /\ kind # "merge" /\ phase = "adding" /\ i > Len(src)
  /\ phase' = "added"
  /\ UNCHANGED <<given, dest, i, search_start, scratch>>

Added == phase = "added" /\ UNCHANGED vars

Next ==
  \/ MergeDest \/ MergeSrc \/ MergeSum \/ MergeDone
  \/ add_sparse_source_matrix_row_entry
  \/ ShortPivotAlone \/ add_short_matrix_row_entry_and_remove_pivot \/ add_short_matrix_row_entry
  \/ BinaryTakesTail \/ add_binary_short_matrix_row_entry_and_remove_pivot
  \/ add_binary_short_matrix_row_entry_from
  \/ EntriesDone \/ Added
Spec == Init /\ [][Next]_vars

-----------------------------------------------------------------------------
Sorted(row) == \A j \in 1 .. Len(row) - 1 : row[j].col < row[j + 1].col

\* Rows stay in the order of their columns, each once, without zeros: the
\* binary searches and the first entry as leading column rely on it.
TypeInv ==
  /\ phase \in {"adding", "added"} /\ i \in 1 .. Len(src) + 1
  /\ \A row \in {dest, scratch} :
       Sorted(row) /\ \A k \in DOMAIN row : row[k].col \in Col /\ row[k].value \in F \ {Zero}

\* What a lookup does not look at again could not have been its place: all
\* entries before search_start are of columns before the next of the source
\* (pi_solver.rs 9474-9527, 9529-9603, 9754-9868).
SearchStartsBeforePlace ==
  phase = "adding" /\ i <= Len(src) /\ kind # "merge" =>
    /\ search_start <= Len(dest) + 1
    /\ \A k \in 1 .. search_start - 1 : dest[k].col < src[i].col

ValueAt(row, c) ==
  IF \E k \in DOMAIN row : row[k].col = c
  THEN row[CHOOSE k \in DOMAIN row : row[k].col = c].value ELSE Zero

\* Whichever way it is added, the row becomes the sum, every cancelled entry
\* gone (pi_solver.rs 9347-9527, 9664-9917).
RowIsSum ==
  phase = "added" =>
    [c \in Col |-> ValueAt(dest, c)] = VPlus(dest_row, VTimes(scalar, src_row))
=============================================================================
