----------------------------- MODULE RowBuckets -----------------------------
(***************************************************************************)
(* Rows that wait to be eliminated are filed under their first column, in  *)
(* lists linked through one array shared by all of them.                   *)
(*   plain     one list for a column; the lightest row is searched for     *)
(*   counted   rows of a single entry have a list of their own             *)
(*   binary    as plain, for rows of ones and zeros                        *)
(*   weighted  lists by weight for light rows, a mask of those in use, the *)
(*             weights kept up and entries of light rows cached            *)
(*   hinted    as weighted, merging the cached entries of two light rows   *)
(***************************************************************************)
EXTENDS Integers, Sequences, FiniteSets, FiniteSetsExt, Functions, SmallField
CONSTANTS Height, Width,
          SmallMax,         \* the weight up to which a row is light
          CoefficientRows   \* the rows to choose from where not all are ones
BucketAssumption ==
  /\ Height \in Nat \ {0} /\ Width \in Nat \ {0} /\ SmallMax \in Nat \ {0}
  /\ CoefficientRows \subseteq [0 .. Width - 1 -> F]

Row == 0 .. Height - 1
Col == 0 .. Width - 1
NO_BUCKET_ROW == -1
Cached == {"weighted", "hinted"}
BinaryKinds == {"binary"} \cup Cached
List == 0 .. SmallMax   \* list 0 has the rows that are in no other

VARIABLES kind, rows, filed,
          heads, next_in_bucket,
          nonempty_masks,   \* lists of light rows in use, by column
          bucket_counts,
          row_weights,
          entries,          \* of light rows: a set of columns, or NotCached
          col, pivot, pivot_for_col
vars == <<kind, rows, filed, heads, next_in_bucket, nonempty_masks, bucket_counts,
          row_weights, entries, col, pivot, pivot_for_col>>
lists == <<heads, next_in_bucket, nonempty_masks, bucket_counts>>

NotCached == {-1}
Weight(i) == Cardinality(Support(rows[i]))

Init ==
  /\ kind \in {"plain", "counted"} \cup BinaryKinds
  /\ rows \in [Row -> IF kind \in BinaryKinds THEN [Col -> {Zero, One}] ELSE CoefficientRows]
  /\ filed = 0
  /\ heads = [l \in List |-> [c \in Col |-> NO_BUCKET_ROW]]
  /\ next_in_bucket = [i \in Row |-> NO_BUCKET_ROW]
  /\ nonempty_masks = [c \in Col |-> {}]
  /\ bucket_counts = [c \in Col |-> 0]
  /\ row_weights = [i \in Row |-> Weight(i)]
  /\ entries = [i \in Row |-> NotCached]
  /\ col = 0 /\ pivot = NO_BUCKET_ROW
  /\ pivot_for_col = [c \in Col |-> NO_BUCKET_ROW]

-----------------------------------------------------------------------------
(***************************************************************************)
(* The lists.                                                              *)
(***************************************************************************)
\* Rows from a head on, with NO_BUCKET_ROW after the last.
Following(head) ==
  LET at[k \in 1 .. Height + 1] ==
        IF k = 1 THEN head
        ELSE IF at[k - 1] = NO_BUCKET_ROW THEN NO_BUCKET_ROW ELSE next_in_bucket[at[k - 1]]
  IN at
Chain(l, c) ==
  LET at == Following(heads[l][c])
      n == Cardinality({k \in DOMAIN at : at[k] # NO_BUCKET_ROW})
  IN [k \in 1 .. n |-> at[k]]

\* The list for a row of a weight.
small_weight_binary_bucket_index(weight) ==
  IF kind \in Cached /\ weight \in 1 .. SmallMax THEN weight
  ELSE IF kind = "counted" /\ weight = 1 THEN 1 ELSE 0

\* A row is put at the head of its list.
push_row_bucket(row, c, weight) ==
  LET l == small_weight_binary_bucket_index(weight)
  IN /\ next_in_bucket' = [next_in_bucket EXCEPT ![row] = heads[l][c]]
     /\ heads' = [heads EXCEPT ![l][c] = row]
     /\ nonempty_masks' = IF kind \in Cached /\ l > 0
                          THEN [nonempty_masks EXCEPT ![c] = @ \cup {l}] ELSE nonempty_masks
     /\ bucket_counts' = IF kind = "counted"
                         THEN [bucket_counts EXCEPT ![c] = @ + 1] ELSE bucket_counts

FileRow ==
  /\ filed < Height
  /\ filed' = filed + 1
  /\ IF Support(rows[filed]) = {} THEN UNCHANGED lists
     ELSE push_row_bucket(filed, LeadingColumn(rows[filed]), row_weights[filed])
  /\ UNCHANGED <<kind, rows, row_weights, entries, col, pivot, pivot_for_col>>

MaskAfter(l, rest) ==
  IF kind \in Cached /\ l > 0 /\ rest = NO_BUCKET_ROW
  THEN [nonempty_masks EXCEPT ![col] = @ \ {l}] ELSE nonempty_masks

\* Faulty variant: a row keeps its link when it is taken.
LinksKept(l, k) ==
  IF k = 1 THEN next_in_bucket
  ELSE [next_in_bucket EXCEPT ![Chain(l, col)[k - 1]] = next_in_bucket[Chain(l, col)[k]]]

LinksAfter(l, k) ==
  [i \in Row |-> IF i = Chain(l, col)[k] THEN NO_BUCKET_ROW
                 ELSE IF k > 1 /\ i = Chain(l, col)[k - 1] THEN next_in_bucket[Chain(l, col)[k]]
                 ELSE next_in_bucket[i]]

\* The row at place k of a list of the column is taken out.
Take(l, k) ==
  LET row == Chain(l, col)[k]
      rest == IF k = 1 THEN next_in_bucket[row] ELSE heads[l][col]
  IN /\ heads' = [heads EXCEPT ![l][col] = rest]
     /\ next_in_bucket' = LinksAfter(l, k)
     /\ nonempty_masks' = MaskAfter(l, rest)
     /\ bucket_counts' = IF kind = "counted"
                         THEN [bucket_counts EXCEPT ![col] = @ - 1] ELSE bucket_counts

\* The list to take a row from, by the mask or by the heads.
ListToTake ==
  CASE kind \in Cached /\ nonempty_masks[col] # {} -> Min(nonempty_masks[col])
    [] kind = "counted" /\ heads[1][col] # NO_BUCKET_ROW -> 1
    [] OTHER -> 0

\* The weight at which a search in list 0 need not go on, and whether a row
\* must begin with one for that.
LeastWeight ==
  CASE kind \in Cached -> SmallMax + 1 [] kind = "counted" -> 2 [] OTHER -> 1
OneToStop == kind = "counted"

WeightInList(i) == IF kind \in Cached THEN row_weights[i] ELSE Weight(i)

Better(i, best) ==
  \/ WeightInList(i) < WeightInList(best)
  \/ /\ WeightInList(i) = WeightInList(best)
     /\ rows[i][col] = One /\ rows[best][col] # One

\* Faulty variant: the search ends one weight too early.
StopsEarly(best) == WeightInList(best) <= LeastWeight + 1

StopsAt(best) == WeightInList(best) = LeastWeight /\ (OneToStop => rows[best][col] = One)

\* The place of the lightest row in list 0, rows before others with it.
PlaceOfLightest ==
  LET chain == Chain(0, col)
      best[k \in 1 .. Len(chain)] ==
        IF k = 1 THEN 1
        ELSE IF StopsAt(chain[best[k - 1]]) \/ ~Better(chain[k], chain[best[k - 1]])
        THEN best[k - 1] ELSE k
  IN best[Len(chain)]

Anything == Chain(ListToTake, col) # <<>>

-----------------------------------------------------------------------------
(***************************************************************************)
(* Elimination.                                                            *)
(***************************************************************************)
Lead(p) == VTimes(FInverse(rows[p][col]), rows[p])

\* The lightest row of the column becomes its pivot, scaled to begin with one.
PopLightest ==
  /\ filed = Height /\ col < Width /\ pivot = NO_BUCKET_ROW /\ Anything
  /\ LET l == ListToTake
         k == IF l = 0 THEN PlaceOfLightest ELSE 1
         p == Chain(l, col)[k]
     IN /\ Take(l, k)
        /\ pivot' = p
        /\ pivot_for_col' = [pivot_for_col EXCEPT ![col] = p]
        /\ rows' = [rows EXCEPT ![p] = Lead(p)]
  /\ UNCHANGED <<kind, filed, row_weights, entries, col>>

PassOver ==
  /\ filed = Height /\ col < Width /\ pivot = NO_BUCKET_ROW /\ ~Anything
  /\ kind \in BinaryKinds
  /\ col' = col + 1
  /\ UNCHANGED <<kind, rows, filed, lists, row_weights, entries, pivot, pivot_for_col>>

\* Entries of a light row, read when they are not in the cache.
CachedEntries(i) == IF entries[i] = NotCached THEN Support(rows[i]) ELSE entries[i]

LightPivot == kind \in Cached /\ row_weights[pivot] <= SmallMax
LightRow(i) == kind = "hinted" /\ row_weights[i] <= SmallMax

sorted_u16_symmetric_difference(left, right) == (left \ right) \cup (right \ left)

\* The weight of a row after the pivot is added: merged from entries, kept up
\* by what the pivot's columns flip, or counted anew.
xor_u16_columns_update_weight(i) ==
  row_weights[i] + Cardinality(CachedEntries(pivot) \ Support(rows[i]))
    - Cardinality(CachedEntries(pivot) \cap Support(rows[i]))

Sum(i) == VPlus(rows[i], VTimes(rows[i][col], rows[pivot]))

WeightAfter(i) ==
  CASE kind \notin Cached -> row_weights[i]
    [] kind \in Cached /\ ~LightPivot -> Cardinality(Support(Sum(i)))
    [] LightPivot /\ ~LightRow(i) -> xor_u16_columns_update_weight(i)
    [] LightPivot /\ LightRow(i) ->
         Cardinality(sorted_u16_symmetric_difference(CachedEntries(i), CachedEntries(pivot)))

EntriesAfter(i) ==
  [k \in Row |-> IF k = i /\ kind \in Cached THEN NotCached
                 ELSE IF k = pivot /\ LightPivot THEN CachedEntries(k) ELSE entries[k]]

\* Another row of the column is taken, in any order of lists, the pivot is
\* added, and it is filed under the column it then begins with.
PopAndEliminate ==
  /\ pivot # NO_BUCKET_ROW /\ Anything
  /\ LET l == ListToTake
         i == Chain(l, col)[1]
         c == LeadingColumn(Sum(i))
         k == small_weight_binary_bucket_index(IF kind \in Cached THEN WeightAfter(i)
                                               ELSE Cardinality(Support(Sum(i))))
         rest == next_in_bucket[i]
     IN /\ rows' = [rows EXCEPT ![i] = Sum(i)]
        /\ row_weights' = [row_weights EXCEPT ![i] = WeightAfter(i)]
        /\ entries' = EntriesAfter(i)
        /\ IF Support(Sum(i)) = {} THEN Take(l, 1)
           ELSE /\ heads' = [heads EXCEPT ![l][col] = rest, ![k][c] = i]
                /\ next_in_bucket' = [next_in_bucket EXCEPT ![i] = heads[k][c]]
                /\ nonempty_masks' = IF kind \in Cached /\ k > 0
                     THEN [MaskAfter(l, rest) EXCEPT ![c] = @ \cup {k}] ELSE MaskAfter(l, rest)
                /\ bucket_counts' = IF kind = "counted"
                     THEN [bucket_counts EXCEPT ![col] = @ - 1, ![c] = @ + 1] ELSE bucket_counts
  /\ UNCHANGED <<kind, filed, col, pivot, pivot_for_col>>

NextColumn ==
  /\ pivot # NO_BUCKET_ROW /\ ~Anything
  /\ pivot' = NO_BUCKET_ROW /\ col' = col + 1
  /\ UNCHANGED <<kind, rows, filed, lists, row_weights, entries, pivot_for_col>>

Over ==
  /\ filed = Height /\ pivot = NO_BUCKET_ROW
  /\ (col < Width => ~Anything /\ kind \notin BinaryKinds)
  /\ UNCHANGED vars

Next == FileRow \/ PopLightest \/ PassOver \/ PopAndEliminate \/ NextColumn \/ Over
Spec == Init /\ [][Next]_vars

-----------------------------------------------------------------------------
TypeInv ==
  /\ heads \in [List -> [Col -> Row \cup {NO_BUCKET_ROW}]]
  /\ next_in_bucket \in [Row -> Row \cup {NO_BUCKET_ROW}]
  /\ nonempty_masks \in [Col -> SUBSET (1 .. SmallMax)]
  /\ bucket_counts \in [Col -> 0 .. Height]
  /\ \A i \in Row : entries[i] # NotCached =>
       entries[i] \subseteq Col /\ Cardinality(entries[i]) <= SmallMax
  /\ rows \in [Row -> [Col -> F]]
  /\ col \in 0 .. Width /\ pivot \in Row \cup {NO_BUCKET_ROW}

Pivoted == {pivot_for_col[c] : c \in Col} \ {NO_BUCKET_ROW}
Waiting == {i \in Row : i < filed /\ i \notin Pivoted /\ Support(rows[i]) # {}}
ListOf(i) == small_weight_binary_bucket_index(Weight(i))

\* Every row that waits is in one list, that of the column it begins with and
\* of its weight, once, and no others are: none is lost when the head of its
\* list is taken or one from its middle, and the links, shared by all lists,
\* never run from one into another (pi_solver.rs 8751-8799, 9034-9265).
ListsHoldWaitingRows ==
  /\ \A l \in List, c \in Col :
       /\ Following(heads[l][c])[Height + 1] = NO_BUCKET_ROW
       /\ Range(Chain(l, c)) = {i \in Waiting : LeadingColumn(rows[i]) = c /\ ListOf(i) = l}
  /\ \A i \in Row \ Waiting : next_in_bucket[i] = NO_BUCKET_ROW

\* The mask of a column names the lists that have rows, by which alone the
\* lightest is found, and the count of a column is that of its rows
\* (pi_solver.rs 8857-8929, 9034-9046).
MasksAndCountsFit ==
  /\ kind \in Cached => \A c \in Col :
       nonempty_masks[c] = {l \in 1 .. SmallMax : heads[l][c] # NO_BUCKET_ROW}
  /\ kind = "counted" => \A c \in Col :
       bucket_counts[c] = Cardinality({i \in Waiting : LeadingColumn(rows[i]) = c})

\* What is kept about a row is so of the row as it is now: its weight, and its
\* entries if they are cached (pi_solver.rs 7057-7119, 8954-9000).
CachedStateIsCurrent ==
  kind \in Cached => \A i \in Row :
    /\ row_weights[i] = Weight(i)
    /\ entries[i] # NotCached => entries[i] = Support(rows[i])

\* Rows that the pivot is still to be added to, as they will be.
Eliminated ==
  [i \in Row |->
     IF pivot # NO_BUCKET_ROW /\ i \in Waiting /\ LeadingColumn(rows[i]) = col
     THEN Sum(i) ELSE rows[i]]

\* Whatever the lists, every column is eliminated with a lightest row, and all
\* rows that begin there (pi_solver.rs 8315-8381, 9052-9265).
Columns ==
  INSTANCE ColumnElimination WITH
    rows <- Eliminated, col <- IF pivot = NO_BUCKET_ROW THEN col ELSE col + 1
ImplementsElimination == Columns!Spec
=============================================================================
