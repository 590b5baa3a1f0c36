---------------------------- MODULE BinaryMatrices ----------------------------
(***************************************************************************)
(* The two binary matrices.  Sparse rows are lists of columns: a matrix    *)
(* narrower than a limit keeps them in order and looks columns up by       *)
(* binary search, a wider one appends and sorts later; both are built by   *)
(* appending, which leaves them out of order until normalize_rows.  Dense  *)
(* rows are bits, one row after the other, and start inside a byte.        *)
(*                                                                         *)
(* Nothing keeps a caller from changing a narrow matrix in a row that has  *)
(* been appended to and not been sorted.  What the search finds there is   *)
(* unspecified: the change is made all the same, and a column may come to  *)
(* stand in its row twice.  Such a row has strayed, and what it holds is   *)
(* no longer what the calls have made of it.                               *)
(***************************************************************************)
EXTENDS Integers, Sequences, FiniteSets, FiniteSetsExt, SequencesExt
CONSTANTS Height, Width,
          ByteBits   \* bits of a byte
MatrixAssumption == {Height, Width, ByteBits} \subseteq Nat \ {0}

Row == 0 .. Height - 1
Col == 0 .. Width - 1
Kinds == {"narrow", "wide", "dense"}
Sparse == {"narrow", "wide"}

VARIABLES kind,
          rows,              \* of a sparse matrix
          rows_normalized,
          bits,              \* data of a dense matrix: the bits that are one
          entries,           \* for the properties: the ones that the calls have made
          strayed            \* and the rows changed by a search while out of order
vars == <<kind, rows, rows_normalized, bits, entries, strayed>>

-----------------------------------------------------------------------------
Init ==
  /\ kind \in Kinds
  /\ rows = [r \in Row |-> <<>>]
  /\ rows_normalized = TRUE
  /\ bits = {}
  /\ entries = {}
  /\ strayed = {}

\* A column that is there twice does not disturb the order.
Ordered(s) == \A i, j \in DOMAIN s : i < j => s[i] <= s[j]
InOrder(S) == SetToSortSeq(S, LAMBDA c, d : c < d)

sorted_entries(s) == SortSeq(s, <)

\* What a search may answer: a place where the column is, or the place to insert
\* it at. In a list that is out of order it may miss a column that is there.
binary_search(s, col) ==
  LET places == {i \in DOMAIN s : s[i] = col}
      found == {<<TRUE, i>> : i \in places}
  IN IF ~Ordered(s) THEN found \cup {<<FALSE, i>> : i \in 1 .. Len(s) + 1}
     ELSE IF places # {} THEN found
     ELSE {<<FALSE, Cardinality({i \in DOMAIN s : s[i] < col}) + 1>>}

Inserted(s, found, col) == InsertAt(s, found[2], col)
Removed(s, found) == RemoveAt(s, found[2])

position(s, col) == CHOOSE i \in DOMAIN s : s[i] = col

\* The last entry takes the place of the one that goes.
swap_remove(s, i) ==
  [k \in 1 .. Len(s) - 1 |-> IF k = i THEN s[Len(s)] ELSE s[k]]

-----------------------------------------------------------------------------
(***************************************************************************)
(* Changing an entry.  Set to one, to zero, or toggle.                     *)
(***************************************************************************)
ValueAfter(op, one) == CASE op = "one" -> TRUE [] op = "zero" -> FALSE [] op = "toggle" -> ~one

EntriesAfter(op, r, c) ==
  IF ValueAfter(op, <<r, c>> \in entries) THEN entries \cup {<<r, c>>} ELSE entries \ {<<r, c>>}

\* Of a row that has strayed nothing is recorded.
Recorded(op, r, c) == entries' = {e \in EntriesAfter(op, r, c) : e[1] \notin strayed'}

\* Bound: one place more than a row without a double entry can fill.
MaxLength == Width + 1
RoomLeft(r) == Len(rows[r]) < MaxLength

SetNarrow(op, r, c) ==
  /\ kind = "narrow"
  /\ RoomLeft(r)
  /\ \E found \in binary_search(rows[r], c) :
       rows' = [rows EXCEPT ![r] =
         IF ValueAfter(op, found[1]) = found[1] THEN @
         ELSE IF found[1] THEN Removed(@, found) ELSE Inserted(@, found, c)]
  /\ strayed' = IF Ordered(rows[r]) THEN strayed ELSE strayed \cup {r}
  /\ UNCHANGED <<rows_normalized, bits>>

NormalizedAfter(changed) == IF changed THEN FALSE ELSE rows_normalized

SetWide(op, r, c) ==
  /\ kind = "wide"
  /\ LET there == Contains(rows[r], c)
         changed == ValueAfter(op, there) # there
     IN /\ rows' = [rows EXCEPT ![r] =
             IF ~changed THEN @
             ELSE IF there THEN swap_remove(@, position(@, c)) ELSE Append(@, c)]
        /\ rows_normalized' = NormalizedAfter(changed)
  /\ UNCHANGED <<bits, strayed>>

\* byte_index: the bit of an entry.
BitOf(r, c) == r * Width + c

SetDense(op, r, c) ==
  /\ kind = "dense"
  /\ bits' = IF ValueAfter(op, BitOf(r, c) \in bits) THEN bits \cup {BitOf(r, c)}
             ELSE bits \ {BitOf(r, c)}
  /\ UNCHANGED <<rows, rows_normalized, strayed>>

Change(op, r, c) ==
  /\ SetNarrow(op, r, c) \/ SetWide(op, r, c) \/ SetDense(op, r, c)
  /\ Recorded(op, r, c)
  /\ UNCHANGED kind

\* A sparse matrix appends a column that its row does not have yet.
AppendUnique(r, c) ==
  /\ kind \in Sparse
  /\ RoomLeft(r)
  /\ ~Contains(rows[r], c)
  /\ rows' = [rows EXCEPT ![r] = Append(@, c)]
  /\ rows_normalized' = FALSE
  /\ UNCHANGED <<bits, strayed>>

toggle_unique(r, c) ==
  /\ AppendUnique(r, c) \/ SetDense("toggle", r, c)
  /\ Recorded("toggle", r, c)
  /\ UNCHANGED kind

normalize_rows ==
  /\ kind \in Sparse /\ ~rows_normalized
  /\ rows' = [r \in Row |-> sorted_entries(rows[r])]
  /\ rows_normalized' = TRUE
  /\ UNCHANGED <<kind, bits, entries, strayed>>

Next ==
  \/ \E op \in {"one", "zero", "toggle"}, r \in Row, c \in Col : Change(op, r, c)
  \/ \E r \in Row, c \in Col : toggle_unique(r, c)
  \/ normalize_rows

Spec == Init /\ [][Next]_vars

-----------------------------------------------------------------------------
(***************************************************************************)
(* Reading.                                                                *)
(***************************************************************************)
get(r, c) ==
  IF kind = "dense" THEN BitOf(r, c) \in bits
  ELSE IF rows_normalized THEN \E found \in binary_search(rows[r], c) : found[1]
  ELSE Contains(rows[r], c)

\* The bytes from that of the row's first bit to that of its last, each with
\* the bits outside of the row masked out.
Byte(b) == {k \in 0 .. ByteBits - 1 : b * ByteBits + k \in bits}
VisitDense(r) ==
  LET start_bit == r * Width
      end_bit == start_bit + Width
      piece(b) ==
        {b * ByteBits + k - start_bit :
           k \in {j \in Byte(b) : b * ByteBits + j \in start_bit .. end_bit - 1}}
  IN FlattenSeq([i \in 1 .. (end_bit - 1) \div ByteBits - start_bit \div ByteBits + 1 |->
                   InOrder(piece(start_bit \div ByteBits + i - 1))])

\* Faulty variant: rows that only were marked as normalised are not sorted.
VisitAsFound(r) == rows[r]
VisitSparse(r) == IF rows_normalized THEN rows[r] ELSE sorted_entries(rows[r])

visit_row_entries(r) == IF kind = "dense" THEN VisitDense(r) ELSE VisitSparse(r)

\* The first of a row as packing takes it: the first of an ordered list, and
\* the least of any other.
first_one(r) ==
  IF rows[r] = <<>> THEN -1
  ELSE IF rows_normalized THEN rows[r][1] ELSE Min(ToSet(rows[r]))

-----------------------------------------------------------------------------
RowOf(r) == {c \in Col : <<r, c>> \in entries}

TypeInv ==
  /\ kind \in Kinds /\ rows_normalized \in BOOLEAN
  /\ \A r \in Row : rows[r] \in Seq(Col) /\ Len(rows[r]) <= MaxLength
  /\ bits \subseteq 0 .. Height * Width - 1
  /\ IF kind \in Sparse THEN bits = {} ELSE \A r \in Row : rows[r] = <<>>
  /\ entries \subseteq Row \X Col
  /\ strayed \subseteq IF kind = "narrow" THEN Row ELSE {}

\* Rows that are taken to be normalised are in order, those that have strayed
\* too, so that no search in a normalised matrix is misled
\* (sparse_matrix.rs 139-221).
NormalizedMeansOrdered ==
  kind \in Sparse /\ rows_normalized => \A r \in Row : Ordered(rows[r])

\* Every column is in its row once, unless a narrow matrix was changed in that
\* row while it was out of order; a row that strays takes no other with it
\* (sparse_matrix.rs 139-221).
EntriesOnce ==
  kind \in Sparse =>
    \A r \in Row \ strayed : IsInjective(rows[r]) /\ ToSet(rows[r]) = RowOf(r)

\* All matrices read the same, entry by entry, as a whole row in order, and
\* as what the elimination is given as the first one of a row, whatever
\* sequence of calls made the row, as long as it has not strayed
\* (sparse_matrix.rs 124-137, 240-347; matrix.rs 173-293).
ReadsAreEntries ==
  \A r \in Row \ strayed :
    /\ \A c \in Col : get(r, c) = (<<r, c>> \in entries)
    /\ visit_row_entries(r) = InOrder(RowOf(r))
    /\ kind \in Sparse => first_one(r) = IF RowOf(r) = {} THEN -1 ELSE Min(RowOf(r))
=============================================================================
