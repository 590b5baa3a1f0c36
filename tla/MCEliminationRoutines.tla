------------------------ MODULE MCEliminationRoutines ------------------------
(***************************************************************************)
(* What elimination works with: the lists that rows wait in, additions of  *)
(* rows, and moves of the pivots' symbols.  They share no state, so a      *)
(* behaviour is of one of them.                                            *)
(***************************************************************************)
EXTENDS Naturals

CONSTANTS
  Height, Width, SmallMax, CoefficientRows,   \* Buckets
  MergeWidth, DestRows, SrcRows, Scalars,     \* Merges
  MoveWidth, MoveLdpc, MoveHdpc, None         \* Moves

\* Values for model checking.
Four(p, q, r, s) == [j \in 0 .. 3 |-> <<p, q, r, s>>[j + 1]]

\* Besides all matrices of ones and zeros: matrices of these rows.
MCCoefficientRows ==
  {Four(1, 0, 0, 0), Four(2, 0, 0, 0), Four(2, 1, 0, 0), Four(1, 0, 3, 0), Four(1, 1, 0, 2),
   Four(0, 2, 1, 0), Four(0, 0, 1, 1), Four(3, 1, 1, 1), Four(0, 0, 0, 0)}

\* All rows of five entries none of which is three, to all of ones and zeros.
MCDestRows == [0 .. 4 -> {0, 1, 2}]
MCSrcRows == [0 .. 4 -> {0, 1}]

VARIABLES
  subject,   \* which of them runs
  kind, rows, filed, heads, next_in_bucket, nonempty_masks, bucket_counts,
  row_weights, entries, col, pivot, pivot_for_col, scalar, dest_row, src_row,
  dest, src, i, search_start, scratch, phase, visited, walk, moves, replay,
  symbols

vars == <<subject, kind, rows, filed, heads, next_in_bucket, nonempty_masks,
          bucket_counts, row_weights, entries, col, pivot, pivot_for_col,
          scalar, dest_row, src_row, dest, src, i, search_start, scratch, phase,
          visited, walk, moves, replay, symbols>>

Buckets == INSTANCE RowBuckets
Merges == INSTANCE RowMerges WITH
  Width <- MergeWidth
Moves == INSTANCE PivotMoves WITH
  W <- MoveWidth, S <- MoveLdpc, H <- MoveHdpc

ASSUME RoutinesAssumption ==
  /\ Buckets!BucketAssumption
  /\ Merges!MergeAssumption
  /\ Moves!MovesAssumption

\* A variable that two of them declare is one variable here; what the one that
\* runs does not use is idle.
Idle == "idle"
Init ==
  \/ /\ subject = "Buckets" /\ Buckets!Init
     /\ scalar = Idle /\ dest_row = Idle /\ src_row = Idle /\ dest = Idle
     /\ src = Idle /\ i = Idle /\ search_start = Idle /\ scratch = Idle
     /\ phase = Idle /\ visited = Idle /\ walk = Idle /\ moves = Idle
     /\ replay = Idle /\ symbols = Idle
  \/ /\ subject = "Merges" /\ Merges!Init
     /\ rows = Idle /\ filed = Idle /\ heads = Idle /\ next_in_bucket = Idle
     /\ nonempty_masks = Idle /\ bucket_counts = Idle /\ row_weights = Idle
     /\ entries = Idle /\ col = Idle /\ pivot = Idle /\ pivot_for_col = Idle
     /\ visited = Idle /\ walk = Idle /\ moves = Idle /\ replay = Idle
     /\ symbols = Idle
  \/ /\ subject = "Moves" /\ Moves!Init
     /\ rows = Idle /\ filed = Idle /\ heads = Idle /\ next_in_bucket = Idle
     /\ nonempty_masks = Idle /\ bucket_counts = Idle /\ row_weights = Idle
     /\ entries = Idle /\ col = Idle /\ pivot = Idle /\ pivot_for_col = Idle
     /\ scalar = Idle /\ dest_row = Idle /\ src_row = Idle /\ src = Idle
     /\ i = Idle /\ search_start = Idle

BucketsStep == subject = "Buckets" /\ Buckets!Next /\ UNCHANGED <<subject, scalar,
  dest_row, src_row, dest, src, i, search_start, scratch, phase, visited, walk,
  moves, replay, symbols>>
MergesStep == subject = "Merges" /\ Merges!Next /\ UNCHANGED <<subject, rows,
  filed, heads, next_in_bucket, nonempty_masks, bucket_counts, row_weights,
  entries, col, pivot, pivot_for_col, visited, walk, moves, replay, symbols>>
MovesStep == subject = "Moves" /\ Moves!Next /\ UNCHANGED <<subject, rows, filed,
  heads, next_in_bucket, nonempty_masks, bucket_counts, row_weights, entries, col,
  pivot, pivot_for_col, scalar, dest_row, src_row, src, i, search_start>>
Next == BucketsStep \/ MergesStep \/ MovesStep
Spec == Init /\ [][Next]_vars

-----------------------------------------------------------------------------
\* Every row that waits for its column is in the one list it belongs to, and
\* masks, counts, weights and cached entries are those of the rows as they are
\* (pi_solver.rs 8751-9265).
ListsHoldWaitingRows ==
  subject = "Buckets" =>
    /\ Buckets!TypeInv /\ Buckets!ListsHoldWaitingRows
    /\ Buckets!MasksAndCountsFit /\ Buckets!CachedStateIsCurrent

\* By the lists every column is eliminated with a lightest row, and all rows
\* that begin there (pi_solver.rs 8315-8381, 9052-9265).
ImplementsElimination ==
  /\ subject = "Buckets" => Buckets!Columns!Init
  /\ [][subject = "Buckets" => [Buckets!Columns!Next]_(Buckets!Columns!vars)]_vars

\* Rows stay in order and become sums, whichever way they are added, and no
\* lookup begins behind its place (pi_solver.rs 9347-9917).
MergedRowIsSum ==
  subject = "Merges" =>
    Merges!TypeInv /\ Merges!SearchStartsBeforePlace /\ Merges!RowIsSum

\* Moves in place, with one scratch symbol, bring every pivot's symbol to its
\* column, none overwritten before it has moved, and coefficients the other way
\* (pi_solver.rs 1466-1477, 2853-2953, 4755-4843).
MovesBringPivotsHome ==
  subject = "Moves" =>
    /\ Moves!TypeInv /\ Moves!NoSymbolLost /\ Moves!PivotsInPlace
    /\ Moves!CoefficientsMoveBack /\ Moves!EachMovedOnce
=============================================================================
