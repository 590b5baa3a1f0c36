--------------------------- MODULE SystematicPlan ---------------------------
(***************************************************************************)
(* A plan for a square constraint matrix: prepared once for a block size   *)
(* by eliminating the matrix, and replayed on the symbols of every block   *)
(* of that size.  The plan records what elimination did to rows, so that   *)
(* replay does it to symbols; the transposed plan takes the coefficients   *)
(* of a repair symbol back to the symbols it is made of.                   *)
(*                                                                         *)
(* Rows are functions from columns to coefficients.  Symbols are vectors   *)
(* over the symbols that replay starts from, so that one replay stands for *)
(* the replays on all symbols.                                             *)
(***************************************************************************)
EXTENDS Integers, Sequences, FiniteSets, SequencesExt, SmallField
CONSTANTS N,          \* rows and columns
          S, H,       \* LDPC and HDPC rows
          CloneFree   \* the width from which rows are merged in place, with
                      \* a cheaper merge for rows known to hold only ones

PlanAssumption ==
  N \in Nat \ {0} /\ S \in Nat /\ H \in Nat /\ S + H <= N /\ CloneFree \in Nat

Index == 0 .. N - 1
HdpcRows == S .. S + H - 1
Row == [Index -> F]
NoPivot == N

VARIABLES phase,         \* eliminate, replay, rows or batches, done, panic
          matrix,        \* the matrix that the plan is for
          rows,          \* its rows, as elimination leaves them
          binary_rows,   \* rows taken to hold only ones
          col,           \* the column being eliminated, or substituted back
          pivot_for_col,
          forward_steps, \* a record per column
          symbols        \* the slab
vars == <<phase, matrix, rows, binary_rows, col, pivot_for_col, forward_steps, symbols>>

(***************************************************************************)
(* Preparation.                                                            *)
(***************************************************************************)
\* coefficient_rows_with_binary_flags: every row but the HDPC rows is binary.
BinaryFlags == Index \ HdpcRows

BinaryOnly(row) == \A j \in Index : row[j] \in {Zero, One}

Init ==
  /\ matrix \in {a \in [Index -> Row] : \A i \in BinaryFlags : BinaryOnly(a[i])}
  /\ rows = matrix
  /\ binary_rows = BinaryFlags
  /\ pivot_for_col = [j \in Index |-> NoPivot]
  /\ forward_steps = <<>>
  /\ col = 0
  /\ phase = "eliminate"
  /\ symbols = [i \in Index |-> VUnit(Index, i)]

Pivoted == {pivot_for_col[j] : j \in Index} \ {NoPivot}

\* Rows that begin at the current column and are not pivots.
Bucket == {i \in Index \ Pivoted : Support(rows[i]) # {} /\ LeadingColumn(rows[i]) = col}

Weight(i) == Cardinality(Support(rows[i]))

Lightest(bucket) ==
  {i \in bucket : \A k \in bucket :
     \/ Weight(i) < Weight(k)
     \/ Weight(i) = Weight(k) /\ (rows[i][col] = One \/ rows[k][col] # One)}

FlagsAfterScale(i, scaled) == IF scaled THEN binary_rows \ {i} ELSE binary_rows

Scaled(i) == VTimes(FInverse(rows[i][col]), rows[i])

ChoosePivot ==
  /\ phase = "eliminate" /\ col < N /\ pivot_for_col[col] = NoPivot
  /\ \E i \in Lightest(Bucket) :
       LET scaled == rows[i][col] # One
       IN /\ pivot_for_col' = [pivot_for_col EXCEPT ![col] = i]
          /\ rows' = [rows EXCEPT ![i] = Scaled(i)]
          /\ binary_rows' = FlagsAfterScale(i, scaled)
          /\ forward_steps' = Append(forward_steps,
               [pivot |-> i, scale |-> IF scaled THEN FInverse(rows[i][col]) ELSE One,
                dests |-> <<>>, unit_only |-> TRUE])
  /\ UNCHANGED <<phase, matrix, col, symbols>>

NoPivotFound ==
  /\ phase = "eliminate" /\ col < N /\ pivot_for_col[col] = NoPivot /\ Bucket = {}
  /\ phase' = "panic"
  /\ UNCHANGED <<matrix, rows, binary_rows, col, pivot_for_col, forward_steps, symbols>>

\* Rows that hold only ones are merged by comparing columns alone.
MergeColumns(a, b) == [j \in Index |-> IF (a[j] = Zero) = (b[j] = Zero) THEN Zero ELSE One]

MergesColumns(pivot, i, factor) ==
  N >= CloneFree /\ {pivot, i} \subseteq binary_rows /\ factor = One

\* The flag is kept up only where the cheaper merge is used; a pivot of one
\* entry only takes an entry away.
FlagsAfterMerge(pivot, i, factor) ==
  IF N < CloneFree \/ Weight(pivot) = 1 \/ MergesColumns(pivot, i, factor)
  THEN binary_rows ELSE binary_rows \ {i}

WithDest(step, i, factor) ==
  [step EXCEPT !.dests = Append(@, <<i, factor>>), !.unit_only = @ /\ factor = One]

\* A row of the bucket loses its first entry; whatever it begins with then
\* files it under a later column.
EliminateRow ==
  /\ phase = "eliminate" /\ col < N /\ pivot_for_col[col] # NoPivot
  /\ LET pivot == pivot_for_col[col]
     IN \E i \in Bucket :
          LET factor == rows[i][col]
          IN /\ rows' = [rows EXCEPT ![i] =
                  IF MergesColumns(pivot, i, factor) THEN MergeColumns(@, rows[pivot])
                  ELSE VPlus(@, VTimes(factor, rows[pivot]))]
             /\ binary_rows' = FlagsAfterMerge(pivot, i, factor)
             /\ forward_steps' = [forward_steps EXCEPT ![col + 1] = WithDest(@, i, factor)]
  /\ UNCHANGED <<phase, matrix, col, pivot_for_col, symbols>>

BucketTaken == Bucket = {}

NextColumn ==
  /\ phase = "eliminate" /\ col < N /\ pivot_for_col[col] # NoPivot /\ BucketTaken
  /\ col' = col + 1
  /\ UNCHANGED <<phase, matrix, rows, binary_rows, pivot_for_col, forward_steps, symbols>>

\* Back substitution per column that is changed: what it depends on, from
\* the last column down.
SubstitutionRow(c) ==
  SetToSortSeq({<<j, rows[pivot_for_col[c]][j]>> : j \in Support(rows[pivot_for_col[c]]) \ 0 .. c},
               LAMBDA a, b : a[1] > b[1])

\* The same per column that is read: what it is added to.
prepare_back_substitution_batches(c) ==
  SetToSortSeq({<<j, rows[pivot_for_col[j]][c]>> :
                  j \in {j \in 0 .. c - 1 : rows[pivot_for_col[j]][c] # Zero}},
               LAMBDA a, b : a[1] < b[1])

\* Batches laid end to end: the range of column c in the joined entries, from
\* counts that a first pass over the rows makes.
slices_from_counts(counts, c) ==
  LET start[k \in 0 .. N] == IF k = 0 THEN 0 ELSE start[k - 1] + counts[k - 1]
  IN <<start[c], start[c + 1]>>

prepare_flat_back_substitution_batches(c) ==
  LET counts == [k \in Index |-> Len(prepare_back_substitution_batches(k))]
      entries == FlattenSeq([k \in 1 .. N |-> prepare_back_substitution_batches(k - 1)])
      range == slices_from_counts(counts, c)
  IN SubSeq(entries, range[1] + 1, range[2])

(***************************************************************************)
(* Replay.                                                                 *)
(***************************************************************************)
StartReplay ==
  /\ phase = "eliminate" /\ col = N
  /\ phase' = "replay" /\ col' = 0
  /\ UNCHANGED <<matrix, rows, binary_rows, pivot_for_col, forward_steps, symbols>>

DestFactor(step, i) ==
  LET k == CHOOSE k \in DOMAIN step.dests : step.dests[k][1] = i
  IN IF step.unit_only THEN One ELSE step.dests[k][2]

ReplayStep ==
  /\ phase = "replay" /\ col < N
  /\ LET step == forward_steps[col + 1]
         pivot == VTimes(step.scale, symbols[step.pivot])
     IN symbols' = [i \in Index |->
          IF i = step.pivot THEN pivot
          ELSE IF \E k \in DOMAIN step.dests : step.dests[k][1] = i
          THEN VPlus(symbols[i], VTimes(DestFactor(step, i), pivot))
          ELSE symbols[i]]
  /\ col' = col + 1
  /\ UNCHANGED <<phase, matrix, rows, binary_rows, pivot_for_col, forward_steps>>

\* move_pivot_symbols_to_columns, as PivotMoves shows it.  The width of the
\* matrix says which of the two orders of back substitution was prepared.
MovePivots ==
  /\ phase = "replay" /\ col = N
  /\ symbols' = [c \in Index |-> symbols[pivot_for_col[c]]]
  /\ phase' \in {"rows", "batches"}
  /\ UNCHANGED <<matrix, rows, binary_rows, col, pivot_for_col, forward_steps>>

\* Faulty variant: columns are taken upwards.
UpwardColumn == N - col

ReplayColumn == col - 1

\* Batches: the column that is read is final when it is added to the others.
BackSubstituteBatch ==
  /\ phase = "batches" /\ col > 0
  /\ LET c == ReplayColumn
         batch == prepare_flat_back_substitution_batches(c)
     IN symbols' = [j \in Index |->
          IF \E k \in DOMAIN batch : batch[k][1] = j
          THEN VPlus(symbols[j], VTimes(batch[CHOOSE k \in DOMAIN batch : batch[k][1] = j][2], symbols[c]))
          ELSE symbols[j]]
  /\ col' = col - 1
  /\ UNCHANGED <<phase, matrix, rows, binary_rows, pivot_for_col, forward_steps>>

\* Rows: the column is made final from the columns after it.
BackSubstituteRow ==
  /\ phase = "rows" /\ col > 0
  /\ LET c == ReplayColumn
     IN symbols' = [symbols EXCEPT ![c] =
          FoldLeft(LAMBDA sum, term : VPlus(sum, VTimes(term[2], symbols[term[1]])),
                   @, SubstitutionRow(c))]
  /\ col' = col - 1
  /\ UNCHANGED <<phase, matrix, rows, binary_rows, pivot_for_col, forward_steps>>

Finish ==
  /\ phase \in {"rows", "batches"} /\ col = 0
  /\ phase' = "done"
  /\ UNCHANGED <<matrix, rows, binary_rows, col, pivot_for_col, forward_steps, symbols>>

Stopped == phase \in {"done", "panic"} /\ UNCHANGED vars

Prepare == ChoosePivot \/ NoPivotFound \/ EliminateRow \/ NextColumn \/ StartReplay
Next == Prepare \/ ReplayStep \/ MovePivots \/ BackSubstituteBatch \/ BackSubstituteRow
          \/ Finish \/ Stopped
Spec == Init /\ [][Next]_vars

(***************************************************************************)
(* The transposed plan.  coefficients says how much of each symbol is      *)
(* wanted; every step is taken back in reverse order.                      *)
(***************************************************************************)
add_scaled_coefficient(coefficients, dest, src, scalar) ==
  [coefficients EXCEPT ![dest] = FPlus(@, FTimes(coefficients[src], scalar))]

apply_back_substitution_to_final_coefficients(coefficients, byRows) ==
  LET Back(acc, c) ==
        IF byRows
        THEN FoldLeft(LAMBDA a, term : add_scaled_coefficient(a, term[1], c, term[2]),
                      acc, Reverse(SubstitutionRow(c)))
        ELSE FoldLeft(LAMBDA a, term : add_scaled_coefficient(a, c, term[1], term[2]),
                      acc, Reverse(prepare_back_substitution_batches(c)))
  IN FoldLeft(Back, coefficients, [k \in 1 .. N |-> k - 1])

StepTakenBack(coefficients, step) ==
  LET gathered == FoldLeft(LAMBDA a, dest : add_scaled_coefficient(a, step.pivot, dest[1], dest[2]),
                           coefficients, Reverse(step.dests))
  IN [gathered EXCEPT ![step.pivot] = FTimes(@, step.scale)]

apply_forward_steps_to_final_coefficients(coefficients) ==
  FoldLeft(StepTakenBack, coefficients, Reverse(forward_steps))

repair_source_coefficients_for_entries(entries, byRows) ==
  LET wanted == [c \in Index |-> IF c \in entries THEN One ELSE Zero]
      back == apply_back_substitution_to_final_coefficients(wanted, byRows)
      moved == [i \in Index |-> back[CHOOSE c \in Index : pivot_for_col[c] = i]]
  IN apply_forward_steps_to_final_coefficients(moved)

-----------------------------------------------------------------------------
TypeInv ==
  /\ phase \in {"eliminate", "replay", "rows", "batches", "done", "panic"}
  /\ rows \in [Index -> Row] /\ symbols \in [Index -> Row]
  /\ binary_rows \subseteq Index
  /\ col \in 0 .. N
  /\ pivot_for_col \in [Index -> Index \cup {NoPivot}]
  /\ \A k \in DOMAIN forward_steps :
       /\ forward_steps[k].pivot \in Index
       /\ forward_steps[k].dests \in Seq((Index \ {forward_steps[k].pivot}) \X (F \ {Zero}))

\* A row that is taken for binary holds only zeros and ones, wherever that is
\* relied on: a stale flag would drop coefficients silently (pi_solver.rs
\* 1605-1609, 1666-1673).
BinaryFlagsTrue ==
  N >= CloneFree => \A i \in binary_rows : BinaryOnly(rows[i])

\* While the matrix is eliminated, rows before the current column are pivots
\* or begin later, so that every bucket below is empty for good.
BucketsBehindEmpty ==
  phase = "eliminate" =>
    \A i \in Index \ Pivoted :
      Support(rows[i]) # {} => LeadingColumn(rows[i]) >= col

\* Preparation panics exactly for a matrix that has no inverse.
Singular == \E v \in Row : v # VZero(Index) /\ Combination(v, matrix, N) = VZero(Index)
PanicsIfSingular ==
  /\ phase = "panic" => Singular
  /\ phase = "done" => ~Singular

\* Replay solves the matrix for whatever the symbols are: row i of the matrix
\* applied to the result is the symbol that replay found at i.
ReplaySolves ==
  phase = "done" =>
    \A i \in Index : Combination(matrix[i], symbols, N) = VUnit(Index, i)

\* A repair symbol made with the transposed plan, directly from the symbols
\* that replay would start from, is the one made from the replayed symbols.
RepairCoefficientsAgree ==
  phase = "done" =>
    \A entries \in SUBSET Index, byRows \in BOOLEAN :
      repair_source_coefficients_for_entries(entries, byRows)
        = Combination([c \in Index |-> IF c \in entries THEN One ELSE Zero], symbols, N)
=============================================================================
