--------------------------- MODULE RowElimination ---------------------------
(***************************************************************************)
(* Solving in one stage: rows and symbols are eliminated column by column. *)
(*   record      swaps pivots into place, clears all other rows, and       *)
(*               returns the operations for a later replay                 *)
(*   triangular  clears only the rows below, then substitutes back, all of *)
(*               it recorded                                               *)
(*   scan        the same unrecorded, with the first or the lightest pivot *)
(*   bucketed    leaves rows where they are                                *)
(*   binary      the same for rows of ones and zeros                       *)
(* A symbol is its row and one component more, as in BinaryHdpcSolve.      *)
(***************************************************************************)
EXTENDS Integers, Sequences, FiniteSets, SmallField
CONSTANT Shapes   \* records [n, height, rows]: columns, rows, rows to choose from

ShapesAssumption ==
  \A shape \in Shapes :
    /\ shape.n \in Nat \ {0} /\ shape.height \in Nat
    /\ shape.rows \subseteq [0 .. shape.n - 1 -> F]

Recording == {"record", "triangular"}
Swapping == Recording \cup {"scan_first", "scan_lightest"}
Kinds == Swapping \cup {"bucketed", "binary"}

VARIABLES shape, kind,
          matrix,     \* the rows of the system
          received,   \* its symbols
          phase,      \* eliminate, back, or the outcome
          col,
          rows,
          symbols,
          pivot_for_col,
          ops,
          decoded
vars == <<shape, kind, matrix, received, phase, col, rows, symbols, pivot_for_col, ops, decoded>>
system == <<shape, kind, matrix, received>>

Col == 0 .. shape.n - 1
Row == 0 .. shape.height - 1
NoPivot == shape.height

Symbol(row, wrong) == [j \in 0 .. shape.n |-> IF j < shape.n THEN row[j] ELSE wrong]
Formal(i) == Symbol(matrix[i], Zero)

\* A plan is recorded on symbols that are all zero, or on given ones.
Init ==
  /\ shape \in Shapes
  /\ kind \in Kinds \ IF shape.height = shape.n THEN {} ELSE {"triangular"}
  /\ matrix \in [Row -> {row \in shape.rows :
                           kind = "binary" => \A j \in Col : row[j] \in {Zero, One}}]
  /\ \E zero \in IF kind \in Recording THEN BOOLEAN ELSE {FALSE}, wrong \in {shape.height} \cup Row :
       /\ wrong \in Row => ~zero /\ shape.height > shape.n
       /\ received = [i \in Row |-> IF zero THEN VZero(0 .. shape.n)
                                    ELSE Symbol(matrix[i], IF i = wrong THEN One ELSE Zero)]
  /\ rows = matrix /\ symbols = received
  /\ phase = "eliminate" /\ col = 0
  /\ pivot_for_col = [j \in Col |-> NoPivot]
  /\ ops = <<>> /\ decoded = <<>>

symbols_are_zero == kind \in Recording /\ received = [i \in Row |-> VZero(0 .. shape.n)]

-----------------------------------------------------------------------------
(***************************************************************************)
(* The operations, on symbols and, in the same form, on rows.              *)
(***************************************************************************)
swap(s, a, b) == [s EXCEPT ![a] = s[b], ![b] = s[a]]
scale(s, row, scalar) == [s EXCEPT ![row] = VTimes(scalar, s[row])]
fused_add_batch(s, src, factors) ==
  [i \in DOMAIN s |->
     IF i \in DOMAIN factors THEN VPlus(s[i], VTimes(factors[i], s[src])) ELSE s[i]]

\* A recorded operation is applied to symbols; a batch of one destination is
\* an addition of its own.
perform_op(s, op) ==
  CASE op.op = "Swap"          -> swap(s, op.a, op.b)
    [] op.op = "Scale"         -> scale(s, op.row, op.scalar)
    [] op.op = "FusedAddBatch" -> fused_add_batch(s, op.src, op.factors)

SwapOps(a, b) == IF a = b THEN <<>> ELSE <<[op |-> "Swap", a |-> a, b |-> b]>>
ScaleOps(row, scalar) ==
  IF scalar = One THEN <<>> ELSE <<[op |-> "Scale", row |-> row, scalar |-> scalar]>>
FusedAddOps(src, factors) ==
  IF DOMAIN factors = {} THEN <<>>
  ELSE <<[op |-> "FusedAddBatch", src |-> src, factors |-> factors]>>

Scalar(value) == FInverse(value)

-----------------------------------------------------------------------------
(***************************************************************************)
(* Pivots.                                                                 *)
(***************************************************************************)
Weight(i) == Cardinality(Support(rows[i]))
Lightest(S) == {i \in S : \A k \in S : Weight(i) <= Weight(k)}
OnesIfAny(S) == IF \E i \in S : rows[i][col] = One THEN {i \in S : rows[i][col] = One} ELSE S
First(S) == {i \in S : \A k \in S : i <= k}

Pivoted == {pivot_for_col[j] : j \in Col} \ {NoPivot}
Bucket == {i \in Row \ Pivoted : Support(rows[i]) # {} /\ LeadingColumn(rows[i]) = col}
Remaining == {i \in Row : i >= col /\ rows[i][col] # Zero}

\* The row that becomes the pivot row of the column.
SelectPivotFirst == First(Remaining)
SelectPivotLightest == First(OnesIfAny(Lightest(Remaining)))
PopLightest == Lightest(Bucket)

Pivots ==
  CASE kind \in Recording \cup {"scan_first"} -> SelectPivotFirst
    [] kind = "scan_lightest"                 -> SelectPivotLightest
    [] OTHER                                  -> PopLightest

Undetermined ==
  /\ phase = "eliminate" /\ col < shape.n /\ Pivots = {}
  /\ phase' = "failed"
  /\ UNCHANGED <<system, col, rows, symbols, pivot_for_col, ops, decoded>>

-----------------------------------------------------------------------------
(***************************************************************************)
(* One column.                                                             *)
(***************************************************************************)
ColumnFactors(from, at, cleared) ==
  [i \in {i \in cleared : from[i][col] # Zero} |-> from[i][col]]

EliminatedSymbols(pivot, at, scalar, factors) ==
  IF symbols_are_zero THEN symbols
  ELSE fused_add_batch(scale(swap(symbols, pivot, at), at, scalar), at, factors)

\* The pivot row is brought to row at, scaled to begin with one, and added to
\* the rows in cleared; the operations of it are steps.
EliminateWith(pivot, at, cleared) ==
  LET swapped == swap(rows, pivot, at)
      scalar == Scalar(swapped[at][col])
      scaled == scale(swapped, at, scalar)
      factors == ColumnFactors(scaled, at, cleared)
      steps == SwapOps(pivot, at) \o ScaleOps(at, scalar) \o FusedAddOps(at, factors)
  IN /\ rows' = fused_add_batch(scaled, at, factors)
     /\ symbols' = EliminatedSymbols(pivot, at, scalar, factors)
     /\ ops' = IF kind \in Recording THEN ops \o steps ELSE ops
     /\ pivot_for_col' = [pivot_for_col EXCEPT ![col] = at]
     /\ col' = col + 1
     /\ UNCHANGED <<system, phase, decoded>>

Eliminating(k) == kind = k /\ phase = "eliminate" /\ col < shape.n

Below == {i \in Row : i > col}
SolveRecording ==
  Eliminating("record") /\ \E p \in Pivots : EliminateWith(p, col, Row \ {col})
SolveTriangular ==
  Eliminating("triangular") /\ \E p \in Pivots : EliminateWith(p, col, Below)
SolveScanFirst ==
  Eliminating("scan_first") /\ \E p \in Pivots : EliminateWith(p, col, Below)
SolveScanLightest ==
  Eliminating("scan_lightest") /\ \E p \in Pivots : EliminateWith(p, col, Below)
SolveBucketed ==
  Eliminating("bucketed") /\ \E p \in Pivots : EliminateWith(p, p, Bucket \ {p})
SolveBinary ==
  Eliminating("binary") /\ \E p \in Pivots : EliminateWith(p, p, Bucket \ {p})

\* Rows that are no pivots must have come out empty, with empty symbols.
LeftOverRowsFit ==
  \A i \in Row \ Pivoted : Support(rows[i]) = {} /\ Support(symbols[i]) = {}

Inconsistent ==
  /\ phase = "eliminate" /\ col = shape.n /\ ~LeftOverRowsFit
  /\ phase' = "failed"
  /\ UNCHANGED <<system, col, rows, symbols, pivot_for_col, ops, decoded>>

-----------------------------------------------------------------------------
(***************************************************************************)
(* Back substitution.                                                      *)
(***************************************************************************)
\* What is left of a pivot's symbol when the solved columns behind are taken out;
\* those that are not in the row take nothing.
LeftOver(row, symbol, j, value) ==
  LET sum[k \in j .. shape.n - 1] ==
        IF k = j THEN symbol ELSE VPlus(sum[k - 1], VTimes(row[k], value[k]))
  IN sum[shape.n - 1]

\* The routines without a record work on the symbols of the columns, each
\* taking what the later columns of its pivot row have become.
Substituted ==
  LET value[j \in Col] == LeftOver(rows[pivot_for_col[j]], symbols[pivot_for_col[j]], j, value)
  IN value

Finish ==
  /\ phase = "eliminate" /\ col = shape.n /\ LeftOverRowsFit
  /\ phase' = IF kind = "triangular" THEN "back" ELSE "decoded"
  /\ decoded' = CASE kind = "record" -> [j \in Col |-> symbols[j]]
                  [] kind = "triangular" -> decoded
                  [] OTHER -> Substituted
  /\ UNCHANGED <<system, col, rows, symbols, pivot_for_col, ops>>

\* Faulty variant: the last column's batch is left out.
BatchesBelowLast(src) ==
  [dest \in {j \in 0 .. src - 1 : rows[j][src] # Zero /\ src # shape.n - 1} |-> rows[dest][src]]

\* What a column is added to, from the last column down: the rows keep the
\* entries they were eliminated to.
BackSubstitutionBatch(src) ==
  [dest \in {j \in 0 .. src - 1 : rows[j][src] # Zero} |-> rows[dest][src]]

ColumnsRemain == col > 0

BackSubstitute ==
  /\ phase = "back" /\ ColumnsRemain
  /\ LET factors == BackSubstitutionBatch(col - 1)
     IN /\ symbols' = IF symbols_are_zero THEN symbols
                      ELSE fused_add_batch(symbols, col - 1, factors)
        /\ ops' = ops \o FusedAddOps(col - 1, factors)
  /\ col' = col - 1
  /\ UNCHANGED <<system, phase, rows, pivot_for_col, decoded>>

AnswerTriangular ==
  /\ phase = "back" /\ col = 0
  /\ phase' = "decoded"
  /\ decoded' = [j \in Col |-> symbols[j]]
  /\ UNCHANGED <<system, col, rows, symbols, pivot_for_col, ops>>

Answered == phase \in {"decoded", "failed"} /\ UNCHANGED vars

Next ==
  \/ SolveRecording \/ SolveTriangular \/ SolveScanFirst \/ SolveScanLightest
  \/ SolveBucketed \/ SolveBinary \/ Undetermined \/ Inconsistent \/ Finish
  \/ BackSubstitute \/ AnswerTriangular \/ Answered
Spec == Init /\ [][Next]_vars

-----------------------------------------------------------------------------
TypeInv ==
  /\ phase \in {"eliminate", "back", "decoded", "failed"}
  /\ col \in 0 .. shape.n
  /\ rows \in [Row -> [Col -> F]]
  /\ symbols \in [Row -> [0 .. shape.n -> F]]
  /\ pivot_for_col \in [Col -> Row \cup {NoPivot}]

RowCoefficients(symbol) == [j \in Col |-> symbol[j]]

\* Until back substitution every symbol is the symbol of what its row has
\* become: swaps, scalings and additions reach both alike
\* (pi_solver.rs 8085-8151, 8331-8380, 8418-8453).
SymbolsFollowRows ==
  phase = "eliminate" /\ ~symbols_are_zero =>
    \A i \in Row : RowCoefficients(symbols[i]) = rows[i]

\* Columns that were passed are cleared: of the rows that are still to become
\* pivots none has an entry before the current column, so that the first
\* entry of a row is the one the search for a pivot looks at
\* (pi_solver.rs 8340, 8477-8532).
PassedColumnsCleared ==
  phase = "eliminate" =>
    \A i \in Row \ Pivoted : \A j \in Support(rows[i]) : j >= col

Replayed(s) ==
  LET after[k \in 0 .. Len(ops)] == IF k = 0 THEN s ELSE perform_op(after[k - 1], ops[k])
  IN after[Len(ops)]

\* The operations recorded are the whole solution: replayed on any symbols of
\* this system, though it was recorded on zeros, they give the columns in
\* their order (pi_solver.rs 8063-8265; operation_vector.rs 48-74).
ReplaySolves ==
  kind \in Recording /\ phase = "decoded" =>
    \A j \in Col : RowCoefficients(Replayed([i \in Row |-> Formal(i)])[j]) = VUnit(Col, j)

Dot(row, v) ==
  LET sum[k \in 0 .. shape.n] ==
        IF k = 0 THEN Zero ELSE FPlus(sum[k - 1], FTimes(row[k - 1], v[k - 1]))
  IN sum[shape.n]

\* Decoded symbols satisfy every row of the system, those to spare among them.
DecodedSatisfiesRows ==
  phase = "decoded" /\ ~symbols_are_zero =>
    \A i \in Row : Combination(matrix[i], decoded, shape.n) = received[i]

\* A routine gives up only on a system without exactly one solution.
FailsOnlyUndetermined ==
  phase = "failed" =>
    ~(/\ \A v \in [Col -> F] : v # VZero(Col) => \E i \in Row : Dot(matrix[i], v) # Zero
      /\ \E v \in [Col -> F] : \A i \in Row : Dot(matrix[i], v) = received[i][shape.n])
=============================================================================
