----------------------------- MODULE PrefixSolve -----------------------------
(***************************************************************************)
(* Solving without HDPC rows when there are rows to spare: a prefix of the *)
(* rows is eliminated first, and the rows behind it are only compared with *)
(* what it gives.  If the prefix leaves a column without pivot, all rows   *)
(* are solved instead, from the symbols as they were received.             *)
(*   borrowed   the prefix is eliminated in the slab that was passed in    *)
(*   split      the symbols behind it are split off the slab meanwhile     *)
(*   copied     the prefix is solved on a copy of its symbols              *)
(* A symbol is its row and one component for errors, as in BinaryHdpcSolve.*)
(***************************************************************************)
EXTENDS Integers, Sequences, FiniteSets, SmallField
CONSTANT Shapes   \* records [n, height, extra, rows, hdpc]: columns, rows, rows
                  \* of the prefix past n, rows to choose from, and HDPC rows

ShapesAssumption ==
  \A shape \in Shapes :
    /\ shape.n \in Nat \ {0} /\ shape.height \in Nat /\ shape.extra \in Nat \ {0}
    /\ shape.height >= shape.n
    /\ shape.rows \subseteq [0 .. shape.n - 1 -> {Zero, One}]
    /\ shape.hdpc \subseteq [0 .. shape.n - 1 -> F]

Owned == {"borrowed", "split"}
Kinds == Owned \cup {"copied"}

VARIABLES shape, kind,
          matrix,      \* the rows of the system
          received,    \* its symbols
          phase,       \* start, forward, restore, check, whole, or the outcome
          col,
          rows,        \* the prefix, as it is eliminated
          symbols,     \* the slab
          suffix,      \* what was split off it
          pivot_for_col,
          forward,     \* the rows each column's pivot was added to
          decoded
vars == <<shape, kind, matrix, received, phase, col, rows, symbols, suffix,
          pivot_for_col, forward, decoded>>
system == <<shape, kind, matrix, received>>

Col == 0 .. shape.n - 1
Row == 0 .. shape.height - 1
NoPivot == shape.height

overdetermined_no_hdpc_prefix_height ==
  IF shape.n + shape.extra < shape.height THEN shape.n + shape.extra ELSE shape.height
Prefix == 0 .. overdetermined_no_hdpc_prefix_height - 1
SuffixLen == shape.height - overdetermined_no_hdpc_prefix_height

Symbol(row, error) == [j \in 0 .. shape.n |-> IF j < shape.n THEN row[j] ELSE error]

\* Matrices come with their rows in every order, so that the first and the last
\* row stand for any before and behind the end of the prefix.
Init ==
  /\ shape \in Shapes /\ kind \in Kinds
  /\ matrix \in [Row -> shape.rows]
  /\ \E wrong \in {{}, {0}, {shape.height - 1}} :
       received = [i \in Row |-> Symbol(matrix[i], IF i \in wrong THEN One ELSE Zero)]
  /\ symbols = received /\ suffix = <<>>
  /\ rows = [i \in Prefix |-> matrix[i]]
  /\ phase = "start" /\ col = 0
  /\ pivot_for_col = [j \in Col |-> NoPivot]
  /\ forward = <<>> /\ decoded = <<>>

PrefixIsWhole ==
  /\ phase = "start" /\ SuffixLen = 0
  /\ phase' = "whole"
  /\ UNCHANGED <<system, col, rows, symbols, suffix, pivot_for_col, forward, decoded>>

Borrow ==
  /\ phase = "start" /\ SuffixLen > 0 /\ kind = "borrowed"
  /\ phase' = "forward"
  /\ UNCHANGED <<system, col, rows, symbols, suffix, pivot_for_col, forward, decoded>>

SplitOff ==
  /\ phase = "start" /\ SuffixLen > 0 /\ kind = "split"
  /\ symbols' = [i \in Prefix |-> symbols[i]]
  /\ suffix' =
       [i \in 0 .. SuffixLen - 1 |-> symbols[overdetermined_no_hdpc_prefix_height + i]]
  /\ phase' = "forward"
  /\ UNCHANGED <<system, col, rows, pivot_for_col, forward, decoded>>

-----------------------------------------------------------------------------
(***************************************************************************)
(* Elimination of the prefix, and its way back.                            *)
(***************************************************************************)
Pivoted == {pivot_for_col[j] : j \in Col} \ {NoPivot}
Bucket == {i \in Prefix \ Pivoted : Support(rows[i]) # {} /\ LeadingColumn(rows[i]) = col}
Weight(i) == Cardinality(Support(rows[i]))
Lightest(bucket) == {i \in bucket : \A k \in bucket : Weight(i) <= Weight(k)}

AddRow(from, pivot, dests) ==
  [i \in DOMAIN from |-> IF i \in dests THEN VPlus(from[i], from[pivot]) ELSE from[i]]

EliminateColumn ==
  /\ phase = "forward" /\ col < shape.n
  /\ \E pivot \in Lightest(Bucket) :
       LET dests == Bucket \ {pivot}
       IN /\ pivot_for_col' = [pivot_for_col EXCEPT ![col] = pivot]
          /\ rows' = AddRow(rows, pivot, dests)
          /\ symbols' = AddRow(symbols, pivot, dests)
          /\ forward' = Append(forward, dests)
  /\ col' = col + 1
  /\ UNCHANGED <<system, phase, suffix, decoded>>

\* With a column that no row begins with the prefix is given up.
RankDeficient ==
  /\ phase = "forward" /\ col < shape.n /\ Bucket = {}
  /\ phase' = "restore"
  /\ UNCHANGED <<system, col, rows, symbols, suffix, pivot_for_col, forward, decoded>>

\* Faulty variant: what was done first is undone first.
FirstDoneFirst == Len(forward) - col

LastDoneFirst == col - 1

\* restore_binary_forward_symbols: adding once more undoes an addition.
RestoreColumn ==
  /\ phase = "restore" /\ col > 0
  /\ symbols' = AddRow(symbols, pivot_for_col[LastDoneFirst], forward[LastDoneFirst + 1])
  /\ col' = col - 1
  /\ UNCHANGED <<system, phase, rows, suffix, pivot_for_col, forward, decoded>>

Rejoined ==
  IF kind = "split"
  THEN [i \in Row |-> IF i \in Prefix THEN symbols[i]
                      ELSE suffix[i - overdetermined_no_hdpc_prefix_height]]
  ELSE symbols

FallBack ==
  /\ phase = "restore" /\ col = 0
  /\ symbols' = Rejoined
  /\ phase' = "whole"
  /\ UNCHANGED <<system, col, rows, suffix, pivot_for_col, forward, decoded>>

\* Rows to spare must have come to nothing, and so must their symbols.
SpareRowsVanish ==
  \A i \in Prefix \ Pivoted : Support(rows[i]) = {} /\ Support(symbols[i]) = {}

PrefixContradicts ==
  /\ phase = "forward" /\ col = shape.n /\ ~SpareRowsVanish
  /\ phase' = "failed"
  /\ UNCHANGED <<system, col, rows, symbols, suffix, pivot_for_col, forward, decoded>>

\* What is left of a pivot's symbol when the solved columns behind are taken out.
Remaining(row, symbol, j, value) ==
  LET sum[k \in j .. shape.n - 1] ==
        IF k = j THEN symbol
        ELSE IF row[k] = One THEN VPlus(sum[k - 1], value[k]) ELSE sum[k - 1]
  IN sum[shape.n - 1]

BackSubstituted ==
  LET value[j \in Col] == Remaining(rows[pivot_for_col[j]], symbols[pivot_for_col[j]], j, value)
  IN value

SubstituteBack ==
  /\ phase = "forward" /\ col = shape.n /\ SpareRowsVanish
  /\ decoded' = BackSubstituted
  /\ phase' = "check"
  /\ UNCHANGED <<system, col, rows, symbols, suffix, pivot_for_col, forward>>

-----------------------------------------------------------------------------
(***************************************************************************)
(* What a solution is compared with.                                       *)
(***************************************************************************)
\* The HDPC symbol is zero: the symbol of its row without an error.
hdpc_rows_satisfied(solution) ==
  \A row \in shape.hdpc : Combination(row, solution, shape.n) = Symbol(row, Zero)

\* A slab with as many symbols as the suffix has holds only those.
binary_row_suffixes_satisfied(solution, row_symbols) ==
  LET offset == IF Cardinality(DOMAIN row_symbols) = SuffixLen
                THEN overdetermined_no_hdpc_prefix_height ELSE 0
  IN \A i \in Row \ Prefix :
       Combination(matrix[i], solution, shape.n) = row_symbols[i - offset]

Check ==
  /\ phase = "check"
  /\ LET row_symbols == IF kind = "split" THEN suffix ELSE symbols
         satisfied == /\ hdpc_rows_satisfied(decoded)
                      /\ binary_row_suffixes_satisfied(decoded, row_symbols)
     IN phase' = IF satisfied THEN "decoded" ELSE "failed"
  /\ UNCHANGED <<system, col, rows, symbols, suffix, pivot_for_col, forward, decoded>>

-----------------------------------------------------------------------------
(***************************************************************************)
(* solve_binary, as RowElimination shows it: the solution, if it is one.   *)
(* Additions act on each component of the symbols alone.                   *)
(***************************************************************************)
Parity(row, x) == Cardinality({j \in Col : row[j] = One /\ x[j] = One}) % 2

Solutions(I, from, k) ==
  {x \in [Col -> {Zero, One}] : \A i \in I : Parity(matrix[i], x) = from[i][k]}

Solvable(I, from) == \A k \in 0 .. shape.n : Cardinality(Solutions(I, from, k)) = 1

Solution(I, from) ==
  LET component == [k \in 0 .. shape.n |-> CHOOSE x \in Solutions(I, from, k) : TRUE]
  IN [j \in Col |-> [k \in 0 .. shape.n |-> component[k][j]]]

CopyDecodes ==
  /\ Solvable(Prefix, symbols)
  /\ LET solution == Solution(Prefix, symbols)
     IN hdpc_rows_satisfied(solution) /\ binary_row_suffixes_satisfied(solution, symbols)

SolveCopy ==
  /\ phase = "start" /\ SuffixLen > 0 /\ kind = "copied"
  /\ IF CopyDecodes
     THEN phase' = "decoded" /\ decoded' = Solution(Prefix, symbols)
     ELSE phase' = "whole" /\ UNCHANGED decoded
  /\ UNCHANGED <<system, col, rows, symbols, suffix, pivot_for_col, forward>>

\* verify_no_hdpc_solution compares with the HDPC rows whatever the height is: that
\* there are rows to spare only says whether it keeps what it generated for the next
\* comparison (cache_verify_row_pairs).
SolveWhole ==
  /\ phase = "whole"
  /\ IF Solvable(Row, symbols) /\ hdpc_rows_satisfied(Solution(Row, symbols))
     THEN phase' = "decoded" /\ decoded' = Solution(Row, symbols)
     ELSE phase' = "failed" /\ UNCHANGED decoded
  /\ UNCHANGED <<system, col, rows, symbols, suffix, pivot_for_col, forward>>

Answered == phase \in {"decoded", "failed"} /\ UNCHANGED vars

Next ==
  \/ PrefixIsWhole \/ Borrow \/ SplitOff \/ EliminateColumn \/ RankDeficient
  \/ RestoreColumn \/ FallBack \/ PrefixContradicts \/ SubstituteBack \/ Check
  \/ SolveCopy \/ SolveWhole \/ Answered
Spec == Init /\ [][Next]_vars

-----------------------------------------------------------------------------
TypeInv ==
  /\ phase \in {"start", "forward", "restore", "check", "whole", "decoded", "failed"}
  /\ col \in 0 .. shape.n /\ Len(forward) <= shape.n
  /\ pivot_for_col \in [Col -> Prefix \cup {NoPivot}]
  /\ DOMAIN symbols \in {Prefix, Row}

\* However far the prefix was eliminated, the solver of all rows finds every
\* symbol as it was received, in its place (pi_solver.rs 5345-5361, 5400-5428,
\* 5671-5687).
WholeFromReceived == phase = "whole" => symbols = received

\* What is decoded satisfies all rows, those behind the prefix and the HDPC
\* rows included (pi_solver.rs 5435-5443, 5718-5777).
DecodedSatisfiesAll ==
  phase = "decoded" =>
    /\ \A i \in Row : Combination(matrix[i], decoded, shape.n) = received[i]
    /\ hdpc_rows_satisfied(decoded)

\* Going by the prefix first gives up no system that all rows would solve: no
\* failure if they have one solution, and the HDPC rows agree with it
\* (pi_solver.rs 5337-5378).
FailsOnlyUnsolvable ==
  phase = "failed" =>
    ~(Solvable(Row, received) /\ hdpc_rows_satisfied(Solution(Row, received)))
=============================================================================
