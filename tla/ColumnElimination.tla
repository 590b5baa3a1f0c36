-------------------------- MODULE ColumnElimination --------------------------
(***************************************************************************)
(* What buckets of rows are for, without the buckets: in every column the  *)
(* lightest row that begins there becomes the pivot, and all others that   *)
(* begin there are cleared with it.                                        *)
(***************************************************************************)
EXTENDS Integers, FiniteSets, SmallField
CONSTANTS Row, Col
VARIABLES rows, col, pivot_for_col
vars == <<rows, col, pivot_for_col>>

NoPivot == -1
Pivoted == {pivot_for_col[j] : j \in Col} \ {NoPivot}
BeginHere == {i \in Row \ Pivoted : Support(rows[i]) # {} /\ LeadingColumn(rows[i]) = col}
Weight(i) == Cardinality(Support(rows[i]))
Normal(i) == VTimes(FInverse(rows[i][col]), rows[i])

EliminateColumn ==
  /\ col \in Col
  /\ \E pivot \in BeginHere :
       /\ \A i \in BeginHere : Weight(pivot) <= Weight(i)
       /\ pivot_for_col' = [pivot_for_col EXCEPT ![col] = pivot]
       /\ rows' = [i \in Row |->
            IF i = pivot THEN Normal(pivot)
            ELSE IF i \in BeginHere THEN VPlus(rows[i], VTimes(rows[i][col], Normal(pivot)))
            ELSE rows[i]]
  /\ col' = col + 1

\* A column may be left without a pivot if no row begins there.
PassOver ==
  /\ col \in Col /\ BeginHere = {}
  /\ col' = col + 1
  /\ UNCHANGED <<rows, pivot_for_col>>

Init == rows \in [Row -> [Col -> F]] /\ col = 0 /\ pivot_for_col = [j \in Col |-> NoPivot]
Next == EliminateColumn \/ PassOver
Spec == Init /\ [][Next]_vars
=============================================================================
