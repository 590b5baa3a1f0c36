--------------------------- MODULE BinaryHdpcSolve ---------------------------
(***************************************************************************)
(* Solving in two stages.  The binary rows are eliminated first, skipping  *)
(* columns without a pivot; the few columns left free are then found from  *)
(* the HDPC rows alone, and substituted back.  Five routines do this:      *)
(*   direct    a plan is made and replayed in place, square systems only   *)
(*   slab      a cached plan, replayed on a copy without the HDPC symbols  *)
(*   in_place  the same plan, replayed in place                            *)
(*   one_shot  rows and symbols are eliminated together, square systems    *)
(*   any       the same for systems with rows to spare                     *)
(*                                                                         *)
(* A symbol is a vector over the intermediate symbols, with one component  *)
(* more for an error in what was received: the symbol of a row is the row  *)
(* itself, plus the error.  A system is then solved if the symbol of every *)
(* column comes out as that column's unit vector.                          *)
(***************************************************************************)
EXTENDS Integers, Sequences, FiniteSets, SmallField, RowLayout
CONSTANT Shapes   \* records [n, s, h, bh, hdpc]: columns, LDPC, HDPC and
                  \* binary rows, and the HDPC rows to choose from

ShapesAssumption ==
  \A shape \in Shapes : shape.s <= shape.bh /\ shape.n > 0
                          /\ shape.hdpc \subseteq [0 .. shape.n - 1 -> F]

Planned == {"direct", "slab", "in_place"}
Kinds == Planned \cup {"one_shot", "any"}

VARIABLES shape, kind,
          matrix,        \* all rows, in the order of their symbols
          received,      \* the symbols that were passed in
          phase,         \* forward, hdpc, replay, free, back, or the outcome
          col,           \* the column being worked on
          rows,          \* the binary rows
          hdpc,          \* the HDPC rows
          pivot_for_col,
          forward,       \* a plan's forward steps
          updates,       \* a plan's HDPC updates
          symbols,
          decoded
vars == <<shape, kind, matrix, received, phase, col, rows, hdpc, pivot_for_col,
          forward, updates, symbols, decoded>>
system == <<shape, kind, matrix, received>>

Col == 0 .. shape.n - 1
BinaryRow == 0 .. shape.bh - 1
HdpcRow == 0 .. shape.h - 1
SymbolRow == 0 .. shape.bh + shape.h - 1
NoPivot == shape.bh
Square == shape.bh + shape.h = shape.n

\* Where the symbols of the two kinds of rows lie.
BinaryPlace(row) == mapped_binary_symbol_row(row, shape.s, shape.h)
HdpcPlace(row) == shape.s + row

Received(i, a, wrong) ==
  [j \in 0 .. shape.n |->
     IF j < shape.n THEN a[i][j] ELSE IF i \in wrong THEN One ELSE Zero]

Init ==
  /\ shape \in Shapes
  /\ kind \in IF Square THEN Kinds ELSE {"any"}
  /\ \E binary \in [BinaryRow -> [Col -> {Zero, One}]], dense \in [HdpcRow -> shape.hdpc] :
       /\ rows = binary
       /\ hdpc = dense
       /\ matrix = [i \in SymbolRow |->
            IF \E r \in HdpcRow : HdpcPlace(r) = i THEN dense[i - shape.s]
            ELSE binary[IF i < shape.s THEN i ELSE i - shape.h]]
  /\ \E wrong \in {{}} \cup IF Square THEN {} ELSE {{i} : i \in SymbolRow} :
       received = [i \in SymbolRow |-> Received(i, matrix, wrong)]
  /\ symbols = received
  /\ phase = "forward" /\ col = 0
  /\ pivot_for_col = [j \in Col |-> NoPivot]
  /\ forward = <<>> /\ updates = <<>> /\ decoded = <<>>

Pivoted == {pivot_for_col[j] : j \in Col} \ {NoPivot}
FreeCols == {j \in Col : pivot_for_col[j] = NoPivot}

-----------------------------------------------------------------------------
(***************************************************************************)
(* The binary stage.                                                       *)
(***************************************************************************)
Bucket == {i \in BinaryRow \ Pivoted : Support(rows[i]) # {} /\ LeadingColumn(rows[i]) = col}
Weight(i) == Cardinality(Support(rows[i]))
Lightest(bucket) == {i \in bucket : \A k \in bucket : Weight(i) <= Weight(k)}

\* The symbols of the rows in dests get the symbol of the pivot row added.
AddBinary(from, pivot, dests) ==
  [i \in SymbolRow |->
     IF \E row \in dests : BinaryPlace(row) = i
     THEN VPlus(from[i], from[BinaryPlace(pivot)]) ELSE from[i]]

Dests(pivot) == Bucket \ {pivot}

\* Rows that begin in the column are eliminated with the lightest of them.
EliminateColumn(pivot) ==
  /\ phase = "forward" /\ col < shape.n
  /\ pivot_for_col' = [pivot_for_col EXCEPT ![col] = pivot]
  /\ rows' = [i \in BinaryRow |->
                IF i \in Dests(pivot) THEN VPlus(rows[i], rows[pivot]) ELSE rows[i]]
  /\ col' = col + 1
  /\ UNCHANGED <<system, phase, hdpc, updates, decoded>>

RecordForward ==
  \E pivot \in Lightest(Bucket) :
    /\ EliminateColumn(pivot)
    /\ forward' = Append(forward, [pivot |-> pivot, dests |-> Dests(pivot)])
    /\ UNCHANGED symbols

ApplyForward ==
  \E pivot \in Lightest(Bucket) :
    /\ EliminateColumn(pivot)
    /\ symbols' = AddBinary(symbols, pivot, Dests(pivot))
    /\ UNCHANGED forward

ForwardDirect == kind = "direct" /\ RecordForward
ForwardHybrid == kind \in {"slab", "in_place"} /\ RecordForward
ForwardOneShot == kind = "one_shot" /\ ApplyForward
ForwardAny == kind = "any" /\ ApplyForward

FreeColumn ==
  /\ phase = "forward" /\ col < shape.n /\ Bucket = {}
  /\ col' = col + 1
  /\ UNCHANGED <<system, phase, rows, hdpc, pivot_for_col, forward, updates, symbols, decoded>>

ZeroSymbol(v) == Support(v) = {}

\* What is left of the rows that are no pivots: a plan for any symbols has
\* none (direct) or empty ones, the others need their symbols to vanish too.
LeftOverRowsFit ==
  \A i \in BinaryRow \ Pivoted :
    /\ kind # "direct"
    /\ Support(rows[i]) = {}
    /\ kind \in Planned \/ ZeroSymbol(symbols[BinaryPlace(i)])

\* Faulty variant: as many free columns as HDPC rows are too many.
FewerFreeThanHdpc == Cardinality(FreeCols) < shape.h

FreeColumnsFit == Cardinality(FreeCols) <= shape.h

OverdeterminedBinary == kind = "any" /\ shape.bh + shape.h > shape.n /\ FreeCols = {}

\* With every column found the HDPC rows are only a check, made at the end.
BinaryDone ==
  /\ phase = "forward" /\ col = shape.n
  /\ LeftOverRowsFit /\ FreeColumnsFit
  /\ IF OverdeterminedBinary
     THEN /\ phase' = "back" /\ col' = shape.n
          /\ decoded' = [j \in Col |-> symbols[BinaryPlace(pivot_for_col[j])]]
     ELSE /\ phase' = "hdpc" /\ col' = 0 /\ UNCHANGED decoded
  /\ UNCHANGED <<system, rows, hdpc, pivot_for_col, forward, updates, symbols>>

BinaryFails ==
  /\ phase = "forward" /\ col = shape.n
  /\ ~(LeftOverRowsFit /\ FreeColumnsFit)
  /\ phase' = "failed"
  /\ UNCHANGED <<system, col, rows, hdpc, pivot_for_col, forward, updates, symbols, decoded>>

-----------------------------------------------------------------------------
(***************************************************************************)
(* The HDPC stage: pivot columns are eliminated from the HDPC rows.        *)
(***************************************************************************)
AddScaledHdpc(from, pivot, factors) ==
  [i \in SymbolRow |->
     IF i \in {HdpcPlace(r) : r \in HdpcRow}
     THEN VPlus(from[i], VTimes(factors[i - shape.s], from[BinaryPlace(pivot)]))
     ELSE from[i]]

Factors(c) == [r \in HdpcRow |-> hdpc[r][c]]

Cleared(r) == Zero

\* The column is cleared, and the columns after it in the pivot row get the
\* factors added.
ClearColumn ==
  /\ phase = "hdpc" /\ col < shape.n /\ col \notin FreeCols
  /\ hdpc' = [r \in HdpcRow |->
       [j \in Col |-> IF j = col THEN Cleared(r)
                      ELSE IF j > col /\ rows[pivot_for_col[col]][j] = One
                      THEN FPlus(hdpc[r][j], Factors(col)[r]) ELSE hdpc[r][j]]]
  /\ col' = col + 1
  /\ UNCHANGED <<system, phase, rows, pivot_for_col, forward, decoded>>

RecordUpdate ==
  /\ ClearColumn
  /\ updates' = Append(updates, [pivot |-> pivot_for_col[col], factors |-> Factors(col)])
  /\ UNCHANGED symbols

ApplyUpdate ==
  /\ ClearColumn
  /\ symbols' = AddScaledHdpc(symbols, pivot_for_col[col], Factors(col))
  /\ UNCHANGED updates

HdpcDirect == kind = "direct" /\ RecordUpdate
HdpcHybrid == kind \in {"slab", "in_place"} /\ RecordUpdate
HdpcOneShot == kind = "one_shot" /\ ApplyUpdate
HdpcAny == kind = "any" /\ ApplyUpdate

HdpcFreeColumn ==
  /\ phase = "hdpc" /\ col \in FreeCols
  /\ col' = col + 1
  /\ UNCHANGED <<system, phase, rows, hdpc, pivot_for_col, forward, updates, symbols, decoded>>

HdpcDone ==
  /\ phase = "hdpc" /\ col = shape.n
  /\ phase' = IF kind \in Planned THEN "replay" ELSE "free"
  /\ UNCHANGED <<system, col, rows, hdpc, pivot_for_col, forward, updates, symbols, decoded>>

\* A plan is replayed: the forward steps, then the HDPC updates.
ReplayForward ==
  LET after[k \in 0 .. Len(forward)] ==
        IF k = 0 THEN symbols
        ELSE AddBinary(after[k - 1], forward[k].pivot, forward[k].dests)
  IN after[Len(forward)]
ReplayUpdates(from) ==
  LET after[k \in 0 .. Len(updates)] ==
        IF k = 0 THEN from
        ELSE AddScaledHdpc(after[k - 1], updates[k].pivot, updates[k].factors)
  IN after[Len(updates)]

Replay ==
  /\ phase = "replay"
  /\ symbols' = ReplayUpdates(ReplayForward)
  /\ phase' = "free"
  /\ UNCHANGED <<system, col, rows, hdpc, pivot_for_col, forward, updates, decoded>>

-----------------------------------------------------------------------------
(***************************************************************************)
(* The free columns, and back substitution.                                *)
(***************************************************************************)
\* The coefficients of the free columns in the HDPC rows.
FreeRows == [r \in HdpcRow |-> [j \in FreeCols |-> hdpc[r][j]]]

DotFree(row, values) ==
  LET sum[J \in SUBSET FreeCols] ==
        IF J = {} THEN Zero
        ELSE LET j == CHOOSE j \in J : TRUE IN FPlus(FTimes(row[j], values[j]), sum[J \ {j}])
  IN sum[FreeCols]

\* Solutions of the free rows for one component of the symbols.
FreeSolutions(i) ==
  {values \in [FreeCols -> F] :
     \A r \in HdpcRow : DotFree(FreeRows[r], values) = symbols[HdpcPlace(r)][i]}

FreeDetermined == \A i \in 0 .. shape.n : Cardinality(FreeSolutions(i)) = 1

FreeValue(j) == [i \in 0 .. shape.n |-> (CHOOSE values \in FreeSolutions(i) : TRUE)[j]]

PivotSymbol(j) == symbols[BinaryPlace(pivot_for_col[j])]

FindColumns ==
  /\ phase = "free" /\ FreeDetermined
  /\ decoded' = [j \in Col |-> IF j \in FreeCols THEN FreeValue(j) ELSE PivotSymbol(j)]
  /\ phase' = "back" /\ col' = shape.n
  /\ UNCHANGED <<system, rows, hdpc, pivot_for_col, forward, updates, symbols>>

\* In place the symbols are moved along cycles, on a slab they are copied.
SolveFreeDirect == kind = "direct" /\ FindColumns
SolveFreeSlab == kind = "slab" /\ FindColumns
SolveFreeInPlace == kind = "in_place" /\ FindColumns
SolveFreeOneShot == kind = "one_shot" /\ FindColumns
SolveFreeAny == kind = "any" /\ FindColumns

FreeFails ==
  /\ phase = "free" /\ ~FreeDetermined
  /\ phase' = "failed"
  /\ UNCHANGED <<system, col, rows, hdpc, pivot_for_col, forward, updates, symbols, decoded>>

\* Columns whose pivot row has column c, and the columns in c's pivot row.
DestsBySource(c) ==
  {j \in Col \ FreeCols : j < c /\ rows[pivot_for_col[j]][c] = One}
SourcesByDest(c) ==
  IF c \in FreeCols THEN {} ELSE {j \in Support(rows[pivot_for_col[c]]) : j > c}

\* The direct plan has either layout, by its width; the routine for any
\* system reads rows, the others scatter columns.
ScattersColumn == kind \in Planned \cup {"one_shot"}
GathersColumn == kind \in {"direct", "any"}

ScatterColumn ==
  /\ phase = "back" /\ col > 0 /\ ScattersColumn
  /\ decoded' = [j \in Col |->
       IF j \in DestsBySource(col - 1) THEN VPlus(decoded[j], decoded[col - 1]) ELSE decoded[j]]
  /\ col' = col - 1
  /\ UNCHANGED <<system, phase, rows, hdpc, pivot_for_col, forward, updates, symbols>>

GatherColumns ==
  /\ phase = "back" /\ col = shape.n /\ GathersColumn
  /\ LET value[j \in Col] ==
           LET sum[J \in SUBSET SourcesByDest(j)] ==
                 IF J = {} THEN decoded[j]
                 ELSE LET k == CHOOSE k \in J : TRUE IN VPlus(value[k], sum[J \ {k}])
           IN sum[SourcesByDest(j)]
     IN decoded' = [j \in Col |-> value[j]]
  /\ col' = 0
  /\ UNCHANGED <<system, phase, rows, hdpc, pivot_for_col, forward, updates, symbols>>

\* The code compares with zero, which is what a decoder's HDPC symbols are.
hdpc_rows_satisfied ==
  \A r \in HdpcRow :
    Combination(matrix[HdpcPlace(r)], decoded, shape.n) = received[HdpcPlace(r)]

Answer ==
  /\ phase = "back" /\ col = 0
  /\ phase' = IF OverdeterminedBinary /\ ~hdpc_rows_satisfied THEN "failed" ELSE "decoded"
  /\ UNCHANGED <<system, col, rows, hdpc, pivot_for_col, forward, updates, symbols, decoded>>

Answered == phase \in {"decoded", "failed"} /\ UNCHANGED vars

Next ==
  \/ ForwardDirect \/ ForwardHybrid \/ ForwardOneShot \/ ForwardAny
  \/ FreeColumn \/ BinaryDone \/ BinaryFails
  \/ HdpcDirect \/ HdpcHybrid \/ HdpcOneShot \/ HdpcAny
  \/ HdpcFreeColumn \/ HdpcDone \/ Replay
  \/ SolveFreeDirect \/ SolveFreeSlab \/ SolveFreeInPlace \/ SolveFreeOneShot
  \/ SolveFreeAny \/ FreeFails \/ ScatterColumn \/ GatherColumns \/ Answer \/ Answered
Spec == Init /\ [][Next]_vars

-----------------------------------------------------------------------------
TypeInv ==
  /\ phase \in {"forward", "hdpc", "replay", "free", "back", "decoded", "failed"}
  /\ col \in 0 .. shape.n
  /\ rows \in [BinaryRow -> [Col -> {Zero, One}]]
  /\ hdpc \in [HdpcRow -> [Col -> F]]
  /\ pivot_for_col \in [Col -> BinaryRow \cup {NoPivot}]
  /\ \A k \in DOMAIN forward : forward[k].pivot \notin forward[k].dests

Coefficients(symbol) == [j \in Col |-> symbol[j]]

\* Where rows and symbols are eliminated together, and wherever a plan has
\* been replayed, every symbol is the symbol of what its row has become: what
\* was done to the rows has been done to the symbols, in an order that gives
\* the same (pi_solver.rs 1987-2055, 2424-2548, 2693-2755, 6883-6945).
SymbolsFollowRows ==
  (kind \notin Planned /\ phase \in {"forward", "hdpc"}) \/ phase = "free" =>
    /\ \A i \in BinaryRow : Coefficients(symbols[BinaryPlace(i)]) = rows[i]
    /\ \A r \in HdpcRow : Coefficients(symbols[HdpcPlace(r)]) = hdpc[r]

\* A column that the HDPC stage has passed stays cleared, so that in the end
\* the HDPC rows have entries in free columns only and the free columns can be
\* found from them alone: the early return for an entry elsewhere is never
\* taken (pi_solver.rs 6810, 7249).
FreeColumnsOnly ==
  /\ phase = "hdpc" => \A r \in HdpcRow : \A j \in Support(hdpc[r]) : j \in FreeCols \/ j >= col
  /\ phase = "free" => \A r \in HdpcRow : Support(hdpc[r]) \subseteq FreeCols

\* Decoded symbols satisfy every row of the system, those that were not
\* needed for pivots among them.
DecodedSatisfiesRows ==
  phase = "decoded" =>
    \A i \in SymbolRow : Combination(matrix[i], decoded, shape.n) = received[i]

FullRank ==
  \A v \in [Col -> F] : v # VZero(Col) =>
    \E i \in SymbolRow :
      LET dot[k \in 0 .. shape.n] ==
            IF k = 0 THEN Zero ELSE FPlus(dot[k - 1], FTimes(matrix[i][k - 1], v[k - 1]))
      IN dot[shape.n] # Zero

\* One error at most was made; rows without it determine the columns or the
\* error does not show.
Consistent ==
  \E v \in [Col -> F] : \A i \in SymbolRow :
    LET dot[k \in 0 .. shape.n] ==
          IF k = 0 THEN Zero ELSE FPlus(dot[k - 1], FTimes(matrix[i][k - 1], v[k - 1]))
    IN dot[shape.n] = received[i][shape.n]

\* Whichever routine it is, it gives up only on a system that does not have
\* exactly one solution: no order of stages loses a solution.
FailsOnlyUndetermined == phase = "failed" => ~(FullRank /\ Consistent)
=============================================================================
