----------------------------- MODULE PivotMoves -----------------------------
(***************************************************************************)
(* Moving the symbols of the pivot rows to the places of their columns.    *)
(* Elimination leaves the symbol of a column at the place of the row that  *)
(* was its pivot.  The moves are planned once, as lists of places, and     *)
(* replayed in place on a slab with one scratch symbol.  The direct plan   *)
(* moves some of the symbols, along chains that may end at a place nobody  *)
(* needs; the square and the hybrid plan permute all of them, in cycles.   *)
(***************************************************************************)
EXTENDS Integers, Sequences, FiniteSets, FiniteSetsExt, RowLayout
CONSTANTS W,     \* columns, and places of the slab
          S, H,  \* LDPC and HDPC rows
          None   \* no place, no symbol

MovesAssumption ==
  W \in Nat \ {0} /\ S \in Nat /\ H \in Nat /\ S + H <= W /\ None \notin 0 .. W

Place == 0 .. W - 1
BinaryRow == 0 .. W - H - 1

VARIABLES kind,     \* the plan that is made: direct, square or hybrid
          dest,     \* the column whose symbol lies at a place, or None
          visited,  \* places that a planned move takes a symbol from
          walk,     \* the move that is being planned
          moves,    \* the moves that have been planned
          phase,    \* planning or replaying
          replay,   \* the places of the running move still to touch, and the
                    \* moves after it
          scratch,  \* the scratch symbol
          symbols   \* the slab; a symbol is named by the place it began at
vars == <<kind, dest, visited, walk, moves, phase, replay, scratch, symbols>>

Injective(f) == \A a, b \in DOMAIN f : a # b => f[a] # f[b]

\* Where each place's symbol goes, from the pivot row of each column; the
\* direct plan has binary pivots for some of the columns.
DirectDestinations(pivot_for_col) ==
  [place \in Place |->
     IF \E col \in DOMAIN pivot_for_col :
          mapped_binary_symbol_row(pivot_for_col[col], S, H) = place
     THEN CHOOSE col \in DOMAIN pivot_for_col :
            mapped_binary_symbol_row(pivot_for_col[col], S, H) = place
     ELSE None]

\* The square plan has a pivot, among all the rows, for every column.
SquareDestinations(pivot_for_col) ==
  [place \in Place |-> CHOOSE col \in Place : pivot_for_col[col] = place]

\* The hybrid plan puts the free columns, in order, at the HDPC places, and
\* gives up in-place replay when the symbols do not fill the slab exactly.
HybridDestinations(pivots, free_cols) ==
  LET binary == DirectDestinations(pivots)
  IN [place \in Place |->
        IF place \in S .. S + Len(free_cols) - 1 THEN free_cols[place - S + 1]
                                                 ELSE binary[place]]

\* The columns without a pivot, in order.
FreeColumns(pivots) ==
  LET free[n \in 0 .. W] ==
        IF n = 0 THEN <<>>
        ELSE IF n - 1 \in DOMAIN pivots THEN free[n - 1] ELSE Append(free[n - 1], n - 1)
  IN free[W]

HybridMovesInPlace(pivots) ==
  /\ Cardinality(Place \ DOMAIN pivots) = H
  /\ \A place \in Place : HybridDestinations(pivots, FreeColumns(pivots))[place] # None

Injections(A, B) == {f \in [A -> B] : Injective(f)}
Pivotings(rows) == UNION {Injections(cols, rows) : cols \in SUBSET Place}

Init ==
  /\ \/ kind = "direct" /\ \E p \in Pivotings(BinaryRow) : dest = DirectDestinations(p)
     \/ kind = "square" /\ \E p \in Injections(Place, Place) : dest = SquareDestinations(p)
     \/ /\ kind = "hybrid"
        /\ \E p \in Pivotings(BinaryRow) :
             HybridMovesInPlace(p) /\ dest = HybridDestinations(p, FreeColumns(p))
  /\ visited = {} /\ walk = <<>> /\ moves = <<>>
  /\ phase = "planning" /\ replay = <<>> /\ scratch = None
  /\ symbols = [place \in Place |-> place]

Sources == {place \in Place : dest[place] # None}
Planning == phase = "planning"

\* Faulty variant: a walk through a place visited before goes on.
WalkEndsAtStart(next) == dest[next] = None \/ next = Head(walk)

\* A walk ends at a place without a destination, or back where a symbol has
\* been taken from already.
WalkEnds(next) == dest[next] = None \/ next \in visited

Reached == walk[Len(walk)]

\* The next move starts at the first place that has not been visited.
StartMove ==
  /\ Planning /\ walk = <<>> /\ Sources \ visited # {}
  /\ LET source == Min(Sources \ visited)
     IN walk' = <<source>> /\ visited' = visited \cup {source}
  /\ UNCHANGED <<kind, dest, moves, phase, replay, scratch, symbols>>

FollowMove ==
  /\ Planning /\ walk # <<>>
  /\ ~WalkEnds(dest[Reached])
  /\ walk' = Append(walk, dest[Reached])
  /\ visited' = visited \cup {dest[Reached]}
  /\ UNCHANGED <<kind, dest, moves, phase, replay, scratch, symbols>>

\* The whole move: its last place is where the scratch symbol ends.
Closed(places, next) == Append(places, next)

Trivial(move) == Len(move) = 2 /\ move[1] = move[2]

EndMove ==
  /\ Planning /\ walk # <<>>
  /\ WalkEnds(dest[Reached])
  /\ LET move == Closed(walk, dest[Reached])
     IN moves' = IF Trivial(move) THEN moves ELSE Append(moves, move)
  /\ walk' = <<>>
  /\ UNCHANGED <<kind, dest, visited, phase, replay, scratch, symbols>>

StartReplay ==
  /\ Planning /\ walk = <<>> /\ Sources \subseteq visited
  /\ phase' = "replaying" /\ replay' = moves
  /\ UNCHANGED <<kind, dest, visited, walk, moves, scratch, symbols>>

\* scratch.copy_from_slice: the move begins.
LoadScratch ==
  /\ ~Planning /\ replay # <<>> /\ scratch = None
  /\ scratch' = symbols[Head(Head(replay))]
  /\ replay' = <<Tail(Head(replay))>> \o Tail(replay)
  /\ UNCHANGED <<kind, dest, visited, walk, moves, phase, symbols>>

Swapped(place) == [symbols EXCEPT ![place] = scratch]

\* scratch.swap_with_slice at a place in the middle of the move.
SwapMiddle ==
  /\ ~Planning /\ replay # <<>> /\ scratch # None /\ Len(Head(replay)) > 1
  /\ LET place == Head(Head(replay))
     IN /\ scratch' = symbols[place]
        /\ symbols' = Swapped(place)
  /\ replay' = <<Tail(Head(replay))>> \o Tail(replay)
  /\ UNCHANGED <<kind, dest, visited, walk, moves, phase>>

Stored(place) == [symbols EXCEPT ![place] = scratch]

StoreLast ==
  /\ ~Planning /\ replay # <<>> /\ scratch # None /\ Len(Head(replay)) = 1
  /\ symbols' = Stored(Head(Head(replay)))
  /\ scratch' = None
  /\ replay' = Tail(replay)
  /\ UNCHANGED <<kind, dest, visited, walk, moves, phase>>

Moved == ~Planning /\ replay = <<>>
Replayed == Moved /\ UNCHANGED vars

Next ==
  StartMove \/ FollowMove \/ EndMove \/ StartReplay \/ LoadScratch \/ SwapMiddle
    \/ StoreLast \/ Replayed
Spec == Init /\ [][Next]_vars

-----------------------------------------------------------------------------
(***************************************************************************)
(* Coefficients of a repair symbol are moved the other way, from the place *)
(* of the column back to the place of the pivot row, along the same cycles *)
(* without a scratch place.                                                *)
(***************************************************************************)
MovedBack(coefficients, cycle) ==
  [place \in Place |->
     IF \E i \in 1 .. Len(cycle) - 1 : cycle[i] = place
     THEN coefficients[cycle[(CHOOSE i \in 1 .. Len(cycle) - 1 : cycle[i] = place) + 1]]
     ELSE coefficients[place]]

\* The last place of a cycle is its first.
move_final_coefficients_to_pivot_rows(coefficients, cycles) ==
  LET back[n \in 0 .. Len(cycles)] ==
        IF n = 0 THEN coefficients ELSE MovedBack(back[n - 1], cycles[n])
  IN back[Len(cycles)]

-----------------------------------------------------------------------------
TypeInv ==
  /\ dest \in [Place -> Place \cup {None}]
  /\ visited \subseteq Sources
  /\ \A i \in DOMAIN moves : moves[i] \in Seq(Place) /\ Len(moves[i]) > 1
  /\ scratch \in Place \cup {None}
  /\ symbols \in [Place -> Place]

\* While moves are replayed, the symbol of every pivot is in the slab or in
\* the scratch symbol: none is overwritten before it has moved, although the
\* moves share places (pi_solver.rs 2876-2885, 2899-2907, 4836-4842).
NoSymbolLost ==
  \A source \in Sources : scratch = source \/ \E place \in Place : symbols[place] = source

\* At the end each pivot's symbol lies at the place of its column.
PivotsInPlace ==
  Moved => \A source \in Sources : symbols[dest[source]] = source

\* The coefficient that the caller had for a column is then at the place of
\* the column's pivot row, so that a repair coefficient and the symbols it is
\* applied to agree (pi_solver.rs 1466-1477).
CoefficientsMoveBack ==
  Moved /\ Sources = Place =>
    move_final_coefficients_to_pivot_rows([place \in Place |-> place], moves) = dest

\* Planning takes every symbol that has to move exactly once: chains and
\* cycles that meet share no source (pi_solver.rs 2929-2951, 4799-4827).
EachMovedOnce ==
  ~Planning =>
    \A source \in Sources :
      Cardinality({slot \in (1 .. Len(moves)) \X (1 .. W + 1) :
                     /\ slot[2] < Len(moves[slot[1]])
                     /\ moves[slot[1]][slot[2]] = source})
        = IF dest[source] = source THEN 0 ELSE 1
=============================================================================
