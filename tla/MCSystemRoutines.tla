--------------------------- MODULE MCSystemRoutines --------------------------
(***************************************************************************)
(* Rows and matrices that are not solved the plain way: octets shared by   *)
(* the clones of a matrix, a prefix of the rows tried first, and one lost  *)
(* symbol rebuilt without a solve.  They share no state, so a behaviour is *)
(* of one of them; the shared matrices are those of the module that is     *)
(* extended, two users of a cache entry among them.                        *)
(***************************************************************************)
EXTENDS SharedMatrix, Sequences

CONSTANTS
  PrefixShapes,
  K, KPrime, RepairLdpc, RepairHdpc, RepairRow, InverseMatrix   \* Repair

\* Values for model checking.
Two(p, q) == [j \in 0 .. 1 |-> <<p, q>>[j + 1]]
Three(p, q, r) == [j \in 0 .. 2 |-> <<p, q, r>>[j + 1]]

\* A square system, systems that are all prefix, and systems with one and two rows
\* behind it.
PairRows == {Two(p, q) : p, q \in 0 .. 1}
MCPrefixShapes ==
  { [n |-> 2, height |-> 2, extra |-> 1, rows |-> PairRows, hdpc |-> {Two(1, 2)}],
    [n |-> 2, height |-> 3, extra |-> 1, rows |-> PairRows, hdpc |-> {Two(1, 2)}],
    [n |-> 2, height |-> 5, extra |-> 1, rows |-> PairRows, hdpc |-> {Two(1, 1)}],
    [n |-> 3, height |-> 5, extra |-> 1, hdpc |-> {Three(1, 2, 3)},
     rows |-> {Three(1, 1, 0), Three(1, 0, 1), Three(0, 1, 1), Three(0, 0, 1)}] }

\* Three source symbols, one padding symbol, and two repair symbols, one with
\* all source symbols in it and one without the first.  The HDPC row behind
\* the inverse is 3, 3, 0, 3, 2, 1.
Ones(columns) == [j \in 0 .. 5 |-> IF j \in columns THEN 1 ELSE 0]
MCRowOf ==
  [isi \in 0 .. 5 |->
     Ones(<<{1, 3, 4, 5}, {0, 1, 3, 4, 5}, {0, 2}, {0, 2, 3, 4}, {0, 2, 4}, {0, 5}>>[isi + 1])]
MCInverseMatrix ==
  LET inverse == <<<<0, 0, 1, 1, 0, 0>>, <<2, 2, 1, 3, 3, 3>>, <<0, 0, 1, 1, 1, 0>>,
                   <<3, 2, 0, 2, 2, 2>>, <<3, 2, 0, 2, 3, 3>>, <<2, 2, 0, 3, 2, 2>>>>
  IN [c \in 0 .. 5 |-> [d \in 0 .. 5 |-> inverse[c + 1][d + 1]]]

VARIABLES
  subject,   \* which of them runs
  shape, kind, matrix, received, phase, col, rows, symbols, suffix, pivot_for_col,
  forward, decoded, isis, marked, known, known_symbols, missing_symbol

MCvars == <<subject, shape, kind, matrix, received, phase, col, rows, symbols,
          suffix, pivot_for_col, forward, decoded, isis, marked, known,
          known_symbols, missing_symbol, data, octets>>

Prefixes == INSTANCE PrefixSolve WITH
  Shapes <- PrefixShapes
Repair == INSTANCE SingleRepair WITH
  S <- RepairLdpc, H <- RepairHdpc, RowOf <- RepairRow

ASSUME RoutinesAssumption ==
  /\ Prefixes!ShapesAssumption
  /\ Repair!RepairAssumption

\* A variable that two of them declare is one variable here; what the one that
\* runs does not use is idle.
Idle == "idle"
NothingShared ==
  /\ data = [m \in Matrices |-> None]
  /\ octets = [c \in Cells |-> [value |-> 0, large |-> FALSE]]
MCInit ==
  \/ /\ subject = "Prefixes" /\ Prefixes!Init
     /\ isis = Idle /\ marked = Idle /\ known = Idle /\ known_symbols = Idle
     /\ missing_symbol = Idle
     /\ NothingShared
  \/ /\ subject = "Repair" /\ Repair!Init
     /\ shape = Idle /\ matrix = Idle /\ received = Idle /\ col = Idle
     /\ suffix = Idle /\ pivot_for_col = Idle /\ forward = Idle
     /\ NothingShared
  \/ /\ subject = "Shared" /\ Init
     /\ shape = Idle /\ kind = Idle /\ matrix = Idle /\ received = Idle
     /\ phase = Idle /\ col = Idle /\ rows = Idle /\ symbols = Idle
     /\ suffix = Idle /\ pivot_for_col = Idle /\ forward = Idle
     /\ decoded = Idle /\ isis = Idle /\ marked = Idle /\ known = Idle
     /\ known_symbols = Idle /\ missing_symbol = Idle

SharedStep == subject = "Shared" /\ Next /\ UNCHANGED <<subject, shape, kind,
  matrix, received, phase, col, rows, symbols, suffix, pivot_for_col, forward,
  decoded, isis, marked, known, known_symbols, missing_symbol>>
PrefixesStep == subject = "Prefixes" /\ Prefixes!Next /\ UNCHANGED <<subject,
  isis, marked, known, known_symbols, missing_symbol, data, octets>>
RepairStep == subject = "Repair" /\ Repair!Next /\ UNCHANGED <<subject, shape,
  matrix, received, col, suffix, pivot_for_col, forward, data, octets>>
MCNext == SharedStep \/ PrefixesStep \/ RepairStep
MCSpec == MCInit /\ [][MCNext]_MCvars

-----------------------------------------------------------------------------
\* Trying a prefix of the rows first, in any of three ways, changes nothing of
\* what is decoded or given up: the rows behind it are compared, and when it
\* fails all rows are solved from the symbols as they were received
\* (pi_solver.rs 5337-5777).
PrefixLosesNothing ==
  subject = "Prefixes" =>
    /\ Prefixes!TypeInv /\ Prefixes!WholeFromReceived
    /\ Prefixes!DecodedSatisfiesAll /\ Prefixes!FailsOnlyUnsolvable

\* With one source symbol lost, however the rows are recognised, the decoder
\* rebuilds it from the stand-in it is given, and the shortcut is taken where
\* it fits (pi_solver.rs 7689-8060, decoder.rs 201-245).
LostSymbolIsRebuilt ==
  subject = "Repair" =>
    Repair!TypeInv /\ Repair!LostAreRebuilt /\ Repair!TakenWhereItFits
=============================================================================
