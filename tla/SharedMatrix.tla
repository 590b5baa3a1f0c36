---------------------------- MODULE SharedMatrix ----------------------------
(***************************************************************************)
(* DenseOctetMatrix of octet_matrix.rs.  A matrix owns its octets, or, if  *)
(* it is large, shares them with its clones until one of them is changed.  *)
(* The cache of HDPC rows lives on it: it hands out clones of its rows,    *)
(* and solvers eliminate in them.                                          *)
(***************************************************************************)
EXTENDS Integers, FiniteSets

CONSTANTS
  Matrices,   \* places for a matrix: variables, cache entries
  Cells,      \* allocations
  Values,     \* contents of a matrix
  None

ASSUME NoneAssumption == None \notin Values /\ None \notin [kind : {"Owned", "Shared"}, cell : Cells]

VARIABLES
  data,     \* data[m]: DenseOctetMatrixData of matrix m, or None
  octets    \* octets[c]: what allocation c holds, and whether that is large

vars == <<data, octets>>

Data == [kind : {"Owned", "Shared"}, cell : Cells]

Exists(m) == data[m] # None
Holders(c) == {m \in Matrices : Exists(m) /\ data[m].cell = c}
Free == {c \in Cells : Holders(c) = {}}

Init ==
  /\ data = [m \in Matrices |-> None]
  /\ octets \in [Cells -> [value : Values, large : BOOLEAN]]

-----------------------------------------------------------------------------
New(m, value, large) ==
  /\ ~Exists(m)
  /\ \E c \in Free :
       /\ data' = [data EXCEPT ![m] = [kind |-> "Owned", cell |-> c]]
       /\ octets' = [octets EXCEPT ![c] = [value |-> value, large |-> large]]

Large(m) == octets[data[m].cell].large

\* Whose octets a clone need not copy.  The clone of a large owner is itself
\* ready for being shared, but its owner goes on changing its own.
SharesAllocation(m) == data[m].kind = "Shared" /\ Large(m)

CloneShared(m, n) ==
  /\ Exists(m) /\ ~Exists(n) /\ SharesAllocation(m)
  /\ data' = [data EXCEPT ![n] = [kind |-> "Shared", cell |-> data[m].cell]]
  /\ UNCHANGED octets

CloneCopied(m, n) ==
  /\ Exists(m) /\ ~Exists(n) /\ ~SharesAllocation(m)
  /\ \E c \in Free :
       /\ data' = [data EXCEPT
            ![n] = [kind |-> IF Large(m) THEN "Shared" ELSE "Owned", cell |-> c]]
       /\ octets' = [octets EXCEPT ![c] = octets[data[m].cell]]

\* The octets move to an allocation with a counter; the matrix is consumed.
into_shared_if_large(m) ==
  /\ Exists(m) /\ data[m].kind = "Owned" /\ Large(m)
  /\ data' = [data EXCEPT ![m].kind = "Shared"]
  /\ UNCHANGED octets

\* Faulty variant: not asked who else holds them.
InPlaceAlways(m) == TRUE
\* Arc::make_mut copies octets that another matrix holds too.
InPlace(m) == data[m].kind = "Owned" \/ Holders(data[m].cell) = {m}

SetInPlace(m, value) ==
  /\ Exists(m) /\ InPlace(m)
  /\ octets' = [octets EXCEPT ![data[m].cell].value = value]
  /\ UNCHANGED data

SetCopied(m, value) ==
  /\ Exists(m) /\ ~InPlace(m)
  /\ \E c \in Free :
       /\ data' = [data EXCEPT ![m].cell = c]
       /\ octets' = [octets EXCEPT ![c] = [value |-> value, large |-> Large(m)]]

Drop(m) ==
  /\ Exists(m)
  /\ data' = [data EXCEPT ![m] = None]
  /\ UNCHANGED octets

Next ==
  \E m \in Matrices :
    \/ into_shared_if_large(m)
    \/ Drop(m)
    \/ \E value \in Values :
         \/ \E large \in BOOLEAN : New(m, value, large)
         \/ SetInPlace(m, value)
         \/ SetCopied(m, value)
    \/ \E n \in Matrices : CloneShared(m, n) \/ CloneCopied(m, n)

Spec == Init /\ [][Next]_vars

-----------------------------------------------------------------------------
TypeInv ==
  /\ data \in [Matrices -> Data \cup {None}]
  /\ octets \in [Cells -> [value : Values, large : BOOLEAN]]

\* A matrix that owns its octets is the only one that holds them: changing
\* them in place, without a look at any counter, changes no other matrix
\* (octet_matrix.rs 48-82, 170-184).
OwnersAlone ==
  \A m \in Matrices :
    Exists(m) /\ data[m].kind = "Owned" => Holders(data[m].cell) = {m}

\* No allocation is kept apart for a small matrix: what is shared is large
\* (octet_matrix.rs 112-139).
SharedAreLarge ==
  \A m \in Matrices : Exists(m) /\ data[m].kind = "Shared" => Large(m)

\* as_slice of every matrix.
Content == [m \in Matrices |-> IF Exists(m) THEN octets[data[m].cell].value ELSE None]
Copies == INSTANCE IndependentMatrices WITH content <- Content

\* However matrices are cloned, shared, changed and dropped, each holds what
\* it would hold if every clone were a copy: a solver that eliminates in the
\* rows it got leaves those in the cache alone (octet_matrix.rs 48-197).
ImplementsCopies == Copies!Spec
=============================================================================
