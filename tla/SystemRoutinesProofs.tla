------------------------- MODULE SystemRoutinesProofs -------------------------
(***************************************************************************)
(* The three systems of MCSystemRoutines, for every value of their         *)
(* constants.  SharedMatrix: what is held by an owner is held by nobody    *)
(* else, so every matrix holds what it would if every clone were a copy.   *)
(* PrefixSolve: while the prefix is eliminated its rows have the solutions *)
(* they had, with what was added on record, so that what is decoded solves *)
(* all rows, and what fails is restored before all rows are solved.        *)
(* SingleRepair: rows are recognised as what they are, and every known     *)
(* symbol is taken out of the repair symbol once, so that the lost one is  *)
(* what is left over, times its coefficient.                               *)
(***************************************************************************)
EXTENDS MCSystemRoutines, SequenceTheorems, FiniteSetTheorems, WellFoundedInduction, TLAPS

-----------------------------------------------------------------------------
(* Matrices that share their octets.                                       *)

\* What is held by an owner is held by nobody else, and new allocations are
\* held by none.
IInv == TypeInv /\ OwnersAlone

\* What holds an allocation together with matrix m.
Together(m, p) == Exists(m) /\ Exists(p) /\ data[m].cell = data[p].cell

\* OwnersAlone for pairs of matrices.
Apart == \A m, p \in Matrices : Together(m, p) /\ data[m].kind = "Owned" => m = p

\* Data is told from None.
LEMMA DataIsNotNone == \A d \in Data : d # None
  BY NoneAssumption DEF Data

LEMMA OwnersAreApart == OwnersAlone <=> Apart
  BY DEF OwnersAlone, Apart, Together, Holders, Exists

\* A free allocation is held by no matrix.
LEMMA FreeIsHeldByNone ==
  ASSUME NEW c \in Free
  PROVE  c \in Cells /\ \A k \in Matrices : Exists(k) => data[k].cell # c
  BY DEF Free, Holders

LEMMA InitIInv == Init => IInv
  BY DEF Init, IInv, TypeInv, OwnersAlone, Exists, Data

LEMMA TypeStep == TypeInv /\ [Next]_vars => TypeInv'
<1> SUFFICES ASSUME TypeInv, [Next]_vars PROVE TypeInv'
  OBVIOUS
<1> USE DataIsNotNone DEF TypeInv, Data
<1>1. ASSUME NEW m \in Matrices, into_shared_if_large(m) PROVE TypeInv'
  BY <1>1 DEF into_shared_if_large, Exists
<1>2. ASSUME NEW m \in Matrices, Drop(m) PROVE TypeInv'
  BY <1>2 DEF Drop
<1>3. ASSUME NEW m \in Matrices, NEW value \in Values, NEW large \in BOOLEAN,
             New(m, value, large)
      PROVE  TypeInv'
  <2>1. PICK c \in Free :
          /\ data' = [data EXCEPT ![m] = [kind |-> "Owned", cell |-> c]]
          /\ octets' = [octets EXCEPT ![c] = [value |-> value, large |-> large]]
    BY <1>3 DEF New
  <2>2. c \in Cells
    BY DEF Free
  <2> QED
    BY <2>1, <2>2
<1>4. ASSUME NEW m \in Matrices, NEW value \in Values, SetInPlace(m, value) PROVE TypeInv'
  BY <1>4 DEF SetInPlace, Exists
<1>5. ASSUME NEW m \in Matrices, NEW value \in Values, SetCopied(m, value) PROVE TypeInv'
  <2>1. PICK c \in Free :
          /\ data' = [data EXCEPT ![m].cell = c]
          /\ octets' = [octets EXCEPT ![c] = [value |-> value, large |-> Large(m)]]
    BY <1>5 DEF SetCopied
  <2>2. c \in Cells /\ data[m] \in [kind : {"Owned", "Shared"}, cell : Cells]
    BY <1>5 DEF Free, SetCopied, Exists
  <2>3. Large(m) \in BOOLEAN
    BY <2>2 DEF Large
  <2> QED
    BY <2>1, <2>2, <2>3
<1>6. ASSUME NEW m \in Matrices, NEW p \in Matrices, CloneShared(m, p) PROVE TypeInv'
  BY <1>6 DEF CloneShared, Exists
<1>7. ASSUME NEW m \in Matrices, NEW p \in Matrices, CloneCopied(m, p) PROVE TypeInv'
  <2>1. PICK c \in Free :
          /\ data' = [data EXCEPT
               ![p] = [kind |-> IF Large(m) THEN "Shared" ELSE "Owned", cell |-> c]]
          /\ octets' = [octets EXCEPT ![c] = octets[data[m].cell]]
    BY <1>7 DEF CloneCopied
  <2>2. c \in Cells /\ data[m] \in [kind : {"Owned", "Shared"}, cell : Cells]
    BY <1>7 DEF Free, CloneCopied, Exists
  <2> QED
    BY <2>1, <2>2
<1>8. CASE UNCHANGED vars
  BY <1>8 DEF vars
<1> QED
  BY <1>1, <1>2, <1>3, <1>4, <1>5, <1>6, <1>7, <1>8 DEF Next

LEMMA ApartStep == TypeInv /\ Apart /\ [Next]_vars => Apart'
<1> SUFFICES ASSUME TypeInv, Apart, [Next]_vars PROVE Apart'
  OBVIOUS
<1> USE DataIsNotNone DEF TypeInv, Data, Apart, Together, Exists
<1>1. ASSUME NEW m \in Matrices, into_shared_if_large(m) PROVE Apart'
  BY <1>1 DEF into_shared_if_large
<1>2. ASSUME NEW m \in Matrices, Drop(m) PROVE Apart'
  BY <1>2 DEF Drop
<1>3. ASSUME NEW m \in Matrices, NEW value \in Values, NEW large \in BOOLEAN,
             New(m, value, large)
      PROVE  Apart'
  <2>1. PICK c \in Free : data' = [data EXCEPT ![m] = [kind |-> "Owned", cell |-> c]]
    BY <1>3 DEF New
  <2> QED
    BY <2>1, FreeIsHeldByNone
<1>4. ASSUME NEW m \in Matrices, NEW value \in Values, SetInPlace(m, value) PROVE Apart'
  BY <1>4 DEF SetInPlace
<1>5. ASSUME NEW m \in Matrices, NEW value \in Values, SetCopied(m, value) PROVE Apart'
  <2>1. PICK c \in Free : data' = [data EXCEPT ![m].cell = c]
    BY <1>5 DEF SetCopied
  <2> QED
    BY <1>5, <2>1, FreeIsHeldByNone DEF SetCopied
<1>6. ASSUME NEW m \in Matrices, NEW p \in Matrices, CloneShared(m, p) PROVE Apart'
  BY <1>6 DEF CloneShared, SharesAllocation
<1>7. ASSUME NEW m \in Matrices, NEW p \in Matrices, CloneCopied(m, p) PROVE Apart'
  <2>1. PICK c \in Free : data' = [data EXCEPT
          ![p] = [kind |-> IF Large(m) THEN "Shared" ELSE "Owned", cell |-> c]]
    BY <1>7 DEF CloneCopied
  <2> QED
    BY <1>7, <2>1, FreeIsHeldByNone DEF CloneCopied
<1>8. CASE UNCHANGED vars
  BY <1>8 DEF vars
<1> QED
  BY <1>1, <1>2, <1>3, <1>4, <1>5, <1>6, <1>7, <1>8 DEF Next

LEMMA IInvStep == IInv /\ [Next]_vars => IInv'
<1>1. OwnersAlone' <=> Apart'
  BY DEF OwnersAlone, Apart, Together, Holders, Exists
<1> QED
  BY <1>1, TypeStep, ApartStep, OwnersAreApart DEF IInv

LEMMA IInvHolds == Spec => []IInv
  BY InitIInv, IInvStep, PTL DEF Spec

\* The variables keep their types (octet_matrix.rs 22-26).
THEOREM TypeCorrect == Spec => []TypeInv
  BY IInvHolds, PTL DEF IInv

\* Octets that are changed in place without a look at the counter are held by
\* their owner alone, whatever was cloned before (octet_matrix.rs 48-82).
THEOREM OwnersAloneCorrect == Spec => []OwnersAlone
  BY IInvHolds, PTL DEF IInv

LEMMA LargeStep == TypeInv /\ Apart /\ SharedAreLarge /\ [Next]_vars => SharedAreLarge'
<1> SUFFICES ASSUME TypeInv, Apart, SharedAreLarge, [Next]_vars PROVE SharedAreLarge'
  OBVIOUS
<1> USE DataIsNotNone DEF TypeInv, Data, SharedAreLarge, Large, Exists
<1>1. ASSUME NEW m \in Matrices, into_shared_if_large(m) PROVE SharedAreLarge'
  BY <1>1 DEF into_shared_if_large
<1>2. ASSUME NEW m \in Matrices, Drop(m) PROVE SharedAreLarge'
  BY <1>2 DEF Drop
<1>3. ASSUME NEW m \in Matrices, NEW value \in Values, NEW large \in BOOLEAN,
             New(m, value, large)
      PROVE  SharedAreLarge'
  <2>1. PICK c \in Free :
          /\ data' = [data EXCEPT ![m] = [kind |-> "Owned", cell |-> c]]
          /\ octets' = [octets EXCEPT ![c] = [value |-> value, large |-> large]]
    BY <1>3 DEF New
  <2> QED
    BY <2>1, FreeIsHeldByNone
<1>4. ASSUME NEW m \in Matrices, NEW value \in Values, SetInPlace(m, value)
      PROVE  SharedAreLarge'
  BY <1>4 DEF SetInPlace
<1>5. ASSUME NEW m \in Matrices, NEW value \in Values, SetCopied(m, value)
      PROVE  SharedAreLarge'
  <2>1. PICK c \in Free :
          /\ data' = [data EXCEPT ![m].cell = c]
          /\ octets' = [octets EXCEPT ![c] = [value |-> value, large |-> Large(m)]]
    BY <1>5 DEF SetCopied
  <2> QED
    BY <1>5, <2>1, FreeIsHeldByNone DEF SetCopied
<1>6. ASSUME NEW m \in Matrices, NEW p \in Matrices, CloneShared(m, p)
      PROVE  SharedAreLarge'
  BY <1>6 DEF CloneShared, SharesAllocation
<1>7. ASSUME NEW m \in Matrices, NEW p \in Matrices, CloneCopied(m, p)
      PROVE  SharedAreLarge'
  <2>1. PICK c \in Free :
          /\ data' = [data EXCEPT
               ![p] = [kind |-> IF Large(m) THEN "Shared" ELSE "Owned", cell |-> c]]
          /\ octets' = [octets EXCEPT ![c] = octets[data[m].cell]]
    BY <1>7 DEF CloneCopied
  <2> QED
    BY <1>7, <2>1, FreeIsHeldByNone DEF CloneCopied
<1>8. CASE UNCHANGED vars
  BY <1>8 DEF vars
<1> QED
  BY <1>1, <1>2, <1>3, <1>4, <1>5, <1>6, <1>7, <1>8 DEF Next

\* Only large matrices are shared (octet_matrix.rs 112-139).
THEOREM SharedAreLargeCorrect == Spec => []SharedAreLarge
<1>1. Init => SharedAreLarge
  BY DEF Init, SharedAreLarge, Exists
<1> QED
  BY <1>1, LargeStep, OwnersAreApart, IInvHolds, PTL DEF Spec, IInv

-----------------------------------------------------------------------------
(* Only the matrix that a step is about reads differently after it. *)

Read(m) == IF Exists(m) THEN octets[data[m].cell].value ELSE None

LEMMA ContentIsRead == Content = [m \in Matrices |-> Read(m)]
  BY DEF Content, Read
LEMMA ContentReadNext == Content' = [m \in Matrices |-> Read(m)']
  BY DEF Content, Read, Exists

LEMMA OthersUnchangedInPlace ==
  ASSUME IInv, NEW m \in Matrices, NEW value \in Values, SetInPlace(m, value)
  PROVE  Content' = [Content EXCEPT ![m] = value]
<1> USE DEF IInv, TypeInv, Data
<1>1. data' = data /\ octets' = [octets EXCEPT ![data[m].cell].value = value] /\ Exists(m)
  BY DEF SetInPlace
<1>2. data[m] \in Data
  BY <1>1 DEF Exists
<1>3. Read(m)' = value
  BY <1>1, <1>2 DEF Read, Exists
<1>4. ASSUME NEW k \in Matrices, k # m PROVE Read(k)' = Read(k)
  <2>1. CASE ~Exists(k)
    BY <1>1, <2>1 DEF Read, Exists
  <2>2. CASE Exists(k)
    <3>1. data[k].cell # data[m].cell
      BY <1>1, <1>4, <2>2, OwnersAreApart
         DEF SetInPlace, InPlace, Apart, Together, Holders
    <3>2. data[k] \in Data
      BY <2>2 DEF Exists
    <3> QED
      BY <1>1, <1>2, <2>2, <3>1, <3>2 DEF Read, Exists
  <2> QED
    BY <2>1, <2>2
<1> QED
  BY <1>3, <1>4, ContentIsRead, ContentReadNext

\* Matrix m gets allocation c, which holds value, and nothing else changes.
Placed(m, c, value) ==
  /\ data'[m] \in Data /\ data'[m].cell = c
  /\ \A k \in Matrices : k # m => data'[k] = data[k]
  /\ octets'[c].value = value
  /\ \A e \in Cells : e # c => octets'[e] = octets[e]

\* A new allocation changes only the matrix that gets it.
LEMMA OthersUnchangedInNew ==
  ASSUME IInv, NEW m \in Matrices, NEW c \in Free, NEW value, Placed(m, c, value)
  PROVE  Content' = [Content EXCEPT ![m] = value]
<1> USE DEF IInv, TypeInv, Data, Placed
<1>1. Read(m)' = value
  BY DataIsNotNone DEF Read, Exists
<1>2. ASSUME NEW k \in Matrices, k # m PROVE Read(k)' = Read(k)
  <2>1. CASE ~Exists(k)
    BY <1>2, <2>1 DEF Read, Exists
  <2>2. CASE Exists(k)
    <3>1. data[k].cell # c /\ data[k] \in Data
      BY <2>2, FreeIsHeldByNone DEF Exists
    <3> QED
      BY <1>2, <2>2, <3>1 DEF Read, Exists
  <2> QED
    BY <2>1, <2>2
<1> QED
  BY <1>1, <1>2, ContentIsRead, ContentReadNext

\* Every step is one of matrices that are values, or none at all.
LEMMA CopiesStep == IInv /\ [Next]_vars => [Copies!Next]_Content
<1> SUFFICES ASSUME IInv, [Next]_vars PROVE Copies!Next \/ Content' = Content
  OBVIOUS
<1>t. TypeInv
  BY DEF IInv
<1> USE <1>t DEF TypeInv
<1>n. \A m \in Matrices : Content[m] = None <=> ~Exists(m)
  <2>1. \A m \in Matrices : Exists(m) => octets[data[m].cell].value # None
    BY NoneAssumption DEF Exists, Data
  <2> QED
    BY <2>1 DEF Content
<1>1. ASSUME NEW m \in Matrices, into_shared_if_large(m) PROVE Content' = Content
  <2>1. data[m] \in Data /\ data' = [data EXCEPT ![m].kind = "Shared"] /\ octets' = octets
    BY <1>1 DEF into_shared_if_large, Exists
  <2>2. \A k \in Matrices : data'[k].cell = data[k].cell
    BY <2>1 DEF Data
  <2>3. \A k \in Matrices : Exists(k)' <=> Exists(k)
    <3>1. data'[m] # None /\ data[m] # None
      BY <2>1, <1>1, DataIsNotNone DEF Data, into_shared_if_large, Exists
    <3> QED
      BY <2>1, <3>1 DEF Exists
  <2> QED
    BY <2>1, <2>2, <2>3 DEF Content
<1>2. ASSUME NEW m \in Matrices, Drop(m) PROVE Copies!Drop(m)
  <2>1. \A k \in Matrices : data'[k] = IF k = m THEN None ELSE data[k]
    BY <1>2 DEF Drop
  <2>2. octets' = octets
    BY <1>2 DEF Drop
  <2>3. Content' = [Content EXCEPT ![m] = None]
    BY <2>1, <2>2 DEF Content, Exists
  <2> QED
    BY <1>2, <1>n, <2>3 DEF Copies!Drop, Drop
<1>3. ASSUME NEW m \in Matrices, NEW value \in Values, NEW large \in BOOLEAN,
             New(m, value, large)
      PROVE  Copies!New(m, value)
  <2>1. PICK c \in Free :
          /\ data' = [data EXCEPT ![m] = [kind |-> "Owned", cell |-> c]]
          /\ octets' = [octets EXCEPT ![c] = [value |-> value, large |-> large]]
    BY <1>3 DEF New
  <2>2. Placed(m, c, value)
    BY <2>1, FreeIsHeldByNone DEF Placed, Data
  <2>3. Content' = [Content EXCEPT ![m] = value]
    BY <2>2, OthersUnchangedInNew
  <2> QED
    BY <1>3, <1>n, <2>3 DEF Copies!New, New
<1>4. ASSUME NEW m \in Matrices, NEW value \in Values, SetInPlace(m, value)
      PROVE  Copies!Set(m, value)
  BY <1>4, <1>n, OthersUnchangedInPlace DEF Copies!Set, SetInPlace
<1>5. ASSUME NEW m \in Matrices, NEW value \in Values, SetCopied(m, value)
      PROVE  Copies!Set(m, value)
  <2>1. PICK c \in Free :
          /\ data' = [data EXCEPT ![m].cell = c]
          /\ octets' = [octets EXCEPT ![c] = [value |-> value, large |-> Large(m)]]
    BY <1>5 DEF SetCopied
  <2>2. data[m] \in Data /\ c \in Cells
    BY <1>5, FreeIsHeldByNone DEF SetCopied, Exists
  <2>3. Placed(m, c, value)
    BY <2>1, <2>2 DEF Placed, Data
  <2>5. Content' = [Content EXCEPT ![m] = value]
    BY <2>3, OthersUnchangedInNew
  <2> QED
    BY <1>5, <1>n, <2>5 DEF Copies!Set, SetCopied
<1>6. ASSUME NEW m \in Matrices, NEW p \in Matrices, CloneShared(m, p)
      PROVE  Copies!Clone(m, p)
  <2>1. \A k \in Matrices : data'[k] =
          IF k = p THEN [kind |-> "Shared", cell |-> data[m].cell] ELSE data[k]
    BY <1>6 DEF CloneShared
  <2>2. octets' = octets /\ Exists(m) /\ ~Exists(p)
    BY <1>6 DEF CloneShared
  <2>3. data[m].cell \in Cells
    BY <2>2 DEF Exists, Data
  <2>4. [kind |-> "Shared", cell |-> data[m].cell] # None
    BY <2>3, DataIsNotNone DEF Data
  <2>6. ASSUME NEW k \in Matrices, k # p
        PROVE  Content'[k] = Content[k]
    BY <2>1, <2>2, <2>6 DEF Content, Exists
  <2>7. Content'[p] = Content[m]
    BY <2>1, <2>2, <2>4 DEF Content, Exists
  <2>8. Content' = [k \in Matrices |-> Content'[k]]
    BY DEF Content
  <2>5. Content' = [Content EXCEPT ![p] = Content[m]]
    BY <2>6, <2>7, <2>8 DEF Content
  <2> QED
    BY <1>n, <2>2, <2>5 DEF Copies!Clone
<1>7. ASSUME NEW m \in Matrices, NEW p \in Matrices, CloneCopied(m, p)
      PROVE  Copies!Clone(m, p)
  <2>1. PICK c \in Free :
          /\ data' = [data EXCEPT
               ![p] = [kind |-> IF Large(m) THEN "Shared" ELSE "Owned", cell |-> c]]
          /\ octets' = [octets EXCEPT ![c] = octets[data[m].cell]]
    BY <1>7 DEF CloneCopied
  <2>2. Exists(m) /\ ~Exists(p)
    BY <1>7 DEF CloneCopied
  <2>3. Placed(p, c, Content[m])
    BY <2>1, <2>2, FreeIsHeldByNone DEF Placed, Data, Content, Exists
  <2>5. Content' = [Content EXCEPT ![p] = Content[m]]
    BY <2>3, OthersUnchangedInNew
  <2> QED
    BY <1>n, <2>2, <2>5 DEF Copies!Clone
<1>8. CASE UNCHANGED vars
  BY <1>8 DEF vars, Content, Exists
<1> QED
  BY <1>1, <1>2, <1>3, <1>4, <1>5, <1>6, <1>7, <1>8 DEF Next, Copies!Next

\* However matrices are cloned, shared, changed and dropped, each holds what it
\* would if every clone were a copy (octet_matrix.rs 48-197).
THEOREM CopiesImplemented == Spec => ImplementsCopies
<1>1. Init => Copies!Init
  BY DEF Init, Copies!Init, Content, Exists
<1> QED
  BY <1>1, CopiesStep, IInvHolds, PTL DEF Spec, ImplementsCopies, Copies!Spec

-----------------------------------------------------------------------------
(* Systems whose prefix is solved first.                                   *)

\* A set of numbers has a least member.
LEMMA LeastNumber ==
  ASSUME NEW T, T \subseteq Nat, T # {}
  PROVE  \E p \in T : \A q \in T : p <= q
<1>1. PICK p \in T : \A q \in T : ~(<<q, p>> \in OpToRel(<, Nat))
  BY WFMin, NatLessThanWellFounded
<1>2. \A q \in T : ~(q < p)  BY <1>1 DEF OpToRel
<1>. QED BY <1>2

\* Induction over the numbers: a set that holds 0 and with n also n + 1 holds
\* them all.
LEMMA SetInduction ==
  ASSUME NEW P, 0 \in P, \A k \in Nat : k \in P => k + 1 \in P
  PROVE  \A k \in Nat : k \in P
<1>. DEFINE T == {k \in Nat : k \notin P}
<1>. SUFFICES ASSUME T # {} PROVE FALSE  OBVIOUS
<1>1. PICK p \in T : \A q \in T : p <= q  BY LeastNumber
<1>2. p # 0  OBVIOUS
<1>3. p - 1 \in Nat /\ p - 1 \notin T  BY <1>1, <1>2
<1>4. (p - 1) + 1 \in P  BY <1>3
<1>. QED BY <1>4

\* f starts with base, and step e makes f[e] of f[e - 1] by G.
Recurs(f, X, base, w, G) ==
  f \in [0 .. w -> X] /\ f[0] = base /\ \A e \in 1 .. w : f[e] = G[<<e, f[e - 1]>>]

\* Functions that agree everywhere are equal.
LEMMA SameFunction ==
  ASSUME NEW S, NEW T, NEW f, NEW g, f \in [S -> T], g \in [S -> T], \A p \in S : f[p] = g[p]
  PROVE  f = g
OBVIOUS

\* Recursion over 0 .. w has a solution.
LEMMA Recursion ==
  ASSUME NEW X, NEW base, NEW w, NEW G, base \in X, w \in Nat, G \in [(1 .. w) \X X -> X]
  PROVE  \E f : Recurs(f, X, base, w, G)
<1>. DEFINE Good(m, f) == f[0] = base /\ \A e \in 1 .. m : f[e] = G[<<e, f[e - 1]>>]
            P == {m \in Nat : m <= w => \E f \in [0 .. m -> X] : Good(m, f)}
<1>1. 0 \in P
  <2>1. [e \in 0 .. 0 |-> base] \in [0 .. 0 -> X] /\ Good(0, [e \in 0 .. 0 |-> base])  OBVIOUS
  <2>. QED BY <2>1
<1>2. ASSUME NEW m \in Nat, m \in P PROVE m + 1 \in P
  <2>. SUFFICES ASSUME m + 1 <= w PROVE \E f \in [0 .. m + 1 -> X] : Good(m + 1, f)  OBVIOUS
  <2>1. PICK f \in [0 .. m -> X] : Good(m, f)  BY <1>2
  <2>. DEFINE g == [e \in 0 .. m + 1 |-> IF e = m + 1 THEN G[<<m + 1, f[m]>>] ELSE f[e]]
  <2>2. <<m + 1, f[m]>> \in (1 .. w) \X X  BY <2>1
  <2>3. g \in [0 .. m + 1 -> X]  BY <2>1, <2>2
  <2>4. g[0] = base  BY <2>1
  <2>5. ASSUME NEW e \in 1 .. m + 1 PROVE g[e] = G[<<e, g[e - 1]>>]
    <3>1. CASE e = m + 1
      <4>1. e - 1 = m /\ g[e - 1] = f[m] /\ g[e] = G[<<m + 1, f[m]>>]  BY <3>1
      <4>. QED BY <3>1, <4>1
    <3>2. CASE e # m + 1
      <4>1. e \in 1 .. m /\ g[e] = f[e] /\ g[e - 1] = f[e - 1]  BY <3>2
      <4>. QED BY <2>1, <4>1
    <3>. QED BY <3>1, <3>2
  <2>. QED BY <2>3, <2>4, <2>5
<1>. HIDE DEF P
<1>3. w \in P  BY <1>1, <1>2, SetInduction
<1>. QED BY <1>3 DEF P, Recurs

-----------------------------------------------------------------------------
(* Sums of symbols.                                                        *)

Bit == {Prefixes!Zero, Prefixes!One}
Sym(D) == [D -> Bit]              \* symbols with these components
BitRow(w) == [0 .. w - 1 -> Bit]
Sols(w, D) == [0 .. w - 1 -> Sym(D)]

\* What rows and solutions have in a column.
LEMMA InColumn ==
  ASSUME NEW w, NEW D, NEW k \in 0 .. w - 1
  PROVE  /\ \A r \in BitRow(w) : r[k] = Prefixes!Zero \/ r[k] = Prefixes!One
         /\ \A x \in Sols(w, D) : x[k] \in Sym(D)
         /\ Prefixes!Zero # Prefixes!One
<1>1. \A r \in BitRow(w) : r[k] = Prefixes!Zero \/ r[k] = Prefixes!One  BY DEF BitRow, Bit
<1>2. \A x \in Sols(w, D) : x[k] \in Sym(D)  BY DEF Sols
<1>3. Prefixes!Zero # Prefixes!One  BY DEF Prefixes!Zero, Prefixes!One
<1>. QED BY <1>1, <1>2, <1>3

\* Adding binary symbols, component by component.
LEMMA AddBits ==
  ASSUME NEW D, NEW u \in Sym(D), NEW v \in Sym(D)
  PROVE  /\ Prefixes!VPlus(u, v) \in Sym(D) /\ Prefixes!VZero(D) \in Sym(D)
         /\ \A d \in D : Prefixes!VPlus(u, v)[d] = IF u[d]
            = v[d] THEN Prefixes!Zero ELSE Prefixes!One
         /\ \A d \in D : Prefixes!VZero(D)[d] = Prefixes!Zero
<1>1. \A a, b \in Bit : Prefixes!FPlus(a, b) = IF a = b THEN Prefixes!Zero ELSE Prefixes!One
  BY DEF Bit, Prefixes!Zero, Prefixes!One, Prefixes!FPlus
<1>2. Prefixes!VPlus(u, v) = [d \in D |-> Prefixes!FPlus(u[d], v[d])]
  BY DEF Prefixes!VPlus, Sym
<1>3. \A d \in D : u[d] \in Bit /\ v[d] \in Bit  BY DEF Sym
<1>4. \A d \in D : Prefixes!VPlus(u, v)[d] = IF u[d] = v[d] THEN Prefixes!Zero ELSE Prefixes!One
  BY <1>1, <1>2, <1>3
<1>5. Prefixes!VPlus(u, v) \in Sym(D)
  <2>1. \A d \in D : Prefixes!FPlus(u[d], v[d]) \in Bit  BY <1>1, <1>3 DEF Bit
  <2>. QED BY <1>2, <2>1 DEF Sym
<1>6. Prefixes!VZero(D) = [d \in D |-> Prefixes!Zero]  BY DEF Prefixes!VZero
<1>7. Prefixes!VZero(D) \in Sym(D)  BY <1>6 DEF Bit, Sym
<1>. QED BY <1>4, <1>5, <1>6, <1>7

\* Symbols that agree everywhere are the same.
LEMMA SameBits ==
  ASSUME NEW D, NEW u \in Sym(D), NEW v \in Sym(D), \A d \in D : u[d] = v[d]
  PROVE  u = v
BY DEF Sym

\* How sums of symbols may be rearranged.
LEMMA SumLaws ==
  ASSUME NEW D
  PROVE  /\ \A u, v \in Sym(D) : Prefixes!VPlus(u, v) \in Sym(D)
            /\ Prefixes!VPlus(u, v) = Prefixes!VPlus(v, u)
         /\ \A u \in Sym(D) : Prefixes!VPlus(u, Prefixes!VZero(D)) = u
            /\ Prefixes!VPlus(Prefixes!VZero(D), u) = u
                                  /\ Prefixes!VPlus(u, u) = Prefixes!VZero(D)
         /\ \A u, v, x \in Sym(D) : Prefixes!VPlus(Prefixes!VPlus(u, v), x)
            = Prefixes!VPlus(u, Prefixes!VPlus(v, x))
         /\ \A u, v \in Sym(D) : Prefixes!VPlus(Prefixes!VPlus(u, v), v) = u
         /\ Prefixes!VZero(D) \in Sym(D)
<1>0. Prefixes!VZero(D) \in Sym(D) /\ \A d \in D : Prefixes!VZero(D)[d] = Prefixes!Zero
  BY DEF Prefixes!VZero, Bit, Sym
<1>1. ASSUME NEW u \in Sym(D), NEW v \in Sym(D)
      PROVE  Prefixes!VPlus(u, v) \in Sym(D) /\ Prefixes!VPlus(u, v) = Prefixes!VPlus(v, u)
  <2>1. Prefixes!VPlus(u, v) \in Sym(D) /\ Prefixes!VPlus(v, u) \in Sym(D)  BY AddBits
  <2>2. \A d \in D : Prefixes!VPlus(u, v)[d] = Prefixes!VPlus(v, u)[d]  BY AddBits
  <2>. QED BY <2>1, <2>2, SameBits
<1>2. ASSUME NEW u \in Sym(D)
      PROVE  Prefixes!VPlus(u, Prefixes!VZero(D)) = u
               /\ Prefixes!VPlus(Prefixes!VZero(D), u) = u
                  /\ Prefixes!VPlus(u, u) = Prefixes!VZero(D)
  <2>1. \A d \in D : u[d] = Prefixes!Zero \/ u[d] = Prefixes!One  BY DEF Bit, Sym
  <2>2. /\ Prefixes!VPlus(u, Prefixes!VZero(D)) \in Sym(D) /\ Prefixes!VPlus(u, u) \in Sym(D)
        /\ Prefixes!VPlus(Prefixes!VZero(D), u) \in Sym(D)
    BY <1>0, AddBits
  <2>3. \A d \in D : Prefixes!VPlus(u, Prefixes!VZero(D))[d] = IF u[d]
          = Prefixes!VZero(D)[d] THEN Prefixes!Zero ELSE Prefixes!One
    BY <1>0, AddBits
  <2>4. \A d \in D : Prefixes!VPlus(u, Prefixes!VZero(D))[d] = u[d]  BY <1>0, <2>1, <2>3
  <2>5. \A d \in D : Prefixes!VPlus(u, u)[d] = Prefixes!Zero  BY AddBits
  <2>6. Prefixes!VPlus(u, Prefixes!VZero(D)) = u  BY <2>2, <2>4, SameBits
  <2>7. Prefixes!VPlus(u, u) = Prefixes!VZero(D)  BY <1>0, <2>2, <2>5, SameBits
  <2>. QED BY <1>0, <1>1, <2>6, <2>7
<1>3. ASSUME NEW u \in Sym(D), NEW v \in Sym(D), NEW x \in Sym(D)
      PROVE  Prefixes!VPlus(Prefixes!VPlus(u, v), x) = Prefixes!VPlus(u, Prefixes!VPlus(v, x))
  <2>1. Prefixes!VPlus(u, v) \in Sym(D) /\ Prefixes!VPlus(v, x) \in Sym(D)  BY AddBits
  <2>2. Prefixes!VPlus(Prefixes!VPlus(u, v), x) \in Sym(D)
          /\ Prefixes!VPlus(u, Prefixes!VPlus(v, x)) \in Sym(D)
    BY <2>1, AddBits
  <2>3. ASSUME NEW d \in D PROVE Prefixes!VPlus(Prefixes!VPlus(u, v), x)[d]
          = Prefixes!VPlus(u, Prefixes!VPlus(v, x))[d]
    <3>1. /\ Prefixes!VPlus(u, v)[d] = IF u[d] = v[d] THEN Prefixes!Zero ELSE Prefixes!One
          /\ Prefixes!VPlus(v, x)[d] = IF v[d] = x[d] THEN Prefixes!Zero ELSE Prefixes!One
      BY AddBits
    <3>2. /\ Prefixes!VPlus(Prefixes!VPlus(u, v), x)[d] = IF Prefixes!VPlus(u, v)[d]
             = x[d] THEN Prefixes!Zero ELSE Prefixes!One
          /\ Prefixes!VPlus(u, Prefixes!VPlus(v, x))[d] = IF u[d]
             = Prefixes!VPlus(v, x)[d] THEN Prefixes!Zero ELSE Prefixes!One
      BY <2>1, AddBits
    <3>3. u[d] \in Bit /\ v[d] \in Bit /\ x[d] \in Bit  BY DEF Sym
    <3>. QED BY <3>1, <3>2, <3>3 DEF Bit
  <2>. QED BY <2>2, <2>3, SameBits
<1>4. ASSUME NEW u \in Sym(D),
        NEW v \in Sym(D) PROVE Prefixes!VPlus(Prefixes!VPlus(u, v), v) = u
  BY <1>2, <1>3
<1>. QED BY <1>0, <1>1, <1>2, <1>3, <1>4

-----------------------------------------------------------------------------
(* Combinations of symbols, sum by sum.                                    *)

\* The sums of the first columns.
Partial(P, r, x, w, D) ==
  /\ P \in [0 .. w -> Sym(D)] /\ P[0] = Prefixes!VZero(D)
  /\ \A k \in 1 .. w : P[k] = IF r[k - 1]
     = Prefixes!One THEN Prefixes!VPlus(P[k - 1], x[k - 1]) ELSE P[k - 1]

\* A multiple by one or zero.
LEMMA TimesBit ==
  ASSUME NEW D, NEW v \in Sym(D)
  PROVE  Prefixes!VTimes(Prefixes!One, v) = v
           /\ Prefixes!VTimes(Prefixes!Zero, v) = Prefixes!VZero(D)
<1>1. \A b \in Bit : Prefixes!FTimes(Prefixes!One, b) = b
        /\ Prefixes!FTimes(Prefixes!Zero, b) = Prefixes!Zero
  <2>1. ((1 - 1) + (1 - 1)) % 3 = 0  OBVIOUS
  <2>. QED BY <2>1 DEF Bit, Prefixes!FTimes, Prefixes!Zero, Prefixes!One
<1>2. \A d \in D : v[d] \in Bit  BY DEF Sym
<1>3. Prefixes!VTimes(Prefixes!One, v) = [d \in D |-> Prefixes!FTimes(Prefixes!One, v[d])]
      /\ Prefixes!VTimes(Prefixes!Zero, v) = [d \in D |-> Prefixes!FTimes(Prefixes!Zero, v[d])]
        BY DEF Prefixes!VTimes, Sym
<1>. QED BY <1>1, <1>2, <1>3 DEF Prefixes!VZero, Sym

\* A combination is the last of its partial sums.
LEMMA CombinationIs ==
  ASSUME NEW w \in Nat \ {0}, NEW D, NEW r \in BitRow(w),
         NEW x \in Sols(w, D)
  PROVE  \E P : Partial(P, r, x, w, D) /\ Prefixes!Combination(r, x, w) = P[w]
<1>. DEFINE X == Sym(D)
            Eqn(f) == f = [k \in 0 .. w |->
                             IF k = 0 THEN Prefixes!VZero(DOMAIN x[0])
                             ELSE Prefixes!VPlus(f[k - 1], Prefixes!VTimes(r[k - 1], x[k - 1]))]
            u == CHOOSE f : Eqn(f)
            G == [z \in (1 .. w) \X X |-> Prefixes!VPlus(z[2],
                Prefixes!VTimes(r[z[1] - 1], x[z[1] - 1]))]
<1>0. Prefixes!Combination(r, x, w) = u[w]  BY DEF Prefixes!Combination
<1>1. DOMAIN x[0] = D /\ Prefixes!VZero(D) \in X
  <2>1. 0 \in 0 .. w - 1  OBVIOUS
  <2>2. x[0] \in Sym(D)  BY <2>1, InColumn
  <2>. QED BY <2>2, SumLaws DEF Sym
<1>2. ASSUME NEW k \in 1 .. w, NEW p \in X
      PROVE  /\ Prefixes!VPlus(p, Prefixes!VTimes(r[k - 1], x[k - 1])) \in X
             /\ Prefixes!VPlus(p, Prefixes!VTimes(r[k - 1], x[k - 1]))
                  = IF r[k - 1] = Prefixes!One THEN Prefixes!VPlus(p, x[k - 1]) ELSE p
  <2>1. k - 1 \in 0 .. w - 1  OBVIOUS
  <2>2. x[k - 1] \in X /\ r[k - 1] \in Bit  BY <2>1 DEF BitRow, Sols
  <2>3. CASE r[k - 1] = Prefixes!One
    <3>1. Prefixes!VTimes(r[k - 1], x[k - 1]) = x[k - 1]  BY <2>2, <2>3, TimesBit
    <3>2. Prefixes!VPlus(p, x[k - 1]) \in X
      <4>. DEFINE v == x[k - 1]
      <4>1. v \in Sym(D) /\ p \in Sym(D)  BY <2>2
      <4>. HIDE DEF v
      <4>2. Prefixes!VPlus(p, v) \in Sym(D)  BY <4>1, AddBits
      <4>. QED BY <4>2 DEF v
    <3>. QED BY ONLY <2>3, <3>1, <3>2
  <2>4. CASE r[k - 1] # Prefixes!One
    <3>1. r[k - 1] = Prefixes!Zero  BY <2>2, <2>4 DEF Bit
    <3>2. Prefixes!VTimes(r[k - 1], x[k - 1]) = Prefixes!VZero(D)  BY <2>2, <3>1, TimesBit
    <3>. QED BY <2>4, <3>2, SumLaws
  <2>. QED BY <2>3, <2>4
<1>3. G \in [(1 .. w) \X X -> X]
  <2>1. \A z \in (1 .. w) \X X : z[1] \in 1 .. w /\ z[2] \in X  OBVIOUS
  <2>. HIDE DEF X
  <2>2. \A z \in (1 .. w) \X X :
          Prefixes!VPlus(z[2], Prefixes!VTimes(r[z[1] - 1], x[z[1] - 1])) \in X
    BY <1>2, <2>1
  <2>. QED BY <2>2
<1>4. PICK f : Recurs(f, X, Prefixes!VZero(D), w, G)  BY <1>1, <1>3, Recursion
<1>5. \A k \in 1 .. w : f[k - 1] \in X
        /\ f[k] = Prefixes!VPlus(f[k - 1], Prefixes!VTimes(r[k - 1], x[k - 1]))
  <2>. TAKE k \in 1 .. w
  <2>1. k - 1 \in 0 .. w  OBVIOUS
  <2>2. f[k - 1] \in X  BY <1>4, <2>1 DEF Recurs
  <2>3. f[k] = G[<<k, f[k - 1]>>]  BY <1>4 DEF Recurs
  <2>. HIDE DEF X
  <2>4. <<k, f[k - 1]>> \in (1 .. w) \X X  BY <2>2
  <2>. QED BY <2>2, <2>3, <2>4
<1>6. Eqn(f)
  <2>1. f = [k \in 0 .. w |-> f[k]] /\ f[0] = Prefixes!VZero(DOMAIN x[0])
    BY <1>1, <1>4 DEF Recurs
  <2>2. \A k \in 0 .. w : k # 0 => k \in 1 .. w  OBVIOUS
  <2>. QED BY <2>1, <2>2, <1>5
<1>7. Eqn(u)  BY <1>6
<1>. HIDE DEF u
<1>8. u[0] = Prefixes!VZero(D)
      /\ \A k \in 1 .. w : u[k] = Prefixes!VPlus(u[k - 1], Prefixes!VTimes(r[k - 1], x[k - 1]))
  <2>. DEFINE E(k) == IF k = 0 THEN Prefixes!VZero(DOMAIN x[0])
                      ELSE Prefixes!VPlus(u[k - 1], Prefixes!VTimes(r[k - 1], x[k - 1]))
  <2>1. u = [k \in 0 .. w |-> E(k)]  BY <1>7
  <2>2. \A k \in 0 .. w : u[k] = E(k)
    <3>. HIDE DEF E
    <3>. QED BY <2>1
  <2>3. 0 \in 0 .. w /\ \A k \in 1 .. w : k # 0 /\ k \in 0 .. w  OBVIOUS
  <2>. QED BY <1>1, <2>2, <2>3
<1>9. \A k \in 0 .. w : u[k] \in X
  <2>. DEFINE T == {k \in Nat : k <= w => u[k] \in X}
  <2>1. 0 \in T  BY <1>1, <1>8
  <2>2. ASSUME NEW k \in Nat, k \in T PROVE k + 1 \in T
    <3>. SUFFICES ASSUME k + 1 <= w PROVE u[k + 1] \in X  OBVIOUS
    <3>1. k + 1 \in 1 .. w /\ (k + 1) - 1 = k /\ u[k] \in X  BY <2>2
    <3>. HIDE DEF X
    <3>2. PICK m \in 1 .. w : m = k + 1  BY <3>1
    <3>3. u[m - 1] \in X  BY <3>1, <3>2
    <3>4. u[m] = Prefixes!VPlus(u[m - 1], Prefixes!VTimes(r[m - 1], x[m - 1]))  BY <1>8
    <3>5. u[m] \in X  BY <1>2, <3>3, <3>4
    <3>. QED BY <3>2, <3>5
  <2>. HIDE DEF T
  <2>3. \A k \in Nat : k \in T  BY <2>1, <2>2, SetInduction
  <2>. QED BY <2>3 DEF T
<1>10. Partial(u, r, x, w, D)
  <2>1. u \in [0 .. w -> X]
    <3>1. u = [k \in 0 .. w |-> u[k]]  BY <1>7
    <3>. HIDE DEF X
    <3>. QED BY <1>9, <3>1
  <2>2. ASSUME NEW k \in 1 .. w
        PROVE u[k] = IF r[k - 1] = Prefixes!One THEN Prefixes!VPlus(u[k - 1],
                 x[k - 1]) ELSE u[k - 1]
    <3>1. k - 1 \in 0 .. w  OBVIOUS
    <3>2. u[k - 1] \in X  BY <1>9, <3>1
    <3>. HIDE DEF X
    <3>. QED BY <1>2, <1>8, <3>2
  <2>. QED BY <1>8, <2>1, <2>2 DEF Partial
<1>. QED BY <1>0, <1>10

\* Two sums side by side.
LEMMA SumsTogether ==
  ASSUME NEW D
  PROVE  \A p, q, v \in Sym(D) :
           /\ Prefixes!VPlus(Prefixes!VPlus(p, v), q) = Prefixes!VPlus(Prefixes!VPlus(p, q), v)
           /\ Prefixes!VPlus(p, Prefixes!VPlus(q, v)) = Prefixes!VPlus(Prefixes!VPlus(p, q), v)
           /\ Prefixes!VPlus(Prefixes!VPlus(p, v), Prefixes!VPlus(q, v)) = Prefixes!VPlus(p, q)
<1>. TAKE p, q, v \in Sym(D)
<1>1. Prefixes!VPlus(p, v) \in Sym(D) /\ Prefixes!VPlus(q, v) \in Sym(D)
        /\ Prefixes!VPlus(p, q) \in Sym(D)
  BY AddBits
<1>2. Prefixes!VPlus(p, Prefixes!VPlus(q, v)) = Prefixes!VPlus(Prefixes!VPlus(p, q), v)
  BY SumLaws
<1>3. Prefixes!VPlus(Prefixes!VPlus(p, v), q) = Prefixes!VPlus(p, Prefixes!VPlus(v, q))
        /\ Prefixes!VPlus(v, q) = Prefixes!VPlus(q, v)
  BY SumLaws
<1>4. Prefixes!VPlus(Prefixes!VPlus(p, v), Prefixes!VPlus(q, v))
        = Prefixes!VPlus(Prefixes!VPlus(Prefixes!VPlus(p, v), q), v)
  BY <1>1, SumLaws
<1>5. Prefixes!VPlus(Prefixes!VPlus(p, v), q) = Prefixes!VPlus(Prefixes!VPlus(p, q), v)
  BY <1>2, <1>3
<1>6. Prefixes!VPlus(Prefixes!VPlus(Prefixes!VPlus(p, q), v), v) = Prefixes!VPlus(p, q)
  BY <1>1, SumLaws
<1>. QED BY <1>2, <1>4, <1>5, <1>6

\* If two sums are equal and two of their terms are, so are the others.
LEMMA Cancels ==
  ASSUME NEW D, NEW p \in Sym(D), NEW q \in Sym(D), NEW u \in Sym(D),
         NEW v \in Sym(D), Prefixes!VPlus(p, q) = Prefixes!VPlus(u, v)
  PROVE  q = u <=> v = p
<1>1. ASSUME q = u PROVE v = p
  <2>1. Prefixes!VPlus(Prefixes!VPlus(p, q), q) = p
          /\ Prefixes!VPlus(Prefixes!VPlus(v, u), u) = v
    BY SumLaws
  <2>2. Prefixes!VPlus(u, v) = Prefixes!VPlus(v, u)  BY SumLaws
  <2>. QED BY <1>1, <2>1, <2>2
<1>2. ASSUME v = p PROVE q = u
  <2>1. Prefixes!VPlus(Prefixes!VPlus(q, p), p) = q
          /\ Prefixes!VPlus(Prefixes!VPlus(u, v), v) = u
    BY SumLaws
  <2>2. Prefixes!VPlus(p, q) = Prefixes!VPlus(q, p)  BY SumLaws
  <2>. QED BY <1>2, <2>1, <2>2
<1>. QED BY <1>1, <1>2

\* Going up to a number.
LEMMA UpTo ==
  ASSUME NEW P, NEW w \in Nat, 0 \in P, \A k \in 0 .. w - 1 : k \in P => k + 1 \in P
  PROVE  \A k \in 0 .. w : k \in P
<1>. DEFINE T == {k \in Nat : k <= w => k \in P}
<1>1. 0 \in T  OBVIOUS
<1>2. ASSUME NEW k \in Nat, k \in T PROVE k + 1 \in T
  <2>. SUFFICES ASSUME k + 1 <= w PROVE k + 1 \in P  OBVIOUS
  <2>1. k \in 0 .. w - 1 /\ k \in P  BY <1>2
  <2>. QED BY <2>1
<1>. HIDE DEF T
<1>3. \A k \in Nat : k \in T  BY <1>1, <1>2, SetInduction
<1>. QED BY <1>3 DEF T

\* The next of the partial sums.
LEMMA NextPartial ==
  ASSUME NEW w \in Nat \ {0}, NEW D, NEW r, NEW x, NEW P, Partial(P, r, x, w, D),
         NEW k \in 0 .. w - 1
  PROVE  /\ P[k] \in Sym(D) /\ P[k + 1] \in Sym(D)
         /\ P[k + 1] = IF r[k] = Prefixes!One THEN Prefixes!VPlus(P[k], x[k]) ELSE P[k]
<1>1. k \in 0 .. w /\ k + 1 \in 0 .. w /\ k + 1 \in 1 .. w /\ (k + 1) - 1 = k  OBVIOUS
<1>2. PICK m \in 1 .. w : m = k + 1  BY <1>1
<1>3. P[m] = IF r[m - 1] = Prefixes!One THEN Prefixes!VPlus(P[m - 1], x[m - 1]) ELSE P[m - 1]
  BY DEF Partial
<1>4. P[k] \in Sym(D) /\ P[k + 1] \in Sym(D)  BY <1>1 DEF Partial
<1>. QED BY <1>1, <1>2, <1>3, <1>4

\* A combination is a symbol with the same components.
LEMMA CombinationType ==
  ASSUME NEW w \in Nat \ {0}, NEW D, NEW r \in BitRow(w),
         NEW x \in Sols(w, D)
  PROVE  Prefixes!Combination(r, x, w) \in Sym(D)
<1>1. PICK P : Partial(P, r, x, w, D) /\ Prefixes!Combination(r, x, w) = P[w]  BY CombinationIs
<1>2. w \in 0 .. w  OBVIOUS
<1>. QED BY <1>1, <1>2 DEF Partial

\* A combination with the sum of two rows is the sum of the combinations.
LEMMA CombinationAdds ==
  ASSUME NEW w \in Nat \ {0}, NEW D, NEW r \in BitRow(w),
         NEW s \in BitRow(w), NEW x \in Sols(w, D)
  PROVE  Prefixes!Combination(Prefixes!VPlus(r, s), x, w)
           = Prefixes!VPlus(Prefixes!Combination(r, x, w), Prefixes!Combination(s, x, w))
<1>. DEFINE t == Prefixes!VPlus(r, s)
<1>0. t \in BitRow(w) /\ \A k \in 0 .. w - 1 : t[k] = IF r[k]
        = s[k] THEN Prefixes!Zero ELSE Prefixes!One
  BY AddBits DEF BitRow, Sym
<1>. HIDE DEF t
<1>1. PICK P : Partial(P, r, x, w, D) /\ Prefixes!Combination(r, x, w) = P[w]  BY CombinationIs
<1>2. PICK Q : Partial(Q, s, x, w, D) /\ Prefixes!Combination(s, x, w) = Q[w]  BY CombinationIs
<1>3. PICK R : Partial(R, t, x, w, D) /\ Prefixes!Combination(t, x, w) = R[w]
  BY <1>0, CombinationIs
<1>. DEFINE T == {k \in 0 .. w : R[k] = Prefixes!VPlus(P[k], Q[k])}
<1>4. 0 \in T
  <2>1. P[0] = Prefixes!VZero(D) /\ Q[0] = Prefixes!VZero(D) /\ R[0] = Prefixes!VZero(D)
    BY <1>1, <1>2, <1>3 DEF Partial
  <2>2. Prefixes!VPlus(Prefixes!VZero(D), Prefixes!VZero(D)) = Prefixes!VZero(D)  BY SumLaws
  <2>. QED BY <2>1, <2>2
<1>5. ASSUME NEW k \in 0 .. w - 1, k \in T PROVE k + 1 \in T
  <2>1. /\ P[k] \in Sym(D) /\ Q[k] \in Sym(D)
        /\ P[k + 1] = IF r[k] = Prefixes!One THEN Prefixes!VPlus(P[k], x[k]) ELSE P[k]
        /\ Q[k + 1] = IF s[k] = Prefixes!One THEN Prefixes!VPlus(Q[k], x[k]) ELSE Q[k]
        /\ R[k + 1] = IF t[k] = Prefixes!One THEN Prefixes!VPlus(R[k], x[k]) ELSE R[k]
    BY <1>1, <1>2, <1>3, NextPartial
  <2>2. R[k] = Prefixes!VPlus(P[k], Q[k]) /\ x[k] \in Sym(D)  BY <1>5, InColumn
  <2>3. /\ Prefixes!VPlus(Prefixes!VPlus(P[k], x[k]), Q[k])
           = Prefixes!VPlus(Prefixes!VPlus(P[k], Q[k]), x[k])
        /\ Prefixes!VPlus(P[k], Prefixes!VPlus(Q[k], x[k]))
           = Prefixes!VPlus(Prefixes!VPlus(P[k], Q[k]), x[k])
        /\ Prefixes!VPlus(Prefixes!VPlus(P[k], x[k]), Prefixes!VPlus(Q[k], x[k]))
           = Prefixes!VPlus(P[k], Q[k])
    BY <2>1, <2>2, SumsTogether
  <2>4. (r[k] = Prefixes!Zero \/ r[k] = Prefixes!One)
          /\ (s[k] = Prefixes!Zero \/ s[k] = Prefixes!One) /\ Prefixes!Zero # Prefixes!One
        /\ t[k] = IF r[k] = s[k] THEN Prefixes!Zero ELSE Prefixes!One
    BY <1>0, InColumn
  <2>5. R[k + 1] = Prefixes!VPlus(P[k + 1], Q[k + 1])  BY ONLY <2>1, <2>2, <2>3, <2>4
  <2>6. k + 1 \in 0 .. w  OBVIOUS
  <2>. QED BY <2>5, <2>6
<1>. HIDE DEF T
<1>6. \A k \in 0 .. w : k \in T  BY <1>4, <1>5, UpTo
<1>7. R[w] = Prefixes!VPlus(P[w], Q[w])
  <2>1. w \in 0 .. w  OBVIOUS
  <2>. QED BY <1>6, <2>1 DEF T
<1>. QED BY <1>1, <1>2, <1>3, <1>7 DEF t

\* The combination with a row of zeros.
LEMMA CombinationOfNone ==
  ASSUME NEW w \in Nat \ {0}, NEW D, NEW r \in BitRow(w),
         NEW x \in Sols(w, D), \A k \in 0 .. w - 1 : r[k] = Prefixes!Zero
  PROVE  Prefixes!Combination(r, x, w) = Prefixes!VZero(D)
<1>1. PICK P : Partial(P, r, x, w, D) /\ Prefixes!Combination(r, x, w) = P[w]  BY CombinationIs
<1>. DEFINE T == {k \in 0 .. w : P[k] = Prefixes!VZero(D)}
<1>2. 0 \in T  BY <1>1 DEF Partial
<1>3. ASSUME NEW k \in 0 .. w - 1, k \in T PROVE k + 1 \in T
  <2>1. P[k + 1] = IF r[k] = Prefixes!One THEN Prefixes!VPlus(P[k], x[k]) ELSE P[k]
    BY <1>1, NextPartial
  <2>2. r[k] # Prefixes!One /\ k + 1 \in 0 .. w  BY DEF Prefixes!Zero, Prefixes!One
  <2>. QED BY <1>3, <2>1, <2>2
<1>. HIDE DEF T
<1>4. \A k \in 0 .. w : k \in T  BY <1>2, <1>3, UpTo
<1>5. w \in 0 .. w  OBVIOUS
<1>. QED BY <1>1, <1>4, <1>5 DEF T

-----------------------------------------------------------------------------
(* Substituting back.                                                      *)

\* The solved columns behind j are taken out of symbol s one by one.
TakenOut(q, r, s, x, j, w, D) ==
  /\ q \in [j .. w - 1 -> Sym(D)] /\ q[j] = s
  /\ \A k \in j + 1 .. w - 1 : q[k] = IF r[k]
     = Prefixes!One THEN Prefixes!VPlus(q[k - 1], x[k]) ELSE q[k - 1]

\* A row whose first column is j gives the symbol of that column.
LEMMA RowGivesColumn ==
  ASSUME NEW w \in Nat \ {0}, NEW D, NEW r \in BitRow(w),
         NEW x \in Sols(w, D), NEW s \in Sym(D), NEW j \in 0 .. w - 1,
         r[j] = Prefixes!One, \A k \in 0 .. j - 1 : r[k] = Prefixes!Zero,
         NEW q, TakenOut(q, r, s, x, j, w, D)
  PROVE  Prefixes!Combination(r, x, w) = s <=> x[j] = q[w - 1]
<1>1. PICK P : Partial(P, r, x, w, D) /\ Prefixes!Combination(r, x, w) = P[w]  BY CombinationIs
<1>. DEFINE T == {k \in 0 .. j : P[k] = Prefixes!VZero(D)}
<1>2. 0 \in T  BY <1>1 DEF Partial
<1>3. ASSUME NEW k \in 0 .. j - 1, k \in T PROVE k + 1 \in T
  <2>1. k \in 0 .. w - 1  OBVIOUS
  <2>2. P[k + 1] = IF r[k] = Prefixes!One THEN Prefixes!VPlus(P[k], x[k]) ELSE P[k]
    BY <1>1, <2>1, NextPartial
  <2>3. r[k] # Prefixes!One /\ k + 1 \in 0 .. j  BY DEF Prefixes!Zero, Prefixes!One
  <2>. QED BY <1>3, <2>2, <2>3
<1>. HIDE DEF T
<1>4. P[j] = Prefixes!VZero(D)
  <2>2. j \in 0 .. j /\ j \in Nat  OBVIOUS
  <2>1. \A k \in 0 .. j : k \in T  BY <1>2, <1>3, <2>2, UpTo
  <2>. QED BY <2>1, <2>2 DEF T
<1>5. P[j + 1] = x[j]
  <2>1. P[j + 1] = Prefixes!VPlus(P[j], x[j])  BY <1>1, NextPartial
  <2>2. x[j] \in Sym(D)  BY InColumn
  <2>3. Prefixes!VPlus(Prefixes!VZero(D), x[j]) = x[j]  BY <2>2, SumLaws
  <2>. QED BY <1>4, <2>1, <2>3
<1>. DEFINE L == w - 1 - j
            U == {e \in 0 .. L : Prefixes!VPlus(q[j + e], P[j + e + 1])
                = Prefixes!VPlus(s, x[j])}
<1>6. 0 \in U
  <2>1. j + 0 = j /\ j + 0 + 1 = j + 1 /\ 0 \in 0 .. L  OBVIOUS
  <2>2. q[j] = s  BY DEF TakenOut
  <2>. QED BY <1>5, <2>1, <2>2
<1>7. ASSUME NEW e \in 0 .. L - 1, e \in U PROVE e + 1 \in U
  <2>0. PICK k \in 0 .. w - 1 : k = j + e + 1  OBVIOUS
  <2>1. k \in j + 1 .. w - 1 /\ k - 1 = j + e /\ k - 1 \in j .. w - 1
        /\ j + (e + 1) = k /\ j + (e + 1) + 1 = k + 1 /\ e + 1 \in 0 .. L
    BY <2>0
  <2>2. P[k] \in Sym(D) /\ P[k + 1] = IF r[k]
          = Prefixes!One THEN Prefixes!VPlus(P[k], x[k]) ELSE P[k]
    BY <1>1, NextPartial
  <2>3. q[k - 1] \in Sym(D)
        /\ q[k] = IF r[k] = Prefixes!One THEN Prefixes!VPlus(q[k - 1], x[k]) ELSE q[k - 1]
    BY <2>1 DEF TakenOut
  <2>4. x[k] \in Sym(D)  BY InColumn
  <2>5. Prefixes!VPlus(Prefixes!VPlus(q[k - 1], x[k]), Prefixes!VPlus(P[k], x[k]))
          = Prefixes!VPlus(q[k - 1], P[k])
    BY <2>2, <2>3, <2>4, SumsTogether
  <2>6. Prefixes!VPlus(q[k - 1], P[k]) = Prefixes!VPlus(s, x[j])  BY <1>7, <2>0, <2>1
  <2>7. Prefixes!VPlus(q[k], P[k + 1]) = Prefixes!VPlus(s, x[j])  BY ONLY <2>2, <2>3, <2>5, <2>6
  <2>. QED BY <2>1, <2>7
<1>8. Prefixes!VPlus(q[w - 1], P[w]) = Prefixes!VPlus(s, x[j])
  <2>1. L \in Nat /\ L \in 0 .. L /\ j + L = w - 1 /\ j + L + 1 = w  OBVIOUS
  <2>. HIDE DEF U, L
  <2>2. \A e \in 0 .. L : e \in U  BY <1>6, <1>7, <2>1, UpTo
  <2>3. L \in U  BY <2>1, <2>2
  <2>4. Prefixes!VPlus(q[j + L], P[j + L + 1]) = Prefixes!VPlus(s, x[j])  BY <2>3 DEF U
  <2>. QED BY <2>1, <2>4
<1>9. q[w - 1] \in Sym(D) /\ P[w] \in Sym(D) /\ x[j] \in Sym(D)
  <2>1. w - 1 \in j .. w - 1 /\ w \in 0 .. w  OBVIOUS
  <2>. QED BY <1>1, <2>1, InColumn DEF TakenOut, Partial
<1>10. PICK p \in Sym(D), t \in Sym(D), v \in Sym(D) :
         p = q[w - 1] /\ t = P[w] /\ v = x[j]
  BY <1>9
<1>11. Prefixes!VPlus(p, t) = Prefixes!VPlus(s, v)  BY <1>8, <1>10
<1>12. t = s <=> v = p  BY <1>11, Cancels
<1>. QED BY <1>1, <1>10, <1>12

\* What is taken out depends on the columns behind only.
LEMMA TakenOutSame ==
  ASSUME NEW w \in Nat \ {0}, NEW D, NEW r, NEW s, NEW x, NEW z, NEW j \in 0 .. w - 1,
         NEW q, TakenOut(q, r, s, x, j, w, D), NEW p, TakenOut(p, r, s, z, j, w, D),
         \A k \in j + 1 .. w - 1 : x[k] = z[k]
  PROVE  q[w - 1] = p[w - 1]
<1>. DEFINE L == w - 1 - j
            U == {e \in 0 .. L : q[j + e] = p[j + e]}
<1>1. 0 \in U
  <2>1. j + 0 = j /\ 0 \in 0 .. L  OBVIOUS
  <2>2. q[j] = s /\ p[j] = s  BY DEF TakenOut
  <2>. QED BY <2>1, <2>2
<1>2. ASSUME NEW e \in 0 .. L - 1, e \in U PROVE e + 1 \in U
  <2>1. PICK k \in j + 1 .. w - 1 : k = j + e + 1  OBVIOUS
  <2>2. k - 1 = j + e /\ j + (e + 1) = k /\ e + 1 \in 0 .. L  BY <2>1
  <2>3. q[k] = IF r[k] = Prefixes!One THEN Prefixes!VPlus(q[k - 1], x[k]) ELSE q[k - 1]
    BY DEF TakenOut
  <2>4. p[k] = IF r[k] = Prefixes!One THEN Prefixes!VPlus(p[k - 1], z[k]) ELSE p[k - 1]
    BY DEF TakenOut
  <2>5. q[k - 1] = p[k - 1]  BY <1>2, <2>2
  <2>6. q[k] = p[k]  BY <2>3, <2>4, <2>5
  <2>. QED BY <2>2, <2>6
<1>3. L \in Nat /\ L \in 0 .. L /\ j + L = w - 1  OBVIOUS
<1>. HIDE DEF U, L
<1>4. \A e \in 0 .. L : e \in U  BY <1>1, <1>2, <1>3, UpTo
<1>5. L \in U  BY <1>3, <1>4
<1>. QED BY <1>3, <1>5 DEF U

\* The symbol that remains of a row is found by taking out column by column.
LEMMA RemainingIs ==
  ASSUME NEW w \in Nat \ {0}, w = shape.n, NEW D, NEW r, NEW s \in Sym(D), NEW x,
         NEW j \in 0 .. w - 1, \A k \in j + 1 .. w - 1 : x[k] \in Sym(D)
  PROVE  \E q : TakenOut(q, r, s, x, j, w, D) /\ Prefixes!Remaining(r, s, j, x) = q[w - 1]
<1>. DEFINE X == Sym(D)
            L == w - 1 - j
            Eqn(f) == f = [k \in j .. w - 1 |->
                             IF k = j THEN s
                             ELSE IF r[k] = Prefixes!One THEN Prefixes!VPlus(f[k - 1],
                                 x[k]) ELSE f[k - 1]]
            u == CHOOSE f : Eqn(f)
            G == [z \in (1 .. L) \X X |->
                    IF r[j + z[1]] = Prefixes!One THEN Prefixes!VPlus(z[2],
                        x[j + z[1]]) ELSE z[2]]
<1>0. Prefixes!Remaining(r, s, j, x) = u[w - 1]  BY DEF Prefixes!Remaining
<1>1. \A p \in X, k \in j + 1 .. w - 1 : Prefixes!VPlus(p, x[k]) \in X  BY SumLaws
<1>2. L \in Nat  OBVIOUS
<1>3. G \in [(1 .. L) \X X -> X]
  <2>1. \A z \in (1 .. L) \X X : z[1] \in 1 .. L /\ z[2] \in X  OBVIOUS
  <2>2. \A e \in 1 .. L : j + e \in j + 1 .. w - 1  OBVIOUS
  <2>. HIDE DEF X, L
  <2>3. ASSUME NEW z \in (1 .. L) \X X
        PROVE  (IF r[j + z[1]] = Prefixes!One THEN Prefixes!VPlus(z[2], x[j + z[1]]) ELSE z[2])
                 \in X
    <3>1. z[2] \in X /\ j + z[1] \in j + 1 .. w - 1  BY <2>1, <2>2
    <3>2. Prefixes!VPlus(z[2], x[j + z[1]]) \in X  BY <1>1, <3>1
    <3>. QED BY <3>1, <3>2
  <2>. QED BY <2>3
<1>. HIDE DEF L
<1>4. PICK g : Recurs(g, X, s, L, G)
  <2>. HIDE DEF G
  <2>. QED BY <1>2, <1>3, Recursion
<1>. DEFINE f == [k \in j .. w - 1 |-> g[k - j]]
<1>5. f[j] = s
  <2>1. j \in j .. w - 1 /\ j - j = 0  OBVIOUS
  <2>. QED BY <1>4, <2>1 DEF Recurs
<1>6. \A k \in j + 1 .. w - 1 : f[k] = IF r[k]
        = Prefixes!One THEN Prefixes!VPlus(f[k - 1], x[k]) ELSE f[k - 1]
  <2>. TAKE k \in j + 1 .. w - 1
  <2>1. PICK e \in 1 .. L : e = k - j  BY DEF L
  <2>2. k \in j .. w - 1 /\ k - 1 \in j .. w - 1 /\ (k - 1) - j = e - 1 /\ j + e = k
        /\ e - 1 \in 0 .. L
    BY <1>2, <2>1
  <2>3. g[e] = G[<<e, g[e - 1]>>] /\ g[e - 1] \in X  BY <1>4, <2>2 DEF Recurs
  <2>. HIDE DEF X
  <2>4. <<e, g[e - 1]>> \in (1 .. L) \X X  BY <2>3
  <2>5. g[e] = IF r[k] = Prefixes!One THEN Prefixes!VPlus(g[e - 1], x[k]) ELSE g[e - 1]
    BY <2>2, <2>3, <2>4
  <2>. QED BY <2>1, <2>2, <2>5
<1>7. Eqn(f)
  <2>. DEFINE E(k) == IF k = j THEN s
                      ELSE IF r[k] = Prefixes!One THEN Prefixes!VPlus(f[k - 1],
                          x[k]) ELSE f[k - 1]
  <2>1. \A k \in j .. w - 1 : k # j => k \in j + 1 .. w - 1  OBVIOUS
  <2>2. f = [k \in j .. w - 1 |-> f[k]]  OBVIOUS
  <2>. HIDE DEF f
  <2>3. \A k \in j .. w - 1 : f[k] = E(k)  BY <1>5, <1>6, <2>1
  <2>. HIDE DEF E
  <2>4. f = [k \in j .. w - 1 |-> E(k)]  BY <2>2, <2>3
  <2>. QED BY <2>4 DEF E
<1>8. Eqn(u)
  <2>. HIDE DEF f
  <2>. QED BY <1>7
<1>. HIDE DEF u
<1>9. u[j] = s
      /\ \A k \in j + 1 .. w - 1 : u[k] = IF r[k]
         = Prefixes!One THEN Prefixes!VPlus(u[k - 1], x[k]) ELSE u[k - 1]
  <2>. DEFINE E(k) == IF k = j THEN s
                      ELSE IF r[k] = Prefixes!One THEN Prefixes!VPlus(u[k - 1],
                          x[k]) ELSE u[k - 1]
  <2>1. u = [k \in j .. w - 1 |-> E(k)]  BY <1>8
  <2>2. \A k \in j .. w - 1 : u[k] = E(k)
    <3>. HIDE DEF E
    <3>. QED BY <2>1
  <2>3. j \in j .. w - 1 /\ \A k \in j + 1 .. w - 1 : k # j /\ k \in j .. w - 1  OBVIOUS
  <2>. QED BY <2>2, <2>3
<1>10. \A k \in j .. w - 1 : u[k] \in X
  <2>. DEFINE T == {e \in 0 .. L : u[j + e] \in X}
  <2>1. 0 \in T
    <3>1. j + 0 = j  OBVIOUS
    <3>. QED BY <1>2, <1>9, <3>1
  <2>2. ASSUME NEW e \in 0 .. L - 1, e \in T PROVE e + 1 \in T
    <3>1. PICK k \in j + 1 .. w - 1 : k = j + e + 1  BY DEF L
    <3>2. k - 1 = j + e /\ j + (e + 1) = k /\ e + 1 \in 0 .. L  BY <1>2, <3>1
    <3>. HIDE DEF X
    <3>3. u[k - 1] \in X  BY <2>2, <3>2
    <3>4. Prefixes!VPlus(u[k - 1], x[k]) \in X  BY <1>1, <3>3
    <3>5. u[k] \in X  BY <1>9, <3>3, <3>4
    <3>. QED BY <3>2, <3>5
  <2>. HIDE DEF T
  <2>3. \A e \in 0 .. L : e \in T  BY <1>2, <2>1, <2>2, UpTo
  <2>. HIDE DEF X
  <2>4. ASSUME NEW k \in j .. w - 1 PROVE u[k] \in X
    <3>1. k - j \in 0 .. L /\ j + (k - j) = k  BY DEF L
    <3>. QED BY <2>3, <3>1 DEF T
  <2>. QED BY <2>4
<1>11. TakenOut(u, r, s, x, j, w, D)
  <2>1. u \in [j .. w - 1 -> X]
    <3>1. u = [k \in j .. w - 1 |-> u[k]]  BY <1>8
    <3>. HIDE DEF X
    <3>. QED BY <1>10, <3>1
  <2>. QED BY <1>9, <2>1 DEF TakenOut
<1>. QED BY <1>0, <1>11

\* Columns that agree behind j leave the same.
LEMMA RemainingSame ==
  ASSUME NEW w \in Nat \ {0}, w = shape.n, NEW D, NEW r, NEW s \in Sym(D), NEW x, NEW z,
         NEW j \in 0 .. w - 1, \A k \in j + 1 .. w - 1 : x[k] \in Sym(D) /\ x[k] = z[k]
  PROVE  Prefixes!Remaining(r, s, j, x) = Prefixes!Remaining(r, s, j, z)
           /\ Prefixes!Remaining(r, s, j, x) \in Sym(D)
<1>1. PICK q : TakenOut(q, r, s, x, j, w, D) /\ Prefixes!Remaining(r, s, j, x) = q[w - 1]
  BY RemainingIs
<1>2. \A k \in j + 1 .. w - 1 : z[k] \in Sym(D)  OBVIOUS
<1>3. PICK p : TakenOut(p, r, s, z, j, w, D) /\ Prefixes!Remaining(r, s, j, z) = p[w - 1]
  BY <1>2, RemainingIs
<1>4. q[w - 1] = p[w - 1]  BY <1>1, <1>3, TakenOutSame
<1>5. q[w - 1] \in Sym(D)
  <2>1. w - 1 \in j .. w - 1  OBVIOUS
  <2>. QED BY <1>1, <2>1 DEF TakenOut
<1>. QED BY <1>1, <1>3, <1>4, <1>5

\* Column j of x is what remains of row j when those behind are taken out.
Substituted(R, S, w, x, j) == x[j] = Prefixes!Remaining(R[j], S[j], j, x)
AllSubstituted(R, S, w, x) == \A j \in 0 .. w - 1 : Substituted(R, S, w, x, j)
AreSymbols(S, w, D) == \A j \in 0 .. w - 1 : S[j] \in Sym(D)

\* Columns that are substituted agree.
LEMMA SubstitutedOnce ==
  ASSUME NEW w \in Nat \ {0}, w = shape.n, NEW D, NEW R, NEW S, AreSymbols(S, w, D),
         NEW x, AllSubstituted(R, S, w, x), NEW z, AllSubstituted(R, S, w, z)
  PROVE  \A j \in 0 .. w - 1 : x[j] \in Sym(D) /\ x[j] = z[j]
<1>. DEFINE T == {e \in 0 .. w : \A j \in 0 .. w - 1 : j >= w - e => x[j] \in Sym(D)
       /\ x[j] = z[j]}
<1>1. 0 \in T  OBVIOUS
<1>2. ASSUME NEW e \in 0 .. w - 1, e \in T PROVE e + 1 \in T
  <2>1. PICK j \in 0 .. w - 1 : j = w - 1 - e  OBVIOUS
  <2>2. \A k \in j + 1 .. w - 1 : k \in 0 .. w - 1 /\ k >= w - e  BY <2>1
  <2>3. \A k \in j + 1 .. w - 1 : x[k] \in Sym(D) /\ x[k] = z[k]  BY <1>2, <2>2
  <2>4. Prefixes!Remaining(R[j], S[j], j, x) = Prefixes!Remaining(R[j], S[j], j, z)
        /\ Prefixes!Remaining(R[j], S[j], j, x) \in Sym(D)
    BY <2>3, RemainingSame DEF AreSymbols
  <2>5. x[j] \in Sym(D) /\ x[j] = z[j]  BY <2>4 DEF AllSubstituted, Substituted
  <2>6. \A k \in 0 .. w - 1 : k >= w - (e + 1) => k = j \/ k >= w - e  BY <2>1
  <2>7. e + 1 \in 0 .. w  OBVIOUS
  <2>. QED BY <1>2, <2>5, <2>6, <2>7
<1>. HIDE DEF T
<1>3. \A e \in 0 .. w : e \in T  BY <1>1, <1>2, UpTo
<1>4. w \in T /\ w - w = 0  BY <1>3
<1>. QED BY <1>4 DEF T

\* There are columns that are substituted.
LEMMA CanSubstitute ==
  ASSUME NEW w \in Nat \ {0}, w = shape.n, NEW D, NEW R, NEW S, AreSymbols(S, w, D)
  PROVE  \E x \in Sols(w, D) : AllSubstituted(R, S, w, x)
<1>. DEFINE Good(e, x) == \A j \in 0 .. w - 1 : j >= w - e => Substituted(R, S, w, x, j)
            T == {e \in 0 .. w : \E x \in Sols(w, D) : Good(e, x)}
<1>1. 0 \in T
  <2>. DEFINE x == [j \in 0 .. w - 1 |-> Prefixes!VZero(D)]
  <2>1. x \in Sols(w, D)
    <3>1. Prefixes!VZero(D) \in Sym(D)  BY SumLaws
    <3>. QED BY <3>1 DEF Sols
  <2>2. Good(0, x)  OBVIOUS
  <2>. QED BY <2>1, <2>2
<1>2. ASSUME NEW e \in 0 .. w - 1, e \in T PROVE e + 1 \in T
  <2>1. PICK x \in Sols(w, D) : Good(e, x)  BY <1>2
  <2>2. PICK j \in 0 .. w - 1 : j = w - 1 - e  OBVIOUS
  <2>. DEFINE v == Prefixes!Remaining(R[j], S[j], j, x)
              z == [x EXCEPT ![j] = v]
  <2>3. \A k \in 0 .. w - 1 : x[k] \in Sym(D)  BY InColumn
  <2>4. v \in Sym(D)
    <3>1. \A k \in j + 1 .. w - 1 : k \in 0 .. w - 1  OBVIOUS
    <3>2. \A k \in j + 1 .. w - 1 : x[k] \in Sym(D) /\ x[k] = x[k]  BY <2>3, <3>1
    <3>. QED BY <3>2, RemainingSame DEF AreSymbols
  <2>. HIDE DEF v
  <2>5. z[j] = v /\ \A k \in 0 .. w - 1 : k # j => z[k] = x[k]
    <3>1. j \in DOMAIN x /\ \A k \in 0 .. w - 1 : k \in DOMAIN x  BY DEF Sols
    <3>. QED BY <3>1
  <2>6. z \in Sols(w, D)  BY <2>4 DEF Sols
  <2>. HIDE DEF z
  <2>7. ASSUME NEW k \in 0 .. w - 1, k >= w - (e + 1) PROVE Substituted(R, S, w, z, k)
    <3>1. \A i \in k + 1 .. w - 1 : i \in 0 .. w - 1 /\ i # j  BY <2>2, <2>7
    <3>2. \A i \in k + 1 .. w - 1 : x[i] \in Sym(D) /\ x[i] = z[i]  BY <2>3, <2>5, <3>1
    <3>0. S[k] \in Sym(D)  BY DEF AreSymbols
    <3>3. Prefixes!Remaining(R[k], S[k], k, x) = Prefixes!Remaining(R[k], S[k], k, z)
      BY <3>0, <3>2, RemainingSame
    <3>4. CASE k = j  BY <2>5, <3>3, <3>4 DEF Substituted, v
    <3>5. CASE k # j
      <4>1. k >= w - e  BY <2>2, <2>7, <3>5
      <4>2. x[k] = Prefixes!Remaining(R[k], S[k], k, x)  BY <2>1, <4>1 DEF Substituted
      <4>. QED BY <2>5, <3>3, <3>5, <4>2 DEF Substituted
    <3>. QED BY <3>4, <3>5
  <2>8. Good(e + 1, z)  BY <2>7
  <2>9. e + 1 \in 0 .. w  OBVIOUS
  <2>. HIDE DEF Good
  <2>. QED BY <2>6, <2>8, <2>9
<1>. HIDE DEF T
<1>3. \A e \in 0 .. w : e \in T  BY <1>1, <1>2, UpTo
<1>4. w \in T /\ w - w = 0  BY <1>3
<1>5. PICK x \in Sols(w, D) : Good(w, x)  BY <1>4 DEF T
<1>. QED BY <1>4, <1>5 DEF AllSubstituted

\* The row of each column's pivot, and its symbol.
PivotRow(w) == [j \in 0 .. w - 1 |-> rows[pivot_for_col[j]]]
PivotSymbol(w) == [j \in 0 .. w - 1 |-> symbols[pivot_for_col[j]]]

\* Row j begins in column j.
Begins(r, j) == r[j] = Prefixes!One /\ \A k \in 0 .. j - 1 : r[k] = Prefixes!Zero

\* What back substitution finds is what the rows of the pivots ask for, and
\* nothing else is.
LEMMA BackSubstitutes ==
  ASSUME NEW w \in Nat \ {0}, w = shape.n, NEW D,
         \A j \in 0 .. w - 1 : /\ rows[pivot_for_col[j]] \in BitRow(w)
                               /\ Begins(rows[pivot_for_col[j]], j)
                               /\ symbols[pivot_for_col[j]] \in Sym(D)
  PROVE  /\ Prefixes!BackSubstituted \in Sols(w, D)
         /\ \A x \in Sols(w, D) :
              (\A j \in 0 .. w - 1 :
                 Prefixes!Combination(rows[pivot_for_col[j]], x, w) = symbols[pivot_for_col[j]])
              <=> x = Prefixes!BackSubstituted
<1>. DEFINE R == PivotRow(w)
            S == PivotSymbol(w)
            Eqn(x) == x = [j \in Prefixes!Col |-> Prefixes!Remaining(rows[pivot_for_col[j]],
                symbols[pivot_for_col[j]], j, x)]
            Good(x) == AllSubstituted(R, S, w, x)
<1>1. Prefixes!BackSubstituted = CHOOSE x : Eqn(x)  BY DEF Prefixes!BackSubstituted
<1>. DEFINE u == CHOOSE x : Eqn(x)
<1>2. \A j \in 0 .. w - 1 : R[j] = rows[pivot_for_col[j]] /\ S[j] = symbols[pivot_for_col[j]]
  BY DEF PivotRow, PivotSymbol
<1>3. Prefixes!Col = 0 .. w - 1  BY DEF Prefixes!Col
<1>. HIDE DEF R, S
<1>4. AreSymbols(S, w, D)  BY <1>2 DEF AreSymbols
<1>5. PICK z \in Sols(w, D) : Good(z)  BY <1>4, CanSubstitute
<1>6. Eqn(z)
  <2>. DEFINE E(j) == Prefixes!Remaining(rows[pivot_for_col[j]], symbols[pivot_for_col[j]], j,
         z)
  <2>1. \A j \in 0 .. w - 1 : z[j] = E(j)  BY <1>2, <1>5 DEF AllSubstituted, Substituted
  <2>. HIDE DEF E
  <2>2. z = [j \in 0 .. w - 1 |-> z[j]]  BY DEF Sols
  <2>3. z = [j \in Prefixes!Col |-> E(j)]  BY <1>3, <2>1, <2>2
  <2>. QED BY <2>3 DEF E
<1>7. Eqn(u)
  <2>. HIDE DEF Eqn
  <2>. QED BY <1>6
<1>. HIDE DEF u
<1>8. Good(u)
  <2>. DEFINE E(j) == Prefixes!Remaining(rows[pivot_for_col[j]], symbols[pivot_for_col[j]], j,
         u)
  <2>1. u = [j \in Prefixes!Col |-> E(j)]  BY <1>7
  <2>. HIDE DEF E
  <2>2. \A j \in 0 .. w - 1 : u[j] = E(j)  BY <1>3, <2>1
  <2>. QED BY <1>2, <2>2 DEF E, AllSubstituted, Substituted
<1>9. \A j \in 0 .. w - 1 : z[j] \in Sym(D) /\ z[j] = u[j]
  <2>1. Good(z) /\ Good(u)  BY <1>5, <1>8
  <2>. QED BY <1>4, <2>1, SubstitutedOnce
<1>10. u = z
  <2>1. z = [j \in 0 .. w - 1 |-> z[j]]  BY DEF Sols
  <2>2. u = [j \in 0 .. w - 1 |-> u[j]]
    <3>. DEFINE E(j) == Prefixes!Remaining(rows[pivot_for_col[j]], symbols[pivot_for_col[j]], j,
           u)
    <3>1. u = [j \in 0 .. w - 1 |-> E(j)]  BY <1>3, <1>7
    <3>. HIDE DEF E
    <3>. QED BY <3>1
  <2>. QED BY <1>9, <2>1, <2>2
<1>11. \A x \in Sols(w, D), j \in 0 .. w - 1 :
         Prefixes!Combination(R[j], x, w) = S[j] <=> Substituted(R, S, w, x, j)
  <2>. TAKE x \in Sols(w, D), j \in 0 .. w - 1
  <2>1. \A k \in j + 1 .. w - 1 : k \in 0 .. w - 1  OBVIOUS
  <2>2. \A k \in j + 1 .. w - 1 : x[k] \in Sym(D)  BY <2>1, InColumn
  <2>3. S[j] \in Sym(D)  BY <1>4 DEF AreSymbols
  <2>4. PICK q : TakenOut(q, R[j], S[j], x, j, w, D)
          /\ Prefixes!Remaining(R[j], S[j], j, x) = q[w - 1]
    BY <2>2, <2>3, RemainingIs
  <2>5. R[j] \in BitRow(w) /\ R[j][j] = Prefixes!One
          /\ \A k \in 0 .. j - 1 : R[j][k] = Prefixes!Zero
    BY <1>2 DEF Begins
  <2>6. Prefixes!Combination(R[j], x, w) = S[j] <=> x[j] = q[w - 1]
    BY <2>3, <2>4, <2>5, RowGivesColumn
  <2>. QED BY <2>4, <2>6 DEF Substituted
<1>12. ASSUME NEW x \in Sols(w, D)
       PROVE  (\A j \in 0 .. w - 1 : Prefixes!Combination(R[j], x, w) = S[j]) <=> x = u
  <2>1. (\A j \in 0 .. w - 1 : Prefixes!Combination(R[j], x, w) = S[j]) <=> Good(x)
    BY <1>11 DEF AllSubstituted
  <2>2. x = u => Good(x)  BY <1>8
  <2>3. ASSUME Good(x) PROVE x = z
    <3>1. Good(z)  BY <1>5
    <3>2. \A j \in 0 .. w - 1 : z[j] \in Sym(D) /\ z[j] = x[j]
      <4>. HIDE DEF Eqn
      <4>1. AllSubstituted(R, S, w, z) /\ AllSubstituted(R, S, w, x)  BY <2>3, <3>1
      <4>. QED BY <1>4, <4>1, SubstitutedOnce
    <3>. QED BY <3>2, SameFunction DEF Sols
  <2>. HIDE DEF Good
  <2>. QED BY <1>10, <2>1, <2>2, <2>3
<1>13. Prefixes!BackSubstituted = u  BY <1>1 DEF u
<1>14. u \in Sols(w, D)  BY <1>10
<1>15. \A x \in Sols(w, D) :
         (\A j \in 0 .. w - 1 : Prefixes!Combination(rows[pivot_for_col[j]], x, w)
             = symbols[pivot_for_col[j]])
         <=> (\A j \in 0 .. w - 1 : Prefixes!Combination(R[j], x, w) = S[j])
  BY <1>2
<1>. QED BY <1>12, <1>13, <1>14, <1>15

-----------------------------------------------------------------------------
(* Components of symbols, and what is chosen component by component.       *)

\* Counting the members of sets of numbers.
LEMMA CountingSets ==
  ASSUME NEW m \in Nat
  PROVE  /\ Cardinality({}) = 0 /\ Cardinality(0 .. m - 1) = m
         /\ \A S \in SUBSET (0 .. m - 1) : /\ Cardinality(S) \in Nat
                                           /\ Cardinality(S \cup {m}) = Cardinality(S) + 1
<1>1. IsFiniteSet(0 .. m - 1)
      /\ Cardinality(0 .. m - 1) = IF 0 > m - 1 THEN 0 ELSE (m - 1) - 0 + 1
  BY FS_Interval
<1>2. Cardinality({}) = 0  BY FS_EmptySet
<1>3. ASSUME NEW S \in SUBSET (0 .. m - 1)
      PROVE  Cardinality(S) \in Nat /\ Cardinality(S \cup {m}) = Cardinality(S) + 1
  <2>1. IsFiniteSet(S)  BY <1>1, FS_Subset
  <2>2. m \notin S  OBVIOUS
  <2>3. Cardinality(S) \in Nat  BY <2>1, FS_CardinalityType
  <2>4. IsFiniteSet(S \cup {m})
          /\ Cardinality(S \cup {m}) = IF m \in S THEN Cardinality(S) ELSE Cardinality(S) + 1
    BY <2>1, FS_AddElement
  <2>. QED BY <2>2, <2>3, <2>4
<1>. QED BY <1>1, <1>2, <1>3

\* A set counts the same whichever module counts it.
LEMMA SameCount ==
  ASSUME NEW T
  PROVE  Prefixes!Cardinality(T) = Cardinality(T)
BY DEF Prefixes!Cardinality, Cardinality

\* How the sets of columns that PrefixSolve counts are counted.
LEMMA Counting ==
  ASSUME NEW m \in Nat
  PROVE  /\ Prefixes!Cardinality({}) = 0 /\ Prefixes!Cardinality(0 .. m - 1) = m
         /\ \A S \in SUBSET (0 .. m - 1) : /\ Prefixes!Cardinality(S) \in Nat
                                           /\ Prefixes!Cardinality(S \cup {m})
                                              = Prefixes!Cardinality(S) + 1
BY CountingSets, SameCount

\* A component of a combination is the parity of the ones it takes.
LEMMA CombinationParity ==
  ASSUME NEW w \in Nat \ {0}, w = shape.n, NEW D, NEW r \in BitRow(w),
         NEW x \in Sols(w, D), NEW d \in D, NEW b, \A j \in 0 .. w - 1 : b[j] = x[j][d]
  PROVE  Prefixes!Combination(r, x, w)[d] = Prefixes!Parity(r, b)
<1>1. PICK P : Partial(P, r, x, w, D) /\ Prefixes!Combination(r, x, w) = P[w]  BY CombinationIs
<1>. DEFINE TakenOnes(k) == {j \in 0 .. k - 1 : r[j] = Prefixes!One /\ b[j] = Prefixes!One}
            T == {k \in 0 .. w : P[k][d] = Prefixes!Cardinality(TakenOnes(k)) % 2}
<1>2. 0 \in T
  <2>1. TakenOnes(0) = {}  OBVIOUS
  <2>2. Prefixes!Cardinality({}) = 0  BY Counting
  <2>3. P[0] = Prefixes!VZero(D)  BY <1>1 DEF Partial
  <2>4. P[0][d] = 0  BY <2>3 DEF Prefixes!VZero, Prefixes!Zero
  <2>5. 0 % 2 = 0 /\ 0 \in 0 .. w  OBVIOUS
  <2>6. Prefixes!Cardinality(TakenOnes(0)) = 0  BY <2>1, <2>2
  <2>. HIDE DEF TakenOnes
  <2>7. P[0][d] = Prefixes!Cardinality(TakenOnes(0)) % 2  BY <2>4, <2>5, <2>6
  <2>. QED BY <2>5, <2>7
<1>3. ASSUME NEW k \in 0 .. w - 1, k \in T PROVE k + 1 \in T
  <2>1. /\ P[k] \in Sym(D)
        /\ P[k + 1] = IF r[k] = Prefixes!One THEN Prefixes!VPlus(P[k], x[k]) ELSE P[k]
    BY <1>1, NextPartial
  <2>2. x[k] \in Sym(D) /\ b[k] = x[k][d]  BY InColumn
  <2>3. Prefixes!VPlus(P[k], x[k])[d] = IF P[k][d]
          = x[k][d] THEN Prefixes!Zero ELSE Prefixes!One
    BY <2>1, <2>2, AddBits
  <2>4. b[k] = 0 \/ b[k] = 1
    <3>1. x[k][d] \in Bit  BY <2>2 DEF Sym
    <3>. QED BY <2>2, <3>1 DEF Bit, Prefixes!Zero, Prefixes!One
  <2>5. TakenOnes(k + 1) = IF r[k] = Prefixes!One
          /\ b[k] = Prefixes!One THEN TakenOnes(k) \cup {k} ELSE TakenOnes(k)
    <3>1. \A j \in Int : j \in 0 .. (k + 1) - 1 <=> j \in 0 .. k - 1 \/ j = k  OBVIOUS
    <3>. QED BY <3>1
  <2>6. Prefixes!Cardinality(TakenOnes(k)) \in Nat
          /\ Prefixes!Cardinality(TakenOnes(k) \cup {k})
             = Prefixes!Cardinality(TakenOnes(k)) + 1
    <3>1. TakenOnes(k) \in SUBSET (0 .. k - 1) /\ k \in Nat  OBVIOUS
    <3>. HIDE DEF TakenOnes
    <3>. QED BY <3>1, Counting
  <2>. HIDE DEF TakenOnes
  <2>7. PICK c \in Nat : c = Prefixes!Cardinality(TakenOnes(k)) /\ P[k][d] = c % 2
    BY <1>3, <2>6
  <2>8. P[k + 1][d] = Prefixes!Cardinality(TakenOnes(k + 1)) % 2
    <3>1. CASE r[k] # Prefixes!One  BY <2>1, <2>5, <2>7, <3>1
    <3>2. CASE r[k] = Prefixes!One /\ b[k] = 1
      <4>1. Prefixes!Cardinality(TakenOnes(k + 1)) = c + 1
        BY <2>5, <2>6, <2>7, <3>2 DEF Prefixes!One
      <4>2. P[k + 1][d] = IF c % 2 = 1 THEN 0 ELSE 1
        BY <2>1, <2>2, <2>3, <2>7, <3>2 DEF Prefixes!Zero, Prefixes!One
      <4>3. (c + 1) % 2 = IF c % 2 = 1 THEN 0 ELSE 1  BY ONLY c \in Nat
      <4>. QED BY <4>1, <4>2, <4>3
    <3>3. CASE r[k] = Prefixes!One /\ b[k] = 0
      <4>1. Prefixes!Cardinality(TakenOnes(k + 1)) = c  BY <2>5, <2>7, <3>3 DEF Prefixes!One
      <4>2. P[k + 1][d] = IF c % 2 = 0 THEN 0 ELSE 1
        BY <2>1, <2>2, <2>3, <2>7, <3>3 DEF Prefixes!Zero, Prefixes!One
      <4>3. c % 2 = IF c % 2 = 0 THEN 0 ELSE 1  BY ONLY c \in Nat
      <4>. QED BY <4>1, <4>2, <4>3
    <3>. QED BY <2>4, <3>1, <3>2, <3>3
  <2>9. k + 1 \in 0 .. w  OBVIOUS
  <2>. QED BY <2>8, <2>9
<1>. HIDE DEF T
<1>4. \A k \in 0 .. w : k \in T  BY <1>2, <1>3, UpTo
<1>5. w \in T  BY <1>4
<1>6. P[w][d] = Prefixes!Cardinality(TakenOnes(w)) % 2  BY <1>5 DEF T
<1>7. Prefixes!Parity(r, b) = Prefixes!Cardinality(TakenOnes(w)) % 2
  BY DEF Prefixes!Parity, Prefixes!Col
<1>. QED BY <1>1, <1>6, <1>7

\* Rows and symbols of the rows I.
AreRows(I, from, w) == \A i \in I : matrix[i] \in BitRow(w) /\ from[i] \in Sym(0 .. w)

\* If each component has exactly one solution, they are one of the rows.
LEMMA SolutionSolves ==
  ASSUME NEW w \in Nat \ {0}, w = shape.n, NEW I, NEW from, AreRows(I, from, w),
         Prefixes!Solvable(I, from)
  PROVE  /\ Prefixes!Solution(I, from) \in Sols(w, 0 .. w)
         /\ \A i \in I : Prefixes!Combination(matrix[i], Prefixes!Solution(I, from), w)
            = from[i]
<1>. DEFINE c == [k \in 0 .. shape.n |-> CHOOSE x \in Prefixes!Solutions(I, from, k) : TRUE]
            x == Prefixes!Solution(I, from)
<1>1. x = [j \in 0 .. w - 1 |-> [k \in 0 .. w |-> c[k][j]]]
  BY DEF Prefixes!Solution, Prefixes!Col
<1>2. ASSUME NEW k \in 0 .. w
      PROVE  c[k] \in [0 .. w - 1 -> Bit]
               /\ \A i \in I : Prefixes!Parity(matrix[i], c[k]) = from[i][k]
  <2>1. Prefixes!Cardinality(Prefixes!Solutions(I, from, k)) = 1  BY DEF Prefixes!Solvable
  <2>2. Prefixes!Cardinality({}) = 0  BY Counting
  <2>3. Prefixes!Solutions(I, from, k) # {}  BY <2>1, <2>2
  <2>4. c[k] = CHOOSE z \in Prefixes!Solutions(I, from, k) : TRUE  OBVIOUS
  <2>. HIDE DEF c
  <2>5. c[k] \in Prefixes!Solutions(I, from, k)  BY <2>3, <2>4
  <2>. QED BY <2>5 DEF Prefixes!Solutions, Bit, Prefixes!Col
<1>. HIDE DEF c, x
<1>3. x \in Sols(w, 0 .. w)
  <2>1. \A j \in 0 .. w - 1, k \in 0 .. w : c[k][j] \in Bit  BY <1>2
  <2>2. \A j \in 0 .. w - 1 : [k \in 0 .. w |-> c[k][j]] \in Sym(0 .. w)  BY <2>1 DEF Sym
  <2>. QED BY <1>1, <2>2 DEF Sols
<1>4. ASSUME NEW i \in I PROVE Prefixes!Combination(matrix[i], x, w) = from[i]
  <2>1. matrix[i] \in BitRow(w) /\ from[i] \in Sym(0 .. w)  BY DEF AreRows
  <2>2. Prefixes!Combination(matrix[i], x, w) \in Sym(0 .. w)  BY <1>3, <2>1, CombinationType
  <2>3. ASSUME NEW k \in 0 .. w PROVE Prefixes!Combination(matrix[i], x, w)[k] = from[i][k]
    <3>1. \A j \in 0 .. w - 1 : c[k][j] = x[j][k]  BY <1>1
    <3>2. Prefixes!Combination(matrix[i], x, w)[k] = Prefixes!Parity(matrix[i], c[k])
      BY <1>3, <2>1, <3>1, CombinationParity
    <3>. QED BY <1>2, <3>2
  <2>. QED BY <2>1, <2>2, <2>3, SameBits
<1>. QED BY <1>3, <1>4 DEF x

-----------------------------------------------------------------------------
(* Adding a row to others.                                                 *)

\* Each row added to has the sum, and the others stay.
LEMMA RowsAdded ==
  ASSUME NEW D, NEW S, NEW f, f \in [S -> Sym(D)], NEW p \in S, NEW d
  PROVE  /\ Prefixes!AddRow(f, p, d) \in [S -> Sym(D)]
         /\ \A i \in S : Prefixes!AddRow(f, p, d)[i]
            = IF i \in d THEN Prefixes!VPlus(f[i], f[p]) ELSE f[i]
<1>1. Prefixes!AddRow(f, p, d)
        = [i \in S |-> IF i \in d THEN Prefixes!VPlus(f[i], f[p]) ELSE f[i]]
  BY DEF Prefixes!AddRow
<1>2. ASSUME NEW i \in S PROVE (IF i \in d THEN Prefixes!VPlus(f[i], f[p]) ELSE f[i]) \in Sym(D)
  <2>1. PICK u \in Sym(D), v \in Sym(D) : u = f[i] /\ v = f[p]  OBVIOUS
  <2>2. Prefixes!VPlus(u, v) \in Sym(D)  BY AddBits
  <2>. QED BY <2>1, <2>2
<1>. QED BY <1>1, <1>2

\* Adding a row twice undoes it.
LEMMA AddedTwice ==
  ASSUME NEW D, NEW S, NEW f, f \in [S -> Sym(D)], NEW p \in S, NEW d, p \notin d
  PROVE  Prefixes!AddRow(Prefixes!AddRow(f, p, d), p, d) = f
<1>. DEFINE g == Prefixes!AddRow(f, p, d)
            h == Prefixes!AddRow(g, p, d)
<1>1. g \in [S -> Sym(D)] /\ \A i \in S : g[i]
        = IF i \in d THEN Prefixes!VPlus(f[i], f[p]) ELSE f[i]
  BY RowsAdded
<1>. HIDE DEF g
<1>2. h \in [S -> Sym(D)] /\ \A i \in S : h[i]
        = IF i \in d THEN Prefixes!VPlus(g[i], g[p]) ELSE g[i]
  BY <1>1, RowsAdded
<1>. HIDE DEF h
<1>3. ASSUME NEW i \in S PROVE h[i] = f[i]
  <2>1. PICK u \in Sym(D), v \in Sym(D) : u = f[i] /\ v = f[p]  OBVIOUS
  <2>2. Prefixes!VPlus(Prefixes!VPlus(u, v), v) = u  BY SumLaws
  <2>3. g[p] = v  BY <1>1, <2>1
  <2>4. i \in d => g[i] = Prefixes!VPlus(u, v) /\ h[i] = Prefixes!VPlus(g[i], g[p])
    BY <1>1, <1>2, <2>1
  <2>5. i \notin d => h[i] = f[i]  BY <1>1, <1>2
  <2>. QED BY <2>1, <2>2, <2>3, <2>4, <2>5
<1>4. h = f  BY ONLY <1>2, <1>3, f \in [S -> Sym(D)]
<1>. QED BY <1>4 DEF g, h

\* x satisfies the rows of the prefix.
Satisfies(R, s, x, w) == \A i \in Prefixes!Prefix : Prefixes!Combination(R[i], x, w) = s[i]

\* Adding a row and its symbol to others keeps the solutions.
LEMMA AddingKeepsSolutions ==
  ASSUME NEW w \in Nat \ {0}, NEW D, NEW R \in [Prefixes!Prefix -> BitRow(w)], NEW S,
           Prefixes!Prefix \subseteq S,
         NEW s \in [S -> Sym(D)], NEW p \in Prefixes!Prefix, NEW d, p \notin d,
         NEW x \in Sols(w, D)
  PROVE  Satisfies(Prefixes!AddRow(R, p, d), Prefixes!AddRow(s, p, d), x, w)
           <=> Satisfies(R, s, x, w)
<1>. DEFINE Q == Prefixes!AddRow(R, p, d)
            q == Prefixes!AddRow(s, p, d)
<1>1. /\ Q \in [Prefixes!Prefix -> BitRow(w)]
      /\ \A i \in Prefixes!Prefix : Q[i] = IF i \in d THEN Prefixes!VPlus(R[i], R[p]) ELSE R[i]
  <2>1. BitRow(w) = Sym(0 .. w - 1)  BY DEF BitRow, Sym
  <2>2. R \in [Prefixes!Prefix -> Sym(0 .. w - 1)]  BY <2>1
  <2>. QED BY <2>1, <2>2, RowsAdded
<1>2. /\ q \in [S -> Sym(D)]
      /\ \A i \in S : q[i] = IF i \in d THEN Prefixes!VPlus(s[i], s[p]) ELSE s[i]
  BY RowsAdded
<1>. HIDE DEF Q, q
<1>3. \A i \in Prefixes!Prefix : R[i] \in BitRow(w) /\ s[i] \in Sym(D)  OBVIOUS
<1>4. ASSUME Prefixes!Combination(R[p], x, w) = s[p], NEW i \in Prefixes!Prefix
      PROVE  Prefixes!Combination(Q[i], x, w) = q[i] <=> Prefixes!Combination(R[i], x, w) = s[i]
  <2>1. CASE i \notin d
    <3>1. Q[i] = R[i] /\ q[i] = s[i]  BY <1>1, <1>2, <2>1
    <3>. QED BY <3>1
  <2>2. CASE i \in d
    <3>1. Q[i] = Prefixes!VPlus(R[i], R[p]) /\ q[i] = Prefixes!VPlus(s[i], s[p])
      BY <1>1, <1>2, <2>2
    <3>2. PICK r \in BitRow(w), t \in BitRow(w) : r = R[i] /\ t = R[p]  BY <1>3
    <3>3. Prefixes!Combination(Prefixes!VPlus(r, t), x, w)
            = Prefixes!VPlus(Prefixes!Combination(r, x, w), Prefixes!Combination(t, x, w))
      BY CombinationAdds
    <3>4. PICK a \in Sym(D), b \in Sym(D), u \in Sym(D) :
            a = Prefixes!Combination(r, x, w) /\ b = Prefixes!Combination(t, x, w) /\ u = s[i]
      BY <1>3, CombinationType
    <3>5. b = s[p]  BY <1>4, <3>2, <3>4
    <3>6. Prefixes!VPlus(a, b) = Prefixes!VPlus(u, b) <=> a = u
      <4>1. ASSUME Prefixes!VPlus(a, b) = Prefixes!VPlus(u, b) PROVE a = u
        <5>1. Prefixes!VPlus(Prefixes!VPlus(a, b), b) = a
                /\ Prefixes!VPlus(Prefixes!VPlus(u, b), b) = u
          BY SumLaws
        <5>. QED BY <4>1, <5>1
      <4>. QED BY <4>1
    <3>. QED BY <3>1, <3>2, <3>3, <3>4, <3>5, <3>6
  <2>. QED BY <2>1, <2>2
<1>5. Q[p] = R[p] /\ q[p] = s[p]  BY <1>1, <1>2
<1>6. Satisfies(Q, q, x, w) <=> Satisfies(R, s, x, w)
  <2>1. ASSUME Satisfies(Q, q, x, w) PROVE Satisfies(R, s, x, w)
    <3>1. Prefixes!Combination(R[p], x, w) = s[p]  BY <1>5, <2>1 DEF Satisfies
    <3>. QED BY <1>4, <2>1, <3>1 DEF Satisfies
  <2>2. ASSUME Satisfies(R, s, x, w) PROVE Satisfies(Q, q, x, w)
    <3>1. Prefixes!Combination(R[p], x, w) = s[p]  BY <2>2 DEF Satisfies
    <3>. QED BY <1>4, <2>2, <3>1 DEF Satisfies
  <2>. QED BY <2>1, <2>2
<1>. QED BY <1>6 DEF Q, q

\* The first column of a row.
LEMMA Leads ==
  ASSUME NEW w \in Nat, NEW r \in BitRow(w), NEW j \in 0 .. w - 1
  PROVE  (Prefixes!Support(r) # {} /\ Prefixes!LeadingColumn(r) = j) <=> Begins(r, j)
<1>1. Prefixes!Support(r) = {k \in 0 .. w - 1 : r[k] = Prefixes!One}
  <2>1. DOMAIN r = 0 .. w - 1  BY DEF BitRow
  <2>2. \A k \in 0 .. w - 1 : r[k] # Prefixes!Zero <=> r[k] = Prefixes!One
    BY DEF BitRow, Bit, Prefixes!Zero, Prefixes!One
  <2>. QED BY <2>1, <2>2 DEF Prefixes!Support
<1>2. ASSUME Begins(r, j) PROVE Prefixes!Support(r) # {} /\ Prefixes!LeadingColumn(r) = j
  <2>1. j \in Prefixes!Support(r) /\ \A k \in Prefixes!Support(r) : j <= k
    <3>1. Prefixes!Zero # Prefixes!One  BY DEF Prefixes!Zero, Prefixes!One
    <3>. QED BY <1>1, <1>2, <3>1 DEF Begins
  <2>2. \A i \in Prefixes!Support(r) : (\A k \in Prefixes!Support(r) : i <= k) => i = j
    BY <1>1, <2>1
  <2>. QED BY <2>1, <2>2 DEF Prefixes!LeadingColumn
<1>3. ASSUME Prefixes!Support(r) # {}, Prefixes!LeadingColumn(r) = j PROVE Begins(r, j)
  <2>1. PICK i \in Prefixes!Support(r) : \A k \in Prefixes!Support(r) : i <= k
    <3>1. Prefixes!Support(r) \subseteq Nat  BY <1>1
    <3>. QED BY <1>3, <3>1, LeastNumber
  <2>2. j \in Prefixes!Support(r) /\ \A k \in Prefixes!Support(r) : j <= k
    BY <1>3, <2>1 DEF Prefixes!LeadingColumn
  <2>3. \A k \in 0 .. j - 1 : k \in 0 .. w - 1 /\ ~(j <= k)  OBVIOUS
  <2>4. \A k \in 0 .. j - 1 : r[k] # Prefixes!One  BY <1>1, <2>2, <2>3
  <2>5. \A k \in 0 .. w - 1 : r[k] = Prefixes!Zero \/ r[k] = Prefixes!One  BY DEF BitRow, Bit
  <2>. QED BY <1>1, <2>2, <2>3, <2>4, <2>5 DEF Begins
<1>. QED BY <1>2, <1>3

-----------------------------------------------------------------------------
(* The invariant of PrefixSolve.                                           *)

Height == Prefixes!overdetermined_no_hdpc_prefix_height   \* of the prefix
Components == 0 .. shape.n
\* Rows with a symbol in the slab.
Held == IF kind = "split" THEN Prefixes!Prefix ELSE Prefixes!Row
Satisfied(R, s, x) == Satisfies(R, s, x, shape.n)
Vectors == Sols(shape.n, Components)

\* What a system is made of.
SystemInv ==
  /\ shape \in PrefixShapes /\ kind \in Prefixes!Kinds
  /\ matrix \in [Prefixes!Row -> BitRow(shape.n)]
     /\ received \in [Prefixes!Row -> Sym(Components)]

AtStart ==
  /\ symbols = received /\ rows = [i \in Prefixes!Prefix |-> matrix[i]]
  /\ col = 0 /\ pivot_for_col = [j \in Prefixes!Col |-> Prefixes!NoPivot] /\ forward = <<>>

\* While the prefix is solved, the symbols behind it are as received, in the
\* slab or in what was split off it.
SuffixAside ==
  /\ kind \in Prefixes!Owned /\ Prefixes!SuffixLen > 0
  /\ symbols \in [Held -> Sym(Components)]
  /\ IF kind = "split" THEN suffix
     = [i \in 0 .. Prefixes!SuffixLen - 1 |-> received[Height + i]]
     ELSE \A i \in Prefixes!Row \ Prefixes!Prefix : symbols[i] = received[i]

\* The rows with a pivot begin in its column, and all others behind those done.
Triangular ==
  /\ rows \in [Prefixes!Prefix -> BitRow(shape.n)]
  /\ \A j \in 0 .. col - 1 : /\ pivot_for_col[j] \in Prefixes!Prefix
                             /\ Begins(rows[pivot_for_col[j]], j)
  /\ \A j \in col .. shape.n - 1 : pivot_for_col[j] = Prefixes!NoPivot
  /\ \A i \in Prefixes!Prefix \ Prefixes!Pivoted : \A k \in 0 .. col - 1 : rows[i][k]
     = Prefixes!Zero

SameSolutions ==
  \A x \in Vectors : Satisfied(rows, symbols, x) <=> Satisfied(matrix, received, x)

\* The symbols before and after each column.
Undoes(slabs) ==
  /\ slabs \in [0 .. Len(forward) -> [Held -> Sym(Components)]]
  /\ slabs[0] = [i \in Held |-> received[i]]
  /\ \A e \in 1 .. Len(forward) :
       /\ slabs[e] = Prefixes!AddRow(slabs[e - 1], pivot_for_col[e - 1], forward[e])
       /\ pivot_for_col[e - 1] \in Prefixes!Prefix \ forward[e]

\* Adding once more, last done first, leads back to what was received.
Restorable == col <= Len(forward) /\ \E slabs : Undoes(slabs) /\ symbols = slabs[col]

OnlyDecoded ==
  decoded \in Vectors /\ \A x \in Vectors : Satisfied(matrix, received, x) <=> x = decoded

PrefixInv ==
  /\ SystemInv /\ Prefixes!TypeInv /\ forward \in Seq(SUBSET Prefixes!Prefix)
  /\ phase = "start" => AtStart
  /\ phase \in {"forward", "restore", "check"} => SuffixAside
  /\ phase = "forward" => Len(forward) = col /\ Triangular /\ SameSolutions
  /\ phase \in {"forward", "restore"} => Restorable
  /\ phase = "check" => OnlyDecoded
  /\ Prefixes!WholeFromReceived /\ Prefixes!DecodedSatisfiesAll /\ Prefixes!FailsOnlyUnsolvable

\* How long the prefix and what is behind it are.
LEMMA Sizes ==
  ASSUME Prefixes!ShapesAssumption, shape \in PrefixShapes
  PROVE  /\ shape.n \in Nat \ {0} /\ shape.height \in Nat /\ shape.height >= shape.n
         /\ Height \in Nat \ {0} /\ Height <= shape.height /\ Prefixes!SuffixLen \in Nat
         /\ Prefixes!SuffixLen = shape.height - Height
         /\ Prefixes!Prefix = 0 .. Height - 1 /\ Prefixes!Prefix \subseteq Prefixes!Row
            /\ Prefixes!NoPivot \notin Prefixes!Row
         /\ Prefixes!NoPivot \notin Prefixes!Prefix
<1>1. /\ shape.n \in Nat \ {0} /\ shape.height \in Nat /\ shape.extra \in Nat \ {0}
      /\ shape.height >= shape.n
  BY DEF Prefixes!ShapesAssumption
<1>2. Height = IF shape.n + shape.extra < shape.height THEN shape.n + shape.extra ELSE shape.height
  BY DEF Height, Prefixes!overdetermined_no_hdpc_prefix_height
<1>3. Height \in Nat \ {0} /\ Height <= shape.height  BY <1>1, <1>2
<1>4. Prefixes!Prefix = 0 .. Height - 1 /\ Prefixes!SuffixLen = shape.height - Height
  BY DEF Prefixes!Prefix, Prefixes!SuffixLen, Height
<1>5. Prefixes!Row = 0 .. shape.height - 1 /\ Prefixes!NoPivot = shape.height
  BY DEF Prefixes!Row, Prefixes!NoPivot
<1>. QED BY <1>1, <1>3, <1>4, <1>5

\* A system of symbols is what its rows say.
LEMMA FixedStart ==
  ASSUME Prefixes!ShapesAssumption, Prefixes!Init
  PROVE  SystemInv
<1>1. shape.n \in Nat \ {0} /\ shape \in PrefixShapes /\ kind \in Prefixes!Kinds
  BY Sizes DEF Prefixes!Init
<1>2. shape.rows \subseteq BitRow(shape.n)  BY <1>1 DEF Prefixes!ShapesAssumption, BitRow, Bit
<1>3. matrix \in [Prefixes!Row -> BitRow(shape.n)]  BY <1>2 DEF Prefixes!Init
<1>4. ASSUME NEW r \in BitRow(shape.n),
        NEW e \in Bit PROVE Prefixes!Symbol(r, e) \in Sym(Components)
  <2>1. \A j \in 0 .. shape.n : j < shape.n => j \in 0 .. shape.n - 1  BY <1>1
  <2>2. \A j \in 0 .. shape.n - 1 : r[j] \in Bit  BY DEF BitRow
  <2>3. \A j \in 0 .. shape.n : (IF j < shape.n THEN r[j] ELSE e) \in Bit  BY <2>1, <2>2
  <2>. QED BY <2>3 DEF Prefixes!Symbol, Sym, Components
<1>5. received \in [Prefixes!Row -> Sym(Components)]
  <2>1. PICK wrong \in {{}, {0}, {shape.height - 1}} :
          received = [i \in Prefixes!Row |-> Prefixes!Symbol(matrix[i],
              IF i \in wrong THEN Prefixes!One ELSE Prefixes!Zero)]
    BY DEF Prefixes!Init
  <2>2. \A i \in Prefixes!Row : (IF i \in wrong THEN Prefixes!One ELSE Prefixes!Zero) \in Bit
    BY DEF Bit
  <2>3. \A i \in Prefixes!Row : matrix[i] \in BitRow(shape.n)  BY <1>3
  <2>4. \A i \in Prefixes!Row :
          Prefixes!Symbol(matrix[i], IF i \in wrong THEN Prefixes!One ELSE Prefixes!Zero)
              \in Sym(Components)
    BY <1>4, <2>2, <2>3
  <2>. QED BY <2>1, <2>4
<1>. QED BY <1>1, <1>3, <1>5 DEF SystemInv

\* It starts right.
LEMMA PrefixStarts ==
  ASSUME Prefixes!ShapesAssumption, Prefixes!Init
  PROVE  PrefixInv
<1>1. SystemInv  BY FixedStart
<1>2. phase = "start" /\ AtStart  BY DEF Prefixes!Init, AtStart
<1>3. shape \in PrefixShapes  BY <1>1 DEF SystemInv
<1>4. Prefixes!TypeInv
  <2>1. pivot_for_col \in [Prefixes!Col -> Prefixes!Prefix \cup {Prefixes!NoPivot}]
    BY DEF Prefixes!Init
  <2>2. DOMAIN symbols = Prefixes!Row  BY <1>1 DEF SystemInv, Prefixes!Init
  <2>3. col = 0 /\ forward = <<>> /\ Len(<<>>) = 0  BY DEF Prefixes!Init
  <2>4. shape.n \in Nat  BY <1>3, Sizes
  <2>. QED BY <1>2, <2>1, <2>2, <2>3, <2>4 DEF Prefixes!TypeInv
<1>5. forward \in Seq(SUBSET Prefixes!Prefix)  BY DEF Prefixes!Init
<1>6. Prefixes!WholeFromReceived /\ Prefixes!DecodedSatisfiesAll /\ Prefixes!FailsOnlyUnsolvable

    BY <1>2 DEF Prefixes!WholeFromReceived, Prefixes!DecodedSatisfiesAll,
       Prefixes!FailsOnlyUnsolvable
<1>. QED BY <1>1, <1>2, <1>4, <1>5, <1>6 DEF PrefixInv

\* What does not change.
LEMMA SystemStays ==
  ASSUME UNCHANGED Prefixes!system
  PROVE  /\ shape' = shape /\ kind' = kind /\ matrix' = matrix /\ received' = received
         /\ Prefixes!Row' = Prefixes!Row /\ Prefixes!Prefix' = Prefixes!Prefix
            /\ Height' = Height /\ Prefixes!SuffixLen' = Prefixes!SuffixLen
         /\ Prefixes!Col' = Prefixes!Col /\ Prefixes!NoPivot' = Prefixes!NoPivot /\ Held' = Held
            /\ Components' = Components
         /\ Vectors' = Vectors
         /\ (SystemInv => SystemInv')
<1>1. shape' = shape /\ kind' = kind /\ matrix' = matrix /\ received' = received
  BY DEF Prefixes!system
<1>2. Height' = Height  BY <1>1 DEF Height, Prefixes!overdetermined_no_hdpc_prefix_height
<1>3. Prefixes!Row' = Prefixes!Row /\ Prefixes!Col' = Prefixes!Col
        /\ Prefixes!NoPivot' = Prefixes!NoPivot /\ Components' = Components
  BY <1>1 DEF Prefixes!Row, Prefixes!Col, Prefixes!NoPivot, Components
<1>4. Prefixes!Prefix' = Prefixes!Prefix /\ Prefixes!SuffixLen' = Prefixes!SuffixLen
  BY <1>1, <1>2 DEF Prefixes!Prefix, Prefixes!SuffixLen, Height
<1>5. Held' = Held /\ Vectors' = Vectors  BY <1>1, <1>3, <1>4 DEF Held, Vectors
<1>6. SystemInv => SystemInv'  BY <1>1, <1>3 DEF SystemInv
<1>. QED BY <1>1, <1>2, <1>3, <1>4, <1>5, <1>6

\* The prefix is all there is.
LEMMA PrefixIsWholeKeeps ==
  ASSUME PrefixInv, Prefixes!ShapesAssumption, Prefixes!PrefixIsWhole
  PROVE  PrefixInv'
<1>1. UNCHANGED Prefixes!system /\ phase = "start" /\ phase' = "whole" /\ symbols' = symbols
      /\ col' = col /\ forward' = forward /\ pivot_for_col' = pivot_for_col
  BY DEF Prefixes!PrefixIsWhole
<1>2. symbols' = received'  BY <1>1, SystemStays DEF PrefixInv, AtStart
<1>3. Prefixes!TypeInv'  BY <1>1, SystemStays DEF PrefixInv, Prefixes!TypeInv
<1>4. SystemInv' /\ forward' \in Seq(SUBSET Prefixes!Prefix')
  BY <1>1, SystemStays DEF PrefixInv
<1>. QED BY <1>1, <1>2, <1>3, <1>4
         DEF PrefixInv, Prefixes!WholeFromReceived, Prefixes!DecodedSatisfiesAll,
             Prefixes!FailsOnlyUnsolvable

\* Whichever way the prefix is set off, it is as it was received.
LEMMA SetOff ==
  ASSUME SystemInv, AtStart, Prefixes!ShapesAssumption,
         UNCHANGED <<Prefixes!system, col, rows, pivot_for_col, forward>>,
         symbols' = [i \in Held |-> symbols[i]]
  PROVE  Len(forward') = col' /\ Triangular' /\ SameSolutions' /\ Restorable'
<1>1. UNCHANGED Prefixes!system /\ col' = 0 /\ forward' = <<>> /\ pivot_for_col' = pivot_for_col
      /\ rows' = [i \in Prefixes!Prefix |-> matrix[i]]
         /\ symbols' = [i \in Held |-> received[i]]
  BY DEF AtStart
<1>2. shape.n \in Nat \ {0} /\ Prefixes!Prefix \subseteq Prefixes!Row
        /\ Prefixes!NoPivot \notin Prefixes!Prefix
  BY Sizes DEF SystemInv
<1>3. Prefixes!Prefix \subseteq Held /\ Held \subseteq Prefixes!Row  BY <1>2 DEF Held
<1>4. Len(forward') = 0  BY <1>1
<1>5. Triangular'
  <2>1. rows' \in [Prefixes!Prefix -> BitRow(shape.n)]  BY <1>1, <1>2 DEF SystemInv
  <2>2. 0 .. 0 - 1 = {}  OBVIOUS
  <2>3. \A j \in 0 .. shape.n - 1 : pivot_for_col'[j] = Prefixes!NoPivot
    BY <1>1 DEF AtStart, Prefixes!Col
  <2>. QED BY <1>1, <2>1, <2>2, <2>3, SystemStays DEF Triangular
<1>6. SameSolutions'
  <2>1. \A i \in Prefixes!Prefix : rows'[i] = matrix[i] /\ symbols'[i] = received[i]
    BY <1>1, <1>3
  <2>2. Prefixes!Prefix' = Prefixes!Prefix /\ shape' = shape /\ matrix' = matrix
          /\ received' = received
    BY <1>1, SystemStays
  <2>3. ASSUME NEW x PROVE Satisfied(rows, symbols, x)' <=> Satisfied(matrix, received, x)'
    BY <2>1, <2>2 DEF Satisfied, Satisfies
  <2>. QED BY <2>3 DEF SameSolutions
<1>7. Restorable'
  <2>1. [i \in Held |-> received[i]] \in [Held -> Sym(Components)]  BY <1>3 DEF SystemInv
  <2>2. PICK slabs \in [0 .. 0 -> [Held -> Sym(Components)]] :
          slabs[0] = [i \in Held |-> received[i]]
    <3>. DEFINE z == [e \in 0 .. 0 |-> [i \in Held |-> received[i]]]
    <3>1. z \in [0 .. 0 -> [Held -> Sym(Components)]] /\ z[0] = [i \in Held |-> received[i]]
      BY <2>1
    <3>. QED BY <3>1
  <2>3. 1 .. 0 = {}  OBVIOUS
  <2>4. Undoes(slabs)'  BY <1>1, <1>4, <2>2, <2>3, SystemStays DEF Undoes
  <2>5. symbols' = slabs[col'] /\ col' <= Len(forward')  BY <1>1, <1>4, <2>2
  <2>. QED BY <2>4, <2>5 DEF Restorable
<1>. QED BY <1>1, <1>4, <1>5, <1>6, <1>7

\* Beginning in place leaves the symbols behind the prefix where they are.
LEMMA BorrowKeeps ==
  ASSUME PrefixInv, Prefixes!ShapesAssumption, Prefixes!Borrow
  PROVE  PrefixInv'
<1>1. /\ UNCHANGED Prefixes!system /\ phase = "start" /\ phase' = "forward"
         /\ symbols' = symbols
      /\ col' = col /\ forward' = forward /\ pivot_for_col' = pivot_for_col /\ rows' = rows
      /\ Prefixes!SuffixLen > 0 /\ kind = "borrowed"
  BY DEF Prefixes!Borrow
<1>2. SystemInv /\ AtStart  BY <1>1 DEF PrefixInv
<1>3. Held = Prefixes!Row  BY <1>1 DEF Held
<1>4. symbols \in [Prefixes!Row -> Sym(Components)]  BY <1>2 DEF AtStart, SystemInv
<1>5. Len(forward') = col' /\ Triangular' /\ SameSolutions' /\ Restorable'
  <2>1. symbols' = [i \in Held |-> symbols[i]]  BY <1>1, <1>3, <1>4
  <2>. QED BY <1>1, <1>2, <2>1, SetOff
<1>6. SuffixAside'
  <2>1. \A i \in Prefixes!Row \ Prefixes!Prefix : symbols'[i] = received[i]
    BY <1>1, <1>2 DEF AtStart
  <2>. QED BY <1>1, <1>3, <1>4, <2>1, SystemStays DEF SuffixAside, Prefixes!Owned
<1>7. Prefixes!TypeInv'  BY <1>1, SystemStays DEF PrefixInv, Prefixes!TypeInv
<1>8. SystemInv' /\ forward' \in Seq(SUBSET Prefixes!Prefix')
  BY <1>1, SystemStays DEF PrefixInv
<1>. QED BY <1>1, <1>5, <1>6, <1>7, <1>8
         DEF PrefixInv, Prefixes!WholeFromReceived, Prefixes!DecodedSatisfiesAll,
             Prefixes!FailsOnlyUnsolvable

\* Splitting off keeps the symbols behind the prefix as they were received.
LEMMA SplitOffKeeps ==
  ASSUME PrefixInv, Prefixes!ShapesAssumption, Prefixes!SplitOff
  PROVE  PrefixInv'
<1>1. /\ UNCHANGED Prefixes!system /\ phase = "start" /\ phase' = "forward"
      /\ symbols' = [i \in Prefixes!Prefix |-> symbols[i]]
      /\ suffix' = [i \in 0 .. Prefixes!SuffixLen - 1 |-> symbols[Height + i]]
      /\ col' = col /\ forward' = forward /\ pivot_for_col' = pivot_for_col /\ rows' = rows
      /\ Prefixes!SuffixLen > 0 /\ kind = "split"
  BY DEF Prefixes!SplitOff, Height
<1>2. SystemInv /\ AtStart  BY <1>1 DEF PrefixInv
<1>3. Held = Prefixes!Prefix  BY <1>1 DEF Held
<1>4. symbols' \in [Held -> Sym(Components)]
  <2>1. Prefixes!Prefix \subseteq Prefixes!Row  BY <1>2, Sizes DEF SystemInv
  <2>. QED BY <1>1, <1>2, <1>3, <2>1 DEF AtStart, SystemInv
<1>5. Len(forward') = col' /\ Triangular' /\ SameSolutions' /\ Restorable'
  BY <1>1, <1>2, <1>3, SetOff
<1>6. SuffixAside'
  <2>1. suffix' = [i \in 0 .. Prefixes!SuffixLen - 1 |-> received[Height + i]]
    BY <1>1, <1>2 DEF AtStart
  <2>. QED BY <1>1, <1>4, <2>1, SystemStays DEF SuffixAside, Prefixes!Owned
<1>7. Prefixes!TypeInv'
  <2>1. DOMAIN symbols' = Prefixes!Prefix  BY <1>1
  <2>. QED BY <1>1, <2>1, SystemStays DEF PrefixInv, Prefixes!TypeInv
<1>8. SystemInv' /\ forward' \in Seq(SUBSET Prefixes!Prefix')
  BY <1>1, SystemStays DEF PrefixInv
<1>. QED BY <1>1, <1>5, <1>6, <1>7, <1>8
         DEF PrefixInv, Prefixes!WholeFromReceived, Prefixes!DecodedSatisfiesAll,
             Prefixes!FailsOnlyUnsolvable

\* What the elimination of a column does.
LEMMA ColumnEliminated ==
  ASSUME PrefixInv, Prefixes!ShapesAssumption, Prefixes!EliminateColumn
  PROVE  /\ UNCHANGED <<Prefixes!system, phase, suffix, decoded>> /\ phase = "forward"
         /\ col \in 0 .. shape.n - 1 /\ col' = col + 1
         /\ \E pivot \in Prefixes!Bucket :
              /\ pivot_for_col' = [pivot_for_col EXCEPT ![col] = pivot]
              /\ rows' = Prefixes!AddRow(rows, pivot, Prefixes!Bucket \ {pivot})
              /\ symbols' = Prefixes!AddRow(symbols, pivot, Prefixes!Bucket \ {pivot})
              /\ forward' = Append(forward, Prefixes!Bucket \ {pivot})
<1>1. shape.n \in Nat /\ col \in 0 .. shape.n
  BY Sizes DEF PrefixInv, SystemInv, Prefixes!TypeInv
<1>2. phase = "forward" /\ col < shape.n /\ col' = col + 1
      /\ UNCHANGED <<Prefixes!system, phase, suffix, decoded>>
  BY DEF Prefixes!EliminateColumn
<1>3. PICK pivot \in Prefixes!Lightest(Prefixes!Bucket) :
        /\ pivot_for_col' = [pivot_for_col EXCEPT ![col] = pivot]
        /\ rows' = Prefixes!AddRow(rows, pivot, Prefixes!Bucket \ {pivot})
        /\ symbols' = Prefixes!AddRow(symbols, pivot, Prefixes!Bucket \ {pivot})
        /\ forward' = Append(forward, Prefixes!Bucket \ {pivot})
  BY DEF Prefixes!EliminateColumn
<1>4. pivot \in Prefixes!Bucket  BY DEF Prefixes!Lightest
<1>5. col \in 0 .. shape.n - 1  BY <1>1, <1>2
<1>. QED BY ONLY <1>2, <1>3, <1>4, <1>5

\* What waits in the bucket of a column begins there, and nothing else without
\* a pivot has a one in it.
LEMMA InBucket ==
  ASSUME SystemInv, Prefixes!ShapesAssumption, Triangular, col \in 0 .. shape.n - 1
  PROVE  /\ Prefixes!Bucket \subseteq Prefixes!Prefix \ Prefixes!Pivoted
         /\ \A i \in Prefixes!Bucket : Begins(rows[i], col)
         /\ \A i \in (Prefixes!Prefix \ Prefixes!Pivoted) \ Prefixes!Bucket : rows[i][col]
            = Prefixes!Zero
<1>1. shape.n \in Nat  BY Sizes DEF SystemInv
<1>2. \A i \in Prefixes!Prefix : rows[i] \in BitRow(shape.n)  BY DEF Triangular
<1>3. \A i \in Prefixes!Prefix :
        (Prefixes!Support(rows[i]) # {} /\ Prefixes!LeadingColumn(rows[i]) = col)
            <=> Begins(rows[i], col)
  BY <1>1, <1>2, Leads
<1>4. \A i \in Prefixes!Prefix \ Prefixes!Pivoted : i \in Prefixes!Bucket
        <=> Begins(rows[i], col)
  BY <1>3 DEF Prefixes!Bucket
<1>5. \A i \in Prefixes!Prefix : rows[i][col] = Prefixes!Zero \/ rows[i][col] = Prefixes!One
  BY <1>2, InColumn
<1>6. \A i \in Prefixes!Prefix \ Prefixes!Pivoted : \A k \in 0 .. col - 1 : rows[i][k]
        = Prefixes!Zero
  BY DEF Triangular
<1>7. \A i \in (Prefixes!Prefix \ Prefixes!Pivoted) \ Prefixes!Bucket : rows[i][col]
        = Prefixes!Zero
  BY <1>4, <1>5, <1>6 DEF Begins
<1>8. Prefixes!Bucket \subseteq Prefixes!Prefix \ Prefixes!Pivoted  BY DEF Prefixes!Bucket
<1>. QED BY <1>4, <1>7, <1>8

\* A column more is triangular.
LEMMA TriangularKept ==
  ASSUME SystemInv, Prefixes!TypeInv, Prefixes!ShapesAssumption, Triangular,
           col \in 0 .. shape.n - 1,
         UNCHANGED Prefixes!system, col' = col + 1, NEW pivot \in Prefixes!Bucket,
         pivot_for_col' = [pivot_for_col EXCEPT ![col] = pivot],
         rows' = Prefixes!AddRow(rows, pivot, Prefixes!Bucket \ {pivot})
  PROVE  Triangular'
<1>. DEFINE d == Prefixes!Bucket \ {pivot}
<1>1. shape.n \in Nat /\ Prefixes!NoPivot \notin Prefixes!Prefix  BY Sizes DEF SystemInv
<1>2. /\ Prefixes!Bucket \subseteq Prefixes!Prefix \ Prefixes!Pivoted
      /\ \A i \in Prefixes!Bucket : Begins(rows[i], col)
      /\ \A i \in (Prefixes!Prefix \ Prefixes!Pivoted) \ Prefixes!Bucket : rows[i][col]
         = Prefixes!Zero
  BY InBucket
<1>3. pivot \in Prefixes!Prefix \ Prefixes!Pivoted /\ pivot \notin d  BY <1>2
<1>4. /\ rows' \in [Prefixes!Prefix -> BitRow(shape.n)]
      /\ \A i \in Prefixes!Prefix : rows'[i]
         = IF i \in d THEN Prefixes!VPlus(rows[i], rows[pivot]) ELSE rows[i]
  <2>1. BitRow(shape.n) = Sym(0 .. shape.n - 1)  BY DEF BitRow, Sym
  <2>2. rows \in [Prefixes!Prefix -> Sym(0 .. shape.n - 1)]  BY <2>1 DEF Triangular
  <2>. QED BY <1>3, <2>1, <2>2, RowsAdded
<1>5. \A j \in 0 .. shape.n - 1 :
        pivot_for_col'[j] = IF j = col THEN pivot ELSE pivot_for_col[j]
  <2>1. pivot_for_col \in [0 .. shape.n - 1 -> Prefixes!Prefix \cup {Prefixes!NoPivot}]
    BY DEF Prefixes!TypeInv, Prefixes!Col
  <2>. QED BY <2>1
<1>6. \A j \in 0 .. col - 1 : pivot_for_col[j] \in Prefixes!Pivoted
  <2>1. \A j \in 0 .. col - 1 : pivot_for_col[j] \in Prefixes!Prefix /\ j \in Prefixes!Col
    BY <1>1 DEF Triangular, Prefixes!Col
  <2>. QED BY <1>1, <2>1 DEF Prefixes!Pivoted
<1>7. ASSUME NEW j \in 0 .. col PROVE pivot_for_col'[j] \in Prefixes!Prefix
        /\ Begins(rows'[pivot_for_col'[j]], j)
  <2>1. CASE j = col
    <3>1. pivot_for_col'[j] = pivot /\ rows'[pivot] = rows[pivot]  BY <1>3, <1>4, <1>5, <2>1
    <3>. QED BY <1>2, <1>3, <2>1, <3>1
  <2>2. CASE j # col
    <3>1. j \in 0 .. col - 1 /\ j \in 0 .. shape.n - 1  BY <1>1, <2>2
    <3>2. pivot_for_col[j] \in Prefixes!Pivoted /\ pivot_for_col[j] \in Prefixes!Prefix
          /\ Begins(rows[pivot_for_col[j]], j)
      BY <1>6, <3>1 DEF Triangular
    <3>3. pivot_for_col'[j] = pivot_for_col[j]  BY <1>5, <2>2, <3>1
    <3>4. pivot_for_col[j] \notin d  BY <1>2, <3>2
    <3>5. rows'[pivot_for_col[j]] = rows[pivot_for_col[j]]  BY <1>4, <3>2, <3>4
    <3>. QED BY <3>2, <3>3, <3>5
  <2>. QED BY <2>1, <2>2
<1>8. \A j \in col + 1 .. shape.n - 1 : pivot_for_col'[j] = Prefixes!NoPivot
  <2>1. \A j \in col + 1 .. shape.n - 1 : j \in 0 .. shape.n - 1 /\ j # col
          /\ j \in col .. shape.n - 1
    OBVIOUS
  <2>. QED BY <1>5, <2>1 DEF Triangular
<1>9. ASSUME NEW i \in Prefixes!Prefix, i # pivot, i \notin Prefixes!Pivoted, NEW k \in 0 .. col
      PROVE  rows'[i][k] = Prefixes!Zero
  <2>1. k \in 0 .. shape.n - 1  BY <1>1
  <2>2. rows[i] \in Sym(0 .. shape.n - 1) /\ rows[pivot] \in Sym(0 .. shape.n - 1)
    BY <1>3 DEF Triangular, BitRow, Sym
  <2>3. Prefixes!VPlus(rows[i], rows[pivot])[k] = IF rows[i][k]
          = rows[pivot][k] THEN Prefixes!Zero ELSE Prefixes!One
    <3>. DEFINE E == 0 .. shape.n - 1
    <3>1. PICK u \in Sym(E), v \in Sym(E) : u = rows[i] /\ v = rows[pivot]
      BY <2>2
    <3>3. k \in E  BY <2>1
    <3>. HIDE DEF E
    <3>2. Prefixes!VPlus(u, v)[k] = IF u[k] = v[k] THEN Prefixes!Zero ELSE Prefixes!One
      BY <3>3, AddBits
    <3>. QED BY <3>1, <3>2
  <2>4. CASE i \in d
    <3>1. rows'[i] = Prefixes!VPlus(rows[i], rows[pivot])  BY <1>4, <2>4
    <3>2. Begins(rows[i], col) /\ Begins(rows[pivot], col)  BY <1>2, <2>4
    <3>3. k = col \/ k \in 0 .. col - 1  OBVIOUS
    <3>4. rows[i][k] = rows[pivot][k]  BY <3>2, <3>3 DEF Begins
    <3>. QED BY <2>3, <3>1, <3>4
  <2>5. CASE i \notin d
    <3>1. rows'[i] = rows[i]  BY <1>4, <2>5
    <3>2. i \notin Prefixes!Bucket  BY <1>9, <2>5
    <3>3. k = col \/ k \in 0 .. col - 1  OBVIOUS
    <3>4. rows[i][k] = Prefixes!Zero  BY <1>2, <1>9, <3>2, <3>3 DEF Triangular
    <3>. QED BY <3>1, <3>4
  <2>. QED BY <2>4, <2>5
<1>10. Prefixes!Pivoted' = Prefixes!Pivoted \cup {pivot}
  <2>1. Prefixes!Col = 0 .. shape.n - 1 /\ Prefixes!Col' = Prefixes!Col
          /\ Prefixes!NoPivot' = Prefixes!NoPivot
    BY SystemStays DEF Prefixes!Col
  <2>2. pivot_for_col[col] = Prefixes!NoPivot /\ pivot # Prefixes!NoPivot
    BY <1>1, <1>3 DEF Triangular
  <2>. QED BY <1>5, <2>1, <2>2 DEF Prefixes!Pivoted
<1>11. Prefixes!Prefix' = Prefixes!Prefix /\ Prefixes!NoPivot' = Prefixes!NoPivot
         /\ shape' = shape
  BY SystemStays
<1>12. 0 .. col' - 1 = 0 .. col /\ col' = col + 1  OBVIOUS
<1>13. \A i \in Prefixes!Prefix' \ Prefixes!Pivoted' : \A k \in 0 .. col' - 1 : rows'[i][k]
         = Prefixes!Zero
  BY <1>9, <1>10, <1>11, <1>12
<1>14. \A j \in 0 .. col' - 1 :
         pivot_for_col'[j] \in Prefixes!Prefix' /\ Begins(rows'[pivot_for_col'[j]], j)
  BY ONLY <1>7, <1>11, <1>12
<1>15. \A j \in col' .. shape'.n - 1 : pivot_for_col'[j] = Prefixes!NoPivot'
  BY ONLY <1>8, <1>11, <1>12
<1>16. rows' \in [Prefixes!Prefix' -> BitRow(shape'.n)]  BY ONLY <1>4, <1>11
<1>. QED BY ONLY <1>13, <1>14, <1>15, <1>16 DEF Triangular, Begins

\* One list more, and one slab.
LEMMA RestorableKept ==
  ASSUME SystemInv, Prefixes!TypeInv, Prefixes!ShapesAssumption, col \in 0 .. shape.n - 1,
           UNCHANGED Prefixes!system,
         forward \in Seq(SUBSET Prefixes!Prefix), Len(forward) = col, Restorable, SuffixAside,
         NEW pivot \in Prefixes!Prefix, NEW d \in SUBSET Prefixes!Prefix, pivot \notin d,
         col' = col + 1,
         pivot_for_col' = [pivot_for_col EXCEPT ![col] = pivot],
         symbols' = Prefixes!AddRow(symbols, pivot, d), forward' = Append(forward, d)
  PROVE  Restorable'
<1>1. PICK slabs : Undoes(slabs) /\ symbols = slabs[col]  BY DEF Restorable
<1>2. Prefixes!Prefix \subseteq Prefixes!Row  BY Sizes DEF SystemInv
<1>3. Prefixes!Prefix \subseteq Held /\ symbols \in [Held -> Sym(Components)]
  BY <1>2 DEF Held, SuffixAside
<1>4. Prefixes!AddRow(symbols, pivot, d) \in [Held -> Sym(Components)]  BY <1>3, RowsAdded
<1>5. /\ Len(forward') = col + 1 /\ forward'[col + 1] = d
      /\ \A e \in 1 .. col : forward'[e] = forward[e]
  BY <1>2
<1>6. \A j \in 0 .. shape.n - 1 :
        pivot_for_col'[j] = IF j = col THEN pivot ELSE pivot_for_col[j]
  BY DEF Prefixes!TypeInv, Prefixes!Col
<1>7. /\ slabs \in [0 .. col -> [Held -> Sym(Components)]]
      /\ slabs[0] = [i \in Held |-> received[i]]
      /\ \A e \in 1 .. col :
           /\ slabs[e] = Prefixes!AddRow(slabs[e - 1], pivot_for_col[e - 1], forward[e])
           /\ pivot_for_col[e - 1] \in Prefixes!Prefix \ forward[e]
  BY <1>1 DEF Undoes
<1>. DEFINE A == Prefixes!AddRow(symbols, pivot, d)
<1>8. PICK z \in [0 .. col + 1 -> [Held -> Sym(Components)]] :
        z[col + 1] = A /\ \A e \in 0 .. col : z[e] = slabs[e]
  <2>. DEFINE z == [e \in 0 .. col + 1 |-> IF e = col + 1 THEN A ELSE slabs[e]]
  <2>1. \A e \in 0 .. col + 1 : e # col + 1 => e \in 0 .. col  OBVIOUS
  <2>2. A \in [Held -> Sym(Components)]
          /\ \A e \in 0 .. col : slabs[e] \in [Held -> Sym(Components)]
    BY <1>4, <1>7
  <2>. HIDE DEF A
  <2>3. z \in [0 .. col + 1 -> [Held -> Sym(Components)]]  BY <2>1, <2>2
  <2>4. z[col + 1] = A /\ \A e \in 0 .. col : z[e] = slabs[e]  OBVIOUS
  <2>. QED BY <2>3, <2>4
<1>9. z[0] = [i \in Held |-> received[i]]  BY <1>7, <1>8
<1>10. ASSUME NEW e \in 1 .. col + 1
       PROVE  /\ z[e] = Prefixes!AddRow(z[e - 1], pivot_for_col'[e - 1], forward'[e])
              /\ pivot_for_col'[e - 1] \in Prefixes!Prefix \ forward'[e]
  <2>1. CASE e = col + 1
    <3>1. e - 1 = col /\ z[e - 1] = symbols /\ z[e] = A  BY <1>1, <1>8, <2>1
    <3>2. pivot_for_col'[col] = pivot /\ forward'[e] = d  BY <1>5, <1>6, <2>1
    <3>. QED BY <3>1, <3>2
  <2>2. CASE e # col + 1
    <3>1. e \in 1 .. col /\ e - 1 \in 0 .. col /\ e \in 0 .. col /\ e - 1 # col
          /\ e - 1 \in 0 .. shape.n - 1
      BY <2>2
    <3>2. z[e] = slabs[e] /\ z[e - 1] = slabs[e - 1] /\ forward'[e] = forward[e]
          /\ pivot_for_col'[e - 1] = pivot_for_col[e - 1]
      BY <1>5, <1>6, <1>8, <3>1
    <3>. QED BY <1>7, <3>1, <3>2
  <2>. QED BY <2>1, <2>2
<1>11. /\ Held' = Held /\ Components' = Components /\ Prefixes!Prefix' = Prefixes!Prefix
       /\ received' = received
  BY SystemStays
<1>12. Undoes(z)'  BY <1>5, <1>8, <1>9, <1>10, <1>11 DEF Undoes
<1>13. symbols' = z[col'] /\ col' <= Len(forward')  BY <1>5, <1>8
<1>. QED BY <1>12, <1>13 DEF Restorable

\* A column eliminated keeps the invariant.
LEMMA EliminateColumnKeeps ==
  ASSUME PrefixInv, Prefixes!ShapesAssumption, Prefixes!EliminateColumn
  PROVE  PrefixInv'
<1>1. /\ UNCHANGED <<Prefixes!system, phase, suffix, decoded>> /\ phase = "forward"
      /\ col \in 0 .. shape.n - 1 /\ col' = col + 1
  BY ColumnEliminated
<1>2. PICK pivot \in Prefixes!Bucket :
        /\ pivot_for_col' = [pivot_for_col EXCEPT ![col] = pivot]
        /\ rows' = Prefixes!AddRow(rows, pivot, Prefixes!Bucket \ {pivot})
        /\ symbols' = Prefixes!AddRow(symbols, pivot, Prefixes!Bucket \ {pivot})
        /\ forward' = Append(forward, Prefixes!Bucket \ {pivot})
  BY ColumnEliminated
<1>. DEFINE d == Prefixes!Bucket \ {pivot}
<1>3. /\ SystemInv /\ Prefixes!TypeInv /\ forward \in Seq(SUBSET Prefixes!Prefix) /\ SuffixAside
      /\ Len(forward) = col /\ Triangular /\ SameSolutions /\ Restorable
  BY <1>1 DEF PrefixInv
<1>4. /\ shape.n \in Nat \ {0} /\ Prefixes!Prefix \subseteq Prefixes!Row
         /\ Prefixes!Prefix \subseteq Held
      /\ UNCHANGED Prefixes!system
  BY <1>1, <1>3, Sizes DEF SystemInv, Held
<1>5. pivot \in Prefixes!Prefix /\ d \subseteq Prefixes!Prefix /\ pivot \notin d
  BY <1>1, <1>3, InBucket
<1>6. Triangular'  BY <1>1, <1>2, <1>3, <1>4, TriangularKept
<1>7. Restorable'
  <2>1. d \in SUBSET Prefixes!Prefix  BY <1>5
  <2>. HIDE DEF d
  <2>2. symbols' = Prefixes!AddRow(symbols, pivot, d) /\ forward' = Append(forward, d)
    BY <1>2 DEF d
  <2>. QED BY <1>1, <1>2, <1>3, <1>4, <1>5, <2>1, <2>2, RestorableKept
<1>8. /\ symbols' \in [Held -> Sym(Components)]
      /\ \A i \in Held : i \notin d => symbols'[i] = symbols[i]
  BY <1>2, <1>3, <1>4, <1>5, RowsAdded DEF SuffixAside
<1>9. SuffixAside'
  <2>1. kind # "split" => \A i \in Prefixes!Row \ Prefixes!Prefix : symbols'[i] = received[i]
    BY <1>3, <1>5, <1>8 DEF SuffixAside, Held
  <2>. QED BY <1>1, <1>3, <1>4, <1>8, <2>1, SystemStays DEF SuffixAside
<1>10. SameSolutions'
  <2>1. rows \in [Prefixes!Prefix -> BitRow(shape.n)] /\ symbols \in [Held -> Sym(Components)]
    BY <1>3 DEF Triangular, SuffixAside
  <2>2. ASSUME NEW x \in Vectors
        PROVE  Satisfies(Prefixes!AddRow(rows, pivot, d), Prefixes!AddRow(symbols, pivot, d), x,
                 shape.n)
               <=> Satisfies(rows, symbols, x, shape.n)
    <3>1. x \in Sols(shape.n, Components)  BY DEF Vectors
    <3>. HIDE DEF d
    <3>. QED BY <1>4, <1>5, <2>1, <3>1, AddingKeepsSolutions
  <2>3. \A x \in Vectors : Satisfies(rows', symbols', x, shape.n)
          <=> Satisfies(matrix, received, x, shape.n)
    BY <1>2, <1>3, <2>2 DEF SameSolutions, Satisfied
  <2>4. Vectors' = Vectors /\ shape' = shape /\ matrix' = matrix /\ received' = received
        /\ Prefixes!Prefix' = Prefixes!Prefix
    BY <1>4, SystemStays
  <2>. QED BY <2>3, <2>4 DEF SameSolutions, Satisfied, Satisfies
<1>11. Prefixes!TypeInv'
  <2>1. pivot_for_col' \in [Prefixes!Col -> Prefixes!Prefix \cup {Prefixes!NoPivot}]
    <3>1. col \in Prefixes!Col  BY <1>1 DEF Prefixes!Col
    <3>. QED BY <1>2, <1>3, <1>5, <3>1 DEF Prefixes!TypeInv
  <2>2. DOMAIN symbols' \in {Prefixes!Prefix, Prefixes!Row}  BY <1>8 DEF Held
  <2>3. col' \in 0 .. shape.n /\ Len(forward') <= shape.n  BY <1>1, <1>2, <1>3, <1>4, <1>5
  <2>4. phase' = phase  BY <1>1
  <2>. QED BY <1>3, <1>4, <2>1, <2>2, <2>3, <2>4, SystemStays DEF Prefixes!TypeInv
<1>12. forward' \in Seq(SUBSET Prefixes!Prefix) /\ Len(forward') = col'
  BY <1>1, <1>2, <1>3, <1>4, <1>5
<1>13. SystemInv' /\ Prefixes!Prefix' = Prefixes!Prefix /\ phase' = "forward"
  BY <1>1, <1>3, <1>4, SystemStays
<1>. QED BY <1>6, <1>7, <1>9, <1>10, <1>11, <1>12, <1>13
         DEF PrefixInv, Prefixes!WholeFromReceived, Prefixes!DecodedSatisfiesAll,
             Prefixes!FailsOnlyUnsolvable

\* The prefix has too few pivots: nothing is changed yet.
LEMMA RankDeficientKeeps ==
  ASSUME PrefixInv, Prefixes!ShapesAssumption, Prefixes!RankDeficient
  PROVE  PrefixInv'
<1>1. /\ UNCHANGED Prefixes!system /\ phase = "forward" /\ phase' = "restore"
         /\ symbols' = symbols
      /\ col' = col /\ forward' = forward /\ pivot_for_col' = pivot_for_col /\ suffix' = suffix
  BY DEF Prefixes!RankDeficient
<1>2. SuffixAside'  BY <1>1, SystemStays DEF PrefixInv, SuffixAside
<1>3. Restorable'
  <2>1. PICK slabs : Undoes(slabs) /\ symbols = slabs[col] /\ col <= Len(forward)
    BY <1>1 DEF PrefixInv, Restorable
  <2>2. Undoes(slabs)'  BY <1>1, <2>1, SystemStays DEF Undoes
  <2>. QED BY <1>1, <2>1, <2>2 DEF Restorable
<1>4. Prefixes!TypeInv'  BY <1>1, SystemStays DEF PrefixInv, Prefixes!TypeInv
<1>5. SystemInv' /\ forward' \in Seq(SUBSET Prefixes!Prefix')
  BY <1>1, SystemStays DEF PrefixInv
<1>. QED BY <1>1, <1>2, <1>3, <1>4, <1>5
         DEF PrefixInv, Prefixes!WholeFromReceived, Prefixes!DecodedSatisfiesAll,
             Prefixes!FailsOnlyUnsolvable

\* A column is taken back.
LEMMA RestoreColumnKeeps ==
  ASSUME PrefixInv, Prefixes!ShapesAssumption, Prefixes!RestoreColumn
  PROVE  PrefixInv'
<1>1. /\ UNCHANGED Prefixes!system /\ phase = "restore" /\ phase' = "restore" /\ col > 0
      /\ symbols' = Prefixes!AddRow(symbols, pivot_for_col[col - 1], forward[(col - 1) + 1])
      /\ col' = col - 1 /\ forward' = forward /\ pivot_for_col' = pivot_for_col
      /\ suffix' = suffix
  BY DEF Prefixes!RestoreColumn, Prefixes!LastDoneFirst
<1>2. /\ SystemInv /\ Prefixes!TypeInv /\ forward \in Seq(SUBSET Prefixes!Prefix) /\ SuffixAside
         /\ Restorable
  BY <1>1 DEF PrefixInv
<1>3. shape.n \in Nat /\ Prefixes!Prefix \subseteq Prefixes!Row
        /\ Prefixes!Prefix \subseteq Held /\ col \in 0 .. shape.n
  BY <1>2, Sizes DEF SystemInv, Prefixes!TypeInv, Held
<1>4. PICK slabs : Undoes(slabs) /\ symbols = slabs[col] /\ col <= Len(forward)
  BY <1>2 DEF Restorable
<1>5. col \in 1 .. Len(forward) /\ col - 1 \in 0 .. Len(forward) /\ (col - 1) + 1 = col
  BY <1>1, <1>2, <1>3, <1>4
<1>6. PICK p \in Prefixes!Prefix, d \in SUBSET Prefixes!Prefix,
        f \in [Held -> Sym(Components)] :
        /\ p = pivot_for_col[col - 1] /\ d = forward[col] /\ f = slabs[col - 1]
        /\ p \notin d /\ symbols = Prefixes!AddRow(f, p, d)
  <2>1. slabs \in [0 .. Len(forward) -> [Held -> Sym(Components)]]  BY <1>4 DEF Undoes
  <2>2. slabs[col - 1] \in [Held -> Sym(Components)]  BY <1>5, <2>1
  <2>3. /\ slabs[col] = Prefixes!AddRow(slabs[col - 1], pivot_for_col[col - 1], forward[col])
        /\ pivot_for_col[col - 1] \in Prefixes!Prefix \ forward[col]
    BY <1>4, <1>5 DEF Undoes
  <2>4. forward[col] \in SUBSET Prefixes!Prefix  BY <1>2, <1>5
  <2>. QED BY ONLY <1>4, <2>2, <2>3, <2>4
<1>7. symbols' = f
  <2>1. p \in Held  BY <1>3
  <2>2. Prefixes!AddRow(Prefixes!AddRow(f, p, d), p, d) = f  BY <1>6, <2>1, AddedTwice
  <2>. QED BY <1>1, <1>5, <1>6, <2>2
<1>8. symbols' = slabs[col'] /\ col' <= Len(forward')  BY <1>1, <1>5, <1>6, <1>7
<1>9. Restorable'
  <2>1. Undoes(slabs)'  BY <1>1, <1>4, SystemStays DEF Undoes
  <2>. QED BY <1>8, <2>1 DEF Restorable
<1>10. SuffixAside'
  <2>1. \A i \in Prefixes!Row \ Prefixes!Prefix : kind # "split" => symbols'[i] = symbols[i]
    <3>1. symbols = slabs[col] /\ slabs[col] = Prefixes!AddRow(f, p, d)  BY <1>4, <1>6
    <3>2. d \subseteq Prefixes!Prefix /\ p \in Held
      <4>1. forward[col] \in SUBSET Prefixes!Prefix  BY <1>2, <1>5
      <4>. QED BY <1>3, <1>6, <4>1
    <3>3. \A i \in Held : i \notin d => symbols[i] = f[i]  BY <1>6, <3>2, RowsAdded
    <3>. QED BY <1>7, <3>2, <3>3 DEF Held
  <2>. QED BY <1>1, <1>2, <1>6, <1>7, <2>1, SystemStays DEF SuffixAside
<1>11. Prefixes!TypeInv'
  <2>1. DOMAIN symbols' = Held  BY <1>6, <1>7
  <2>2. DOMAIN symbols' \in {Prefixes!Prefix, Prefixes!Row}  BY <2>1 DEF Held
  <2>3. col' \in 0 .. shape.n  BY <1>1, <1>3
  <2>. QED BY <1>1, <1>2, <2>2, <2>3, SystemStays DEF Prefixes!TypeInv
<1>12. SystemInv' /\ forward' \in Seq(SUBSET Prefixes!Prefix')  BY <1>1, <1>2, SystemStays
<1>. QED BY <1>1, <1>9, <1>10, <1>11, <1>12
         DEF PrefixInv, Prefixes!WholeFromReceived, Prefixes!DecodedSatisfiesAll,
             Prefixes!FailsOnlyUnsolvable

\* The slab holds again what was received.
LEMMA FallBackKeeps ==
  ASSUME PrefixInv, Prefixes!ShapesAssumption, Prefixes!FallBack
  PROVE  PrefixInv'
<1>1. /\ UNCHANGED Prefixes!system /\ phase = "restore" /\ phase' = "whole" /\ col = 0
      /\ symbols' = Prefixes!Rejoined /\ col' = col /\ forward' = forward
      /\ pivot_for_col' = pivot_for_col
  BY DEF Prefixes!FallBack
<1>2. SystemInv /\ Prefixes!TypeInv /\ forward \in Seq(SUBSET Prefixes!Prefix) /\ SuffixAside
        /\ Restorable
  BY <1>1 DEF PrefixInv
<1>3. symbols = [i \in Held |-> received[i]]
  <2>1. PICK slabs : Undoes(slabs) /\ symbols = slabs[0]  BY <1>1, <1>2 DEF Restorable
  <2>. QED BY <2>1 DEF Undoes
<1>4. received = [i \in Prefixes!Row |-> received[i]]  BY <1>2 DEF SystemInv
<1>5. Prefixes!Rejoined = received
  <2>1. CASE kind # "split"
    <3>1. Prefixes!Rejoined = symbols /\ Held = Prefixes!Row
      BY <2>1 DEF Prefixes!Rejoined, Held
    <3>. QED BY <1>3, <1>4, <3>1
  <2>2. CASE kind = "split"
    <3>1. /\ Height \in Nat /\ Prefixes!SuffixLen = shape.height - Height
             /\ shape.height \in Nat
          /\ Prefixes!Prefix = 0 .. Height - 1 /\ Prefixes!Row = 0 .. shape.height - 1
      BY <1>2, Sizes DEF SystemInv, Prefixes!Row
    <3>2. Prefixes!Rejoined = [i \in Prefixes!Row |-> IF i
            \in Prefixes!Prefix THEN symbols[i] ELSE suffix[i - Height]]
      BY <2>2 DEF Prefixes!Rejoined, Height
    <3>3. symbols = [i \in Prefixes!Prefix |-> received[i]]
          /\ suffix = [i \in 0 .. Prefixes!SuffixLen - 1 |-> received[Height + i]]
      BY <1>2, <1>3, <2>2 DEF Held, SuffixAside
    <3>4. \A i \in Prefixes!Row \ Prefixes!Prefix : i - Height \in 0 .. Prefixes!SuffixLen - 1
            /\ Height + (i - Height) = i
      BY <3>1
    <3>5. \A i \in Prefixes!Row :
            (IF i \in Prefixes!Prefix THEN symbols[i] ELSE suffix[i - Height]) = received[i]
      BY <3>3, <3>4
    <3>. QED BY <1>4, <3>2, <3>5
  <2>. QED BY <2>1, <2>2
<1>6. symbols' = received'  BY <1>1, <1>5, SystemStays
<1>7. Prefixes!TypeInv'
  <2>1. DOMAIN symbols' = Prefixes!Row  BY <1>1, <1>4, <1>5
  <2>. QED BY <1>1, <1>2, <2>1, SystemStays DEF Prefixes!TypeInv
<1>8. SystemInv' /\ forward' \in Seq(SUBSET Prefixes!Prefix')  BY <1>1, <1>2, SystemStays
<1>. QED BY <1>1, <1>6, <1>7, <1>8
         DEF PrefixInv, Prefixes!WholeFromReceived, Prefixes!DecodedSatisfiesAll,
             Prefixes!FailsOnlyUnsolvable

\* If all rows have one solution, it satisfies them.
LEMMA AllRowsSolved ==
  ASSUME SystemInv, Prefixes!ShapesAssumption, Prefixes!Solvable(Prefixes!Row, received)
  PROVE  /\ Prefixes!Solution(Prefixes!Row, received) \in Vectors
         /\ \A i \in Prefixes!Row : Prefixes!Combination(matrix[i],
            Prefixes!Solution(Prefixes!Row, received), shape.n) = received[i]
         /\ Satisfied(matrix, received, Prefixes!Solution(Prefixes!Row, received))
<1>1. shape.n \in Nat \ {0} /\ Prefixes!Prefix \subseteq Prefixes!Row  BY Sizes DEF SystemInv
<1>2. AreRows(Prefixes!Row, received, shape.n)  BY DEF AreRows, SystemInv, Components
<1>3. /\ Prefixes!Solution(Prefixes!Row, received) \in Sols(shape.n, 0 .. shape.n)
      /\ \A i \in Prefixes!Row : Prefixes!Combination(matrix[i],
         Prefixes!Solution(Prefixes!Row, received), shape.n) = received[i]
  BY <1>1, <1>2, SolutionSolves
<1>. QED BY <1>1, <1>3 DEF Vectors, Components, Satisfied, Satisfies

\* A row without ones asks for a symbol without any.
LEMMA EmptyRow ==
  ASSUME NEW w \in Nat \ {0}, NEW D, NEW r \in BitRow(w), NEW x \in Sols(w, D),
         \A k \in 0 .. w - 1 : r[k] = Prefixes!Zero, NEW s \in Sym(D)
  PROVE  /\ Prefixes!Support(r) = {}
         /\ Prefixes!Combination(r, x, w) = s <=> Prefixes!Support(s) = {}
<1>1. Prefixes!Support(r) = {}  BY DEF Prefixes!Support, BitRow
<1>2. Prefixes!Combination(r, x, w) = Prefixes!VZero(D)  BY CombinationOfNone
<1>3. Prefixes!VZero(D) \in Sym(D) /\ \A d \in D : Prefixes!VZero(D)[d] = Prefixes!Zero
  BY AddBits
<1>4. Prefixes!Support(s) = {} <=> \A d \in D : s[d] = Prefixes!Zero
  BY DEF Prefixes!Support, Sym
<1>5. (\A d \in D : s[d] = Prefixes!Zero) <=> Prefixes!VZero(D) = s  BY <1>3, SameBits
<1>. QED BY <1>1, <1>2, <1>4, <1>5

\* When every column has its pivot.
LEMMA AllPivoted ==
  ASSUME SystemInv, Prefixes!ShapesAssumption, SuffixAside, Triangular, col = shape.n
  PROVE  /\ shape.n \in Nat \ {0} /\ Prefixes!Prefix \subseteq Held
         /\ \A i \in Prefixes!Prefix : rows[i] \in BitRow(shape.n)
            /\ symbols[i] \in Sym(Components)
         /\ \A j \in 0 .. shape.n - 1 : /\ pivot_for_col[j] \in Prefixes!Prefix
                                        /\ Begins(rows[pivot_for_col[j]], j)
         /\ \A x \in Vectors, i \in Prefixes!Prefix \ Prefixes!Pivoted :
              /\ Prefixes!Support(rows[i]) = {}
              /\ Prefixes!Combination(rows[i], x, shape.n) = symbols[i]
                 <=> Prefixes!Support(symbols[i]) = {}
<1>1. shape.n \in Nat \ {0} /\ Prefixes!Prefix \subseteq Held  BY Sizes DEF SystemInv, Held
<1>2. \A i \in Prefixes!Prefix : rows[i] \in BitRow(shape.n) /\ symbols[i] \in Sym(Components)
  BY <1>1 DEF Triangular, SuffixAside
<1>3. \A j \in 0 .. shape.n - 1 : /\ pivot_for_col[j] \in Prefixes!Prefix
                                  /\ Begins(rows[pivot_for_col[j]], j)
  BY DEF Triangular
<1>4. ASSUME NEW x \in Vectors, NEW i \in Prefixes!Prefix \ Prefixes!Pivoted
      PROVE  /\ Prefixes!Support(rows[i]) = {}
             /\ Prefixes!Combination(rows[i], x, shape.n) = symbols[i]
                <=> Prefixes!Support(symbols[i]) = {}
  <2>1. \A k \in 0 .. shape.n - 1 : rows[i][k] = Prefixes!Zero  BY DEF Triangular
  <2>2. rows[i] \in BitRow(shape.n) /\ symbols[i] \in Sym(Components)  BY <1>2
  <2>3. x \in Sols(shape.n, Components)  BY DEF Vectors
  <2>. QED BY <1>1, <2>1, <2>2, <2>3, EmptyRow
<1>. QED BY <1>1, <1>2, <1>3, <1>4

\* What is asked of an answer.
Solves(x) ==
  /\ \A i \in Prefixes!Row : Prefixes!Combination(matrix[i], x, shape.n) = received[i]
  /\ Prefixes!hdpc_rows_satisfied(x)
Unsolvable == ~(Prefixes!Solvable(Prefixes!Row, received)
    /\ Prefixes!hdpc_rows_satisfied(Prefixes!Solution(Prefixes!Row, received)))

\* It stays the same while the system does.
LEMMA AnswerStays ==
  ASSUME UNCHANGED Prefixes!system
  PROVE  /\ \A x : Solves(x) <=> Solves(x)'
         /\ Unsolvable <=> Unsolvable'
<1>1. shape' = shape /\ matrix' = matrix /\ received' = received /\ Prefixes!Row' = Prefixes!Row
        /\ Prefixes!Col' = Prefixes!Col
  BY SystemStays
<1>2. ASSUME NEW x PROVE Prefixes!hdpc_rows_satisfied(x) <=> Prefixes!hdpc_rows_satisfied(x)'
  BY <1>1 DEF Prefixes!hdpc_rows_satisfied, Prefixes!Symbol
<1>3. ASSUME NEW x PROVE Solves(x) <=> Solves(x)'  BY <1>1, <1>2 DEF Solves
<1>4. \A k : Prefixes!Solutions(Prefixes!Row, received, k)
        = Prefixes!Solutions(Prefixes!Row, received, k)'
  BY <1>1 DEF Prefixes!Solutions, Prefixes!Parity
<1>5. Prefixes!Solvable(Prefixes!Row, received) <=> Prefixes!Solvable(Prefixes!Row, received)'
  BY <1>1, <1>4 DEF Prefixes!Solvable
<1>6. Prefixes!Solution(Prefixes!Row, received)' = Prefixes!Solution(Prefixes!Row, received)
  <2>. DEFINE Any(S) == CHOOSE x \in S : TRUE
  <2>1. Prefixes!Solution(Prefixes!Row, received)
          = [j \in Prefixes!Col |-> [k \in 0 .. shape.n |->
               [e \in 0 .. shape.n |-> Any(Prefixes!Solutions(Prefixes!Row, received,
                   e))][k][j]]]
    BY DEF Prefixes!Solution
  <2>2. Prefixes!Solution(Prefixes!Row, received)'
          = [j \in Prefixes!Col' |-> [k \in 0 .. shape'.n |->
               [e \in 0 .. shape'.n |-> Any(Prefixes!Solutions(Prefixes!Row, received,
                   e)')][k][j]]]
    BY Zenon DEF Prefixes!Solution
  <2>. HIDE DEF Any
  <2>. QED BY <1>1, <1>4, <2>1, <2>2
<1>7. Unsolvable <=> Unsolvable'
  <2>1. PICK x : x = Prefixes!Solution(Prefixes!Row, received)  OBVIOUS
  <2>2. Unsolvable <=> ~(Prefixes!Solvable(Prefixes!Row, received)
          /\ Prefixes!hdpc_rows_satisfied(x))
    BY <2>1 DEF Unsolvable
  <2>3. Unsolvable' <=> ~(Prefixes!Solvable(Prefixes!Row, received)'
          /\ Prefixes!hdpc_rows_satisfied(x)')
    <3>1. Prefixes!Solution(Prefixes!Row, received)' = x  BY <1>6, <2>1
    <3>2. Prefixes!hdpc_rows_satisfied(Prefixes!Solution(Prefixes!Row, received))'
            <=> Prefixes!hdpc_rows_satisfied(x)'
      BY ONLY <3>1 DEF Prefixes!hdpc_rows_satisfied
    <3>. QED BY <3>2 DEF Unsolvable
  <2>. QED BY <1>2, <1>5, <2>2, <2>3
<1>. QED BY <1>3, <1>7

\* Only prefixes with a row that has no ones and a symbol that has contradict
\* themselves, and then all rows do.
LEMMA PrefixContradictsKeeps ==
  ASSUME PrefixInv, Prefixes!ShapesAssumption, Prefixes!PrefixContradicts
  PROVE  PrefixInv'
<1>1. /\ UNCHANGED Prefixes!system /\ phase = "forward" /\ phase' = "failed"
         /\ symbols' = symbols
      /\ col = shape.n /\ ~Prefixes!SpareRowsVanish
      /\ col' = col /\ forward' = forward /\ pivot_for_col' = pivot_for_col
  BY DEF Prefixes!PrefixContradicts
<1>2. SystemInv /\ Prefixes!TypeInv /\ forward \in Seq(SUBSET Prefixes!Prefix) /\ SuffixAside
      /\ Triangular /\ SameSolutions
  BY <1>1 DEF PrefixInv
<1>3. ASSUME Prefixes!Solvable(Prefixes!Row, received) PROVE FALSE
  <2>. DEFINE x == Prefixes!Solution(Prefixes!Row, received)
  <2>1. x \in Vectors /\ Satisfied(matrix, received, x)  BY <1>2, <1>3, AllRowsSolved
  <2>. HIDE DEF x
  <2>2. Satisfied(rows, symbols, x)  BY <1>2, <2>1 DEF SameSolutions
  <2>3. PICK i \in Prefixes!Prefix \ Prefixes!Pivoted :
          ~(Prefixes!Support(rows[i]) = {} /\ Prefixes!Support(symbols[i]) = {})
    BY <1>1 DEF Prefixes!SpareRowsVanish
  <2>4. /\ Prefixes!Support(rows[i]) = {}
        /\ Prefixes!Combination(rows[i], x, shape.n) = symbols[i]
           <=> Prefixes!Support(symbols[i]) = {}
    BY <1>1, <1>2, <2>1, AllPivoted
  <2>5. Prefixes!Combination(rows[i], x, shape.n) = symbols[i]  BY <2>2 DEF Satisfied, Satisfies
  <2>. QED BY <2>3, <2>4, <2>5
<1>4. Unsolvable'  BY <1>1, <1>3, AnswerStays DEF Unsolvable
<1>5. Prefixes!TypeInv'  BY <1>1, <1>2, SystemStays DEF Prefixes!TypeInv
<1>6. SystemInv' /\ forward' \in Seq(SUBSET Prefixes!Prefix')  BY <1>1, <1>2, SystemStays
<1>. QED BY <1>1, <1>4, <1>5, <1>6
         DEF PrefixInv, Prefixes!WholeFromReceived, Prefixes!DecodedSatisfiesAll,
             Prefixes!FailsOnlyUnsolvable, Unsolvable

\* What is substituted back is the one solution of the prefix.
LEMMA SubstituteBackKeeps ==
  ASSUME PrefixInv, Prefixes!ShapesAssumption, Prefixes!SubstituteBack
  PROVE  PrefixInv'
<1>1. /\ UNCHANGED Prefixes!system /\ phase = "forward" /\ phase' = "check"
         /\ symbols' = symbols
      /\ col = shape.n /\ Prefixes!SpareRowsVanish /\ decoded' = Prefixes!BackSubstituted
         /\ suffix' = suffix
      /\ col' = col /\ forward' = forward /\ pivot_for_col' = pivot_for_col
  BY DEF Prefixes!SubstituteBack
<1>2. SystemInv /\ Prefixes!TypeInv /\ forward \in Seq(SUBSET Prefixes!Prefix) /\ SuffixAside
      /\ Triangular /\ SameSolutions
  BY <1>1 DEF PrefixInv
<1>3. /\ shape.n \in Nat \ {0}
      /\ \A i \in Prefixes!Prefix : rows[i] \in BitRow(shape.n)
         /\ symbols[i] \in Sym(Components)
      /\ \A j \in 0 .. shape.n - 1 : /\ pivot_for_col[j] \in Prefixes!Prefix
                                     /\ Begins(rows[pivot_for_col[j]], j)
      /\ \A x \in Vectors, i \in Prefixes!Prefix \ Prefixes!Pivoted :
           /\ Prefixes!Support(rows[i]) = {}
           /\ Prefixes!Combination(rows[i], x, shape.n) = symbols[i]
              <=> Prefixes!Support(symbols[i]) = {}
  BY <1>1, <1>2, AllPivoted
<1>. DEFINE ByPivots(x) ==
              \A j \in 0 .. shape.n - 1 :
                Prefixes!Combination(rows[pivot_for_col[j]], x, shape.n)
                    = symbols[pivot_for_col[j]]
<1>4. Prefixes!BackSubstituted \in Vectors /\ \A x \in Vectors : ByPivots(x)
        <=> x = Prefixes!BackSubstituted
  <2>1. \A j \in 0 .. shape.n - 1 : /\ rows[pivot_for_col[j]] \in BitRow(shape.n)
                                    /\ Begins(rows[pivot_for_col[j]], j)
                                    /\ symbols[pivot_for_col[j]] \in Sym(Components)
    BY <1>3
  <2>2. /\ Prefixes!BackSubstituted \in Sols(shape.n, Components)
        /\ \A x \in Sols(shape.n, Components) : ByPivots(x) <=> x = Prefixes!BackSubstituted
    BY <1>3, <2>1, BackSubstitutes
  <2>. QED BY <2>2 DEF Vectors
<1>5. ASSUME NEW x \in Vectors PROVE Satisfied(rows, symbols, x) <=> ByPivots(x)
  <2>1. Satisfied(rows, symbols, x) => ByPivots(x)  BY <1>3 DEF Satisfied, Satisfies
  <2>2. ASSUME ByPivots(x), NEW i \in Prefixes!Prefix
        PROVE  Prefixes!Combination(rows[i], x, shape.n) = symbols[i]
    <3>1. CASE i \in Prefixes!Pivoted
      <4>1. PICK j \in 0 .. shape.n - 1 : i = pivot_for_col[j]
        BY <3>1 DEF Prefixes!Pivoted, Prefixes!Col
      <4>. QED BY <2>2, <4>1
    <3>2. CASE i \notin Prefixes!Pivoted
      <4>1. Prefixes!Support(symbols[i]) = {}  BY <1>1, <3>2 DEF Prefixes!SpareRowsVanish
      <4>. QED BY <1>3, <3>2, <4>1
    <3>. QED BY <3>1, <3>2
  <2>. QED BY <2>1, <2>2 DEF Satisfied, Satisfies
<1>. HIDE DEF ByPivots
<1>6. \A x \in Vectors : Satisfied(matrix, received, x) <=> x = Prefixes!BackSubstituted
  BY <1>2, <1>4, <1>5 DEF SameSolutions
<1>7. OnlyDecoded'
  <2>1. Vectors' = Vectors /\ shape' = shape /\ matrix' = matrix /\ received' = received
        /\ Prefixes!Prefix' = Prefixes!Prefix
    BY <1>1, SystemStays
  <2>2. \A x \in Vectors : Satisfied(matrix, received, x)' <=> Satisfied(matrix, received, x)
    BY <2>1 DEF Satisfied, Satisfies
  <2>. QED BY <1>1, <1>4, <1>6, <2>1, <2>2 DEF OnlyDecoded
<1>8. SuffixAside'  BY <1>1, <1>2, SystemStays DEF SuffixAside
<1>9. Prefixes!TypeInv'  BY <1>1, <1>2, SystemStays DEF Prefixes!TypeInv
<1>10. SystemInv' /\ forward' \in Seq(SUBSET Prefixes!Prefix')  BY <1>1, <1>2, SystemStays
<1>. QED BY <1>1, <1>7, <1>8, <1>9, <1>10
         DEF PrefixInv, Prefixes!WholeFromReceived, Prefixes!DecodedSatisfiesAll,
             Prefixes!FailsOnlyUnsolvable

\* The slab that is passed to the comparison is told by its length, and holds
\* the symbols behind the prefix as they were received.
LEMMA SuffixCompared ==
  ASSUME SystemInv, Prefixes!ShapesAssumption, Prefixes!SuffixLen > 0, NEW s, NEW x,
         \/ DOMAIN s = Prefixes!Row
            /\ \A i \in Prefixes!Row \ Prefixes!Prefix : s[i] = received[i]
         \/ s = [i \in 0 .. Prefixes!SuffixLen - 1 |-> received[Height + i]]
  PROVE  Prefixes!binary_row_suffixes_satisfied(x, s)
         <=> \A i \in Prefixes!Row \ Prefixes!Prefix :
             Prefixes!Combination(matrix[i], x, shape.n) = received[i]
<1>1. /\ Height \in Nat \ {0} /\ Prefixes!SuffixLen \in Nat
         /\ Prefixes!SuffixLen = shape.height - Height
      /\ shape.height \in Nat /\ Prefixes!Prefix = 0 .. Height - 1
         /\ Prefixes!Row = 0 .. shape.height - 1
  BY Sizes DEF SystemInv, Prefixes!Row
<1>. DEFINE offset == IF Prefixes!Cardinality(DOMAIN s) = Prefixes!SuffixLen THEN Height ELSE 0
<1>2. Prefixes!binary_row_suffixes_satisfied(x, s)
      <=> \A i \in Prefixes!Row \ Prefixes!Prefix : Prefixes!Combination(matrix[i], x, shape.n)
          = s[i - offset]
  BY DEF Prefixes!binary_row_suffixes_satisfied, Height
<1>3. CASE DOMAIN s = Prefixes!Row
        /\ \A i \in Prefixes!Row \ Prefixes!Prefix : s[i] = received[i]
  <2>1. Prefixes!Cardinality(DOMAIN s) = shape.height  BY <1>1, <1>3, Counting
  <2>2. offset = 0  BY <1>1, <2>1
  <2>. HIDE DEF offset
  <2>3. \A i \in Prefixes!Row \ Prefixes!Prefix : i - offset = i  BY <1>1, <2>2
  <2>. QED BY <1>2, <1>3, <2>3
<1>4. CASE s = [i \in 0 .. Prefixes!SuffixLen - 1 |-> received[Height + i]]
  <2>1. DOMAIN s = 0 .. Prefixes!SuffixLen - 1  BY <1>4
  <2>2. Prefixes!Cardinality(DOMAIN s) = Prefixes!SuffixLen  BY <1>1, <2>1, Counting
  <2>3. offset = Height  BY <2>2
  <2>. HIDE DEF offset
  <2>4. \A i \in Prefixes!Row \ Prefixes!Prefix : i - offset \in 0 .. Prefixes!SuffixLen - 1
          /\ Height + (i - offset) = i
    BY <1>1, <2>3
  <2>5. \A i \in Prefixes!Row \ Prefixes!Prefix : s[i - offset] = received[i]  BY <1>4, <2>4
  <2>. QED BY <1>2, <2>5
<1>. QED BY <1>3, <1>4

\* Rows of the prefix and rows behind it are all rows.
LEMMA BothParts ==
  ASSUME SystemInv, Prefixes!ShapesAssumption, NEW x
  PROVE  Solves(x) <=> /\ Satisfied(matrix, received, x)
                       /\ \A i \in Prefixes!Row \ Prefixes!Prefix :
                          Prefixes!Combination(matrix[i], x, shape.n) = received[i]
                       /\ Prefixes!hdpc_rows_satisfied(x)
<1>1. Prefixes!Prefix \subseteq Prefixes!Row  BY Sizes DEF SystemInv
<1>. QED BY <1>1 DEF Solves, Satisfied, Satisfies

\* The solution of the prefix is compared with the rows that are left.
LEMMA CheckKeeps ==
  ASSUME PrefixInv, Prefixes!ShapesAssumption, Prefixes!Check
  PROVE  PrefixInv'
<1>. DEFINE s == IF kind = "split" THEN suffix ELSE symbols
            satisfied == /\ Prefixes!hdpc_rows_satisfied(decoded)
                         /\ Prefixes!binary_row_suffixes_satisfied(decoded, s)
<1>1. /\ UNCHANGED Prefixes!system /\ phase = "check" /\ symbols' = symbols
         /\ decoded' = decoded
      /\ phase' = IF satisfied THEN "decoded" ELSE "failed"
      /\ col' = col /\ forward' = forward /\ pivot_for_col' = pivot_for_col
  BY DEF Prefixes!Check
<1>2. SystemInv /\ Prefixes!TypeInv /\ forward \in Seq(SUBSET Prefixes!Prefix) /\ SuffixAside
        /\ OnlyDecoded
  BY <1>1 DEF PrefixInv
<1>3. satisfied <=> Solves(decoded)
  <2>1. \/ DOMAIN s = Prefixes!Row
           /\ \A i \in Prefixes!Row \ Prefixes!Prefix : s[i] = received[i]
        \/ s = [i \in 0 .. Prefixes!SuffixLen - 1 |-> received[Height + i]]
    BY <1>2 DEF SuffixAside, Held
  <2>2. Prefixes!SuffixLen > 0  BY <1>2 DEF SuffixAside
  <2>. HIDE DEF s
  <2>3. Prefixes!binary_row_suffixes_satisfied(decoded, s)
        <=> \A i \in Prefixes!Row \ Prefixes!Prefix :
            Prefixes!Combination(matrix[i], decoded, shape.n) = received[i]
    BY <1>2, <2>1, <2>2, SuffixCompared
  <2>4. Satisfied(matrix, received, decoded)  BY <1>2 DEF OnlyDecoded
  <2>. QED BY <1>2, <2>3, <2>4, BothParts
<1>. HIDE DEF satisfied
<1>4. ASSUME ~satisfied PROVE Unsolvable
  <2>. SUFFICES ASSUME Prefixes!Solvable(Prefixes!Row, received),
         Prefixes!hdpc_rows_satisfied(Prefixes!Solution(Prefixes!Row, received))
                PROVE FALSE
    BY DEF Unsolvable
  <2>1. /\ Prefixes!Solution(Prefixes!Row, received) \in Vectors
        /\ \A i \in Prefixes!Row : Prefixes!Combination(matrix[i],
           Prefixes!Solution(Prefixes!Row, received), shape.n) = received[i]
        /\ Satisfied(matrix, received, Prefixes!Solution(Prefixes!Row, received))
    BY <1>2, AllRowsSolved
  <2>2. Prefixes!Solution(Prefixes!Row, received) = decoded  BY <1>2, <2>1 DEF OnlyDecoded
  <2>3. Solves(decoded)  BY <2>1, <2>2 DEF Solves
  <2>. QED BY <1>3, <1>4, <2>3
<1>5. phase' = "decoded" => Prefixes!DecodedSatisfiesAll'
  <2>. SUFFICES ASSUME phase' = "decoded" PROVE Prefixes!DecodedSatisfiesAll'  OBVIOUS
  <2>1. Solves(decoded)  BY <1>1, <1>3
  <2>2. PICK x : x = decoded  OBVIOUS
  <2>3. decoded' = x  BY <1>1, <2>2
  <2>4. Solves(x)'  BY <1>1, <2>1, <2>2, AnswerStays
  <2>. QED BY <2>3, <2>4 DEF Prefixes!DecodedSatisfiesAll, Solves
<1>6. phase' = "failed" => Unsolvable'  BY <1>1, <1>4, AnswerStays
<1>7. Prefixes!TypeInv'  BY <1>1, <1>2, SystemStays DEF Prefixes!TypeInv
<1>8. SystemInv' /\ forward' \in Seq(SUBSET Prefixes!Prefix')  BY <1>1, <1>2, SystemStays
<1>. QED BY <1>1, <1>5, <1>6, <1>7, <1>8
         DEF PrefixInv, Prefixes!WholeFromReceived, Prefixes!DecodedSatisfiesAll,
             Prefixes!FailsOnlyUnsolvable, Unsolvable

\* A copy of the prefix is solved, or all rows are, from what was received.
LEMMA SolveCopyKeeps ==
  ASSUME PrefixInv, Prefixes!ShapesAssumption, Prefixes!SolveCopy
  PROVE  PrefixInv'
<1>1. /\ UNCHANGED Prefixes!system /\ phase = "start" /\ Prefixes!SuffixLen > 0
         /\ symbols' = symbols
      /\ \/ Prefixes!CopyDecodes /\ phase' = "decoded"
            /\ decoded' = Prefixes!Solution(Prefixes!Prefix, symbols)
         \/ phase' = "whole"
      /\ col' = col /\ forward' = forward /\ pivot_for_col' = pivot_for_col
  BY DEF Prefixes!SolveCopy
<1>2. SystemInv /\ Prefixes!TypeInv /\ forward \in Seq(SUBSET Prefixes!Prefix)
        /\ symbols = received
  BY <1>1 DEF PrefixInv, AtStart
<1>3. ASSUME Prefixes!CopyDecodes PROVE Solves(Prefixes!Solution(Prefixes!Prefix, symbols))
  <2>1. /\ Prefixes!Solvable(Prefixes!Prefix, received)
           /\ Prefixes!hdpc_rows_satisfied(Prefixes!Solution(Prefixes!Prefix, received))
        /\ Prefixes!binary_row_suffixes_satisfied(Prefixes!Solution(Prefixes!Prefix, received),
           received)
    BY <1>2, <1>3 DEF Prefixes!CopyDecodes
  <2>2. shape.n \in Nat \ {0} /\ Prefixes!Prefix \subseteq Prefixes!Row
    BY <1>2, Sizes DEF SystemInv
  <2>3. AreRows(Prefixes!Prefix, received, shape.n)
    BY <1>2, <2>2 DEF AreRows, SystemInv, Components
  <2>4. \A i \in Prefixes!Prefix :
          Prefixes!Combination(matrix[i], Prefixes!Solution(Prefixes!Prefix, received), shape.n)
              = received[i]
    BY <2>1, <2>2, <2>3, SolutionSolves
  <2>. DEFINE x == Prefixes!Solution(Prefixes!Prefix, received)
  <2>5. DOMAIN received = Prefixes!Row  BY <1>2 DEF SystemInv
  <2>6. \A i \in Prefixes!Row \ Prefixes!Prefix : Prefixes!Combination(matrix[i], x, shape.n)
          = received[i]
    BY <1>1, <1>2, <2>1, <2>5, SuffixCompared
  <2>7. Satisfied(matrix, received, x)  BY <2>4 DEF Satisfied, Satisfies
  <2>. QED BY <1>2, <2>1, <2>6, <2>7, BothParts
<1>4. phase' = "decoded" => Prefixes!DecodedSatisfiesAll'
  <2>. SUFFICES ASSUME phase' = "decoded" PROVE Prefixes!DecodedSatisfiesAll'  OBVIOUS
  <2>2. PICK x : x = Prefixes!Solution(Prefixes!Prefix, symbols)  OBVIOUS
  <2>3. decoded' = x /\ Solves(x)  BY <1>1, <1>3, <2>2
  <2>4. Solves(x)'  BY <1>1, <2>3, AnswerStays
  <2>. QED BY <2>3, <2>4 DEF Prefixes!DecodedSatisfiesAll, Solves
<1>5. symbols' = received'  BY <1>1, <1>2, SystemStays
<1>6. Prefixes!TypeInv'  BY <1>1, <1>2, SystemStays DEF Prefixes!TypeInv
<1>7. SystemInv' /\ forward' \in Seq(SUBSET Prefixes!Prefix')  BY <1>1, <1>2, SystemStays
<1>. QED BY <1>1, <1>4, <1>5, <1>6, <1>7
         DEF PrefixInv, Prefixes!WholeFromReceived, Prefixes!DecodedSatisfiesAll,
             Prefixes!FailsOnlyUnsolvable

\* All rows are solved.
LEMMA SolveWholeKeeps ==
  ASSUME PrefixInv, Prefixes!ShapesAssumption, Prefixes!SolveWhole
  PROVE  PrefixInv'
<1>1. /\ UNCHANGED Prefixes!system /\ phase = "whole" /\ symbols' = symbols
      /\ \/ /\ Prefixes!Solvable(Prefixes!Row, symbols)
               /\ Prefixes!hdpc_rows_satisfied(Prefixes!Solution(Prefixes!Row, symbols))
            /\ phase' = "decoded" /\ decoded' = Prefixes!Solution(Prefixes!Row, symbols)
         \/ /\ ~(Prefixes!Solvable(Prefixes!Row, symbols)
               /\ Prefixes!hdpc_rows_satisfied(Prefixes!Solution(Prefixes!Row, symbols)))
            /\ phase' = "failed"
      /\ col' = col /\ forward' = forward /\ pivot_for_col' = pivot_for_col
  BY DEF Prefixes!SolveWhole
<1>2. SystemInv /\ Prefixes!TypeInv /\ forward \in Seq(SUBSET Prefixes!Prefix)
        /\ symbols = received
  BY <1>1 DEF PrefixInv, Prefixes!WholeFromReceived
<1>3. phase' = "decoded" => Prefixes!DecodedSatisfiesAll'
  <2>. SUFFICES ASSUME phase' = "decoded" PROVE Prefixes!DecodedSatisfiesAll'  OBVIOUS
  <2>1. Prefixes!Solvable(Prefixes!Row, received)
          /\ Prefixes!hdpc_rows_satisfied(Prefixes!Solution(Prefixes!Row, received))
        /\ decoded' = Prefixes!Solution(Prefixes!Row, received)
    BY <1>1, <1>2
  <2>2. PICK x : x = Prefixes!Solution(Prefixes!Row, received)  OBVIOUS
  <2>3. Solves(x)  BY <1>2, <2>1, <2>2, AllRowsSolved DEF Solves
  <2>4. Solves(x)'  BY <1>1, <2>3, AnswerStays
  <2>. QED BY <2>1, <2>2, <2>4 DEF Prefixes!DecodedSatisfiesAll, Solves
<1>4. phase' = "failed" => Unsolvable'
  <2>1. phase' = "failed" => Unsolvable  BY <1>1, <1>2 DEF Unsolvable
  <2>. QED BY <1>1, <2>1, AnswerStays
<1>5. Prefixes!TypeInv'  BY <1>1, <1>2, SystemStays DEF Prefixes!TypeInv
<1>6. SystemInv' /\ forward' \in Seq(SUBSET Prefixes!Prefix')  BY <1>1, <1>2, SystemStays
<1>. QED BY <1>1, <1>3, <1>4, <1>5, <1>6
         DEF PrefixInv, Prefixes!WholeFromReceived, Prefixes!DecodedSatisfiesAll,
             Prefixes!FailsOnlyUnsolvable, Unsolvable

\* A step that changes nothing.
LEMMA PrefixStutters ==
  ASSUME PrefixInv, UNCHANGED Prefixes!vars
  PROVE  PrefixInv'
<1>1. /\ UNCHANGED Prefixes!system /\ phase' = phase /\ col' = col /\ rows' = rows
         /\ symbols' = symbols
      /\ suffix' = suffix /\ pivot_for_col' = pivot_for_col /\ forward' = forward
      /\ decoded' = decoded
  BY DEF Prefixes!vars, Prefixes!system
<1>2. /\ shape' = shape /\ kind' = kind /\ matrix' = matrix /\ received' = received
      /\ Prefixes!Row' = Prefixes!Row /\ Prefixes!Prefix' = Prefixes!Prefix /\ Height' = Height
         /\ Prefixes!SuffixLen' = Prefixes!SuffixLen
      /\ Prefixes!Col' = Prefixes!Col /\ Prefixes!NoPivot' = Prefixes!NoPivot /\ Held' = Held
         /\ Components' = Components
      /\ Vectors' = Vectors
  BY <1>1, SystemStays
<1>3. SystemInv' /\ Prefixes!TypeInv' /\ forward' \in Seq(SUBSET Prefixes!Prefix')
  BY <1>1, <1>2, SystemStays DEF PrefixInv, Prefixes!TypeInv
<1>4. AtStart => AtStart'  BY <1>1, <1>2 DEF AtStart
<1>5. SuffixAside => SuffixAside'  BY <1>1, <1>2 DEF SuffixAside
<1>6. Triangular => Triangular'
  <2>1. Prefixes!Pivoted' = Prefixes!Pivoted  BY <1>1, <1>2 DEF Prefixes!Pivoted
  <2>. QED BY <1>1, <1>2, <2>1 DEF Triangular
<1>7. \A x \in Vectors : /\ Satisfied(matrix, received, x)' <=> Satisfied(matrix, received, x)
                         /\ Satisfied(rows, symbols, x)' <=> Satisfied(rows, symbols, x)
  BY <1>1, <1>2 DEF Satisfied, Satisfies
<1>8. (SameSolutions => SameSolutions') /\ (OnlyDecoded => OnlyDecoded')
  BY <1>1, <1>2, <1>7 DEF SameSolutions, OnlyDecoded
<1>9. Restorable => Restorable'
  <2>. SUFFICES ASSUME Restorable PROVE Restorable'  OBVIOUS
  <2>1. PICK slabs : Undoes(slabs) /\ symbols = slabs[col]  BY DEF Restorable
  <2>2. Undoes(slabs)'  BY <1>1, <1>2, <2>1 DEF Undoes
  <2>. QED BY <1>1, <2>1, <2>2 DEF Restorable
<1>10. Prefixes!WholeFromReceived'  BY <1>1, <1>2 DEF PrefixInv, Prefixes!WholeFromReceived
<1>11. Prefixes!DecodedSatisfiesAll'
  <2>1. PICK x : x = decoded  OBVIOUS
  <2>2. Solves(x) <=> Solves(x)'  BY <1>1, AnswerStays
  <2>3. phase = "decoded" => Solves(x)
    BY <2>1 DEF PrefixInv, Prefixes!DecodedSatisfiesAll, Solves
  <2>4. phase' = "decoded" => Solves(x)'  BY <1>1, <2>2, <2>3
  <2>5. decoded' = x  BY <1>1, <2>1
  <2>. QED BY <2>4, <2>5 DEF Prefixes!DecodedSatisfiesAll, Solves
<1>12. Prefixes!FailsOnlyUnsolvable'
  <2>1. Unsolvable <=> Unsolvable'  BY <1>1, AnswerStays
  <2>. QED BY <1>1, <2>1 DEF PrefixInv, Prefixes!FailsOnlyUnsolvable, Unsolvable
<1>. QED BY <1>1, <1>3, <1>4, <1>5, <1>6, <1>8, <1>9, <1>10, <1>11, <1>12 DEF PrefixInv

\* Every step of PrefixSolve keeps its invariant.
LEMMA PrefixKept ==
  ASSUME PrefixInv, Prefixes!ShapesAssumption, [Prefixes!Next]_(Prefixes!vars)
  PROVE  PrefixInv'
<1>1. CASE UNCHANGED Prefixes!vars  BY <1>1, PrefixStutters
<1>2. CASE Prefixes!Answered
  <2>1. UNCHANGED Prefixes!vars  BY <1>2 DEF Prefixes!Answered
  <2>. QED BY <2>1, PrefixStutters
<1>. QED BY <1>1, <1>2, PrefixIsWholeKeeps, BorrowKeeps, SplitOffKeeps, EliminateColumnKeeps,
         RankDeficientKeeps, RestoreColumnKeeps, FallBackKeeps, PrefixContradictsKeeps,
         SubstituteBackKeeps, CheckKeeps, SolveCopyKeeps, SolveWholeKeeps DEF Prefixes!Next

-----------------------------------------------------------------------------
(* GF(4).                                                                  *)

\* The laws of GF(4) that take symbols apart.
LEMMA FourField ==
  /\ Repair!Zero \in Repair!F /\ Repair!One \in Repair!F /\ Repair!Zero # Repair!One
  /\ \A a0 \in Repair!F : /\ Repair!FPlus(a0, Repair!Zero) = a0
                              /\ Repair!FPlus(Repair!Zero, a0) = a0
                                 /\ Repair!FPlus(a0, a0) = Repair!Zero
                           /\ Repair!FTimes(Repair!One, a0) = a0
                              /\ Repair!FTimes(a0, Repair!One) = a0
                           /\ Repair!FTimes(Repair!Zero, a0) = Repair!Zero
                              /\ Repair!FTimes(a0, Repair!Zero) = Repair!Zero
  /\ \A a0, b0 \in Repair!F : /\ Repair!FPlus(a0, b0) \in Repair!F
                                 /\ Repair!FPlus(a0, b0) = Repair!FPlus(b0, a0)
                              /\ Repair!FTimes(a0, b0) \in Repair!F
                              /\ Repair!FPlus(Repair!FPlus(a0, b0), b0) = a0
  /\ \A a0, b0, c \in Repair!F : /\ Repair!FPlus(Repair!FPlus(a0, b0), c)
                                    = Repair!FPlus(a0, Repair!FPlus(b0, c))
                                 /\ Repair!FTimes(a0, Repair!FTimes(b0, c))
                                    = Repair!FTimes(Repair!FTimes(a0, b0), c)
                                 /\ Repair!FTimes(a0, Repair!FPlus(b0, c))
                                    = Repair!FPlus(Repair!FTimes(a0, b0),
                                        Repair!FTimes(a0, c))
                                 /\ Repair!FTimes(Repair!FPlus(a0, b0), c)
                                    = Repair!FPlus(Repair!FTimes(a0, c),
                                        Repair!FTimes(b0, c))
<1>0. Repair!F = {0, 1, 2, 3} /\ Repair!Zero = 0 /\ Repair!One = 1
  BY DEF Repair!F, Repair!Zero, Repair!One
<1>1. \A a0, b0 \in {0, 1, 2, 3} : Repair!FPlus(a0, b0) = IF a0 = b0 THEN 0 ELSE IF a0 = 0 THEN b0
                                            ELSE IF b0 = 0 THEN a0 ELSE 6 - a0 - b0
  BY DEF Repair!FPlus
<1>2. \A a0, b0 \in {0, 1, 2, 3} :
        Repair!FTimes(a0, b0) = IF a0 = 0
            \/ b0 = 0 THEN 0 ELSE IF a0 = 1 THEN b0 ELSE IF b0 = 1 THEN a0
                       ELSE IF a0 # b0 THEN 1 ELSE IF a0 = 2 THEN 3 ELSE 2
  <2>1. \A a0, b0 \in {1, 2, 3} :
          (((a0 - 1) + (b0 - 1)) % 3) + 1 = IF a0 = 1 THEN b0 ELSE IF b0 = 1 THEN a0
                                        ELSE IF a0 # b0 THEN 1 ELSE IF a0 = 2 THEN 3 ELSE 2
    OBVIOUS
  <2>. QED BY <2>1 DEF Repair!FTimes
<1>3. \A a0, b0 \in {0, 1, 2, 3} : Repair!FPlus(a0, b0) \in {0, 1, 2, 3}
        /\ Repair!FTimes(a0, b0) \in {0, 1, 2, 3}
  BY <1>1, <1>2
<1>4. \A a0 \in {0, 1, 2, 3} :
        /\ Repair!FPlus(a0, 0) = a0 /\ Repair!FPlus(0, a0) = a0 /\ Repair!FPlus(a0, a0) = 0
        /\ Repair!FTimes(1, a0) = a0 /\ Repair!FTimes(a0, 1) = a0 /\ Repair!FTimes(0, a0) = 0
           /\ Repair!FTimes(a0, 0) = 0
  BY <1>1, <1>2
<1>5. \A a0, b0 \in {0, 1, 2, 3} : Repair!FPlus(a0, b0) = Repair!FPlus(b0, a0)
        /\ Repair!FPlus(Repair!FPlus(a0, b0), b0) = a0
  BY <1>1, <1>3
<1>6. \A a0, b0, c \in {0, 1, 2, 3} : Repair!FPlus(Repair!FPlus(a0, b0), c)
        = Repair!FPlus(a0, Repair!FPlus(b0, c))
  BY <1>1, <1>3
<1>7. \A a0, b0, c \in {0, 1, 2, 3} : Repair!FTimes(a0, Repair!FTimes(b0, c))
        = Repair!FTimes(Repair!FTimes(a0, b0), c)
  BY <1>2, <1>3
<1>8. \A a0, b0, c \in {0, 1, 2, 3} : Repair!FTimes(a0, Repair!FPlus(b0, c))
        = Repair!FPlus(Repair!FTimes(a0, b0), Repair!FTimes(a0, c))
  BY <1>1, <1>2, <1>3
<1>9. \A a0, b0, c \in {0, 1, 2, 3} : Repair!FTimes(Repair!FPlus(a0, b0), c)
        = Repair!FPlus(Repair!FTimes(a0, c), Repair!FTimes(b0, c))
  BY <1>1, <1>2, <1>3
<1>. QED BY <1>0, <1>3, <1>4, <1>5, <1>6, <1>7, <1>8, <1>9

\* Dividing by what is not zero.
LEMMA FourInverse ==
  ASSUME NEW a0 \in Repair!F, a0 # Repair!Zero
  PROVE  Repair!FInverse(a0) \in Repair!F /\ Repair!FInverse(a0) # Repair!Zero
           /\ Repair!FTimes(Repair!FInverse(a0), a0) = Repair!One
           /\ Repair!FTimes(a0, Repair!FInverse(a0)) = Repair!One
<1>1. \E b0 \in Repair!F : Repair!FTimes(a0, b0) = Repair!One
  <2>1. a0 \in {1, 2, 3} /\ {1, 2, 3} \subseteq Repair!F  BY DEF Repair!F, Repair!Zero
  <2>2. Repair!FTimes(1, 1) = Repair!One /\ Repair!FTimes(2, 3) = Repair!One
          /\ Repair!FTimes(3, 2) = Repair!One
    <3>1. (((1 - 1) + (1 - 1)) % 3) + 1 = 1 /\ (((2 - 1) + (3 - 1)) % 3) + 1 = 1
          /\ (((3 - 1) + (2 - 1)) % 3) + 1 = 1
      OBVIOUS
    <3>. QED BY <3>1 DEF Repair!FTimes, Repair!One
  <2>. QED BY <2>1, <2>2
<1>2. Repair!FInverse(a0) \in Repair!F
        /\ Repair!FTimes(a0, Repair!FInverse(a0)) = Repair!One
  BY <1>1 DEF Repair!FInverse
<1>3. \A b0 \in Repair!F : Repair!FTimes(a0, b0) = Repair!FTimes(b0, a0)
  <2>1. \A b0 \in Repair!F : (a0 - 1) + (b0 - 1) = (b0 - 1) + (a0 - 1)  BY DEF Repair!F
  <2>. QED BY <2>1 DEF Repair!FTimes
<1>. QED BY <1>2, <1>3, FourField

-----------------------------------------------------------------------------
(* Combinations over GF(4), component by component.                        *)

GF4 == Repair!F
Vect(D) == [D -> GF4]              \* vectors with these components
Fours(w) == [0 .. w - 1 -> GF4]
Vects(w, D) == [0 .. w - 1 -> Vect(D)]

\* The sums of products of the first columns.
Sums(P, r, g, w) ==
  /\ P \in [0 .. w -> GF4] /\ P[0] = Repair!Zero
  /\ \A k \in 1 .. w : P[k] = Repair!FPlus(P[k - 1], Repair!FTimes(r[k - 1], g[k - 1]))

\* v is the sum of all.
IsSum(v, r, g, w) == \E P : Sums(P, r, g, w) /\ v = P[w]

\* A sum of vectors, component by component.
LEMMA VectorSum ==
  ASSUME NEW D, NEW p \in Vect(D), NEW v \in Vect(D), NEW c \in GF4
  PROVE  /\ Repair!VPlus(p, Repair!VTimes(c, v)) \in Vect(D)
         /\ \A d \in D : Repair!VPlus(p, Repair!VTimes(c, v))[d]
                           = Repair!FPlus(p[d], Repair!FTimes(c, v[d]))
<1>1. Repair!VTimes(c, v) = [d \in D |-> Repair!FTimes(c, v[d])]  BY DEF Repair!VTimes, Vect
<1>2. Repair!VPlus(p, Repair!VTimes(c, v)) = [d \in D |-> Repair!FPlus(p[d], Repair!FTimes(c, v[d]))]
  BY <1>1 DEF Repair!VPlus, Vect
<1>3. \A d \in D : Repair!FPlus(p[d], Repair!FTimes(c, v[d])) \in GF4
  <2>. TAKE d \in D
  <2>1. PICK e \in GF4, f \in GF4 : e = p[d] /\ f = v[d]  BY DEF Vect
  <2>. QED BY <2>1, FourField DEF GF4
<1>. QED BY <1>2, <1>3 DEF Vect

\* Component d of the vectors.
Component(x, d, w) == [k \in 0 .. w - 1 |-> x[k][d]]

\* A combination is a vector whose components are sums of products.
LEMMA FourCombination ==
  ASSUME NEW w \in Nat \ {0}, NEW D, NEW r \in Fours(w),
         NEW x \in Vects(w, D)
  PROVE  /\ Repair!Combination(r, x, w) \in Vect(D)
         /\ \A d \in D : IsSum(Repair!Combination(r, x, w)[d], r, Component(x, d, w), w)
<1>. DEFINE X == Vect(D)
            Add(k, p) == Repair!VPlus(p, Repair!VTimes(r[k - 1], x[k - 1]))
            Eqn(f) == f = [k \in 0 .. w |->
                             IF k = 0 THEN Repair!VZero(DOMAIN x[0])
                             ELSE Repair!VPlus(f[k - 1], Repair!VTimes(r[k - 1], x[k - 1]))]
            u == CHOOSE f : Eqn(f)
            base == Repair!VZero(D)
            G == [z \in (1 .. w) \X X |-> Add(z[1], z[2])]
<1>0. Repair!Combination(r, x, w) = u[w]  BY DEF Repair!Combination
<1>1. Repair!VZero(DOMAIN x[0]) = base /\ base \in X
  <2>1. 0 \in 0 .. w - 1  OBVIOUS
  <2>2. DOMAIN x[0] = D  BY <2>1 DEF Vects, Vect
  <2>3. Repair!Zero \in GF4  BY FourField DEF GF4
  <2>. QED BY <2>2, <2>3 DEF Repair!VZero, Vect
<1>2. ASSUME NEW k \in 1 .. w, NEW p \in X
      PROVE  Add(k, p) \in X /\ \A d \in D : Add(k, p)[d] = Repair!FPlus(p[d], Repair!FTimes(r[k - 1], x[k - 1][d]))
  <2>1. k - 1 \in 0 .. w - 1  OBVIOUS
  <2>2. PICK c \in GF4, v \in X : c = r[k - 1] /\ v = x[k - 1]  BY <2>1 DEF Fours, Vects
  <2>. HIDE DEF Add, Eqn, u, G
  <2>3. /\ Repair!VPlus(p, Repair!VTimes(c, v)) \in X
        /\ \A d \in D : Repair!VPlus(p, Repair!VTimes(c, v))[d] = Repair!FPlus(p[d], Repair!FTimes(c, v[d]))
    BY VectorSum
  <2>. QED BY <2>2, <2>3 DEF Add
<1>3. G \in [(1 .. w) \X X -> X]
  <2>1. \A z \in (1 .. w) \X X : z[1] \in 1 .. w /\ z[2] \in X  OBVIOUS
  <2>. HIDE DEF X, Add
  <2>2. \A z \in (1 .. w) \X X : Add(z[1], z[2]) \in X  BY <1>2, <2>1
  <2>. QED BY <2>2
<1>. HIDE DEF base
<1>4. PICK f : Recurs(f, X, base, w, G)
  <2>. HIDE DEF X, G
  <2>. QED BY <1>1, <1>3, Recursion
<1>5. \A k \in 1 .. w : f[k - 1] \in X /\ f[k] = Add(k, f[k - 1])
  <2>. TAKE k \in 1 .. w
  <2>1. k - 1 \in 0 .. w  OBVIOUS
  <2>2. f[k - 1] \in X /\ f[k] = G[<<k, f[k - 1]>>]  BY <1>4, <2>1 DEF Recurs
  <2>. HIDE DEF X, Add
  <2>3. <<k, f[k - 1]>> \in (1 .. w) \X X  BY <2>2
  <2>. QED BY <2>2, <2>3
<1>6. Eqn(f)
  <2>1. f = [k \in 0 .. w |-> f[k]] /\ f[0] = Repair!VZero(DOMAIN x[0])
    BY <1>1, <1>4 DEF Recurs
  <2>2. \A k \in 0 .. w : k # 0 => k \in 1 .. w  OBVIOUS
  <2>. QED BY <2>1, <2>2, <1>5
<1>7. Eqn(u)  BY <1>6
<1>. HIDE DEF u
<1>8. u[0] = base /\ \A k \in 1 .. w : u[k] = Add(k, u[k - 1])
  <2>. DEFINE E(k) == IF k = 0 THEN Repair!VZero(DOMAIN x[0])
                      ELSE Repair!VPlus(u[k - 1], Repair!VTimes(r[k - 1], x[k - 1]))
  <2>1. u = [k \in 0 .. w |-> E(k)]  BY <1>7
  <2>2. \A k \in 0 .. w : u[k] = E(k)
    <3>. HIDE DEF E
    <3>. QED BY <2>1
  <2>3. 0 \in 0 .. w /\ \A k \in 1 .. w : k # 0 /\ k \in 0 .. w  OBVIOUS
  <2>. QED BY <1>1, <2>2, <2>3
<1>9. \A k \in 0 .. w : u[k] \in X
  <2>. DEFINE T == {k \in 0 .. w : u[k] \in X}
  <2>1. 0 \in T  BY <1>1, <1>8
  <2>2. ASSUME NEW k \in 0 .. w - 1, k \in T PROVE k + 1 \in T
    <3>. HIDE DEF X, Add
    <3>1. PICK m \in 1 .. w : m = k + 1 /\ m - 1 = k  OBVIOUS
    <3>2. u[m - 1] \in X  BY <2>2, <3>1
    <3>3. u[m] \in X  BY <1>2, <1>8, <3>2
    <3>. QED BY <3>1, <3>3
  <2>. HIDE DEF T
  <2>3. \A k \in 0 .. w : k \in T  BY <2>1, <2>2, UpTo
  <2>. QED BY <2>3 DEF T
<1>10. w \in 0 .. w  OBVIOUS
<1>11. ASSUME NEW d \in D
       PROVE  IsSum(u[w][d], r, Component(x, d, w), w)
  <2>. DEFINE P == [k \in 0 .. w |-> u[k][d]]
  <2>1. P \in [0 .. w -> GF4]  BY <1>9 DEF Vect
  <2>2. P[0] = Repair!Zero
    <3>1. P[0] = base[d]  BY <1>8
    <3>. QED BY <3>1 DEF base, Repair!VZero
  <2>3. ASSUME NEW k \in 1 .. w
        PROVE  P[k] = Repair!FPlus(P[k - 1], Repair!FTimes(r[k - 1], Component(x, d, w)[k - 1]))
    <3>1. k - 1 \in 0 .. w - 1 /\ k - 1 \in 0 .. w /\ k \in 0 .. w  OBVIOUS
    <3>2. u[k - 1] \in X  BY <1>9, <3>1
    <3>3. u[k][d] = Repair!FPlus(u[k - 1][d], Repair!FTimes(r[k - 1], x[k - 1][d]))
      <4>. HIDE DEF X, Add
      <4>. QED BY <1>2, <1>8, <3>2
    <3>4. Component(x, d, w)[k - 1] = x[k - 1][d]  BY <3>1 DEF Component
    <3>. QED BY <3>1, <3>3, <3>4
  <2>4. P[w] = u[w][d]  BY <1>10
  <2>. HIDE DEF P
  <2>. QED BY <2>1, <2>2, <2>3, <2>4 DEF Sums, IsSum
<1>12. u[w] \in X  BY <1>9, <1>10
<1>. QED BY <1>0, <1>11, <1>12

\* Sums are told by the products that go into them.
LEMMA SameSums ==
  ASSUME NEW w \in Nat \ {0}, NEW r, NEW g, NEW h, NEW P, NEW Q, Sums(P, r, g, w), Sums(Q, r, h, w),
         \A k \in 0 .. w - 1 : g[k] = h[k]
  PROVE  P[w] = Q[w]
<1>. DEFINE T == {k \in 0 .. w : P[k] = Q[k]}
<1>1. 0 \in T  BY DEF Sums
<1>2. ASSUME NEW k \in 0 .. w - 1, k \in T PROVE k + 1 \in T
  <2>1. PICK m \in 1 .. w : m = k + 1 /\ m - 1 = k  OBVIOUS
  <2>2. P[m] = Repair!FPlus(P[m - 1], Repair!FTimes(r[m - 1], g[m - 1]))
        /\ Q[m] = Repair!FPlus(Q[m - 1], Repair!FTimes(r[m - 1], h[m - 1]))
    BY DEF Sums
  <2>3. P[k] = Q[k] /\ g[k] = h[k]  BY <1>2
  <2>. QED BY <2>1, <2>2, <2>3
<1>. HIDE DEF T
<1>3. \A k \in 0 .. w : k \in T  BY <1>1, <1>2, UpTo
<1>. QED BY <1>3 DEF T

\* Sums of which only one product is not zero.
LEMMA OneProduct ==
  ASSUME NEW w \in Nat \ {0}, NEW r \in Fours(w), NEW g \in Fours(w),
         NEW P, Sums(P, r, g, w), NEW j \in 0 .. w - 1,
         \A k \in 0 .. w - 1 : k # j => r[k] = Repair!Zero \/ g[k] = Repair!Zero
  PROVE  P[w] = Repair!FTimes(r[j], g[j])
<1>. DEFINE z == Repair!FTimes(r[j], g[j])
            T == {k \in 0 .. w : P[k] = IF k <= j THEN Repair!Zero ELSE z}
<1>1. 0 \in T  BY DEF Sums
<1>2. ASSUME NEW k \in 0 .. w - 1, k \in T PROVE k + 1 \in T
  <2>1. PICK m \in 1 .. w : m = k + 1 /\ m - 1 = k  OBVIOUS
  <2>2. P[m] = Repair!FPlus(P[m - 1], Repair!FTimes(r[m - 1], g[m - 1]))  BY DEF Sums
  <2>3. PICK c \in GF4, e \in GF4 : c = r[k] /\ e = g[k]  BY DEF Fours
  <2>4. P[k + 1] = Repair!FPlus(P[k], Repair!FTimes(c, e)) /\ P[k] \in GF4
    BY <2>1, <2>2, <2>3 DEF Sums
  <2>5. CASE k = j
    <3>1. P[k] = Repair!Zero /\ ~(k + 1 <= j) /\ Repair!FTimes(c, e) = z  BY <1>2, <2>3, <2>5
    <3>2. z \in GF4 /\ Repair!FPlus(Repair!Zero, z) = z  BY <3>1, FourField DEF GF4
    <3>. QED BY <2>4, <3>1, <3>2
  <2>6. CASE k # j
    <3>1. c = Repair!Zero \/ e = Repair!Zero  BY <2>3, <2>6
    <3>2. Repair!FTimes(c, e) = Repair!Zero  BY <3>1, FourField DEF GF4
    <3>3. Repair!FPlus(P[k], Repair!Zero) = P[k]  BY <2>4, FourField DEF GF4
    <3>4. k <= j <=> k + 1 <= j  BY <2>6
    <3>. QED BY <1>2, <2>4, <3>2, <3>3, <3>4
  <2>. QED BY <2>5, <2>6
<1>. HIDE DEF T, z
<1>3. \A k \in 0 .. w : k \in T  BY <1>1, <1>2, UpTo
<1>4. w \in T /\ ~(w <= j)  BY <1>3
<1>. QED BY <1>4 DEF T, z

\* Component d of one combination is component e of another.
LEMMA SameComponent ==
  ASSUME NEW w \in Nat \ {0}, NEW D, NEW B, NEW r \in Fours(w), NEW x \in Vects(w, D),
         NEW t \in Vects(w, B), NEW d \in D, NEW e \in B, \A k \in 0 .. w - 1 : x[k][d] = t[k][e]
  PROVE  Repair!Combination(r, x, w)[d] = Repair!Combination(r, t, w)[e]
<1>1. IsSum(Repair!Combination(r, x, w)[d], r, Component(x, d, w), w)  BY FourCombination
<1>2. IsSum(Repair!Combination(r, t, w)[e], r, Component(t, e, w), w)  BY FourCombination
<1>3. \A k \in 0 .. w - 1 : Component(x, d, w)[k] = Component(t, e, w)[k]  BY DEF Component
<1>. QED BY <1>1, <1>2, <1>3, SameSums DEF IsSum

\* A component to which only one vector contributes.
LEMMA OneComponent ==
  ASSUME NEW w \in Nat \ {0}, NEW D, NEW r \in Fours(w), NEW x \in Vects(w, D), NEW d \in D,
         NEW j \in 0 .. w - 1, \A k \in 0 .. w - 1 : k # j => r[k] = Repair!Zero \/ x[k][d] = Repair!Zero
  PROVE  Repair!Combination(r, x, w)[d] = Repair!FTimes(r[j], x[j][d])
<1>1. IsSum(Repair!Combination(r, x, w)[d], r, Component(x, d, w), w)  BY FourCombination
<1>2. /\ Component(x, d, w) \in Fours(w) /\ Component(x, d, w)[j] = x[j][d]
      /\ \A k \in 0 .. w - 1 : k # j => r[k] = Repair!Zero \/ Component(x, d, w)[k] = Repair!Zero
  BY DEF Component, Fours, Vects, Vect
<1>. QED BY <1>1, <1>2, OneProduct DEF IsSum

-----------------------------------------------------------------------------
(* One symbol lost: which rows are recognised.                             *)

\* What of the assumptions the rows need.
LEMMA RepairSizes ==
  ASSUME Repair!RepairAssumption
  PROVE  /\ RepairLdpc \in Nat /\ RepairHdpc \in Nat /\ KPrime \in Nat \ {0}
         /\ K \in Nat \ {0} /\ K <= KPrime /\ Repair!Isi \subseteq Nat /\ 0 .. KPrime \subseteq Repair!Isi
         /\ Repair!L = RepairLdpc + RepairHdpc + KPrime /\ Repair!L \in Nat \ {0}
         /\ Repair!Source = 0 .. K - 1
         /\ Repair!MatrixRow = RepairLdpc .. RepairLdpc + KPrime - 1
BY DEF Repair!RepairAssumption, Repair!L, Repair!Source, Repair!MatrixRow

\* The ISIs of rows, no two the same.
Rows(q) == q \in [1 .. KPrime -> Repair!Isi]
           /\ \A i, j \in 1 .. KPrime : q[i] = q[j] => i = j

\* Rows have ISIs, each its own.
LEMMA RowsHaveIsis ==
  ASSUME Repair!RepairAssumption, Rows(isis)
  PROVE  /\ \A row \in Repair!MatrixRow : Repair!RowIsi(row) \in Repair!Isi /\ Repair!RowIsi(row) \in Nat
         /\ \A row, t \in Repair!MatrixRow : Repair!RowIsi(row) = Repair!RowIsi(t) => row = t
<1>1. \A row \in Repair!MatrixRow : row \in Int /\ row - RepairLdpc + 1 \in 1 .. KPrime  BY RepairSizes
<1>2. \A row \in Repair!MatrixRow : Repair!RowIsi(row) = isis[row - RepairLdpc + 1]
  BY DEF Repair!RowIsi
<1>3. \A row \in Repair!MatrixRow : Repair!RowIsi(row) \in Repair!Isi  BY <1>1, <1>2 DEF Rows
<1>4. ASSUME NEW row \in Repair!MatrixRow, NEW t \in Repair!MatrixRow,
             Repair!RowIsi(row) = Repair!RowIsi(t)
      PROVE  row = t
  <2>1. row - RepairLdpc + 1 = t - RepairLdpc + 1  BY <1>1, <1>2, <1>4 DEF Rows
  <2>. QED BY <1>1, <2>1, RepairSizes
<1>. QED BY <1>3, <1>4, RepairSizes

\* By marks or by columns, a row is taken for the symbol that it is.
LEMMA RowsMatch ==
  ASSUME Repair!RepairAssumption, Rows(isis), NEW row \in Repair!MatrixRow, NEW isi \in Nat,
         NEW byMarks \in BOOLEAN
  PROVE  Repair!matrix_row_matches_systematic(row, isi, byMarks)
           <=> isi < KPrime /\ Repair!RowIsi(row) = isi
<1>1. Repair!RowIsi(row) \in Repair!Isi  BY RowsHaveIsis
<1>2. ASSUME isi < KPrime PROVE RepairRow[Repair!RowIsi(row)] = RepairRow[isi] => Repair!RowIsi(row) = isi
  <2>1. isi \in 0 .. KPrime - 1  BY <1>2, RepairSizes
  <2>2. \A e \in Repair!Isi \ {isi} : RepairRow[e] # RepairRow[isi]  BY <2>1 DEF Repair!RepairAssumption
  <2>. QED BY <1>1, <2>2
<1>. QED BY <1>2 DEF Repair!matrix_row_matches_systematic

\* A scan after j rows: how many symbols were expected so far, which was
\* missing, the row left over, and the rows of the others in order.
Behind(missing, q) == IF missing = Repair!NotYet \/ q <= missing THEN q - 1 ELSE q
RowBehind(repair, q) ==
  IF repair = Repair!NotYet \/ RepairLdpc + q - 1 < repair THEN RepairLdpc + q - 1 ELSE RepairLdpc + q

\* What a scan has in its fields.
Pairs == Seq(Int \X Int)
Scan(e, m, r, p, f) == [expected |-> e, missing |-> m, repair |-> r, pairs |-> p, fits |-> f]
Counted(m) == IF m = Repair!NotYet THEN 0 ELSE 1

InOrder(e, m, r, p, j) ==
  /\ e \in 0 .. KPrime /\ m \in Int /\ r \in Int /\ p \in Pairs
  /\ Len(p) = j - Counted(r) /\ e = Len(p) + Counted(m)
  /\ m = Repair!NotYet => r = Repair!NotYet
  /\ m # Repair!NotYet => m \in 0 .. e - 1
  /\ r # Repair!NotYet => r \in RepairLdpc .. RepairLdpc + j - 1
  /\ \A q \in 1 .. Len(p) : /\ p[q] = <<Behind(m, q), RowBehind(r, q)>>
                            /\ Repair!RowIsi(RowBehind(r, q)) = Behind(m, q)

\* The fields of a scan.
LEMMA ScanIs ==
  ASSUME NEW e, NEW m, NEW r, NEW p, NEW f
  PROVE  /\ Scan(e, m, r, p, f).expected = e /\ Scan(e, m, r, p, f).missing = m
         /\ Scan(e, m, r, p, f).repair = r /\ Scan(e, m, r, p, f).pairs = p
         /\ Scan(e, m, r, p, f).fits = f
BY DEF Scan

Fields == {"expected", "missing", "repair", "pairs", "fits"}

\* A record with the fields of a scan is one.
LEMMA ScanFields ==
  ASSUME NEW t, t = [x \in Fields |-> t[x]]
  PROVE  t = Scan(t.expected, t.missing, t.repair, t.pairs, t.fits)
<1>1. PICK e, m, r, p, f : /\ t.expected = e /\ t.missing = m /\ t.repair = r /\ t.pairs = p
                          /\ t.fits = f
  OBVIOUS
<1>2. t = Scan(e, m, r, p, f)  BY <1>1 DEF Fields, Scan
<1>. QED BY <1>1, <1>2

\* What passing a row makes of a scan.
PassedTo(t, e, m, r, p, f, row, byMarks) ==
  LET one == Repair!matrix_row_matches_systematic(row, e, byMarks)
      two == /\ m = Repair!NotYet /\ e + 1 < KPrime
             /\ Repair!matrix_row_matches_systematic(row, e + 1, byMarks)
      three == r = Repair!NotYet /\ Repair!MayBeRepair(row, byMarks)
  IN /\ one => t = Scan(e + 1, m, r, Append(p, <<e, row>>), f)
     /\ ~one /\ two => t = Scan(e + 2, e, r, Append(p, <<e + 1, row>>), f)
     /\ ~one /\ ~two /\ three /\ m = Repair!NotYet => t = Scan(e + 1, e, row, p, f)
     /\ ~one /\ ~two /\ three /\ m # Repair!NotYet => t = Scan(e, m, row, p, f)
     /\ ~one /\ ~two /\ ~three => t = Scan(e, m, r, p, FALSE)

LEMMA PassIs ==
  ASSUME NEW e, NEW m, NEW r, NEW p, NEW f, NEW row, NEW byMarks \in BOOLEAN
  PROVE  PassedTo(Repair!Pass(Scan(e, m, r, p, f), row, byMarks), e, m, r, p, f, row, byMarks)
<1>. DEFINE s == Scan(e, m, r, p, f)
<1>1. s.expected = e /\ s.missing = m /\ s.repair = r /\ s.pairs = p /\ s.fits = f  BY ScanIs
<1>0. DOMAIN s = Fields  BY DEF Scan, Fields
<1>. HIDE DEF s
<1>2. ASSUME NEW q PROVE /\ [s EXCEPT !.pairs = q, !.expected = e + 1] = Scan(e + 1, m, r, q, f)
                         /\ [s EXCEPT !.missing = e, !.expected = e + 2, !.pairs = q]
                              = Scan(e + 2, e, r, q, f)
  <2>1. PICK t : t = [s EXCEPT !.pairs = q, !.expected = e + 1]  OBVIOUS
  <2>2. /\ t = [x \in Fields |-> t[x]] /\ t.expected = e + 1 /\ t.missing = m /\ t.repair = r
        /\ t.pairs = q /\ t.fits = f
    BY <1>0, <1>1, <2>1 DEF Fields
  <2>3. PICK u : u = [s EXCEPT !.missing = e, !.expected = e + 2, !.pairs = q]  OBVIOUS
  <2>4. /\ u = [x \in Fields |-> u[x]] /\ u.expected = e + 2 /\ u.missing = e /\ u.repair = r
        /\ u.pairs = q /\ u.fits = f
    BY <1>0, <1>1, <2>3 DEF Fields
  <2>. QED BY <2>1, <2>2, <2>3, <2>4, ScanFields
<1>3. ASSUME NEW e1, NEW m1
      PROVE  [s EXCEPT !.repair = row, !.missing = m1, !.expected = e1] = Scan(e1, m1, row, p, f)
  <2>1. PICK t : t = [s EXCEPT !.repair = row, !.missing = m1, !.expected = e1]  OBVIOUS
  <2>2. /\ t = [x \in Fields |-> t[x]] /\ t.expected = e1 /\ t.missing = m1 /\ t.repair = row
        /\ t.pairs = p /\ t.fits = f
    BY <1>0, <1>1, <2>1 DEF Fields
  <2>. QED BY <2>1, <2>2, ScanFields
<1>5. [s EXCEPT !.fits = FALSE] = Scan(e, m, r, p, FALSE)
  <2>1. PICK t : t = [s EXCEPT !.fits = FALSE]  OBVIOUS
  <2>2. /\ t = [x \in Fields |-> t[x]] /\ t.expected = e /\ t.missing = m /\ t.repair = r
        /\ t.pairs = p /\ t.fits = FALSE
    BY <1>0, <1>1, <2>1 DEF Fields
  <2>. QED BY <2>1, <2>2, ScanFields
<1>4. Repair!Pass(s, row, byMarks) =
        IF Repair!matrix_row_matches_systematic(row, e, byMarks)
        THEN [s EXCEPT !.pairs = Append(p, <<e, row>>), !.expected = e + 1]
        ELSE IF /\ m = Repair!NotYet /\ e + 1 < KPrime
                /\ Repair!matrix_row_matches_systematic(row, e + 1, byMarks)
        THEN [s EXCEPT !.missing = e, !.expected = e + 2, !.pairs = Append(p, <<e + 1, row>>)]
        ELSE IF r = Repair!NotYet /\ Repair!MayBeRepair(row, byMarks)
        THEN [s EXCEPT !.repair = row,
                          !.missing = IF m = Repair!NotYet THEN e ELSE m,
                          !.expected = IF m = Repair!NotYet THEN e + 1 ELSE e]
        ELSE [s EXCEPT !.fits = FALSE]
  BY <1>1 DEF Repair!Pass
<1>. QED BY <1>2, <1>3, <1>4, <1>5 DEF s, PassedTo

\* One more pair.
LEMMA OneMorePair ==
  ASSUME NEW p \in Pairs, NEW a \in Int, NEW b \in Int
  PROVE  /\ Append(p, <<a, b>>) \in Pairs /\ Len(Append(p, <<a, b>>)) = Len(p) + 1 /\ Len(p) \in Nat
         /\ Append(p, <<a, b>>)[Len(p) + 1] = <<a, b>>
         /\ \A q \in 1 .. Len(p) : Append(p, <<a, b>>)[q] = p[q]
<1>. DEFINE T == Int \X Int
<1>1. PICK e \in T : e = <<a, b>>  OBVIOUS
<1>2. p \in Seq(T)  BY DEF Pairs
<1>. HIDE DEF T
<1>3. /\ Append(p, e) \in Seq(T) /\ Len(Append(p, e)) = Len(p) + 1 /\ Len(p) \in Nat
      /\ Append(p, e)[Len(p) + 1] = e
      /\ \A q \in 1 .. Len(p) : Append(p, e)[q] = p[q]
  BY <1>2
<1>. QED BY <1>1, <1>3 DEF T, Pairs

\* What is behind the last of the pairs.
LEMMA NextBehind ==
  ASSUME Repair!RepairAssumption, NEW j \in 0 .. KPrime - 1, NEW e, NEW m, NEW r, NEW p,
         InOrder(e, m, r, p, j)
  PROVE  /\ e \in Nat /\ j \in Nat /\ RepairLdpc + j \in Repair!MatrixRow /\ RepairLdpc + j \in Nat
         /\ Len(p) \in Nat /\ Behind(m, Len(p) + 1) = e /\ RowBehind(r, Len(p) + 1) = RepairLdpc + j
<1>1. PICK l \in Nat : l = Len(p)  BY DEF InOrder, Pairs
<1>2. e \in Nat /\ j \in Nat /\ RepairLdpc + j \in Repair!MatrixRow /\ RepairLdpc + j \in Nat
  BY RepairSizes DEF InOrder
<1>3. Behind(m, l + 1) = e
  <2>1. CASE m = Repair!NotYet  BY <1>1, <2>1 DEF InOrder, Counted, Behind
  <2>2. CASE m # Repair!NotYet
    <3>1. e = l + 1 /\ m \in 0 .. e - 1  BY <1>1, <2>2 DEF InOrder, Counted
    <3>2. ~(l + 1 <= m)  BY <1>2, <3>1
    <3>. QED BY <2>2, <3>1, <3>2 DEF Behind
  <2>. QED BY <2>1, <2>2
<1>4. RowBehind(r, l + 1) = RepairLdpc + j
  <2>0. RepairLdpc \in Nat  BY RepairSizes
  <2>1. CASE r = Repair!NotYet
    <3>1. l = j  BY <1>1, <1>2, <2>1 DEF InOrder, Counted
    <3>. QED BY <2>0, <2>1, <3>1 DEF RowBehind
  <2>2. CASE r # Repair!NotYet
    <3>1. l = j - 1 /\ r \in RepairLdpc .. RepairLdpc + j - 1  BY <1>1, <2>2 DEF InOrder, Counted
    <3>2. ~(RepairLdpc + (l + 1) - 1 < r) /\ RepairLdpc + (l + 1) = RepairLdpc + j
      BY <1>2, <2>0, <3>1
    <3>. QED BY <2>2, <3>2 DEF RowBehind
  <2>. QED BY <2>1, <2>2
<1>. QED BY <1>1, <1>2, <1>3, <1>4

\* The symbol that was expected.
LEMMA ExpectedPassed ==
  ASSUME Repair!RepairAssumption, NEW j \in 0 .. KPrime - 1, NEW e, NEW m, NEW r, NEW p,
         InOrder(e, m, r, p, j), e < KPrime, Repair!RowIsi(RepairLdpc + j) = e
  PROVE  InOrder(e + 1, m, r, Append(p, <<e, RepairLdpc + j>>), j + 1)
<1>. DEFINE u == Append(p, <<e, RepairLdpc + j>>)
<1>1. /\ e \in Nat /\ j \in Nat /\ RepairLdpc + j \in Nat /\ Len(p) \in Nat
      /\ Behind(m, Len(p) + 1) = e /\ RowBehind(r, Len(p) + 1) = RepairLdpc + j
  BY NextBehind
<1>2. /\ u \in Pairs /\ Len(u) = Len(p) + 1 /\ u[Len(p) + 1] = <<e, RepairLdpc + j>>
      /\ \A q \in 1 .. Len(p) : u[q] = p[q]
  <2>1. e \in Int /\ RepairLdpc + j \in Int /\ p \in Pairs  BY <1>1 DEF InOrder
  <2>. QED BY <2>1, OneMorePair
<1>. HIDE DEF u
<1>3. ASSUME NEW q \in 1 .. Len(u)
      PROVE  u[q] = <<Behind(m, q), RowBehind(r, q)>> /\ Repair!RowIsi(RowBehind(r, q)) = Behind(m, q)
  <2>1. CASE q = Len(p) + 1  BY <1>1, <1>2, <2>1
  <2>2. CASE q # Len(p) + 1
    <3>1. q \in 1 .. Len(p)  BY <1>1, <1>2, <2>2
    <3>. QED BY <1>2, <3>1 DEF InOrder
  <2>. QED BY <2>1, <2>2
<1>4. e + 1 \in 0 .. KPrime /\ Len(u) = (j + 1) - Counted(r) /\ e + 1 = Len(u) + Counted(m)
  <2>1. PICK a \in Int, b \in Int, l \in Nat : a = Counted(r) /\ b = Counted(m) /\ l = Len(p)
    BY <1>1 DEF Counted
  <2>2. l = j - a /\ e = l + b  BY <2>1 DEF InOrder
  <2>3. l + 1 = (j + 1) - a /\ e + 1 = l + 1 + b  BY <1>1, <2>2
  <2>4. e + 1 \in 0 .. KPrime  BY <1>1, RepairSizes
  <2>. QED BY <1>2, <2>1, <2>3, <2>4
<1>5. /\ m # Repair!NotYet => m \in 0 .. (e + 1) - 1
      /\ r # Repair!NotYet => r \in RepairLdpc .. RepairLdpc + (j + 1) - 1
  <2>1. /\ m # Repair!NotYet => m \in 0 .. e - 1
        /\ r # Repair!NotYet => r \in RepairLdpc .. RepairLdpc + j - 1
    BY DEF InOrder
  <2>2. e \in Nat /\ j \in Nat /\ RepairLdpc \in Nat  BY <1>1, RepairSizes
  <2>3. (e + 1) - 1 = e /\ RepairLdpc + (j + 1) - 1 = RepairLdpc + j  BY <2>2
  <2>4. /\ 0 .. e - 1 \subseteq 0 .. e
        /\ RepairLdpc .. RepairLdpc + j - 1 \subseteq RepairLdpc .. RepairLdpc + j
    BY <2>2
  <2>. QED BY <2>1, <2>3, <2>4
<1>6. m \in Int /\ r \in Int /\ (m = Repair!NotYet => r = Repair!NotYet)  BY DEF InOrder
<1>7. InOrder(e + 1, m, r, u, j + 1)  BY <1>2, <1>3, <1>4, <1>5, <1>6 DEF InOrder
<1>. QED BY <1>7 DEF u

\* The symbol after it, so that this one is missing.
LEMMA NextPassed ==
  ASSUME Repair!RepairAssumption, NEW j \in 0 .. KPrime - 1, NEW e, NEW r, NEW p,
         InOrder(e, Repair!NotYet, r, p, j), e + 1 < KPrime,
         Repair!RowIsi(RepairLdpc + j) = e + 1
  PROVE  InOrder(e + 2, e, r, Append(p, <<e + 1, RepairLdpc + j>>), j + 1)
<1>. DEFINE u == Append(p, <<e + 1, RepairLdpc + j>>)
<1>1. /\ e \in Nat /\ j \in Nat /\ RepairLdpc + j \in Nat /\ Len(p) \in Nat
      /\ RowBehind(r, Len(p) + 1) = RepairLdpc + j
  BY NextBehind
<1>2. /\ u \in Pairs /\ Len(u) = Len(p) + 1 /\ u[Len(p) + 1] = <<e + 1, RepairLdpc + j>>
      /\ \A q \in 1 .. Len(p) : u[q] = p[q]
  <2>1. e + 1 \in Int /\ RepairLdpc + j \in Int /\ p \in Pairs  BY <1>1 DEF InOrder
  <2>. QED BY <2>1, OneMorePair
<1>. HIDE DEF u
<1>3. r = Repair!NotYet /\ Len(p) = j /\ e = j /\ e # Repair!NotYet
  <2>1. r = Repair!NotYet /\ Len(p) = j - Counted(r) /\ e = Len(p) + Counted(Repair!NotYet)
    BY DEF InOrder
  <2>2. Counted(r) = 0 /\ Counted(Repair!NotYet) = 0  BY <2>1 DEF Counted
  <2>. QED BY <1>1, <2>1, <2>2 DEF Repair!NotYet
<1>4. ASSUME NEW q \in 1 .. Len(u)
      PROVE  u[q] = <<Behind(e, q), RowBehind(r, q)>> /\ Repair!RowIsi(RowBehind(r, q)) = Behind(e, q)
  <2>1. CASE q = Len(p) + 1
    <3>1. Behind(e, q) = e + 1  BY <1>1, <1>3, <2>1 DEF Behind
    <3>. QED BY <1>1, <1>2, <2>1, <3>1
  <2>2. CASE q # Len(p) + 1
    <3>1. q \in 1 .. Len(p) /\ q <= e  BY <1>1, <1>2, <1>3, <2>2
    <3>2. Behind(e, q) = Behind(Repair!NotYet, q)  BY <3>1 DEF Behind
    <3>. QED BY <1>2, <3>1, <3>2 DEF InOrder
  <2>. QED BY <2>1, <2>2
<1>5. /\ e + 2 \in 0 .. KPrime /\ Len(u) = (j + 1) - Counted(r) /\ e + 2 = Len(u) + Counted(e)
      /\ e \in 0 .. (e + 2) - 1
  <2>1. Counted(r) = 0 /\ Counted(e) = 1  BY <1>3 DEF Counted
  <2>. QED BY <1>1, <1>2, <1>3, <2>1, RepairSizes
<1>6. e \in Int /\ r \in Int  BY <1>1 DEF InOrder
<1>7. InOrder(e + 2, e, r, u, j + 1)  BY <1>2, <1>3, <1>4, <1>5, <1>6 DEF InOrder
<1>. QED BY <1>7 DEF u

\* A row that is left over; the symbol that was expected is missing, unless
\* another is.
LEMMA RowLeft ==
  ASSUME Repair!RepairAssumption, NEW j \in 0 .. KPrime - 1, NEW e, NEW m, NEW p,
         InOrder(e, m, Repair!NotYet, p, j)
  PROVE  /\ m = Repair!NotYet => InOrder(e + 1, e, RepairLdpc + j, p, j + 1)
         /\ m # Repair!NotYet => InOrder(e, m, RepairLdpc + j, p, j + 1)
<1>1. /\ e \in Nat /\ j \in Nat /\ Len(p) \in Nat /\ RepairLdpc \in Nat
      /\ KPrime \in Nat /\ j <= KPrime - 1
  BY NextBehind, RepairSizes
<1>2. /\ Len(p) = j /\ e = j + Counted(m) /\ p \in Pairs /\ m \in Int /\ e \in 0 .. KPrime
      /\ m # Repair!NotYet => m \in 0 .. e - 1
      /\ \A q \in 1 .. Len(p) : /\ p[q] = <<Behind(m, q), RowBehind(Repair!NotYet, q)>>
                                /\ Repair!RowIsi(RowBehind(Repair!NotYet, q)) = Behind(m, q)
  <2>1. Counted(Repair!NotYet) = 0  BY DEF Counted
  <2>. QED BY <1>1, <2>1 DEF InOrder
<1>3. PICK row \in Nat : row = RepairLdpc + j /\ row # Repair!NotYet  BY <1>1 DEF Repair!NotYet
<1>4. row \in RepairLdpc .. RepairLdpc + (j + 1) - 1 /\ Counted(row) = 1 /\ row \in Int
  BY <1>1, <1>3 DEF Counted
<1>5. \A q \in 1 .. Len(p) : RowBehind(row, q) = RowBehind(Repair!NotYet, q)
  <2>1. \A q \in 1 .. Len(p) : RepairLdpc + q - 1 < row  BY <1>1, <1>2, <1>3
  <2>. QED BY <2>1 DEF RowBehind
<1>6. ASSUME m = Repair!NotYet PROVE InOrder(e + 1, e, row, p, j + 1)
  <2>1. e = j /\ e # Repair!NotYet  BY <1>1, <1>2, <1>6 DEF Counted, Repair!NotYet
  <2>2. \A q \in 1 .. Len(p) : Behind(e, q) = Behind(m, q)
    <3>1. \A q \in 1 .. Len(p) : q <= e  BY <1>1, <1>2, <2>1
    <3>. QED BY <1>6, <3>1 DEF Behind
  <2>3. e + 1 \in 0 .. KPrime /\ Len(p) = (j + 1) - Counted(row) /\ e + 1 = Len(p) + Counted(e)
        /\ e \in 0 .. (e + 1) - 1 /\ e \in Int
    BY <1>1, <1>2, <1>4, <2>1 DEF Counted
  <2>. QED BY <1>2, <1>3, <1>4, <1>5, <2>1, <2>2, <2>3 DEF InOrder
<1>7. ASSUME m # Repair!NotYet PROVE InOrder(e, m, row, p, j + 1)
  <2>1. Len(p) = (j + 1) - Counted(row) /\ e = Len(p) + Counted(m)  BY <1>1, <1>2, <1>4
  <2>. QED BY <1>2, <1>3, <1>4, <1>5, <1>7, <2>1 DEF InOrder
<1>. QED BY <1>3, <1>6, <1>7


\* A scan after j rows, in order unless it has ended.
ScanKept(s, j) ==
  \E e, m, r \in Int, p \in Pairs :
    \/ s = Scan(e, m, r, p, FALSE)
    \/ InOrder(e, m, r, p, j) /\ \E f : f = TRUE /\ s = Scan(e, m, r, p, f)

\* Passing a row keeps the scan in order, or ends it.
LEMMA PassKeeps ==
  ASSUME Repair!RepairAssumption, Rows(isis), NEW byMarks \in BOOLEAN, NEW j \in 0 .. KPrime - 1,
         NEW e, NEW m, NEW r, NEW p, NEW f, f = TRUE, InOrder(e, m, r, p, j)
  PROVE  ScanKept(Repair!Pass(Scan(e, m, r, p, f), RepairLdpc + j, byMarks), j + 1)
<1>1. PICK row : row = RepairLdpc + j  OBVIOUS
<1>2. row \in Repair!MatrixRow /\ e \in Nat /\ e + 1 \in Nat  BY <1>1, NextBehind
<1>. DEFINE one == Repair!matrix_row_matches_systematic(row, e, byMarks)
            two == /\ m = Repair!NotYet /\ e + 1 < KPrime
                   /\ Repair!matrix_row_matches_systematic(row, e + 1, byMarks)
            three == r = Repair!NotYet /\ Repair!MayBeRepair(row, byMarks)
            t == Repair!Pass(Scan(e, m, r, p, f), row, byMarks)
<1>3. /\ one => t = Scan(e + 1, m, r, Append(p, <<e, row>>), f)
      /\ ~one /\ two => t = Scan(e + 2, e, r, Append(p, <<e + 1, row>>), f)
      /\ ~one /\ ~two /\ three /\ m = Repair!NotYet => t = Scan(e + 1, e, row, p, f)
      /\ ~one /\ ~two /\ three /\ m # Repair!NotYet => t = Scan(e, m, row, p, f)
      /\ ~one /\ ~two /\ ~three => t = Scan(e, m, r, p, FALSE)
  <2>1. PassedTo(t, e, m, r, p, f, row, byMarks)
    <3>. HIDE DEF one, two, three
    <3>. QED BY PassIs
  <2>. QED BY <2>1 DEF PassedTo
<1>4. one => e < KPrime /\ Repair!RowIsi(row) = e  BY <1>2, RowsMatch
<1>5. two => m = Repair!NotYet /\ e + 1 < KPrime /\ Repair!RowIsi(row) = e + 1  BY <1>2, RowsMatch
<1>6. three => r = Repair!NotYet  OBVIOUS
<1>. HIDE DEF one, two, three, t
<1>0. ASSUME NEW e1, NEW m1, NEW r1, NEW p1, InOrder(e1, m1, r1, p1, j + 1) \/ InOrder(e1, m1, r1, p1, j)
      PROVE  e1 \in Int /\ m1 \in Int /\ r1 \in Int /\ p1 \in Pairs
  BY <1>0, RepairSizes DEF InOrder
<1>7. CASE one
  <2>1. InOrder(e + 1, m, r, Append(p, <<e, row>>), j + 1)  BY <1>1, <1>4, <1>7, ExpectedPassed
  <2>. QED BY <1>1, <1>3, <1>7, <2>1, <1>0 DEF t, ScanKept
<1>8. CASE ~one /\ two
  <2>1. InOrder(e + 2, e, r, Append(p, <<e + 1, row>>), j + 1)  BY <1>1, <1>5, <1>8, NextPassed
  <2>. QED BY <1>1, <1>3, <1>8, <2>1, <1>0 DEF t, ScanKept
<1>9. CASE ~one /\ ~two /\ three /\ m = Repair!NotYet
  <2>1. InOrder(e + 1, e, row, p, j + 1)  BY <1>1, <1>6, <1>9, RowLeft
  <2>. QED BY <1>1, <1>3, <1>9, <2>1, <1>0 DEF t, ScanKept
<1>10. CASE ~one /\ ~two /\ three /\ m # Repair!NotYet
  <2>1. InOrder(e, m, row, p, j + 1)  BY <1>1, <1>6, <1>10, RowLeft
  <2>. QED BY <1>1, <1>3, <1>10, <2>1, <1>0 DEF t, ScanKept
<1>11. CASE ~one /\ ~two /\ ~three
  <2>1. t = Scan(e, m, r, p, FALSE)  BY <1>3, <1>11
  <2>. QED BY <1>1, <2>1, <1>0 DEF t, ScanKept
<1>. QED BY <1>7, <1>8, <1>9, <1>10, <1>11

\* The scans there can be.
Scans == [expected : Int, missing : Int, repair : Int, pairs : Pairs, fits : BOOLEAN]

LEMMA KeptIsScan ==
  ASSUME NEW s, NEW j, ScanKept(s, j)
  PROVE  s \in Scans
<1>1. PICK e \in Int, m \in Int, r \in Int, p \in Pairs :
        s = Scan(e, m, r, p, FALSE) \/ \E f : f = TRUE /\ s = Scan(e, m, r, p, f)
  BY DEF ScanKept
<1>2. Scan(e, m, r, p, FALSE) \in Scans /\ Scan(e, m, r, p, TRUE) \in Scans  BY DEF Scan, Scans
<1>3. ASSUME NEW f, f = TRUE, s = Scan(e, m, r, p, f) PROVE s \in Scans
  <2>1. f \in BOOLEAN  BY <1>3
  <2>. QED BY <1>3, <2>1 DEF Scan, Scans
<1>. QED BY <1>1, <1>2, <1>3

\* Nothing scanned yet.
NothingScanned == [expected |-> 0, missing |-> Repair!NotYet, repair |-> Repair!NotYet,
                   pairs |-> <<>>, fits |-> TRUE]

LEMMA NothingKept ==
  ASSUME Repair!RepairAssumption
  PROVE  ScanKept(NothingScanned, 0)
<1>2. <<>> \in Pairs /\ Len(<<>>) = 0 /\ Repair!NotYet \in Int  BY DEF Pairs, Repair!NotYet
<1>3. InOrder(0, Repair!NotYet, Repair!NotYet, <<>>, 0)
  BY <1>2, RepairSizes DEF InOrder, Counted
<1>4. PICK f : f = TRUE  OBVIOUS
<1>5. NothingScanned = Scan(0, Repair!NotYet, Repair!NotYet, <<>>, f)
  BY <1>4 DEF NothingScanned, Scan
<1>6. PICK e \in Int, m \in Int, p \in Pairs : e = 0 /\ m = Repair!NotYet /\ p = <<>>  BY <1>2
<1>7. InOrder(e, m, m, p, 0) /\ NothingScanned = Scan(e, m, m, p, f)  BY <1>3, <1>5, <1>6
<1>. QED BY <1>4, <1>7 DEF ScanKept

\* What is made of a scan by row j.
ScanStep(s, j, byMarks) ==
  IF s.fits THEN Repair!Pass(s, RepairLdpc + j - 1, byMarks) ELSE s

LEMMA StepKeeps ==
  ASSUME Repair!RepairAssumption, Rows(isis), NEW byMarks \in BOOLEAN, NEW j \in 1 .. KPrime,
         NEW s, ScanKept(s, j - 1)
  PROVE  ScanKept(ScanStep(s, j, byMarks), j)
<1>1. PICK i \in 0 .. KPrime - 1 : i = j - 1 /\ j = i + 1 /\ RepairLdpc + j - 1 = RepairLdpc + i
  BY RepairSizes
<1>2. PICK e \in Int, m \in Int, r \in Int, p \in Pairs :
        \/ s = Scan(e, m, r, p, FALSE)
        \/ InOrder(e, m, r, p, i) /\ \E f : f = TRUE /\ s = Scan(e, m, r, p, f)
  BY <1>1 DEF ScanKept
<1>3. CASE s = Scan(e, m, r, p, FALSE)
  <2>1. s.fits = FALSE  BY <1>3 DEF Scan
  <2>2. ScanStep(s, j, byMarks) = s  BY <2>1 DEF ScanStep
  <2>. QED BY <1>3, <2>2 DEF ScanKept
<1>4. CASE InOrder(e, m, r, p, i) /\ \E f : f = TRUE /\ s = Scan(e, m, r, p, f)
  <2>1. PICK f : f = TRUE /\ s = Scan(e, m, r, p, f)  BY <1>4
  <2>2. s.fits = TRUE  BY <2>1 DEF Scan
  <2>3. ScanStep(s, j, byMarks) = Repair!Pass(s, RepairLdpc + i, byMarks)  BY <1>1, <2>2 DEF ScanStep
  <2>4. ScanKept(Repair!Pass(Scan(e, m, r, p, f), RepairLdpc + i, byMarks), i + 1)
    BY <1>4, <2>1, PassKeeps
  <2>. QED BY <1>1, <2>1, <2>3, <2>4
<1>. QED BY <1>2, <1>3, <1>4

\* The scan of all rows.
LEMMA ScannedIs ==
  ASSUME Repair!RepairAssumption, Rows(isis), NEW byMarks \in BOOLEAN
  PROVE  \E f : /\ Repair!Scanned(byMarks) = f[KPrime]
                /\ f[0] = NothingScanned
                /\ \A j \in 1 .. KPrime : f[j] = ScanStep(f[j - 1], j, byMarks)
                /\ \A j \in 0 .. KPrime : ScanKept(f[j], j)
<1>0. KPrime \in Nat \ {0}  BY RepairSizes
<1>. DEFINE Eqn(f) == f = [j \in 0 .. KPrime |->
                             IF j = 0 THEN NothingScanned ELSE ScanStep(f[j - 1], j, byMarks)]
            u == CHOOSE f : Eqn(f)
            G == [z \in (1 .. KPrime) \X Scans |->
                    IF ScanStep(z[2], z[1], byMarks) \in Scans THEN ScanStep(z[2], z[1], byMarks)
                    ELSE NothingScanned]
<1>1. Repair!Scanned(byMarks) = u[KPrime]
  BY DEF Repair!Scanned, NothingScanned, ScanStep
<1>2. ScanKept(NothingScanned, 0) /\ NothingScanned \in Scans  BY NothingKept, KeptIsScan
<1>3. G \in [(1 .. KPrime) \X Scans -> Scans]
  <2>. DEFINE T == (1 .. KPrime) \X Scans
              E(z) == IF ScanStep(z[2], z[1], byMarks) \in Scans THEN ScanStep(z[2], z[1], byMarks)
                      ELSE NothingScanned
  <2>1. \A z \in T : E(z) \in Scans  BY <1>2
  <2>2. G = [z \in T |-> E(z)]  OBVIOUS
  <2>. HIDE DEF T, E, G
  <2>3. G \in [T -> Scans]  BY <2>1, <2>2
  <2>. QED BY <2>3 DEF T
<1>. HIDE DEF Eqn, u
<1>4. PICK f : Recurs(f, Scans, NothingScanned, KPrime, G)
  <2>. HIDE DEF G
  <2>. QED BY <1>0, <1>2, <1>3, Recursion
<1>5. ASSUME NEW j \in 1 .. KPrime PROVE <<j, f[j - 1]>> \in (1 .. KPrime) \X Scans /\ f[j] = G[<<j, f[j - 1]>>]
  <2>1. j - 1 \in 0 .. KPrime  BY <1>0
  <2>2. f[j - 1] \in Scans /\ f[j] = G[<<j, f[j - 1]>>]
    <3>. HIDE DEF G
    <3>. QED BY <1>4, <2>1 DEF Recurs
  <2>. QED BY <2>2
<1>6. \A j \in 0 .. KPrime : ScanKept(f[j], j)
  <2>. DEFINE P == {j \in 0 .. KPrime : ScanKept(f[j], j)}
  <2>1. 0 \in P
    <3>. HIDE DEF G
    <3>. QED BY <1>0, <1>2, <1>4 DEF Recurs
  <2>2. ASSUME NEW k \in 0 .. KPrime - 1, k \in P PROVE k + 1 \in P
    <3>1. PICK j \in 1 .. KPrime : j = k + 1 /\ j - 1 = k  BY <1>0
    <3>2. ScanKept(ScanStep(f[j - 1], j, byMarks), j)  BY <2>2, <3>1, StepKeeps
    <3>3. ScanStep(f[j - 1], j, byMarks) \in Scans  BY <3>2, KeptIsScan
    <3>4. f[j] = ScanStep(f[j - 1], j, byMarks)  BY <1>5, <3>3
    <3>. QED BY <3>1, <3>2, <3>4
  <2>. HIDE DEF P
  <2>3. \A k \in 0 .. KPrime : k \in P  BY <1>0, <2>1, <2>2, UpTo
  <2>. QED BY <2>3 DEF P
<1>7. ASSUME NEW j \in 1 .. KPrime PROVE f[j] = ScanStep(f[j - 1], j, byMarks)
  <2>1. j - 1 \in 0 .. KPrime  BY <1>0
  <2>2. ScanKept(f[j - 1], j - 1)  BY <1>6, <2>1
  <2>3. ScanStep(f[j - 1], j, byMarks) \in Scans  BY <2>2, StepKeeps, KeptIsScan
  <2>. QED BY <1>5, <2>3
<1>8. f[0] = NothingScanned /\ f \in [0 .. KPrime -> Scans]
  <2>. HIDE DEF G
  <2>. QED BY <1>4 DEF Recurs
<1>. HIDE DEF G
<1>9. Eqn(f)
  <2>1. f = [j \in 0 .. KPrime |-> f[j]]  BY <1>8
  <2>2. \A j \in 0 .. KPrime : j # 0 => j \in 1 .. KPrime  BY <1>0
  <2>. QED BY <1>7, <1>8, <2>1, <2>2 DEF Eqn
<1>10. Eqn(u)  BY <1>9 DEF u
<1>11. u = f
  <2>. DEFINE P == {j \in 0 .. KPrime : u[j] = f[j]}
              E(j) == IF j = 0 THEN NothingScanned ELSE ScanStep(u[j - 1], j, byMarks)
  <2>0. u = [j \in 0 .. KPrime |-> E(j)]  BY <1>10 DEF Eqn
  <2>1. \A j \in 0 .. KPrime : u[j] = E(j)
    <3>. HIDE DEF E
    <3>. QED BY <2>0
  <2>2. 0 \in P  BY <1>0, <1>8, <2>1
  <2>3. ASSUME NEW k \in 0 .. KPrime - 1, k \in P PROVE k + 1 \in P
    <3>1. PICK j \in 1 .. KPrime : j = k + 1 /\ j - 1 = k /\ j # 0 /\ j \in 0 .. KPrime  BY <1>0
    <3>2. u[j] = ScanStep(u[j - 1], j, byMarks)  BY <2>1, <3>1
    <3>. QED BY <1>7, <2>3, <3>1, <3>2
  <2>. HIDE DEF P
  <2>4. \A k \in 0 .. KPrime : k \in P  BY <1>0, <2>2, <2>3, UpTo
  <2>5. \A k \in 0 .. KPrime : u[k] = f[k]  BY <2>4 DEF P
  <2>6. u = [k \in 0 .. KPrime |-> u[k]]
    <3>. HIDE DEF E
    <3>. QED BY <2>0
  <2>7. f = [k \in 0 .. KPrime |-> f[k]]  BY <1>8
  <2>. QED BY <2>5, <2>6, <2>7
<1>. QED BY <1>1, <1>6, <1>7, <1>8, <1>11

\* What the rows were recognised as is right: every symbol but one has its row,
\* in order, and one row is left over.
Recognised(found) ==
  /\ found.missing \in 0 .. KPrime - 1 /\ found.repair \in Repair!MatrixRow
  /\ \A q \in 1 .. KPrime - 1 :
       Repair!RowIsi(RowBehind(found.repair, q)) = Behind(found.missing, q)
  /\ \/ found.layout = Repair!NoRows /\ found.repair = RepairLdpc + KPrime - 1
     \/ /\ found.layout \in Pairs /\ Len(found.layout) = KPrime - 1
        /\ \A q \in 1 .. KPrime - 1 :
             found.layout[q] = <<Behind(found.missing, q), RowBehind(found.repair, q)>>

\* What a scan of all rows finds.
LEMMA FromScanIs ==
  ASSUME Repair!RepairAssumption, Rows(isis), NEW byMarks \in BOOLEAN,
         Repair!FromScan(byMarks) # Repair!NoRows
  PROVE  Recognised(Repair!FromScan(byMarks))
<1>1. PICK s : s = Repair!Scanned(byMarks) /\ ScanKept(s, KPrime)
  BY ScannedIs, RepairSizes
<1>2. /\ s.fits /\ Repair!NotYet \notin {s.missing, s.repair}
      /\ s.expected = KPrime /\ Len(s.pairs) + 1 = KPrime
      /\ Repair!FromScan(byMarks) =
           IF s.repair = RepairLdpc + KPrime - 1 THEN Repair!Contiguous(s.missing)
           ELSE [missing |-> s.missing, repair |-> s.repair, layout |-> s.pairs]
  BY <1>1 DEF Repair!FromScan
<1>3. PICK e \in Int, m \in Int, r \in Int, p \in Pairs :
        \/ s = Scan(e, m, r, p, FALSE)
        \/ InOrder(e, m, r, p, KPrime) /\ \E f : f = TRUE /\ s = Scan(e, m, r, p, f)
  BY <1>1 DEF ScanKept
<1>4. s # Scan(e, m, r, p, FALSE)  BY <1>2 DEF Scan
<1>5. PICK f : InOrder(e, m, r, p, KPrime) /\ s = Scan(e, m, r, p, f)  BY <1>3, <1>4
<1>6. s.expected = e /\ s.missing = m /\ s.repair = r /\ s.pairs = p  BY <1>5, ScanIs
<1>7. /\ m # Repair!NotYet /\ r # Repair!NotYet /\ e = KPrime /\ Len(p) + 1 = KPrime
      /\ Repair!FromScan(byMarks) = IF r = RepairLdpc + KPrime - 1 THEN Repair!Contiguous(m)
                                    ELSE [missing |-> m, repair |-> r, layout |-> p]
  BY <1>2, <1>6
<1>8. Len(p) = KPrime - 1 /\ KPrime \in Nat
  <2>1. PICK l \in Nat : l = Len(p)  BY DEF Pairs
  <2>. QED BY <1>7, <2>1, RepairSizes
<1>9. /\ m \in 0 .. KPrime - 1 /\ r \in Repair!MatrixRow
      /\ \A q \in 1 .. KPrime - 1 : /\ p[q] = <<Behind(m, q), RowBehind(r, q)>>
                                    /\ Repair!RowIsi(RowBehind(r, q)) = Behind(m, q)
  BY <1>5, <1>7, <1>8, RepairSizes DEF InOrder
<1>10. CASE r = RepairLdpc + KPrime - 1
  <2>1. PICK found : found = Repair!FromScan(byMarks) /\ found.missing = m /\ found.repair = r
                     /\ found.layout = Repair!NoRows
    BY <1>7, <1>10 DEF Repair!Contiguous
  <2>. QED BY <1>9, <1>10, <2>1 DEF Recognised
<1>11. CASE r # RepairLdpc + KPrime - 1
  <2>1. PICK found : found = Repair!FromScan(byMarks) /\ found.missing = m /\ found.repair = r
                     /\ found.layout = p
    BY <1>7, <1>11
  <2>. QED BY <1>8, <1>9, <2>1 DEF Recognised
<1>. QED BY <1>10, <1>11

\* Its fields.
LEMMA ContiguousFields ==
  ASSUME NEW m
  PROVE  /\ Repair!Contiguous(m).missing = m /\ Repair!Contiguous(m).layout = Repair!NoRows
         /\ Repair!Contiguous(m).repair = RepairLdpc + KPrime - 1
BY DEF Repair!Contiguous

\* What the mark for one lost symbol says.
LEMMA ContiguousIs ==
  ASSUME Repair!RepairAssumption, NEW m \in Repair!contiguous_missing
  PROVE  Recognised(Repair!Contiguous(m))
<1>1. PICK found : /\ found = Repair!Contiguous(m) /\ found.missing = m
                   /\ found.repair = RepairLdpc + KPrime - 1 /\ found.layout = Repair!NoRows
  BY ContiguousFields
<1>2. /\ m \in 0 .. KPrime - 1
      /\ \A offset \in 0 .. KPrime - 2 :
           Repair!RowIsi(RepairLdpc + offset) = IF offset < m THEN offset ELSE offset + 1
  BY DEF Repair!contiguous_missing
<1>3. KPrime \in Nat \ {0} /\ RepairLdpc \in Nat /\ found.repair \in Repair!MatrixRow
  BY <1>1, RepairSizes
<1>4. ASSUME NEW q \in 1 .. KPrime - 1
      PROVE  Repair!RowIsi(RowBehind(found.repair, q)) = Behind(m, q)
  <2>1. q - 1 \in 0 .. KPrime - 2  BY <1>3
  <2>2. Repair!RowIsi(RepairLdpc + (q - 1)) = IF q - 1 < m THEN q - 1 ELSE (q - 1) + 1  BY <1>2, <2>1
  <2>3. RowBehind(found.repair, q) = RepairLdpc + (q - 1)
    <3>1. RepairLdpc + q - 1 < found.repair /\ RepairLdpc + q - 1 = RepairLdpc + (q - 1)
      BY <1>1, <1>3
    <3>. QED BY <3>1 DEF RowBehind
  <2>4. Behind(m, q) = IF q - 1 < m THEN q - 1 ELSE (q - 1) + 1
    <3>1. m # Repair!NotYet /\ (q <= m <=> q - 1 < m) /\ (q - 1) + 1 = q  BY <1>2 DEF Repair!NotYet
    <3>. QED BY <3>1 DEF Behind
  <2>. QED BY <2>2, <2>3, <2>4
<1>. QED BY <1>1, <1>2, <1>3, <1>4 DEF Recognised

\* Either way.
LEMMA RowsRecognised ==
  ASSUME Repair!RepairAssumption, Rows(isis), marked \in BOOLEAN,
         Repair!classify_single_repair_systematic_rows # Repair!NoRows
  PROVE  Recognised(Repair!classify_single_repair_systematic_rows)
<1>1. CASE marked /\ Repair!contiguous_missing # {}
  <2>1. PICK m \in Repair!contiguous_missing :
          Repair!classify_single_repair_systematic_rows = Repair!Contiguous(m)
    BY <1>1 DEF Repair!classify_single_repair_systematic_rows
  <2>. QED BY <2>1, ContiguousIs
<1>2. CASE ~(marked /\ Repair!contiguous_missing # {})
  <2>1. PICK byMarks \in BOOLEAN :
          Repair!classify_single_repair_systematic_rows = Repair!FromScan(byMarks)
    <3>1. \/ Repair!classify_single_repair_systematic_rows = Repair!FromScan(TRUE)
          \/ Repair!classify_single_repair_systematic_rows = Repair!FromScan(FALSE)
      BY <1>2 DEF Repair!classify_single_repair_systematic_rows
    <3>. QED BY <3>1
  <2>. QED BY <2>1, FromScanIs
<1>. QED BY <1>1, <1>2

-----------------------------------------------------------------------------
(* One symbol lost: when rows are in order.                                *)

\* Source symbols in order but for m, and a repair symbol last.
OnlyMissing(m) ==
  /\ m \in 0 .. KPrime - 1 /\ Repair!RowIsi(RepairLdpc + KPrime - 1) >= KPrime
  /\ \A offset \in 0 .. KPrime - 2 :
       Repair!RowIsi(RepairLdpc + offset) = IF offset < m THEN offset ELSE offset + 1

\* The mark tells one symbol.
LEMMA OnlyOneMissing ==
  ASSUME Repair!RepairAssumption, NEW m, NEW k, OnlyMissing(m), OnlyMissing(k)
  PROVE  m = k
<1>1. m \in 0 .. KPrime - 1 /\ k \in 0 .. KPrime - 1 /\ KPrime \in Nat  BY RepairSizes DEF OnlyMissing
<1>2. ASSUME NEW a, NEW b, OnlyMissing(a), OnlyMissing(b), a < b PROVE FALSE
  <2>1. a \in 0 .. KPrime - 2 /\ a \in Int /\ b \in Int  BY <1>1, <1>2 DEF OnlyMissing
  <2>2. Repair!RowIsi(RepairLdpc + a) = a + 1  BY <1>2, <2>1 DEF OnlyMissing
  <2>3. Repair!RowIsi(RepairLdpc + a) = a  BY <1>2, <2>1 DEF OnlyMissing
  <2>. QED BY <2>1, <2>2, <2>3
<1>. QED BY <1>1, <1>2

\* What has been scanned of such rows before the last.
Expected(m, j) == IF j <= m THEN j ELSE j + 1
Missed(m, j) == IF j <= m THEN Repair!NotYet ELSE m

\* Without marks, too, every row but the last is taken for what it is.
LEMMA NextInOrder ==
  ASSUME Repair!RepairAssumption, Rows(isis), NEW m, OnlyMissing(m), NEW j \in 0 .. KPrime - 2, NEW p,
         NEW f, NEW byMarks \in BOOLEAN, ~byMarks
  PROVE  \E q : Repair!Pass(Scan(Expected(m, j), Missed(m, j), Repair!NotYet, p, f),
                            RepairLdpc + j, byMarks)
                  = Scan(Expected(m, j + 1), Missed(m, j + 1), Repair!NotYet, q, f)
<1>0. /\ m \in 0 .. KPrime - 1 /\ KPrime \in Nat /\ RepairLdpc + j \in Repair!MatrixRow
      /\ Repair!RowIsi(RepairLdpc + j) = IF j < m THEN j ELSE j + 1
  BY RepairSizes DEF OnlyMissing
<1>1. PICK row \in Repair!MatrixRow : row = RepairLdpc + j
  BY <1>0
<1>2. PICK e, k : e \in Nat /\ e = Expected(m, j) /\ k = Missed(m, j)  BY DEF Expected
<1>. DEFINE t == Repair!Pass(Scan(e, k, Repair!NotYet, p, f), row, byMarks)
<1>3. PassedTo(t, e, k, Repair!NotYet, p, f, row, byMarks)  BY PassIs
<1>4. e \in Nat /\ e + 1 \in Nat  BY <1>2
<1>5. Repair!matrix_row_matches_systematic(row, e, byMarks) <=> e < KPrime /\ Repair!RowIsi(row) = e
  BY <1>2, RowsMatch
<1>6. Repair!matrix_row_matches_systematic(row, e + 1, byMarks)
        <=> e + 1 < KPrime /\ Repair!RowIsi(row) = e + 1
  BY <1>4, RowsMatch
<1>. HIDE DEF t
<1>7. CASE j # m
  <2>1. e < KPrime /\ Repair!RowIsi(row) = e  BY <1>0, <1>1, <1>2, <1>7 DEF Expected
  <2>2. t = Scan(e + 1, k, Repair!NotYet, Append(p, <<e, row>>), f)
    BY <1>3, <1>5, <2>1 DEF PassedTo
  <2>3. e + 1 = Expected(m, j + 1) /\ k = Missed(m, j + 1)
    <3>1. j <= m <=> j + 1 <= m  BY <1>0, <1>7
    <3>. QED BY <1>2, <3>1 DEF Expected, Missed
  <2>. QED BY <1>1, <1>2, <2>2, <2>3 DEF t
<1>8. CASE j = m
  <2>1. /\ e = m /\ k = Repair!NotYet /\ e + 1 < KPrime /\ Repair!RowIsi(row) = e + 1
        /\ Repair!RowIsi(row) # e
    BY <1>0, <1>1, <1>2, <1>8 DEF Expected, Missed
  <2>2. t = Scan(e + 2, e, Repair!NotYet, Append(p, <<e + 1, row>>), f)
    BY <1>3, <1>5, <1>6, <2>1 DEF PassedTo
  <2>3. e + 2 = Expected(m, j + 1) /\ e = Missed(m, j + 1)
    <3>1. ~(j + 1 <= m) /\ e + 2 = (j + 1) + 1  BY <1>0, <1>8, <2>1
    <3>. QED BY <2>1, <3>1 DEF Expected, Missed
  <2>. QED BY <1>1, <1>2, <2>2, <2>3 DEF t
<1>. QED BY <1>7, <1>8

\* The last is left over.
LEMMA LastLeft ==
  ASSUME Repair!RepairAssumption, Rows(isis), NEW m, OnlyMissing(m), NEW p, NEW f,
         NEW byMarks \in BOOLEAN, ~byMarks, NEW j, j = KPrime - 1, NEW row, row = RepairLdpc + KPrime - 1
  PROVE  Repair!Pass(Scan(Expected(m, j), Missed(m, j), Repair!NotYet, p, f), row, byMarks)
           = Scan(KPrime, m, row, p, f)
<1>0. /\ m \in 0 .. KPrime - 1 /\ KPrime \in Nat /\ RepairLdpc + KPrime - 1 \in Repair!MatrixRow
      /\ Repair!RowIsi(RepairLdpc + KPrime - 1) >= KPrime
  BY RepairSizes DEF OnlyMissing
<1>1. row \in Repair!MatrixRow  BY <1>0
<1>2. PICK e, k : e \in Nat /\ e = Expected(m, KPrime - 1) /\ k = Missed(m, KPrime - 1)
  BY <1>0 DEF Expected
<1>. DEFINE t == Repair!Pass(Scan(e, k, Repair!NotYet, p, f), row, byMarks)
<1>3. PassedTo(t, e, k, Repair!NotYet, p, f, row, byMarks)  BY PassIs
<1>4. e \in Nat /\ e + 1 \in Nat /\ Repair!RowIsi(row) \in Nat  BY <1>1, <1>2, RowsHaveIsis
<1>5. ~Repair!matrix_row_matches_systematic(row, e, byMarks)
  BY <1>0, <1>1, <1>4, RowsMatch
<1>6. ~Repair!matrix_row_matches_systematic(row, e + 1, byMarks)
  BY <1>0, <1>1, <1>4, RowsMatch
<1>7. Repair!MayBeRepair(row, byMarks)  BY DEF Repair!MayBeRepair
<1>. HIDE DEF t
<1>8. CASE m = KPrime - 1
  <2>1. e = m /\ k = Repair!NotYet /\ e + 1 = KPrime  BY <1>0, <1>2, <1>8 DEF Expected, Missed
  <2>2. t = Scan(e + 1, e, row, p, f)  BY <1>3, <1>5, <1>6, <1>7, <2>1 DEF PassedTo
  <2>. QED BY <1>1, <1>2, <2>1, <2>2 DEF t
<1>9. CASE m # KPrime - 1
  <2>1. e = KPrime /\ k = m /\ k # Repair!NotYet
    <3>1. ~(KPrime - 1 <= m)  BY <1>0, <1>9
    <3>. QED BY <1>0, <1>2, <3>1 DEF Expected, Missed, Repair!NotYet
  <2>2. t = Scan(e, k, row, p, f)  BY <1>3, <1>5, <1>6, <1>7, <2>1 DEF PassedTo
  <2>. QED BY <1>1, <1>2, <2>1, <2>2 DEF t
<1>. QED BY <1>8, <1>9

\* So without marks the scan says what the mark would.
LEMMA ScannedInOrder ==
  ASSUME Repair!RepairAssumption, Rows(isis), NEW m, OnlyMissing(m),
         NEW byMarks \in BOOLEAN, ~byMarks
  PROVE  Repair!FromScan(byMarks) = Repair!Contiguous(m)
<1>0. m \in 0 .. KPrime - 1 /\ KPrime \in Nat \ {0} /\ RepairLdpc \in Nat
  BY RepairSizes DEF OnlyMissing
<1>1. PICK g : /\ Repair!Scanned(byMarks) = g[KPrime] /\ g[0] = NothingScanned
               /\ \A j \in 1 .. KPrime : g[j] = ScanStep(g[j - 1], j, byMarks)
               /\ \A j \in 0 .. KPrime : ScanKept(g[j], j)
  BY ScannedIs
<1>2. PICK f : f = TRUE  OBVIOUS
<1>15. PICK row \in Int, last \in 1 .. KPrime :
         /\ row = RepairLdpc + KPrime - 1 /\ last = KPrime /\ last - 1 = KPrime - 1
         /\ RepairLdpc + last - 1 = row
  BY <1>0
<1>. DEFINE P == {j \in 0 .. KPrime - 1 :
                    \E p : g[j] = Scan(Expected(m, j), Missed(m, j), Repair!NotYet, p, f)}
<1>3. 0 \in P
  <2>1. NothingScanned = Scan(0, Repair!NotYet, Repair!NotYet, <<>>, f)
    BY <1>2 DEF NothingScanned, Scan
  <2>2. Expected(m, 0) = 0 /\ Missed(m, 0) = Repair!NotYet  BY <1>0 DEF Expected, Missed
  <2>. QED BY <1>0, <1>1, <2>1, <2>2
<1>4. ASSUME NEW k \in 0 .. (KPrime - 1) - 1, k \in P PROVE k + 1 \in P
  <2>1. PICK p : g[k] = Scan(Expected(m, k), Missed(m, k), Repair!NotYet, p, f)  BY <1>4
  <2>2. g[k].fits = TRUE  BY <1>2, <2>1 DEF Scan
  <2>3. PICK j \in 1 .. KPrime : j = k + 1 /\ j - 1 = k /\ RepairLdpc + j - 1 = RepairLdpc + k
    BY <1>0
  <2>4. g[j] = Repair!Pass(g[k], RepairLdpc + k, byMarks)  BY <1>1, <2>2, <2>3 DEF ScanStep
  <2>5. k \in 0 .. KPrime - 2  BY <1>0
  <2>6. PICK q : g[j] = Scan(Expected(m, k + 1), Missed(m, k + 1), Repair!NotYet, q, f)
    BY <2>1, <2>4, <2>5, NextInOrder
  <2>. QED BY <1>0, <2>3, <2>6
<1>. HIDE DEF P
<1>5. \A j \in 0 .. KPrime - 1 : j \in P  BY <1>0, <1>3, <1>4, UpTo
<1>6. PICK p : g[KPrime - 1]
                 = Scan(Expected(m, KPrime - 1), Missed(m, KPrime - 1), Repair!NotYet, p, f)
  BY <1>0, <1>5 DEF P
<1>7. g[KPrime - 1].fits = TRUE  BY <1>2, <1>6 DEF Scan
<1>8. g[last] = Repair!Pass(g[KPrime - 1], row, byMarks)
  BY <1>1, <1>15, <1>7 DEF ScanStep
<1>9. g[last] = Scan(KPrime, m, row, p, f)  BY <1>15, <1>6, <1>8, LastLeft
<1>10. PICK s : s = Repair!Scanned(byMarks) /\ s = Scan(KPrime, m, row, p, f) /\ ScanKept(s, KPrime)
  BY <1>0, <1>1, <1>15, <1>9
<1>11. s.expected = KPrime /\ s.missing = m /\ s.repair = row /\ s.pairs = p  BY <1>10, ScanIs
<1>12. s.fits = TRUE  BY <1>2, <1>10 DEF Scan
<1>13. m # Repair!NotYet /\ row # Repair!NotYet  BY <1>0, <1>15 DEF Repair!NotYet
<1>14. Len(p) + 1 = KPrime
  <2>1. PICK e \in Int, k \in Int, r \in Int, q \in Pairs :
          \/ s = Scan(e, k, r, q, FALSE)
          \/ InOrder(e, k, r, q, KPrime) /\ \E h : h = TRUE /\ s = Scan(e, k, r, q, h)
    BY <1>10 DEF ScanKept
  <2>2. s # Scan(e, k, r, q, FALSE)  BY <1>12 DEF Scan
  <2>3. PICK h : InOrder(e, k, r, q, KPrime) /\ s = Scan(e, k, r, q, h)  BY <2>1, <2>2
  <2>4. q = p /\ r = row  BY <1>11, <2>3, ScanIs
  <2>5. PICK l \in Nat : l = Len(p)  BY <2>4 DEF Pairs
  <2>6. l = KPrime - 1  BY <1>13, <2>3, <2>4, <2>5 DEF InOrder, Counted
  <2>. QED BY <1>0, <2>5, <2>6
<1>. QED BY <1>15, <1>10, <1>11, <1>12, <1>13, <1>14 DEF Repair!FromScan

\* Rows in order are recognised, with marks or without.
LEMMA InOrderIsRecognised ==
  ASSUME Repair!RepairAssumption, Rows(isis), marked \in BOOLEAN, NEW m, OnlyMissing(m)
  PROVE  Repair!classify_single_repair_systematic_rows = Repair!Contiguous(m)
<1>1. m \in Repair!contiguous_missing /\ \A k \in Repair!contiguous_missing : OnlyMissing(k)
  BY DEF OnlyMissing, Repair!contiguous_missing
<1>2. \A k \in Repair!contiguous_missing : k = m  BY <1>1, OnlyOneMissing
<1>3. CASE marked  BY <1>1, <1>2, <1>3 DEF Repair!classify_single_repair_systematic_rows
<1>4. CASE ~marked
  <2>1. Repair!classify_single_repair_systematic_rows = Repair!FromScan(FALSE)
    BY <1>4 DEF Repair!classify_single_repair_systematic_rows
  <2>2. PICK byMarks \in BOOLEAN : byMarks = FALSE  OBVIOUS
  <2>. QED BY <2>1, <2>2, ScannedInOrder
<1>. QED BY <1>3, <1>4

-----------------------------------------------------------------------------
(* One symbol lost: what is taken out.                                     *)

\* Rows and the inverse are vectors over GF(4).
LEMMA RepairVectors ==
  ASSUME Repair!RepairAssumption
  PROVE  /\ \A isi \in Repair!Isi :
              /\ RepairRow[isi] \in Fours(Repair!L) /\ DOMAIN RepairRow[isi] = Repair!Col
              /\ \A c \in Repair!Col : RepairRow[isi][c] \in {Repair!Zero, Repair!One}
              /\ Repair!Support(RepairRow[isi]) # {}
         /\ InverseMatrix \in Vects(Repair!L, Repair!Col)
         /\ \A c \in Repair!Col : InverseMatrix[c] \in Fours(Repair!L)
<1>1. Repair!Zero \in GF4 /\ Repair!One \in GF4  BY FourField DEF GF4
<1>2. ASSUME NEW isi \in Repair!Isi
      PROVE  /\ RepairRow[isi] \in [Repair!Col -> {Repair!Zero, Repair!One}]
             /\ Repair!Support(RepairRow[isi]) # {}
  BY DEF Repair!RepairAssumption
<1>3. \A isi \in Repair!Isi : RepairRow[isi] \in [Repair!Col -> GF4]  BY <1>1, <1>2
<1>4. InverseMatrix \in [Repair!Col -> [Repair!Col -> GF4]]
  BY DEF Repair!RepairAssumption, GF4
<1>5. Repair!Col = 0 .. Repair!L - 1  BY DEF Repair!Col
<1>. QED BY <1>2, <1>3, <1>4, <1>5 DEF Fours, Vects, Vect

\* How much of each source symbol is in a repair symbol.
LEMMA CoefficientsAre ==
  ASSUME Repair!RepairAssumption, NEW row \in Fours(Repair!L)
  PROVE  /\ Repair!Coefficients(row) \in Vect(Repair!Source)
         /\ \A i \in Repair!Source :
              /\ RepairLdpc + RepairHdpc + i \in Repair!Col
              /\ Repair!Coefficients(row)[i]
                   = Repair!Combination(row, InverseMatrix, Repair!L)[RepairLdpc + RepairHdpc + i]
<1>1. Repair!Combination(row, InverseMatrix, Repair!L) \in Vect(Repair!Col)
  BY RepairVectors, RepairSizes, FourCombination
<1>2. \A i \in Repair!Source : RepairLdpc + RepairHdpc + i \in Repair!Col
  BY RepairSizes DEF Repair!Col
<1>3. Repair!Coefficients(row)
        = [i \in Repair!Source |->
             Repair!Combination(row, InverseMatrix, Repair!L)[RepairLdpc + RepairHdpc + i]]
  BY DEF Repair!Coefficients
<1>. QED BY <1>1, <1>2, <1>3 DEF Vect

\* Where a symbol is in the list of the others.
IndexOf(m, i) == IF i < m THEN i + 1 ELSE i

LEMMA Indexed ==
  ASSUME Repair!RepairAssumption, NEW m \in 0 .. KPrime - 1
  PROVE  /\ \A i \in 0 .. KPrime - 1 :
              i # m => IndexOf(m, i) \in 1 .. KPrime - 1 /\ Behind(m, IndexOf(m, i)) = i
         /\ \A i \in 0 .. K - 1 : i # m /\ m < K => IndexOf(m, i) <= K - 1
         /\ \A q \in 1 .. KPrime - 1 : /\ Behind(m, q) \in 0 .. KPrime - 1 /\ Behind(m, q) # m
                                       /\ IndexOf(m, Behind(m, q)) = q
<1>1. m # Repair!NotYet /\ KPrime \in Nat /\ K \in Nat /\ K <= KPrime  BY RepairSizes DEF Repair!NotYet
<1>2. ASSUME NEW i \in 0 .. KPrime - 1, i # m
      PROVE  IndexOf(m, i) \in 1 .. KPrime - 1 /\ Behind(m, IndexOf(m, i)) = i
  <2>1. CASE i < m  BY <1>1, <2>1 DEF IndexOf, Behind
  <2>2. CASE ~(i < m)  BY <1>1, <1>2, <2>2 DEF IndexOf, Behind
  <2>. QED BY <2>1, <2>2
<1>3. ASSUME NEW i \in 0 .. K - 1, i # m, m < K PROVE IndexOf(m, i) <= K - 1
  BY <1>1, <1>3 DEF IndexOf
<1>4. ASSUME NEW q \in 1 .. KPrime - 1
      PROVE  Behind(m, q) \in 0 .. KPrime - 1 /\ Behind(m, q) # m /\ IndexOf(m, Behind(m, q)) = q
  BY <1>1 DEF IndexOf, Behind
<1>. QED BY <1>2, <1>3, <1>4

\* The rows of the others.
LEMMA OtherRows ==
  ASSUME Repair!RepairAssumption, NEW r \in Repair!MatrixRow, NEW q \in 1 .. KPrime - 1
  PROVE  RowBehind(r, q) \in Repair!MatrixRow /\ RowBehind(r, q) # r
<1>1. RepairLdpc \in Nat /\ KPrime \in Nat /\ r \in RepairLdpc .. RepairLdpc + KPrime - 1
      /\ r # Repair!NotYet
  BY RepairSizes DEF Repair!NotYet
<1>. QED BY <1>1, RepairSizes DEF RowBehind

\* No row is of symbol m.
IsLost(q, m) == \A i \in 1 .. KPrime : q[i] # m

LEMMA RowIsOfIsi ==
  ASSUME Repair!RepairAssumption, NEW row \in Repair!MatrixRow
  PROVE  /\ \E i \in 1 .. KPrime : isis[i] = Repair!RowIsi(row)
         /\ row + RepairHdpc \in Repair!Col
         /\ ~(row + RepairHdpc < RepairLdpc + RepairHdpc)
         /\ isis[(row + RepairHdpc) - RepairLdpc - RepairHdpc + 1] = Repair!RowIsi(row)
<1>1. PICK t \in Int : t = row /\ t \in RepairLdpc .. RepairLdpc + KPrime - 1  BY RepairSizes
<1>2. /\ t - RepairLdpc + 1 \in 1 .. KPrime
      /\ (t + RepairHdpc) - RepairLdpc - RepairHdpc + 1 = t - RepairLdpc + 1
      /\ t + RepairHdpc \in 0 .. Repair!L - 1 /\ ~(t + RepairHdpc < RepairLdpc + RepairHdpc)
  <2>1. /\ RepairLdpc \in Nat /\ RepairHdpc \in Nat /\ KPrime \in Nat
        /\ Repair!L = RepairLdpc + RepairHdpc + KPrime
    BY RepairSizes
  <2>2. t >= RepairLdpc /\ t <= RepairLdpc + KPrime - 1  BY <1>1, <2>1
  <2>. QED BY <2>1, <2>2, SMT
<1>. QED BY <1>1, <1>2 DEF Repair!RowIsi, Repair!Col

\* Only the missing symbol can be lost, and then the row left over is of a
\* repair symbol.
LEMMA LostIsMissing ==
  ASSUME Repair!RepairAssumption, Rows(isis), NEW found, Recognised(found)
  PROVE  /\ \A i \in Repair!Source : IsLost(isis, i) => i = found.missing
         /\ IsLost(isis, found.missing) => Repair!RowIsi(found.repair) >= KPrime
<1>1. PICK m \in 0 .. KPrime - 1, r \in Repair!MatrixRow : m = found.missing /\ r = found.repair
  BY DEF Recognised
<1>2. ASSUME NEW i \in 0 .. KPrime - 1, i # m
      PROVE  \E row \in Repair!MatrixRow : row # r /\ Repair!RowIsi(row) = i
  <2>1. PICK q \in 1 .. KPrime - 1 : Behind(m, q) = i  BY <1>2, Indexed
  <2>2. Repair!RowIsi(RowBehind(r, q)) = Behind(m, q)  BY <1>1 DEF Recognised
  <2>3. RowBehind(r, q) \in Repair!MatrixRow /\ RowBehind(r, q) # r  BY OtherRows
  <2>. QED BY <2>1, <2>2, <2>3
<1>3. ASSUME NEW i \in Repair!Source, IsLost(isis, i) PROVE i = m
  <2>. SUFFICES ASSUME i # m PROVE FALSE  OBVIOUS
  <2>1. i \in 0 .. KPrime - 1  BY RepairSizes
  <2>2. PICK row \in Repair!MatrixRow : Repair!RowIsi(row) = i  BY <1>2, <2>1
  <2>. QED BY <1>3, <2>2, RowIsOfIsi DEF IsLost
<1>4. ASSUME IsLost(isis, m) PROVE Repair!RowIsi(r) >= KPrime
  <2>. SUFFICES ASSUME ~(Repair!RowIsi(r) >= KPrime) PROVE FALSE  OBVIOUS
  <2>1. PICK i \in Nat : i = Repair!RowIsi(r)  BY RowsHaveIsis
  <2>2. i \in 0 .. KPrime - 1  BY <2>1, RepairSizes
  <2>3. i # m  BY <1>4, <2>1, RowIsOfIsi DEF IsLost
  <2>4. PICK row \in Repair!MatrixRow : row # r /\ Repair!RowIsi(row) = i  BY <1>2, <2>2, <2>3
  <2>. QED BY <2>1, <2>4, RowsHaveIsis
<1>. QED BY <1>1, <1>3, <1>4

\* The slab that was passed in.
Slab == [i \in Repair!Col |->
           IF i < RepairLdpc + RepairHdpc THEN Repair!VZero(Repair!Source)
           ELSE Repair!SymbolOf(isis[i - RepairLdpc - RepairHdpc + 1])]

\* It has a symbol for every row.
LEMMA SlabHas ==
  ASSUME Repair!RepairAssumption, NEW row \in Repair!MatrixRow
  PROVE  Slab[row + RepairHdpc] = Repair!SymbolOf(Repair!RowIsi(row))
BY RowIsOfIsi DEF Slab

\* Symbols still to be taken out are those from d + 1 on.
LeftToTake(q, m, r, d) ==
  /\ q \in Pairs /\ Len(q) + d \in {K - 1, KPrime - 1}
  /\ \A p \in 1 .. Len(q) : q[p] = <<Behind(m, p + d), RowBehind(r, p + d)>>

\* What is left of coefficients C in x, and what has been put in place in t.
StillHas(x, how, m, C, d) ==
  /\ x \in Vect(Repair!Source)
  /\ \A i \in Repair!Source :
       x[i] = IF how = "direct" \/ i = m \/ d < IndexOf(m, i) THEN C[i] ELSE Repair!Zero
InItsPlace(t, m, d) ==
  /\ t \in Vects(Repair!L, Repair!Source)
  /\ \A c \in Repair!Col, i \in Repair!Source :
       t[c][i] = IF c = RepairLdpc + RepairHdpc + i /\ i # m /\ IndexOf(m, i) <= d
                 THEN Repair!One ELSE Repair!Zero

\* While known symbols are taken out.
Gathered ==
  /\ Recognised(rows) /\ rows.missing < K
  /\ Repair!RepairCoefficients(rows)[rows.missing] # Repair!Zero
  /\ \E d \in Nat :
       /\ LeftToTake(known, rows.missing, rows.repair, d)
       /\ IsLost(isis, rows.missing) =>
            /\ StillHas(missing_symbol, kind, rows.missing, Repair!RepairCoefficients(rows), d)
            /\ kind = "direct" => InItsPlace(known_symbols, rows.missing, d)

\* The invariant of SingleRepair.
RepairInv ==
  /\ kind \in {"plan", "direct"} /\ marked \in BOOLEAN /\ Rows(isis) /\ symbols = Slab
  /\ phase = "gather" => Gathered
  /\ Repair!TypeInv /\ Repair!LostAreRebuilt /\ Repair!TakenWhereItFits

\* It holds at the start.
LEMMA RepairStarts ==
  ASSUME Repair!RepairAssumption, Repair!Init
  PROVE  RepairInv
<1>1. kind \in {"plan", "direct"} /\ marked \in BOOLEAN /\ phase = "rows" /\ known = <<>>
  BY DEF Repair!Init
<1>2. Rows(isis)
  <2>1. isis \in [1 .. KPrime -> Repair!Isi] /\ Repair!IsInjective(isis)  BY DEF Repair!Init
  <2>. QED BY <2>1 DEF Rows, Repair!IsInjective
<1>3. symbols = Slab  BY DEF Repair!Init, Slab
<1>4. Repair!TypeInv
  <2>1. Len(<<>>) = 0 /\ 0 < KPrime  BY RepairSizes
  <2>. QED BY <1>1, <2>1 DEF Repair!TypeInv
<1>. QED BY <1>1, <1>2, <1>3, <1>4
        DEF RepairInv, Repair!LostAreRebuilt, Repair!TakenWhereItFits

\* What does not change.
LEMMA RowsStay ==
  ASSUME isis' = isis
  PROVE  /\ \A row : Repair!RowIsi(row)' = Repair!RowIsi(row)
         /\ Slab' = Slab
         /\ Repair!contiguous_missing' = Repair!contiguous_missing
BY DEF Repair!RowIsi, Slab, Repair!contiguous_missing

LEMMA RecognisedStays ==
  ASSUME isis' = isis, NEW found, Recognised(found), rows' = found
  PROVE  /\ Recognised(rows)'
         /\ Repair!RepairCoefficients(rows)' = Repair!RepairCoefficients(found)
<1>1. \A q : Repair!RowIsi(RowBehind(found.repair, q))' = Repair!RowIsi(RowBehind(found.repair, q))
  BY RowsStay
<1>. QED BY <1>1, RowsStay DEF Recognised, Repair!RepairCoefficients

\* Symbols lost.
LEMMA LostRange ==
  ASSUME Rows(isis), NEW i
  PROVE  i \notin Repair!Range(isis) <=> IsLost(isis, i)
BY DEF Rows, IsLost, Repair!Range

\* A list of known symbols is one of all that are left to take.
LEMMA AllLeft ==
  ASSUME Repair!RepairAssumption, NEW found, Recognised(found), found.missing < K
  PROVE  LeftToTake(Repair!KnownSources(found), found.missing, found.repair, 0)
<1>1. PICK m \in 0 .. KPrime - 1, r \in Repair!MatrixRow : m = found.missing /\ r = found.repair
  BY DEF Recognised
<1>2. CASE found.layout # Repair!NoRows
  <2>1. /\ found.layout \in Pairs /\ Len(found.layout) = KPrime - 1
        /\ \A q \in 1 .. KPrime - 1 : found.layout[q] = <<Behind(m, q), RowBehind(r, q)>>
    BY <1>1, <1>2 DEF Recognised
  <2>2. Repair!KnownSources(found) = found.layout  BY <1>2 DEF Repair!KnownSources
  <2>3. KPrime - 1 + 0 = KPrime - 1 /\ \A q \in 1 .. KPrime - 1 : q + 0 = q  BY RepairSizes
  <2>. QED BY <1>1, <2>1, <2>2, <2>3 DEF LeftToTake
<1>3. CASE found.layout = Repair!NoRows
  <2>. DEFINE E(j) == <<IF j <= m THEN j - 1 ELSE j, RowBehind(r, j)>>
              k == [j \in 1 .. K - 1 |-> E(j)]
  <2>0. r = RepairLdpc + KPrime - 1
    <3>1. CASE found.repair = RepairLdpc + KPrime - 1  BY <1>1, <3>1
    <3>2. CASE found.repair # RepairLdpc + KPrime - 1
      <4>1. found.layout \in Pairs /\ Len(found.layout) = KPrime - 1  BY <3>2 DEF Recognised
      <4>2. KPrime - 1 = 0  BY <1>3, <4>1 DEF Repair!NoRows
      <4>. QED BY <1>1, <4>2, RepairSizes
    <3>. QED BY <3>1, <3>2
  <2>1. ASSUME NEW j \in 1 .. K - 1
        PROVE  /\ RowBehind(r, j) = RepairLdpc + j - 1
               /\ Behind(m, j) = IF j <= m THEN j - 1 ELSE j
               /\ Repair!RowPastGap(IF j <= m THEN j - 1 ELSE j, m) = RepairLdpc + j - 1
    <3>1. r # Repair!NotYet => RepairLdpc + j - 1 < r  BY <2>0, RepairSizes
    <3>2. RowBehind(r, j) = RepairLdpc + j - 1  BY <3>1 DEF RowBehind
    <3>3. Behind(m, j) = IF j <= m THEN j - 1 ELSE j
      BY <1>1, RepairSizes DEF Behind, Repair!NotYet
    <3>4. Repair!RowPastGap(IF j <= m THEN j - 1 ELSE j, m) = RepairLdpc + j - 1
      <4>1. CASE j <= m  BY <4>1, RepairSizes DEF Repair!RowPastGap
      <4>2. CASE ~(j <= m)  BY <4>2, RepairSizes DEF Repair!RowPastGap
      <4>. QED BY <4>1, <4>2
    <3>. QED BY <3>2, <3>3, <3>4
  <2>2. Repair!KnownSources(found) = k
    <3>1. Repair!KnownSources(found)
            = [j \in 1 .. K - 1 |->
                 <<IF j <= m THEN j - 1 ELSE j, Repair!RowPastGap(IF j <= m THEN j - 1 ELSE j, m)>>]
      BY <1>1, <1>3 DEF Repair!KnownSources
    <3>2. \A j \in 1 .. K - 1 : Repair!RowPastGap(IF j <= m THEN j - 1 ELSE j, m) = RowBehind(r, j)
      BY <2>1
    <3>. QED BY <3>1, <3>2
  <2>3. \A j \in 1 .. K - 1 : E(j) \in Int \X Int /\ E(j) = <<Behind(m, j), RowBehind(r, j)>>
    BY <2>1, RepairSizes
  <2>4. K - 1 \in Nat  BY RepairSizes
  <2>5. k \in Seq(Int \X Int) /\ Len(k) = K - 1 /\ \A j \in 1 .. K - 1 : k[j] = E(j)
    <3>. DEFINE T == Int \X Int
    <3>0. \A j \in 1 .. K - 1 : E(j) \in T  BY <2>3
    <3>. HIDE DEF E, T
    <3>1. k \in [1 .. K - 1 -> T]  BY <3>0
    <3>2. k \in Seq(T) /\ Len(k) = K - 1  BY <2>4, <3>1
    <3>. QED BY <3>2 DEF T
  <2>. HIDE DEF k, E
  <2>6. K - 1 + 0 = K - 1 /\ \A q \in 1 .. K - 1 : q + 0 = q  BY RepairSizes
  <2>. QED BY <1>1, <2>2, <2>3, <2>5, <2>6 DEF LeftToTake, Pairs
<1>. QED BY <1>2, <1>3

\* Taking nothing out leaves all.
LEMMA NothingTaken ==
  ASSUME Repair!RepairAssumption, Rows(isis), symbols = Slab, NEW found, Recognised(found),
         NEW how, IsLost(isis, found.missing)
  PROVE  /\ StillHas(symbols[found.repair + RepairHdpc], how, found.missing,
                     Repair!RepairCoefficients(found), 0)
         /\ InItsPlace([i \in Repair!Col |-> Repair!VZero(Repair!Source)], found.missing, 0)
<1>1. PICK m \in 0 .. KPrime - 1, r \in Repair!MatrixRow, isi \in Repair!Isi :
        m = found.missing /\ r = found.repair /\ isi = Repair!RowIsi(r)
  BY RowsHaveIsis DEF Recognised
<1>2. isi \in Nat /\ isi >= KPrime  BY <1>1, LostIsMissing, RepairSizes
<1>3. symbols[r + RepairHdpc] = Repair!Coefficients(RepairRow[isi])
  <2>1. symbols[r + RepairHdpc] = Repair!SymbolOf(isi)  BY <1>1, SlabHas
  <2>2. isi \notin Repair!Source /\ ~(isi < KPrime)  BY <1>2, RepairSizes
  <2>. QED BY <2>1, <2>2 DEF Repair!SymbolOf
<1>4. Repair!RepairCoefficients(found) = Repair!Coefficients(RepairRow[isi])
  BY <1>1 DEF Repair!RepairCoefficients
<1>5. Repair!Coefficients(RepairRow[isi]) \in Vect(Repair!Source)
  BY RepairVectors, CoefficientsAre
<1>6. \A i \in Repair!Source : i = m \/ 0 < IndexOf(m, i)
  BY <1>1, RepairSizes DEF IndexOf
<1>7. StillHas(symbols[r + RepairHdpc], how, m, Repair!RepairCoefficients(found), 0)
  BY <1>3, <1>4, <1>5, <1>6 DEF StillHas
<1>8. InItsPlace([i \in Repair!Col |-> Repair!VZero(Repair!Source)], m, 0)
  <2>1. Repair!VZero(Repair!Source) \in Vect(Repair!Source)
    BY FourField DEF Repair!VZero, Vect, GF4
  <2>2. Repair!Col = 0 .. Repair!L - 1  BY DEF Repair!Col
  <2>3. [i \in Repair!Col |-> Repair!VZero(Repair!Source)] \in Vects(Repair!L, Repair!Source)
    BY <2>1, <2>2 DEF Vects
  <2>4. \A i \in Repair!Source : Repair!VZero(Repair!Source)[i] = Repair!Zero  BY DEF Repair!VZero
  <2>5. \A i \in Repair!Source : IndexOf(m, i) \in Int  BY <1>1, RepairSizes DEF IndexOf
  <2>6. \A i \in Repair!Source : ~(i # m /\ IndexOf(m, i) <= 0)  BY <1>6, <2>5
  <2>. QED BY <2>3, <2>4, <2>6 DEF InItsPlace
<1>. QED BY <1>1, <1>7, <1>8

\* Rows are recognised.
LEMMA RecogniseKeeps ==
  ASSUME Repair!RepairAssumption, RepairInv, Repair!Recognise
  PROVE  RepairInv'
<1>1. PICK found : found = Repair!classify_single_repair_systematic_rows  OBVIOUS
<1>2. /\ kind' = kind /\ isis' = isis /\ marked' = marked /\ symbols' = symbols /\ decoded' = decoded
      /\ \/ /\ Repair!Fits(found) /\ rows' = found /\ known' = Repair!KnownSources(found)
            /\ missing_symbol' = symbols[found.repair + RepairHdpc]
            /\ known_symbols' = [i \in Repair!Col |-> Repair!VZero(Repair!Source)]
            /\ phase' = "gather"
         \/ ~Repair!Fits(found) /\ phase' = "none" /\ known' = known
  BY <1>1 DEF Repair!Recognise
<1>3. Rows(isis) /\ symbols = Slab /\ kind \in {"plan", "direct"} /\ marked \in BOOLEAN
  BY DEF RepairInv
<1>4. (kind \in {"plan", "direct"})' /\ (marked \in BOOLEAN)' /\ Rows(isis)' /\ (symbols = Slab)'
  BY <1>2, <1>3, RowsStay DEF Rows
<1>5. CASE phase' = "gather"
  <2>0. /\ Repair!Fits(found) /\ rows' = found /\ known' = Repair!KnownSources(found)
        /\ missing_symbol' = symbols[found.repair + RepairHdpc]
        /\ known_symbols' = [i \in Repair!Col |-> Repair!VZero(Repair!Source)]
    BY <1>2, <1>5
  <2>1. found # Repair!NoRows /\ found.missing < K
        /\ Repair!RepairCoefficients(found)[found.missing] # Repair!Zero
    BY <2>0 DEF Repair!Fits
  <2>2. Recognised(found)  BY <1>1, <1>3, <2>1, RowsRecognised
  <2>3. Recognised(rows)' /\ Repair!RepairCoefficients(rows)' = Repair!RepairCoefficients(found)
    BY <1>2, <2>0, <2>2, RecognisedStays
  <2>4. LeftToTake(known', found.missing, found.repair, 0)  BY <2>0, <2>1, <2>2, AllLeft
  <2>5. IsLost(isis', found.missing) =>
          /\ StillHas(missing_symbol', kind', found.missing, Repair!RepairCoefficients(found), 0)
          /\ InItsPlace(known_symbols', found.missing, 0)
    BY <1>2, <1>3, <2>0, <2>2, NothingTaken
  <2>6. Gathered'
    <3>1. 0 \in Nat  OBVIOUS
    <3>. QED BY <2>0, <2>1, <2>3, <2>4, <2>5, <3>1 DEF Gathered
  <2>7. Repair!TypeInv'
    <3>1. Len(known') + 0 \in {K - 1, KPrime - 1} /\ Len(known') \in Nat
      BY <2>4 DEF LeftToTake, Pairs
    <3>2. Len(known') < KPrime  BY <3>1, RepairSizes
    <3>3. found.missing \in Repair!Source /\ found.repair \in Repair!MatrixRow
      BY <2>1, <2>2, RepairSizes DEF Recognised
    <3>. QED BY <1>5, <2>0, <3>2, <3>3 DEF Repair!TypeInv
  <2>. QED BY <1>4, <1>5, <2>6, <2>7
          DEF RepairInv, Repair!LostAreRebuilt, Repair!TakenWhereItFits
<1>6. CASE phase' # "gather"
  <2>1. ~Repair!Fits(found) /\ phase' = "none" /\ known' = known  BY <1>2, <1>6
  <2>2. ASSUME NEW m \in Repair!contiguous_missing \cap Repair!Source,
               Repair!Coefficients(RepairRow[isis[KPrime]])[m] # Repair!Zero
        PROVE  FALSE
    <3>1. OnlyMissing(m)  BY DEF OnlyMissing, Repair!contiguous_missing
    <3>2. found = Repair!Contiguous(m)  BY <1>1, <1>3, <3>1, InOrderIsRecognised
    <3>3. found.missing = m /\ found.repair = RepairLdpc + KPrime - 1
      BY <3>2, ContiguousFields
    <3>4. found # Repair!NoRows  BY <3>2 DEF Repair!Contiguous, Repair!NoRows
    <3>5. Repair!RowIsi(found.repair) = isis[KPrime]
      <4>1. (RepairLdpc + KPrime - 1) - RepairLdpc + 1 = KPrime  BY RepairSizes
      <4>. QED BY <3>3, <4>1 DEF Repair!RowIsi
    <3>6. m < K  BY RepairSizes
    <3>. QED BY <2>1, <2>2, <3>3, <3>4, <3>5, <3>6 DEF Repair!Fits, Repair!RepairCoefficients
  <2>3. Repair!TakenWhereItFits'  BY <1>2, <2>2, RowsStay DEF Repair!TakenWhereItFits
  <2>4. Repair!TypeInv'  BY <2>1 DEF RepairInv, Repair!TypeInv
  <2>. QED BY <1>4, <2>1, <2>3, <2>4 DEF RepairInv, Repair!LostAreRebuilt
<1>. QED BY <1>5, <1>6

\* A step while known symbols are taken out keeps the rows.
LEMMA GatheringStays ==
  ASSUME Repair!RepairAssumption, RepairInv, phase = "gather", phase' = "gather",
         UNCHANGED <<kind, isis, marked, rows, symbols, decoded>>, known # <<>>, known' = Tail(known),
         NEW d \in Nat, LeftToTake(known', rows.missing, rows.repair, d + 1),
         IsLost(isis, rows.missing) =>
           /\ StillHas(missing_symbol', kind, rows.missing, Repair!RepairCoefficients(rows), d + 1)
           /\ kind = "direct" => InItsPlace(known_symbols', rows.missing, d + 1)
  PROVE  RepairInv'
<1>1. Recognised(rows) /\ rows.missing < K
      /\ Repair!RepairCoefficients(rows)[rows.missing] # Repair!Zero
  BY DEF RepairInv, Gathered
<1>2. PICK found : found = rows  OBVIOUS
<1>3. Recognised(rows)' /\ Repair!RepairCoefficients(rows)' = Repair!RepairCoefficients(rows)
  BY <1>1, <1>2, RecognisedStays
<1>4. Gathered'
  <2>1. d + 1 \in Nat  OBVIOUS
  <2>2. /\ LeftToTake(known', rows'.missing, rows'.repair, d + 1)
        /\ IsLost(isis', rows'.missing) =>
             /\ StillHas(missing_symbol', kind', rows'.missing, Repair!RepairCoefficients(rows)', d + 1)
             /\ kind' = "direct" => InItsPlace(known_symbols', rows'.missing, d + 1)
    BY <1>3
  <2>3. rows'.missing < K /\ Repair!RepairCoefficients(rows)'[rows'.missing] # Repair!Zero
    BY <1>1, <1>3
  <2>. QED BY <1>3, <2>1, <2>2, <2>3 DEF Gathered
<1>5. Repair!TypeInv'
  <2>1. Len(known') + (d + 1) \in {K - 1, KPrime - 1} /\ Len(known') \in Nat
    BY DEF LeftToTake, Pairs
  <2>2. Len(known') < KPrime  BY <2>1, RepairSizes
  <2>. QED BY <2>2 DEF RepairInv, Repair!TypeInv
<1>6. (kind \in {"plan", "direct"})' /\ (marked \in BOOLEAN)' /\ Rows(isis)' /\ (symbols = Slab)'
  BY RowsStay DEF RepairInv, Rows
<1>. QED BY <1>4, <1>5, <1>6 DEF RepairInv, Repair!LostAreRebuilt, Repair!TakenWhereItFits

\* The first that is left.
LEMMA FirstLeft ==
  ASSUME Repair!RepairAssumption, NEW q, NEW m \in 0 .. KPrime - 1, NEW r \in Repair!MatrixRow,
         NEW d \in Nat, LeftToTake(q, m, r, d), q # <<>>
  PROVE  /\ d + 1 \in 1 .. KPrime - 1
         /\ Head(q)[1] = Behind(m, d + 1) /\ Head(q)[2] = RowBehind(r, d + 1)
         /\ LeftToTake(Tail(q), m, r, d + 1)
<1>. DEFINE T == Int \X Int
<1>1. q \in Seq(T)  BY DEF LeftToTake, Pairs
<1>. HIDE DEF T
<1>2. /\ Len(q) \in Nat \ {0} /\ Head(q) = q[1] /\ Tail(q) \in Seq(T) /\ Len(Tail(q)) = Len(q) - 1
      /\ \A p \in 1 .. Len(q) - 1 : Tail(q)[p] = q[p + 1]
  BY <1>1
<1>3. PICK l \in Nat \ {0} : l = Len(q)  BY <1>2
<1>4. l + d \in {K - 1, KPrime - 1}  BY <1>3 DEF LeftToTake
<1>5. d + 1 \in 1 .. KPrime - 1 /\ (l - 1) + (d + 1) \in {K - 1, KPrime - 1}  BY <1>4, RepairSizes
<1>6. \A p \in 1 .. l : q[p] = <<Behind(m, p + d), RowBehind(r, p + d)>>  BY <1>3 DEF LeftToTake
<1>7. Head(q) = <<Behind(m, d + 1), RowBehind(r, d + 1)>>
  <2>1. 1 \in 1 .. l /\ 1 + d = d + 1  OBVIOUS
  <2>. QED BY <1>2, <1>6, <2>1
<1>8. \A p \in 1 .. l - 1 : Tail(q)[p] = <<Behind(m, p + (d + 1)), RowBehind(r, p + (d + 1))>>
  <2>1. \A p \in 1 .. l - 1 : p + 1 \in 1 .. l /\ (p + 1) + d = p + (d + 1)  OBVIOUS
  <2>. QED BY <1>2, <1>3, <1>6, <2>1
<1>. QED BY <1>2, <1>3, <1>5, <1>7, <1>8 DEF LeftToTake, Pairs, T

\* Its symbol.
LEMMA SymbolOfFirst ==
  ASSUME Repair!RepairAssumption, symbols = Slab, Recognised(rows), NEW p \in 1 .. KPrime - 1,
         Behind(rows.missing, p) < K
  PROVE  /\ Behind(rows.missing, p) \in Repair!Source
         /\ Repair!SymbolOfRow(RowBehind(rows.repair, p))
              = Repair!VUnit(Repair!Source, Behind(rows.missing, p))
<1>1. Behind(rows.missing, p) \in Repair!Source  BY Indexed, RepairSizes DEF Recognised
<1>2. RowBehind(rows.repair, p) \in Repair!MatrixRow  BY OtherRows DEF Recognised
<1>3. Repair!RowIsi(RowBehind(rows.repair, p)) = Behind(rows.missing, p)  BY DEF Recognised
<1>4. symbols[RowBehind(rows.repair, p) + RepairHdpc] = Repair!SymbolOf(Behind(rows.missing, p))
  BY <1>2, <1>3, SlabHas
<1>. QED BY <1>1, <1>4 DEF Repair!SymbolOf, Repair!SymbolOfRow

\* Nothing is found of padding.
LEMMA PaddingPassed ==
  ASSUME Repair!RepairAssumption, NEW m \in 0 .. KPrime - 1, NEW d \in Nat, d + 1 \in 1 .. KPrime - 1,
         ~(Behind(m, d + 1) < K)
  PROVE  \A i \in Repair!Source :
           i # m => /\ d < IndexOf(m, i) <=> d + 1 < IndexOf(m, i)
                    /\ IndexOf(m, i) <= d <=> IndexOf(m, i) <= d + 1
<1>. SUFFICES ASSUME NEW i \in Repair!Source, i # m
              PROVE  /\ d < IndexOf(m, i) <=> d + 1 < IndexOf(m, i)
                     /\ IndexOf(m, i) <= d <=> IndexOf(m, i) <= d + 1
  OBVIOUS
<1>1. i \in 0 .. KPrime - 1 /\ i < K  BY RepairSizes
<1>2. IndexOf(m, i) \in 1 .. KPrime - 1 /\ Behind(m, IndexOf(m, i)) = i  BY <1>1, Indexed
<1>3. IndexOf(m, i) # d + 1  BY <1>1, <1>2
<1>. QED BY <1>2, <1>3

\* Of the others, one more is found.
LEMMA OneMoreFound ==
  ASSUME Repair!RepairAssumption, NEW m \in 0 .. KPrime - 1, NEW d \in Nat, d + 1 \in 1 .. KPrime - 1,
         NEW i \in Repair!Source, i # m
  PROVE  /\ i = Behind(m, d + 1) => IndexOf(m, i) = d + 1
         /\ i # Behind(m, d + 1) =>
              /\ d < IndexOf(m, i) <=> d + 1 < IndexOf(m, i)
              /\ IndexOf(m, i) <= d <=> IndexOf(m, i) <= d + 1
         /\ IndexOf(m, i) \in Nat
<1>1. i \in 0 .. KPrime - 1  BY RepairSizes
<1>2. IndexOf(m, i) \in 1 .. KPrime - 1 /\ Behind(m, IndexOf(m, i)) = i  BY <1>1, Indexed
<1>3. IndexOf(m, Behind(m, d + 1)) = d + 1  BY Indexed
<1>4. i # Behind(m, d + 1) => IndexOf(m, i) # d + 1  BY <1>2
<1>. QED BY <1>2, <1>3, <1>4

\* With coefficients, a known symbol is taken out.
LEMMA OneTakenOut ==
  ASSUME Repair!RepairAssumption, NEW m \in 0 .. KPrime - 1, NEW d \in Nat, d + 1 \in 1 .. KPrime - 1,
         NEW how, how # "direct", NEW C \in Vect(Repair!Source), NEW x, StillHas(x, how, m, C, d)
  PROVE  LET s == Behind(m, d + 1)
         IN StillHas(IF s >= K THEN x
                     ELSE Repair!VPlus(x, Repair!VTimes(C[s], Repair!VUnit(Repair!Source, s))),
                     how, m, C, d + 1)
<1>0. Behind(m, d + 1) \in 0 .. KPrime - 1 /\ Behind(m, d + 1) # m  BY Indexed
<1>1. PICK s \in 0 .. KPrime - 1 : s = Behind(m, d + 1) /\ s # m  BY <1>0
<1>2. CASE s >= K
  <2>1. ~(Behind(m, d + 1) < K)  BY <1>1, <1>2, RepairSizes
  <2>2. StillHas(x, how, m, C, d + 1)  BY <2>1, PaddingPassed DEF StillHas
  <2>. QED BY <1>1, <1>2, <2>2
<1>3. CASE ~(s >= K)
  <2>1. s \in Repair!Source  BY <1>1, <1>3, RepairSizes
  <2>2. PICK c \in GF4 : c = C[s]  BY <2>1 DEF Vect
  <2>3. PICK v \in Vect(Repair!Source) : v = Repair!VUnit(Repair!Source, s)
    BY FourField DEF Vect, GF4, Repair!VUnit
  <2>4. PICK z \in Vect(Repair!Source) :
          /\ z = Repair!VPlus(x, Repair!VTimes(c, v))
          /\ \A i \in Repair!Source : z[i] = Repair!FPlus(x[i], Repair!FTimes(c, v[i]))
    BY VectorSum DEF StillHas
  <2>5. ASSUME NEW i \in Repair!Source
        PROVE  z[i] = IF how = "direct" \/ i = m \/ d + 1 < IndexOf(m, i) THEN C[i] ELSE Repair!Zero
    <3>1. z[i] = Repair!FPlus(x[i], Repair!FTimes(c, v[i]))  BY <2>4
    <3>2. x[i] = (IF i = m \/ d < IndexOf(m, i) THEN C[i] ELSE Repair!Zero) /\ x[i] \in GF4
      BY DEF StillHas, Vect
    <3>3. CASE i = s
      <4>1. v[i] = Repair!One  BY <2>3, <3>3 DEF Repair!VUnit
      <4>2. IndexOf(m, i) = d + 1  BY <1>1, <3>3, OneMoreFound
      <4>3. x[i] = c  BY <2>2, <3>2, <3>3, <4>2
      <4>4. Repair!FTimes(c, Repair!One) = c /\ Repair!FPlus(c, c) = Repair!Zero
        BY FourField DEF GF4
      <4>. QED BY <1>1, <3>1, <3>3, <4>1, <4>2, <4>3, <4>4
    <3>4. CASE i # s
      <4>1. v[i] = Repair!Zero  BY <2>3, <3>4 DEF Repair!VUnit
      <4>2. Repair!FTimes(c, Repair!Zero) = Repair!Zero /\ Repair!FPlus(x[i], Repair!Zero) = x[i]
        BY <3>2, FourField DEF GF4
      <4>3. z[i] = x[i]  BY <3>1, <4>1, <4>2
      <4>4. i # m => (d < IndexOf(m, i) <=> d + 1 < IndexOf(m, i))  BY <1>1, <3>4, OneMoreFound
      <4>. QED BY <3>2, <4>3, <4>4
    <3>. QED BY <3>3, <3>4
  <2>6. StillHas(z, how, m, C, d + 1)  BY <2>5 DEF StillHas
  <2>. QED BY <1>1, <1>3, <2>2, <2>3, <2>4, <2>6
<1>. QED BY <1>2, <1>3

\* Without, it is put in its place.
LEMMA PutDown ==
  ASSUME Repair!RepairAssumption, NEW m \in 0 .. KPrime - 1, NEW d \in Nat, d + 1 \in 1 .. KPrime - 1,
         NEW t, InItsPlace(t, m, d)
  PROVE  LET s == Behind(m, d + 1)
         IN InItsPlace(IF s >= K THEN t
                    ELSE [t EXCEPT ![RepairLdpc + RepairHdpc + s] = Repair!VUnit(Repair!Source, s)],
                    m, d + 1)
<1>0. Behind(m, d + 1) \in 0 .. KPrime - 1 /\ Behind(m, d + 1) # m  BY Indexed
<1>1. PICK s \in 0 .. KPrime - 1 : s = Behind(m, d + 1) /\ s # m  BY <1>0
<1>2. CASE s >= K
  <2>1. ~(Behind(m, d + 1) < K)  BY <1>1, <1>2, RepairSizes
  <2>2. InItsPlace(t, m, d + 1)  BY <2>1, PaddingPassed DEF InItsPlace
  <2>. QED BY <1>1, <1>2, <2>2
<1>3. CASE ~(s >= K)
  <2>1. s \in Repair!Source  BY <1>1, <1>3, RepairSizes
  <2>0. PICK v \in Vect(Repair!Source) : v = Repair!VUnit(Repair!Source, s)
    BY FourField DEF Vect, GF4, Repair!VUnit
  <2>2. \A i \in Repair!Source : v[i] = IF i = s THEN Repair!One ELSE Repair!Zero
    BY <2>0 DEF Repair!VUnit
  <2>3. PICK a \in Repair!Col : a = RepairLdpc + RepairHdpc + s
    BY <2>1, RepairSizes DEF Repair!Col
  <2>4. PICK u : u = [t EXCEPT ![a] = v]  OBVIOUS
  <2>5. Repair!Col = 0 .. Repair!L - 1  BY DEF Repair!Col
  <2>6. t \in [Repair!Col -> Vect(Repair!Source)]  BY <2>5 DEF InItsPlace, Vects
  <2>7. /\ u \in [Repair!Col -> Vect(Repair!Source)] /\ u[a] = v
        /\ \A c \in Repair!Col : c # a => u[c] = t[c]
    BY <2>4, <2>6
  <2>8. ASSUME NEW c \in Repair!Col, NEW i \in Repair!Source
        PROVE  u[c][i] = IF c = RepairLdpc + RepairHdpc + i /\ i # m /\ IndexOf(m, i) <= d + 1
                         THEN Repair!One ELSE Repair!Zero
    <3>1. CASE c = a
      <4>1. c = RepairLdpc + RepairHdpc + i <=> i = s  BY <2>1, <2>3, <3>1, RepairSizes
      <4>2. i = s => i # m /\ IndexOf(m, i) = d + 1  BY <1>1, OneMoreFound
      <4>. QED BY <2>2, <2>7, <3>1, <4>1, <4>2
    <3>2. CASE c # a
      <4>1. u[c][i] = t[c][i]  BY <2>7, <3>2
      <4>2. c = RepairLdpc + RepairHdpc + i => i # s  BY <2>3, <3>2
      <4>3. i # s /\ i # m => (IndexOf(m, i) <= d <=> IndexOf(m, i) <= d + 1)
        BY <1>1, OneMoreFound
      <4>. QED BY <4>1, <4>2, <4>3 DEF InItsPlace
    <3>. QED BY <3>1, <3>2
  <2>9. InItsPlace(u, m, d + 1)  BY <2>5, <2>7, <2>8 DEF InItsPlace, Vects
  <2>. QED BY <1>1, <1>3, <2>0, <2>3, <2>4, <2>9
<1>. QED BY <1>2, <1>3

\* With coefficients.
LEMMA TakeOutKeeps ==
  ASSUME Repair!RepairAssumption, RepairInv, Repair!TakeOut
  PROVE  RepairInv'
<1>1. /\ phase = "gather" /\ kind = "plan" /\ known # <<>> /\ known' = Tail(known)
      /\ missing_symbol' =
           IF Head(known)[1] >= K THEN missing_symbol
           ELSE Repair!VPlus(missing_symbol,
                  Repair!VTimes(Repair!RepairCoefficients(rows)[Head(known)[1]],
                                Repair!SymbolOfRow(Head(known)[2])))
      /\ UNCHANGED <<kind, isis, marked, phase, rows, symbols, known_symbols, decoded>>
  BY DEF Repair!TakeOut
<1>2. Gathered /\ symbols = Slab /\ Rows(isis)  BY <1>1 DEF RepairInv
<1>3. PICK m \in 0 .. KPrime - 1, r \in Repair!MatrixRow : m = rows.missing /\ r = rows.repair
  BY <1>2 DEF Gathered, Recognised
<1>4. PICK d \in Nat :
        /\ LeftToTake(known, m, r, d)
        /\ IsLost(isis, m) => StillHas(missing_symbol, kind, m, Repair!RepairCoefficients(rows), d)
  BY <1>2, <1>3 DEF Gathered
<1>5. /\ d + 1 \in 1 .. KPrime - 1
      /\ Head(known)[1] = Behind(m, d + 1) /\ Head(known)[2] = RowBehind(r, d + 1)
      /\ LeftToTake(known', m, r, d + 1)
  BY <1>1, <1>4, FirstLeft
<1>6. ASSUME IsLost(isis, m)
      PROVE  StillHas(missing_symbol', kind, m, Repair!RepairCoefficients(rows), d + 1)
  <2>1. PICK C \in Vect(Repair!Source) : C = Repair!RepairCoefficients(rows)
    BY <1>2, <1>3, RowsHaveIsis, RepairVectors, CoefficientsAre DEF Repair!RepairCoefficients
  <2>2. PICK s \in Nat : s = Behind(m, d + 1)  BY <1>5, Indexed, RepairSizes
  <2>3. missing_symbol' = IF s >= K THEN missing_symbol
                          ELSE Repair!VPlus(missing_symbol,
                                 Repair!VTimes(C[s], Repair!VUnit(Repair!Source, s)))
    <3>1. CASE s >= K  BY <1>1, <1>5, <2>2, <3>1
    <3>2. CASE ~(s >= K)
      <4>1. s < K  BY <3>2, RepairSizes
      <4>2. Repair!SymbolOfRow(RowBehind(r, d + 1)) = Repair!VUnit(Repair!Source, s)
        BY <1>2, <1>3, <1>5, <2>2, <4>1, SymbolOfFirst DEF Gathered
      <4>. QED BY <1>1, <1>5, <2>1, <2>2, <3>2, <4>2
    <3>. QED BY <3>1, <3>2
  <2>4. kind # "direct" /\ StillHas(missing_symbol, kind, m, C, d)  BY <1>1, <1>4, <1>6, <2>1
  <2>5. StillHas(IF s >= K THEN missing_symbol
                 ELSE Repair!VPlus(missing_symbol,
                        Repair!VTimes(C[s], Repair!VUnit(Repair!Source, s))), kind, m, C, d + 1)
    BY <1>5, <2>2, <2>4, OneTakenOut
  <2>. QED BY <2>1, <2>3, <2>5
<1>7. kind # "direct"  BY <1>1
<1>. QED BY <1>1, <1>3, <1>5, <1>6, <1>7, GatheringStays

\* Without.
LEMMA PutInPlaceKeeps ==
  ASSUME Repair!RepairAssumption, RepairInv, Repair!PutInPlace
  PROVE  RepairInv'
<1>1. /\ phase = "gather" /\ kind = "direct" /\ known # <<>> /\ known' = Tail(known)
      /\ known_symbols' =
           IF Head(known)[1] >= K THEN known_symbols
           ELSE [known_symbols EXCEPT ![RepairLdpc + RepairHdpc + Head(known)[1]]
                                        = Repair!SymbolOfRow(Head(known)[2])]
      /\ UNCHANGED <<kind, isis, marked, phase, rows, symbols, missing_symbol, decoded>>
  BY DEF Repair!PutInPlace
<1>2. Gathered /\ symbols = Slab /\ Rows(isis)  BY <1>1 DEF RepairInv
<1>3. PICK m \in 0 .. KPrime - 1, r \in Repair!MatrixRow : m = rows.missing /\ r = rows.repair
  BY <1>2 DEF Gathered, Recognised
<1>4. PICK d \in Nat :
        /\ LeftToTake(known, m, r, d)
        /\ IsLost(isis, m) =>
             /\ StillHas(missing_symbol, kind, m, Repair!RepairCoefficients(rows), d)
             /\ InItsPlace(known_symbols, m, d)
  BY <1>1, <1>2, <1>3 DEF Gathered
<1>5. /\ d + 1 \in 1 .. KPrime - 1
      /\ Head(known)[1] = Behind(m, d + 1) /\ Head(known)[2] = RowBehind(r, d + 1)
      /\ LeftToTake(known', m, r, d + 1)
  BY <1>1, <1>4, FirstLeft
<1>6. ASSUME IsLost(isis, m)
      PROVE  /\ StillHas(missing_symbol', kind, m, Repair!RepairCoefficients(rows), d + 1)
             /\ InItsPlace(known_symbols', m, d + 1)
  <2>1. StillHas(missing_symbol, kind, m, Repair!RepairCoefficients(rows), d + 1)
    BY <1>1, <1>4, <1>6 DEF StillHas
  <2>2. PICK s \in Nat : s = Behind(m, d + 1)  BY <1>5, Indexed, RepairSizes
  <2>3. known_symbols' = IF s >= K THEN known_symbols
                         ELSE [known_symbols EXCEPT ![RepairLdpc + RepairHdpc + s]
                                                      = Repair!VUnit(Repair!Source, s)]
    <3>1. CASE s >= K  BY <1>1, <1>5, <2>2, <3>1
    <3>2. CASE ~(s >= K)
      <4>1. s < K  BY <3>2, RepairSizes
      <4>2. Repair!SymbolOfRow(RowBehind(r, d + 1)) = Repair!VUnit(Repair!Source, s)
        BY <1>2, <1>3, <1>5, <2>2, <4>1, SymbolOfFirst DEF Gathered
      <4>. QED BY <1>1, <1>5, <2>2, <3>2, <4>2
    <3>. QED BY <3>1, <3>2
  <2>4. InItsPlace(IF s >= K THEN known_symbols
               ELSE [known_symbols EXCEPT ![RepairLdpc + RepairHdpc + s]
                                            = Repair!VUnit(Repair!Source, s)], m, d + 1)
    BY <1>4, <1>5, <1>6, <2>2, PutDown
  <2>. QED BY <1>1, <2>1, <2>3, <2>4
<1>. QED BY <1>1, <1>3, <1>5, <1>6, GatheringStays

\* Sums and multiples of vectors.
LEMMA VectorParts ==
  ASSUME NEW D, NEW p \in Vect(D), NEW v \in Vect(D), NEW c \in GF4
  PROVE  /\ Repair!VPlus(p, v) \in Vect(D)
         /\ \A d \in D : Repair!VPlus(p, v)[d] = Repair!FPlus(p[d], v[d])
         /\ Repair!VTimes(c, v) \in Vect(D)
         /\ \A d \in D : Repair!VTimes(c, v)[d] = Repair!FTimes(c, v[d])
<1>1. Repair!VTimes(c, v) = [d \in D |-> Repair!FTimes(c, v[d])]  BY DEF Repair!VTimes, Vect
<1>2. Repair!VPlus(p, v) = [d \in D |-> Repair!FPlus(p[d], v[d])]  BY DEF Repair!VPlus, Vect
<1>3. \A d \in D : p[d] \in GF4 /\ v[d] \in GF4  BY DEF Vect
<1>4. \A d \in D : Repair!FPlus(p[d], v[d]) \in GF4 /\ Repair!FTimes(c, v[d]) \in GF4
  BY <1>3, FourField DEF GF4
<1>. QED BY <1>1, <1>2, <1>4 DEF Vect

\* The repair symbol of the block put together has of every known symbol what
\* it should have, and nothing of the missing one.
LEMMA KnownRepair ==
  ASSUME Repair!RepairAssumption, Rows(isis), Recognised(rows), rows.missing < K, NEW d \in Nat,
         d >= K - 1, InItsPlace(known_symbols, rows.missing, d)
  PROVE  /\ Repair!known_repair_symbol \in Vect(Repair!Source)
         /\ \A i \in Repair!Source :
              Repair!known_repair_symbol[i]
                = IF i = rows.missing THEN Repair!Zero ELSE Repair!RepairCoefficients(rows)[i]
<1>1. PICK m \in 0 .. KPrime - 1, isi \in Repair!Isi :
        m = rows.missing /\ isi = Repair!RowIsi(rows.repair)
  BY RowsHaveIsis DEF Recognised
<1>2. PICK row \in Fours(Repair!L) : row = RepairRow[isi]  BY RepairVectors
<1>3. PICK w \in Nat \ {0} : w = Repair!L  BY RepairSizes
<1>4. Repair!Col = 0 .. w - 1  BY <1>3 DEF Repair!Col
<1>. DEFINE part(c) == Repair!Combination(InverseMatrix[c], known_symbols, w)
            intermediate == [c \in Repair!Col |-> part(c)]
<1>5. Repair!known_repair_symbol = Repair!Combination(row, intermediate, w)
  BY <1>1, <1>2, <1>3 DEF Repair!known_repair_symbol
<1>6. known_symbols \in Vects(w, Repair!Source)  BY <1>3 DEF InItsPlace
<1>7. \A c \in Repair!Col : InverseMatrix[c] \in Fours(w)  BY <1>3, RepairVectors
<1>8. \A c \in Repair!Col : part(c) \in Vect(Repair!Source)  BY <1>6, <1>7, FourCombination
<1>9. intermediate \in Vects(w, Repair!Source)
  <2>. HIDE DEF part
  <2>. QED BY <1>4, <1>8 DEF Vects
<1>10. \A c \in Repair!Col : intermediate[c] = part(c)  OBVIOUS
<1>11. row \in Fours(w)  BY <1>2, <1>3
<1>12. Repair!known_repair_symbol \in Vect(Repair!Source)
  <2>. HIDE DEF intermediate
  <2>. QED BY <1>5, <1>9, <1>11, FourCombination
<1>13. ASSUME NEW i \in Repair!Source, i = m PROVE Repair!known_repair_symbol[i] = Repair!Zero
  <2>1. \A c \in Repair!Col : known_symbols[c][i] = Repair!Zero  BY <1>1, <1>13 DEF InItsPlace
  <2>2. 0 \in 0 .. w - 1  OBVIOUS
  <2>3. ASSUME NEW c \in Repair!Col PROVE part(c)[i] = Repair!Zero
    <3>1. part(c)[i] = Repair!FTimes(InverseMatrix[c][0], known_symbols[0][i])
      BY <1>4, <1>6, <1>7, <2>1, <2>2, OneComponent
    <3>2. InverseMatrix[c][0] \in GF4  BY <1>7, <2>2 DEF Fours
    <3>3. known_symbols[0][i] = Repair!Zero  BY <1>4, <2>1, <2>2
    <3>. QED BY <3>1, <3>2, <3>3, FourField DEF GF4
  <2>4. \A c \in 0 .. w - 1 : intermediate[c][i] = Repair!Zero
    <3>. HIDE DEF part, intermediate
    <3>. QED BY <1>4, <1>10, <2>3
  <2>. HIDE DEF intermediate
  <2>5. Repair!Combination(row, intermediate, w)[i] = Repair!FTimes(row[0], intermediate[0][i])
    BY <1>9, <1>11, <2>2, <2>4, OneComponent
  <2>6. row[0] \in GF4  BY <1>11, <2>2 DEF Fours
  <2>. QED BY <1>5, <2>2, <2>4, <2>5, <2>6, FourField DEF GF4
<1>14. ASSUME NEW i \in Repair!Source, i # m
       PROVE  Repair!known_repair_symbol[i] = Repair!RepairCoefficients(rows)[i]
  <2>1. PICK a \in Repair!Col : a = RepairLdpc + RepairHdpc + i
    BY RepairSizes DEF Repair!Col
  <2>2. IndexOf(m, i) <= d
    <3>1. i \in 0 .. K - 1 /\ i \in 0 .. KPrime - 1  BY RepairSizes
    <3>2. IndexOf(m, i) <= K - 1 /\ IndexOf(m, i) \in 1 .. KPrime - 1
      BY <1>1, <1>14, <3>1, Indexed
    <3>. QED BY <3>2, RepairSizes
  <2>3. \A c \in Repair!Col : known_symbols[c][i] = IF c = a THEN Repair!One ELSE Repair!Zero
    BY <1>1, <1>14, <2>1, <2>2 DEF InItsPlace
  <2>4. ASSUME NEW c \in Repair!Col PROVE part(c)[i] = InverseMatrix[c][a]
    <3>1. part(c)[i] = Repair!FTimes(InverseMatrix[c][a], known_symbols[a][i])
      <4>1. a \in 0 .. w - 1 /\ \A k \in 0 .. w - 1 : k # a => known_symbols[k][i] = Repair!Zero
        BY <1>4, <2>3
      <4>. QED BY <1>6, <1>7, <4>1, OneComponent
    <3>2. InverseMatrix[c][a] \in GF4  BY <1>4, <1>7 DEF Fours
    <3>. QED BY <2>3, <3>1, <3>2, FourField DEF GF4
  <2>5. \A c \in 0 .. w - 1 : intermediate[c][i] = InverseMatrix[c][a]
    <3>. HIDE DEF part, intermediate
    <3>. QED BY <1>4, <1>10, <2>4
  <2>6. InverseMatrix \in Vects(w, Repair!Col)  BY <1>3, RepairVectors
  <2>. HIDE DEF intermediate
  <2>7. Repair!Combination(row, intermediate, w)[i] = Repair!Combination(row, InverseMatrix, w)[a]
    BY <1>9, <1>11, <2>5, <2>6, SameComponent
  <2>8. Repair!RepairCoefficients(rows)[i] = Repair!Combination(row, InverseMatrix, w)[a]
    BY <1>1, <1>2, <1>3, <2>1, CoefficientsAre DEF Repair!RepairCoefficients
  <2>. QED BY <1>5, <2>7, <2>8
<1>. QED BY <1>1, <1>12, <1>13, <1>14

\* What is left when every known symbol is taken out.
LEMMA RestIs ==
  ASSUME Repair!RepairAssumption, RepairInv, phase = "gather", known = <<>>,
         IsLost(isis, rows.missing)
  PROVE  LET rest == IF kind = "direct" THEN Repair!VPlus(missing_symbol, Repair!known_repair_symbol)
                     ELSE missing_symbol
         IN /\ rest \in Vect(Repair!Source)
            /\ \A i \in Repair!Source :
                 rest[i] = IF i = rows.missing THEN Repair!RepairCoefficients(rows)[rows.missing]
                           ELSE Repair!Zero
<1>1. Gathered /\ Rows(isis)  BY DEF RepairInv
<1>2. PICK m \in 0 .. KPrime - 1 : m = rows.missing /\ m < K  BY <1>1 DEF Gathered, Recognised
<1>3. PICK d \in Nat :
        /\ LeftToTake(known, m, rows.repair, d)
        /\ StillHas(missing_symbol, kind, m, Repair!RepairCoefficients(rows), d)
        /\ kind = "direct" => InItsPlace(known_symbols, m, d)
  BY <1>1, <1>2 DEF Gathered
<1>4. d >= K - 1
  <2>1. Len(known) = 0  OBVIOUS
  <2>2. d \in {K - 1, KPrime - 1}  BY <1>3, <2>1 DEF LeftToTake
  <2>. QED BY <2>2, RepairSizes
<1>5. PICK x \in Vect(Repair!Source) : x = missing_symbol  BY <1>3 DEF StillHas
<1>6. CASE kind = "direct"
  <2>1. \A i \in Repair!Source : x[i] = Repair!RepairCoefficients(rows)[i]
    BY <1>3, <1>5, <1>6 DEF StillHas
  <2>2. PICK z \in Vect(Repair!Source) :
          /\ z = Repair!known_repair_symbol
          /\ \A i \in Repair!Source :
               z[i] = IF i = m THEN Repair!Zero ELSE Repair!RepairCoefficients(rows)[i]
    BY <1>1, <1>2, <1>3, <1>4, <1>6, KnownRepair DEF Gathered
  <2>3. PICK v \in Vect(Repair!Source) :
          /\ v = Repair!VPlus(x, z)
          /\ \A i \in Repair!Source : v[i] = Repair!FPlus(x[i], z[i])
    BY FourField, VectorParts DEF GF4
  <2>4. \A i \in Repair!Source : x[i] \in GF4  BY DEF Vect
  <2>5. \A i \in Repair!Source :
          v[i] = IF i = m THEN Repair!RepairCoefficients(rows)[m] ELSE Repair!Zero
    BY <2>1, <2>2, <2>3, <2>4, FourField DEF GF4
  <2>. QED BY <1>2, <1>5, <1>6, <2>2, <2>3, <2>5
<1>7. CASE kind # "direct"
  <2>1. ASSUME NEW i \in Repair!Source, i # m PROVE ~(d < IndexOf(m, i))
    <3>1. i \in 0 .. K - 1 /\ i \in 0 .. KPrime - 1  BY RepairSizes
    <3>2. IndexOf(m, i) <= K - 1 /\ IndexOf(m, i) \in 1 .. KPrime - 1
      BY <1>2, <2>1, <3>1, Indexed
    <3>. QED BY <1>4, <3>2, RepairSizes
  <2>. QED BY <1>2, <1>3, <1>5, <1>7, <2>1 DEF StillHas
<1>. QED BY <1>6, <1>7

\* A row has a first column.
LEMMA RowLeads ==
  ASSUME Repair!RepairAssumption, NEW isi \in Repair!Isi
  PROVE  /\ Repair!LeadingColumn(RepairRow[isi]) \in Repair!Col
         /\ RepairRow[isi][Repair!LeadingColumn(RepairRow[isi])] = Repair!One
<1>1. /\ DOMAIN RepairRow[isi] = Repair!Col /\ Repair!Support(RepairRow[isi]) # {}
      /\ \A c \in Repair!Col : RepairRow[isi][c] \in {Repair!Zero, Repair!One}
  BY RepairVectors
<1>. DEFINE T == Repair!Support(RepairRow[isi])
<1>2. T = {i \in Repair!Col : RepairRow[isi][i] # Repair!Zero}  BY <1>1 DEF Repair!Support
<1>3. T \subseteq Nat  BY <1>2, RepairSizes DEF Repair!Col
<1>. HIDE DEF T
<1>4. \E p \in T : \A q \in T : p <= q  BY <1>1, <1>3, LeastNumber DEF T
<1>5. Repair!LeadingColumn(RepairRow[isi]) \in T  BY <1>4 DEF T, Repair!LeadingColumn
<1>. QED BY <1>1, <1>2, <1>5

\* From the stand-in the lost symbol is rebuilt.
LEMMA StandInRebuilds ==
  ASSUME Repair!RepairAssumption, NEW i \in Repair!Source, NEW x \in Vect(Repair!Source), NEW t,
         t = [c \in Repair!Col |-> IF c = Repair!LeadingColumn(RepairRow[i]) THEN x
                                   ELSE Repair!VZero(Repair!Source)]
  PROVE  Repair!Combination(RepairRow[i], t, Repair!L) = x
<1>1. i \in Repair!Isi  BY RepairSizes
<1>2. PICK a \in Repair!Col : a = Repair!LeadingColumn(RepairRow[i]) /\ RepairRow[i][a] = Repair!One
  BY <1>1, RowLeads
<1>3. PICK w \in Nat \ {0} : w = Repair!L /\ Repair!Col = 0 .. w - 1
  BY RepairSizes DEF Repair!Col
<1>4. PICK row \in Fours(w) : row = RepairRow[i]  BY <1>1, <1>3, RepairVectors
<1>5. Repair!VZero(Repair!Source) \in Vect(Repair!Source)
      /\ \A j \in Repair!Source : Repair!VZero(Repair!Source)[j] = Repair!Zero
  BY FourField DEF Repair!VZero, Vect, GF4
<1>6. \A c \in Repair!Col : t[c] = IF c = a THEN x ELSE Repair!VZero(Repair!Source)
  BY <1>2
<1>7. t \in Vects(w, Repair!Source)  BY <1>3, <1>5 DEF Vects
<1>8. ASSUME NEW j \in Repair!Source PROVE Repair!Combination(row, t, w)[j] = x[j]
  <2>1. a \in 0 .. w - 1 /\ \A k \in 0 .. w - 1 : k # a => t[k][j] = Repair!Zero
    BY <1>3, <1>5, <1>6
  <2>2. Repair!Combination(row, t, w)[j] = Repair!FTimes(row[a], t[a][j])
    BY <1>4, <1>7, <2>1, OneComponent
  <2>3. row[a] = Repair!One /\ t[a] = x /\ x[j] \in GF4  BY <1>2, <1>4, <1>6 DEF Vect
  <2>. QED BY <2>2, <2>3, FourField DEF GF4
<1>9. Repair!Combination(row, t, w) \in Vect(Repair!Source)  BY <1>7, FourCombination
<1>. QED BY <1>3, <1>4, <1>8, <1>9 DEF Vect

\* The rest is divided.
LEMMA DivideKeeps ==
  ASSUME Repair!RepairAssumption, RepairInv, Repair!Divide
  PROVE  RepairInv'
<1>. DEFINE rest == IF kind = "direct" THEN Repair!VPlus(missing_symbol, Repair!known_repair_symbol)
                    ELSE missing_symbol
<1>1. /\ phase = "gather" /\ known = <<>> /\ phase' = "decoded"
      /\ missing_symbol' = Repair!VTimes(Repair!FInverse(Repair!RepairCoefficients(rows)[rows.missing]), rest)
      /\ decoded' = [c \in Repair!Col |->
                       IF c = Repair!LeadingColumn(RepairRow[rows.missing]) THEN missing_symbol'
                       ELSE Repair!VZero(Repair!Source)]
      /\ UNCHANGED <<kind, isis, marked, rows, known, symbols, known_symbols>>
  BY DEF Repair!Divide, Repair!StandIn
<1>2. Gathered /\ Rows(isis)  BY <1>1 DEF RepairInv
<1>3. PICK m \in Repair!Source : m = rows.missing  BY <1>2, RepairSizes DEF Gathered, Recognised
<1>4. ASSUME IsLost(isis, m)
      PROVE  Repair!Combination(RepairRow[m], decoded', Repair!L) = Repair!VUnit(Repair!Source, m)
  <2>1. PICK z \in Vect(Repair!Source) :
          /\ z = rest
          /\ \A i \in Repair!Source :
               z[i] = IF i = m THEN Repair!RepairCoefficients(rows)[m] ELSE Repair!Zero
    BY <1>1, <1>3, <1>4, RestIs
  <2>2. PICK c \in GF4 : c = Repair!RepairCoefficients(rows)[m] /\ c # Repair!Zero
    BY <1>2, <1>3, <2>1 DEF Gathered, Vect
  <2>3. PICK b \in GF4 : b = Repair!FInverse(c) /\ Repair!FTimes(b, c) = Repair!One
    BY <2>2, FourInverse DEF GF4
  <2>4. PICK x \in Vect(Repair!Source) :
          x = Repair!VTimes(b, z) /\ \A i \in Repair!Source : x[i] = Repair!FTimes(b, z[i])
    BY VectorParts
  <2>5. x = Repair!VUnit(Repair!Source, m)
    <3>0. Repair!FTimes(b, Repair!Zero) = Repair!Zero  BY FourField DEF GF4
    <3>1. \A i \in Repair!Source : x[i] = IF i = m THEN Repair!One ELSE Repair!Zero
      BY <2>1, <2>2, <2>3, <2>4, <3>0
    <3>. QED BY <3>1 DEF Vect, Repair!VUnit
  <2>6. missing_symbol' = x  BY <1>1, <1>3, <2>1, <2>2, <2>3, <2>4
  <2>7. Repair!Combination(RepairRow[m], decoded', Repair!L) = x
    BY <1>1, <1>3, <2>6, StandInRebuilds
  <2>. QED BY <2>5, <2>7
<1>5. Repair!LostAreRebuilt'
  <2>1. Rows(isis)' /\ isis' = isis  BY <1>1, <1>2
  <2>2. ASSUME NEW i \in Repair!Source, i \notin Repair!Range(isis)'
        PROVE  Repair!Combination(RepairRow[i], decoded', Repair!L) = Repair!VUnit(Repair!Source, i)
    <3>1. IsLost(isis, i)  BY <2>1, <2>2, <1>2, LostRange
    <3>2. i = m  BY <1>2, <1>3, <3>1, LostIsMissing DEF Gathered
    <3>. QED BY <1>4, <3>1, <3>2
  <2>. QED BY <2>1, <2>2 DEF Repair!LostAreRebuilt, Repair!rebuild_source_symbol_into
<1>6. (kind \in {"plan", "direct"})' /\ (marked \in BOOLEAN)' /\ Rows(isis)' /\ (symbols = Slab)'
  BY <1>1, RowsStay DEF RepairInv, Rows
<1>7. Repair!TypeInv'  BY <1>1 DEF RepairInv, Repair!TypeInv
<1>. QED BY <1>1, <1>5, <1>6, <1>7 DEF RepairInv, Repair!TakenWhereItFits

\* A step that changes nothing.
LEMMA RepairStutters ==
  ASSUME RepairInv, UNCHANGED Repair!vars
  PROVE  RepairInv'
<1>1. UNCHANGED <<kind, isis, marked, phase, rows, known, symbols, known_symbols, missing_symbol,
                  decoded>>
  BY DEF Repair!vars
<1>2. (kind \in {"plan", "direct"})' /\ (marked \in BOOLEAN)' /\ Rows(isis)' /\ (symbols = Slab)'
  BY <1>1, RowsStay DEF RepairInv, Rows
<1>3. phase = "gather" => Gathered'
  <2>. SUFFICES ASSUME phase = "gather" PROVE Gathered'  OBVIOUS
  <2>1. Gathered  BY DEF RepairInv
  <2>2. PICK found : found = rows  OBVIOUS
  <2>3. Recognised(rows)' /\ Repair!RepairCoefficients(rows)' = Repair!RepairCoefficients(rows)
    BY <1>1, <2>1, <2>2, RecognisedStays DEF Gathered
  <2>. QED BY <1>1, <2>1, <2>3 DEF Gathered
<1>4. Repair!TypeInv' /\ Repair!LostAreRebuilt' /\ Repair!TakenWhereItFits'
  BY <1>1, RowsStay DEF RepairInv, Repair!TypeInv, Repair!LostAreRebuilt, Repair!TakenWhereItFits,
     Repair!rebuild_source_symbol_into
<1>. QED BY <1>1, <1>2, <1>3, <1>4 DEF RepairInv

\* Every step of SingleRepair keeps its invariant.
LEMMA RepairKept ==
  ASSUME Repair!RepairAssumption, RepairInv, [Repair!Next]_(Repair!vars)
  PROVE  RepairInv'
<1>1. CASE Repair!Answered
  <2>1. UNCHANGED Repair!vars  BY <1>1 DEF Repair!Answered
  <2>. QED BY <2>1, RepairStutters
<1>. QED BY <1>1, RepairStutters, RecogniseKeeps, TakeOutKeeps, PutInPlaceKeeps, DivideKeeps
        DEF Repair!Next

-----------------------------------------------------------------------------
\* What the routines keep: the invariants of PrefixSolve and of SingleRepair.
RoutinesInv ==
  /\ subject = "Prefixes" => PrefixInv
  /\ subject = "Repair" => RepairInv

\* A behaviour of another system leaves both out.
LEMMA RoutinesKept ==
  /\ MCInit => RoutinesInv
  /\ RoutinesInv /\ [MCNext]_MCvars => RoutinesInv'
<1>1. Prefixes!ShapesAssumption /\ Repair!RepairAssumption
  BY RoutinesAssumption DEF RoutinesAssumption
<1>2. MCInit => RoutinesInv
  <2>1. MCInit => /\ subject = "Prefixes" => Prefixes!Init
                  /\ subject = "Repair" => Repair!Init
    BY DEF MCInit
  <2>. QED BY <1>1, <2>1, PrefixStarts, RepairStarts DEF RoutinesInv
<1>3. ASSUME RoutinesInv, [MCNext]_MCvars PROVE RoutinesInv'
  <2>1. CASE PrefixesStep
    <3>1. subject = "Prefixes" /\ subject' = subject /\ Prefixes!Next  BY <2>1 DEF PrefixesStep
    <3>. QED BY <1>1, <1>3, <3>1, PrefixKept DEF RoutinesInv
  <2>2. CASE RepairStep
    <3>1. subject = "Repair" /\ subject' = subject /\ Repair!Next  BY <2>2 DEF RepairStep
    <3>. QED BY <1>1, <1>3, <3>1, RepairKept DEF RoutinesInv
  <2>3. CASE UNCHANGED MCvars
    <3>1. subject' = subject /\ UNCHANGED Prefixes!vars /\ UNCHANGED Repair!vars
      BY <2>3 DEF MCvars, Prefixes!vars, Prefixes!system, Repair!vars
    <3>. QED BY <1>1, <1>3, <3>1, PrefixKept, RepairKept DEF RoutinesInv
  <2>4. CASE MCNext /\ ~PrefixesStep /\ ~RepairStep
    <3>1. subject \notin {"Prefixes", "Repair"} /\ subject' = subject
      BY <2>4 DEF MCNext, SharedStep
    <3>. QED BY <3>1 DEF RoutinesInv
  <2>. QED BY <1>3, <2>1, <2>2, <2>3, <2>4
<1>. QED BY <1>2, <1>3

\* For any number of rows and columns, and in each of the three ways: what is
\* decoded by the prefix and its comparisons satisfies all rows; a system is
\* given up only when it has no single solution that the HDPC rows agree with;
\* and all rows are only ever solved from the symbols as they were received
\* (pi_solver.rs 5337-5777).
THEOREM PrefixCorrect == MCSpec => []PrefixLosesNothing
<1>1. ASSUME RoutinesInv PROVE PrefixLosesNothing
  BY <1>1 DEF RoutinesInv, PrefixInv, PrefixLosesNothing
<1>. QED BY <1>1, RoutinesKept, PTL DEF MCSpec

\* For any numbers of source symbols and rows, any rows without equals among
\* the ISIs, and any order in which rows come: the source symbol that is lost
\* is rebuilt from the stand-in, by either way of taking out what is known,
\* and rows in order, with a repair symbol last that tells the lost one, are
\* never turned away (pi_solver.rs 7689-8060, decoder.rs 201-245).
THEOREM RepairCorrect == MCSpec => []LostSymbolIsRebuilt
<1>1. ASSUME RoutinesInv PROVE LostSymbolIsRebuilt
  BY <1>1 DEF RoutinesInv, RepairInv, LostSymbolIsRebuilt
<1>. QED BY <1>1, RoutinesKept, PTL DEF MCSpec
=============================================================================
