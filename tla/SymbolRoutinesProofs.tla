------------------------ MODULE SymbolRoutinesProofs ------------------------
(***************************************************************************)
(* What is done to symbols, for systems, lists, slabs, batches, slices and *)
(* columns of any length: solving in one stage finds the one solution,     *)
(* batches are single additions, whatever their widths, plan operations    *)
(* too, and kernels update every byte once.  Each has an inductive         *)
(* invariant that says how far it has come and that what is done so far is *)
(* right; the steps of a behaviour are those of one of them.               *)
(***************************************************************************)
EXTENDS MCSymbolRoutines, SequenceTheorems, FiniteSetTheorems,
        WellFoundedInduction, TLAPS

-----------------------------------------------------------------------------
(* Induction and recursion over the natural numbers, stated with sets and  *)
(* functions: the library's induction theorems take an operator as a       *)
(* parameter, which the provers cannot instantiate.                        *)

\* A set of numbers has a least member.
LEMMA LeastNumber ==
  ASSUME NEW T, T \subseteq Nat, T # {}
  PROVE  \E p \in T : \A q \in T : p <= q
<1>1. PICK p \in T : \A q \in T : ~(<<q, p>> \in OpToRel(<, Nat))  BY WFMin, NatLessThanWellFounded
<1>2. \A q \in T : ~(q < p)  BY <1>1 DEF OpToRel
<1>. QED BY <1>2

\* Induction over the numbers: a set that holds 0 and with n also n + 1 holds
\* them all.
LEMMA SetInduction ==
  ASSUME NEW P, 0 \in P, \A n \in Nat : n \in P => n + 1 \in P
  PROVE  \A n \in Nat : n \in P
<1>. DEFINE T == {n \in Nat : n \notin P}
<1>. SUFFICES ASSUME T # {} PROVE FALSE  OBVIOUS
<1>1. PICK p \in T : \A q \in T : p <= q  BY LeastNumber
<1>2. p # 0  OBVIOUS
<1>3. p - 1 \in Nat /\ p - 1 \notin T  BY <1>1, <1>2
<1>4. (p - 1) + 1 \in P  BY <1>3
<1>. QED BY <1>4

\* f starts with base, and step e makes f[e] of f[e - 1] by G.
Recurs(f, X, base, n, G) ==
  f \in [0 .. n -> X] /\ f[0] = base /\ \A e \in 1 .. n : f[e] = G[<<e, f[e - 1]>>]

\* Recursion over 0 .. n has a solution.
LEMMA Recursion ==
  ASSUME NEW X, NEW base, NEW n, NEW G, base \in X, n \in Nat, G \in [(1 .. n) \X X -> X]
  PROVE  \E f : Recurs(f, X, base, n, G)
<1>. DEFINE Good(m, f) == f[0] = base /\ \A e \in 1 .. m : f[e] = G[<<e, f[e - 1]>>]
            P == {m \in Nat : m <= n => \E f \in [0 .. m -> X] : Good(m, f)}
<1>1. 0 \in P
  <2>1. [e \in 0 .. 0 |-> base] \in [0 .. 0 -> X] /\ Good(0, [e \in 0 .. 0 |-> base])  OBVIOUS
  <2>. QED BY <2>1
<1>2. ASSUME NEW m \in Nat, m \in P PROVE m + 1 \in P
  <2>. SUFFICES ASSUME m + 1 <= n PROVE \E f \in [0 .. m + 1 -> X] : Good(m + 1, f)  OBVIOUS
  <2>1. PICK f \in [0 .. m -> X] : Good(m, f)  BY <1>2
  <2>. DEFINE g == [e \in 0 .. m + 1 |-> IF e = m + 1 THEN G[<<m + 1, f[m]>>] ELSE f[e]]
  <2>2. <<m + 1, f[m]>> \in (1 .. n) \X X  BY <2>1
  <2>3. g \in [0 .. m + 1 -> X]  BY <2>1, <2>2
  <2>4. g[0] = base  BY <2>1
  <2>5. ASSUME NEW e \in 1 .. m + 1 PROVE g[e] = G[<<e, g[e - 1]>>]
    <3>1. CASE e = m + 1
      <4>1. e - 1 = m /\ g[e - 1] = f[m] /\ g[e] = G[<<m + 1, f[m]>>]  BY <3>1
      <4>. QED BY <3>1, <4>1
    <3>2. CASE e # m + 1
      <4>1. e \in 1 .. m /\ g[e] = f[e] /\ g[e - 1] = f[e - 1]  BY <3>2
      <4>. QED BY <2>1, <4>1
    <3>. QED BY <3>1, <3>2
  <2>. QED BY <2>3, <2>4, <2>5
<1>. HIDE DEF P
<1>3. n \in P  BY <1>1, <1>2, SetInduction
<1>. QED BY <1>3 DEF P, Recurs

\* Functions that agree everywhere are equal.
LEMMA SameFunction ==
  ASSUME NEW S, NEW T, NEW f, NEW g, f \in [S -> T], g \in [S -> T], \A p \in S : f[p] = g[p]
  PROVE  f = g
OBVIOUS

\* Going up to a number.
LEMMA UpTo ==
  ASSUME NEW P, NEW w \in Nat, 0 \in P, \A k \in 0 .. w - 1 : k \in P => k + 1 \in P
  PROVE  \A k \in 0 .. w : k \in P
<1>. DEFINE T == {k \in Nat : k <= w => k \in P}
<1>1. 0 \in T  OBVIOUS
<1>2. ASSUME NEW k \in Nat, k \in T PROVE k + 1 \in T
  <2>. SUFFICES ASSUME k + 1 <= w PROVE k + 1 \in P  OBVIOUS
  <2>1. k \in 0 .. w - 1 /\ k \in P  BY <1>2
  <2>. QED BY <2>1
<1>. HIDE DEF T
<1>3. \A k \in Nat : k \in T  BY <1>1, <1>2, SetInduction
<1>. QED BY <1>3 DEF T

\* Counting the members of sets of numbers.
LEMMA CountingSets ==
  ASSUME NEW m \in Nat
  PROVE  /\ Cardinality({}) = 0 /\ Cardinality(0 .. m - 1) = m
         /\ \A S \in SUBSET (0 .. m - 1) : /\ Cardinality(S) \in Nat
                                           /\ Cardinality(S \cup {m}) = Cardinality(S) + 1
<1>1. IsFiniteSet(0 .. m - 1)
      /\ Cardinality(0 .. m - 1) = IF 0 > m - 1 THEN 0 ELSE (m - 1) - 0 + 1
  BY FS_Interval
<1>2. Cardinality({}) = 0  BY FS_EmptySet
<1>3. ASSUME NEW S \in SUBSET (0 .. m - 1)
      PROVE  Cardinality(S) \in Nat /\ Cardinality(S \cup {m}) = Cardinality(S) + 1
  <2>1. IsFiniteSet(S)  BY <1>1, FS_Subset
  <2>2. m \notin S  OBVIOUS
  <2>3. Cardinality(S) \in Nat  BY <2>1, FS_CardinalityType
  <2>4. IsFiniteSet(S \cup {m})
          /\ Cardinality(S \cup {m}) = IF m \in S THEN Cardinality(S) ELSE Cardinality(S) + 1
    BY <2>1, FS_AddElement
  <2>. QED BY <2>2, <2>3, <2>4
<1>. QED BY <1>1, <1>2, <1>3

-----------------------------------------------------------------------------
(* The kernels.                                                            *)

\* What every call of the list of calls has: factors for its destinations, one
\* where it has none of its own, and one source, one destination or none as its
\* name says.
CallOk(c) ==
  /\ c.dests \in Nat /\ c.sources \in Nat /\ c.factors \in [1 .. c.dests -> Kernels!F]
  /\ c.name \in {"add", "mul", "alpha", "alpha_xor_2", "column", "is_zero", "add_check",
       "xor_is_zero", "mulassign"}
  /\ c.name \in {"add", "add_check", "alpha", "alpha_xor_2"} =>
       \A r \in 1 .. c.dests : c.factors[r] = Kernels!One
  /\ c.name \in {"mul", "column", "alpha", "alpha_xor_2"} => c.sources = 1
  /\ c.name \in {"is_zero", "xor_is_zero"} => c.dests = 0
  /\ c.name \in {"mul", "mulassign"} => c.dests = 1
  /\ c.name = "mulassign" => c.sources = 0

\* Every call considered is of that form.
LEMMA CallsAreOk ==
  ASSUME Kernels!KernelAssumption, NEW c \in Kernels!Updates \cup Kernels!Tests PROVE CallOk(c)
<1>. USE DEF Kernels!KernelAssumption, CallOk, Kernels!Call, Kernels!Ones, Kernels!F,
       Kernels!One, Kernels!Zero
<1>1. CASE \E n \in DestCounts : c = Kernels!Call("add", n, 1, Kernels!Ones(n))  BY <1>1
<1>2. CASE \E n \in SourceCounts : c = Kernels!Call("add", 1, n, Kernels!Ones(1))  BY <1>2
<1>3. CASE \E f \in Kernels!F : c = Kernels!Call("mul", 1, 1, <<f>>)  BY <1>3
<1>4. CASE c = Kernels!Call("alpha", 1, 1, Kernels!Ones(1))  BY <1>4
<1>9. CASE c = Kernels!Call("alpha_xor_2", 3, 1, Kernels!Ones(3))  BY <1>9
<1>5. CASE \E k \in Coefficients : c = Kernels!Call("column", Len(k), 1, k)
  <2>1. PICK k \in Coefficients : c = Kernels!Call("column", Len(k), 1, k)  BY <1>5
  <2>2. k \in [1 .. Len(k) -> Kernels!F] /\ Len(k) \in Nat  OBVIOUS
  <2>. QED BY <2>1, <2>2
<1>6. CASE c = Kernels!Call("is_zero", 0, 1, <<>>)  BY <1>6
<1>10. CASE c = Kernels!Call("add_check", 1, 1, Kernels!Ones(1))  BY <1>10
<1>7. CASE \E n \in SourceCounts : c = Kernels!Call("xor_is_zero", 0, n, <<>>)  BY <1>7
<1>8. CASE \E f \in Kernels!F : c = Kernels!Call("mulassign", 1, 0, <<f>>)  BY <1>8
<1>. QED BY <1>1, <1>2, <1>3, <1>4, <1>5, <1>6, <1>7, <1>8, <1>9, <1>10 DEF Kernels!Updates,
       Kernels!Tests

\* ColumnRows, which a loop over the coefficients builds, names every row whose
\* coefficient is not zero.
LEMMA RowsOfColumn ==
  ASSUME CallOk(call)
  PROVE  \A r \in 1 .. call.dests :
           call.factors[r] # Kernels!Zero =>
             \E k \in DOMAIN Kernels!ColumnRows : Kernels!ColumnRows[k] = r
<1>. DEFINE n == call.dests
            Step(r, s) == IF call.factors[r] = Kernels!Zero THEN s ELSE Append(s, r)
            G == [p \in (1 .. n) \X Seq(Nat) |-> Step(p[1], p[2])]
            Eqn(f) == f = [r \in 0 .. n |->
                 IF r = 0 THEN <<>> ELSE
                 IF call.factors[r] = Kernels!Zero THEN f[r - 1] ELSE Append(f[r - 1], r)]
            u == CHOOSE g : Eqn(g)
<1>1. n \in Nat  BY DEF CallOk
<1>7. Kernels!ColumnRows = u[n]  BY DEF Kernels!ColumnRows
<1>. HIDE DEF n
<1>2. G \in [(1 .. n) \X Seq(Nat) -> Seq(Nat)]
  <2>1. ASSUME NEW p \in (1 .. n) \X Seq(Nat) PROVE Step(p[1], p[2]) \in Seq(Nat)
    <3>1. p[1] \in Nat /\ p[2] \in Seq(Nat)  BY <1>1
    <3>. QED BY <3>1
  <2>. QED BY <2>1
<1>. HIDE DEF G
<1>3. PICK f \in [0 .. n -> Seq(Nat)] : f[0] = <<>>
      /\ \A i \in 1 .. n : f[i] = G[<<i, f[i - 1]>>]
  <2>. DEFINE X == Seq(Nat)
              e == <<>>
  <2>1. e \in X  OBVIOUS
  <2>2. G \in [(1 .. n) \X X -> X]  BY <1>2
  <2>. HIDE DEF X, e
  <2>3. PICK f : Recurs(f, X, e, n, G)  BY <1>1, <2>1, <2>2, Recursion
  <2>. QED BY <2>3 DEF X, e, Recurs
<1>4. \A i \in 1 .. n : f[i] = Step(i, f[i - 1])
  <2>. TAKE i \in 1 .. n
  <2>1. <<i, f[i - 1]>> \in (1 .. n) \X Seq(Nat)  BY <1>1, <1>3
  <2>. QED BY <1>3, <2>1 DEF G
<1>5. Eqn(f)
  <2>1. \A r \in 0 .. n : f[r] = IF r = 0 THEN <<>> ELSE Step(r, f[r - 1])
    <3>1. ASSUME NEW r \in 0 .. n, r # 0 PROVE f[r] = Step(r, f[r - 1])
      <4>1. r \in 1 .. n  BY <1>1, <3>1
      <4>. QED BY <1>4, <4>1
    <3>. QED BY <1>3, <3>1
  <2>. QED BY <1>3, <2>1
<1>6. Eqn(u)  BY <1>5
<1>. HIDE DEF u
<1>8. u[0] = <<>> /\ \A i \in 1 .. n : u[i] = Step(i, u[i - 1])
  <2>. DEFINE E(g, r) == IF r = 0 THEN <<>> ELSE IF call.factors[r] = Kernels!Zero
         THEN g[r - 1] ELSE Append(g[r - 1], r)
  <2>1. \A r \in 0 .. n : u[r] = E(u, r)
    <3>1. u = [r \in 0 .. n |-> E(u, r)]  BY <1>6
    <3>. HIDE DEF E
    <3>. QED BY <3>1
  <2>2. \A i \in 1 .. n : i # 0 /\ i \in 0 .. n  BY <1>1
  <2>. QED BY <1>1, <2>1, <2>2
<1>. HIDE DEF Eqn
<1>. DEFINE Has(m) == /\ u[m] \in Seq(Nat)
                      /\ \A r \in 1 .. m : call.factors[r] # Kernels!Zero =>
                           \E k \in 1 .. Len(u[m]) : u[m][k] = r
            P == {m \in Nat : m <= n => Has(m)}
<1>9. 0 \in P
  <2>1. u[0] \in Seq(Nat)  BY <1>8
  <2>2. Has(0)  BY <2>1
  <2>. QED BY <2>2
<1>10. ASSUME NEW m \in Nat, m <= n => Has(m), m + 1 <= n PROVE Has(m + 1)
  <2>1. u[m] \in Seq(Nat) /\ u[m + 1] = Step(m + 1, u[m])
    <3>1. m + 1 \in 1 .. n /\ m <= n /\ (m + 1) - 1 = m  BY <1>1, <1>10
    <3>. QED BY <1>8, <1>10, <3>1
  <2>2. \A r \in 1 .. m : call.factors[r] # Kernels!Zero =>
          \E k \in 1 .. Len(u[m]) : u[m][k] = r
    BY <1>1, <1>10
  <2>3. CASE call.factors[m + 1] = Kernels!Zero
    <3>1. u[m + 1] = u[m]  BY <2>1, <2>3
    <3>2. \A r \in 1 .. m + 1 : call.factors[r] # Kernels!Zero => r \in 1 .. m  BY <2>3
    <3>. QED BY <2>1, <2>2, <3>1, <3>2
  <2>4. CASE call.factors[m + 1] # Kernels!Zero
    <3>1. u[m + 1] = Append(u[m], m + 1)  BY <2>1, <2>4
    <3>2. Len(u[m + 1]) = Len(u[m]) + 1 /\ u[m + 1][Len(u[m]) + 1] = m + 1
          /\ \A k \in 1 .. Len(u[m]) : u[m + 1][k] = u[m][k]  BY <2>1, <3>1
    <3>3. ASSUME NEW r \in 1 .. m + 1, call.factors[r] # Kernels!Zero
          PROVE \E k \in 1 .. Len(u[m + 1]) : u[m + 1][k] = r
      <4>1. CASE r = m + 1  BY <2>1, <3>2, <4>1
      <4>2. CASE r # m + 1
        <5>1. r \in 1 .. m  BY <4>2
        <5>2. PICK k \in 1 .. Len(u[m]) : u[m][k] = r  BY <2>2, <3>3, <5>1
        <5>3. k \in 1 .. Len(u[m + 1]) /\ u[m + 1][k] = r  BY <2>1, <3>2, <5>2
        <5>. QED BY <5>3
      <4>. QED BY <4>1, <4>2
    <3>. QED BY <2>1, <3>1, <3>3
  <2>. QED BY <2>3, <2>4
<1>. HIDE DEF Has
<1>11. \A m \in Nat : m \in P => m + 1 \in P  BY <1>10
<1>. HIDE DEF P
<1>12. n \in P  BY <1>1, <1>9, <1>11, SetInduction
<1>13. Has(n)  BY <1>1, <1>12 DEF P
<1>. QED BY <1>1, <1>7, <1>13 DEF Has, n

\* A row of a column is updated with its own coefficient, also after rows that
\* are skipped.
LEMMA ColumnRowUpdate ==
  ASSUME CallOk(call), call.name = "column", NEW r \in 1 .. call.dests, NEW o
  PROVE  Kernels!VectorUpdate(r, o) =
           Kernels!Plus(bytes[r][o], Kernels!Times(call.factors[r], Kernels!Source(1, o)))
<1>. DEFINE n == call.dests
<1>1. CASE \E k \in DOMAIN Kernels!ColumnRows : Kernels!ColumnRows[k] = r
  <2>. DEFINE k == CHOOSE k \in DOMAIN Kernels!ColumnRows : Kernels!ColumnRows[k] = r
  <2>1. Kernels!ColumnRows[k] = r  BY <1>1
  <2>2. Kernels!ColumnUpdate(r, o) =
          Kernels!Plus(bytes[r][o], Kernels!Times(Kernels!Table(k), Kernels!Source(1, o)))
    BY <1>1 DEF Kernels!ColumnUpdate
  <2>3. Kernels!Table(k) = call.factors[r]  BY <2>1 DEF Kernels!Table
  <2>. QED BY <2>2, <2>3 DEF Kernels!VectorUpdate
<1>2. CASE ~ \E k \in DOMAIN Kernels!ColumnRows : Kernels!ColumnRows[k] = r
  <2>1. call.factors[r] = Kernels!Zero  BY <1>2, RowsOfColumn
  <2>2. Kernels!ColumnUpdate(r, o) = bytes[r][o]  BY <1>2 DEF Kernels!ColumnUpdate
  <2>3. Kernels!Plus(bytes[r][o], {}) = bytes[r][o]  BY DEF Kernels!Plus
  <2>. QED BY <2>1, <2>2, <2>3 DEF Kernels!VectorUpdate, Kernels!Times
<1>. QED BY <1>1, <1>2

\* A vector does to its bytes what the single bytes of the rest are done.
LEMMA VectorsAreBytes ==
  ASSUME CallOk(call), NEW r \in 1 .. call.dests, NEW o
  PROVE  Kernels!VectorUpdate(r, o) = Kernels!ByteUpdate(r, o)
<1>1. CASE call.name = "column"
  <2>1. Kernels!VectorUpdate(r, o) =
          Kernels!Plus(bytes[r][o], Kernels!Times(call.factors[r], Kernels!Source(1, o)))
    BY <1>1, ColumnRowUpdate
  <2>2. Kernels!ByteUpdate(r, o) =
          Kernels!Plus(bytes[r][o], Kernels!Times(call.factors[r], Kernels!Source(1, o)))
    BY <1>1 DEF Kernels!ByteUpdate
  <2>. QED BY <2>1, <2>2
<1>2. CASE call.name # "column"  BY <1>2 DEF Kernels!VectorUpdate
<1>. QED BY <1>1, <1>2

\* A byte that is updated from the bytes that the destinations began with becomes
\* what it should.
LEMMA UpdateIsWanted ==
  ASSUME CallOk(call), NEW r \in 1 .. call.dests, NEW o,
         \A q \in 1 .. call.dests : bytes[q][o] = Kernels!Old(q, o)
  PROVE  Kernels!ByteUpdate(r, o) = Kernels!Wanted(r, o)
<1>. DEFINE A == Kernels!Old(r, o)
<1>0. call.dests \in Nat /\ call.sources \in Nat /\ bytes[r][o] = Kernels!Old(r, o)
  BY DEF CallOk
<1>1. CASE call.name = "mulassign"  BY <1>0, <1>1 DEF Kernels!ByteUpdate, Kernels!Wanted
<1>. DEFINE d1 == <<<<"dest", 1, o>>, Kernels!Alpha>>
            s1 == <<<<"source", 1, o>>, Kernels!One>>
<1>2. ASSUME call.name \in {"alpha", "alpha_xor_2"} PROVE Kernels!Prefix(o) = {d1, s1}
  <2>1. bytes[1][o] = Kernels!Old(1, o)  BY <1>0, <1>2 DEF CallOk
  <2>2. Kernels!FTimes(Kernels!Alpha, Kernels!One) = Kernels!Alpha
    BY DEF Kernels!FTimes, Kernels!Alpha, Kernels!One
  <2>3. Kernels!Times(Kernels!Alpha, Kernels!Old(1, o)) = {d1}
    BY <2>2 DEF Kernels!Times, Kernels!Old, Kernels!Alpha, Kernels!Zero
  <2>4. d1 # s1  OBVIOUS
  <2>. QED BY <2>1, <2>3, <2>4 DEF Kernels!Prefix, Kernels!Plus, Kernels!Source
<1>3. CASE call.name = "alpha" \/ (call.name = "alpha_xor_2" /\ r = 1)
  BY <1>2, <1>3 DEF Kernels!ByteUpdate, Kernels!Wanted
<1>4. CASE call.name = "alpha_xor_2" /\ r # 1
  <2>1. Kernels!ByteUpdate(r, o) = Kernels!Plus(Kernels!Old(r, o), {d1, s1})
    BY <1>0, <1>2, <1>4 DEF Kernels!ByteUpdate
  <2>2. Kernels!Old(r, o) \cap {d1, s1} = {}  BY <1>4 DEF Kernels!Old
  <2>3. Kernels!Plus(Kernels!Old(r, o), {d1, s1}) = Kernels!Old(r, o) \cup {d1, s1}
    BY <2>2 DEF Kernels!Plus
  <2>. QED BY <1>4, <2>1, <2>3 DEF Kernels!Wanted
<1>5. CASE call.name \in {"mul", "column"}
  <2>1. Kernels!ByteUpdate(r, o) =
          Kernels!Plus(Kernels!Old(r, o), Kernels!Times(call.factors[r], Kernels!Source(1, o)))
    BY <1>0, <1>5 DEF Kernels!ByteUpdate
  <2>2. Kernels!Old(r, o) \cap Kernels!Times(call.factors[r], Kernels!Source(1, o)) = {}
    BY DEF Kernels!Old, Kernels!Source, Kernels!Times
  <2>3. Kernels!ByteUpdate(r, o) = Kernels!Old(r, o)
          \cup Kernels!Times(call.factors[r], Kernels!Source(1, o))
    BY <2>1, <2>2 DEF Kernels!Plus
  <2>4. UNION {Kernels!Times(call.factors[r], Kernels!Source(s, o)) :
          s \in 1 .. call.sources} = Kernels!Times(call.factors[r], Kernels!Source(1, o))
    <3>1. 1 .. call.sources = {1}  BY <1>5 DEF CallOk
    <3>. QED BY <3>1
  <2>5. Kernels!Wanted(r, o) = Kernels!Old(r, o)
          \cup UNION {Kernels!Times(call.factors[r], Kernels!Source(s, o)) :
            s \in 1 .. call.sources}
    BY <1>5 DEF Kernels!Wanted
  <2>. QED BY <2>3, <2>4, <2>5
<1>6. CASE call.name \notin {"mulassign", "alpha", "alpha_xor_2", "mul", "column"}
  <2>1. Kernels!ByteUpdate(r, o) = Kernels!Plus(Kernels!Old(r, o), Kernels!SourceSum(o))
    BY <1>0, <1>6 DEF Kernels!ByteUpdate
  <2>2. Kernels!Old(r, o) \cap Kernels!SourceSum(o) = {}  BY DEF Kernels!Old, Kernels!SourceSum
  <2>3. Kernels!ByteUpdate(r, o) = Kernels!Old(r, o) \cup Kernels!SourceSum(o)
    BY <2>1, <2>2 DEF Kernels!Plus
  <2>4. call.factors[r] = Kernels!One  BY <1>0, <1>6 DEF CallOk
  <2>5. \A s \in 1 .. call.sources : Kernels!Times(Kernels!One, Kernels!Source(s, o)) =
          Kernels!Source(s, o)
    BY DEF Kernels!Times, Kernels!Source, Kernels!One, Kernels!Zero, Kernels!FTimes
  <2>6. UNION {Kernels!Times(call.factors[r], Kernels!Source(s, o)) :
          s \in 1 .. call.sources} = Kernels!SourceSum(o)
    <3>1. UNION {Kernels!Times(call.factors[r], Kernels!Source(s, o)) : s \in 1 .. call.sources}
            = UNION {Kernels!Source(s, o) : s \in 1 .. call.sources}  BY <2>4, <2>5
    <3>. QED BY <3>1 DEF Kernels!Source, Kernels!SourceSum
  <2>7. Kernels!Wanted(r, o) = Kernels!Old(r, o)
          \cup UNION {Kernels!Times(call.factors[r], Kernels!Source(s, o)) :
            s \in 1 .. call.sources}
    BY <1>6 DEF Kernels!Wanted
  <2>. QED BY <2>3, <2>6, <2>7
<1>. QED BY <1>1, <1>3, <1>4, <1>5, <1>6

\* The calls that answer.
Tested == {"is_zero", "xor_is_zero", "add_check"}

\* The state of a call, of which TypeInv and StaysInside are parts.
KernelsTyped ==
  /\ call \in Kernels!Updates \cup Kernels!Tests
  /\ len \in Nat /\ len <= SliceMaxLen /\ offset \in 0 .. len
  /\ DOMAIN bytes = 1 .. call.dests
  /\ \A r \in DOMAIN bytes : DOMAIN bytes[r] = 0 .. len - 1
  /\ phase \in {"start", "checked", "vectors", "rest", "done"}
  /\ verdict \in {"none", "zero", "nonzero"}
  /\ nonzero \subseteq 0 .. len - 1
  /\ touched \subseteq 0 .. len - 1
  /\ seen \in BOOLEAN

\* Nothing that is not zero lies among the bytes that a test has passed without
\* returning, and a checked addition remembers whether something did.
BytesPassed ==
  /\ phase = "start" => offset = 0 /\ ~seen
  /\ phase = "checked" => call.name = "is_zero" /\ ~seen
  /\ phase \in {"checked", "vectors", "rest"} =>
       /\ call.name \in {"is_zero", "xor_is_zero"} => nonzero \cap (0 .. offset - 1) = {}
       /\ call.name = "add_check" => (seen <=> nonzero \cap (0 .. offset - 1) # {})

\* Where a call is, what it has passed, and that its bytes are updated up to the
\* offset.
KernelsInv == KernelsTyped /\ BytesPassed /\ Kernels!EachByteOnce /\ Kernels!VerdictIsRight

\* A call begins with nothing done.
LEMMA KernelsInit == ASSUME Kernels!KernelAssumption, Kernels!Init PROVE KernelsInv
<1>1. CallOk(call)  BY CallsAreOk DEF Kernels!Init
<1>2. KernelsTyped
  <2>1. call.dests \in Nat /\ SliceMaxLen \in Nat  BY <1>1 DEF CallOk, Kernels!KernelAssumption
  <2>2. call \in Kernels!Updates \cup Kernels!Tests /\ len \in Nat /\ len <= SliceMaxLen
        /\ offset \in 0 .. len /\ nonzero \subseteq 0 .. len - 1
    BY <2>1 DEF Kernels!Init
  <2>. QED BY <2>1, <2>2 DEF Kernels!Init, KernelsTyped
<1>3. BytesPassed /\ Kernels!VerdictIsRight
  BY DEF Kernels!Init, BytesPassed, Kernels!VerdictIsRight
<1>4. Kernels!EachByteOnce  BY <1>1 DEF Kernels!Init, Kernels!EachByteOnce, CallOk
<1>. QED BY <1>2, <1>3, <1>4 DEF KernelsInv

\* Updating the bytes from the offset up to an end moves the offset there: those
\* before it are as wanted, those after it as they were.
LEMMA ChunkUpdated ==
  ASSUME CallOk(call), KernelsTyped, Kernels!EachByteOnce, NEW end \in offset .. len,
         call' = call, len' = len, nonzero' = nonzero, offset' = end,
         bytes' = [r \in DOMAIN bytes |-> [o \in DOMAIN bytes[r] |->
                     IF o \in offset .. end - 1 THEN Kernels!ByteUpdate(r, o) ELSE bytes[r][o]]]
  PROVE  Kernels!EachByteOnce' /\ DOMAIN bytes' = 1 .. call.dests
         /\ \A r \in DOMAIN bytes' : DOMAIN bytes'[r] = 0 .. len - 1
<1>1. DOMAIN bytes' = 1 .. call.dests
      /\ \A r \in DOMAIN bytes' : DOMAIN bytes'[r] = 0 .. len - 1
  BY DEF KernelsTyped
<1>2. ASSUME NEW r \in 1 .. call.dests, NEW o \in 0 .. len - 1,
             ~(call.name = "mulassign" /\ nonzero = {})
      PROVE bytes'[r][o] = IF o < end THEN Kernels!Wanted(r, o) ELSE Kernels!Old(r, o)
  <2>1. bytes'[r][o] = IF o \in offset .. end - 1 THEN Kernels!ByteUpdate(r, o) ELSE bytes[r][o]
    BY DEF KernelsTyped
  <2>2. \A q \in 1 .. call.dests : bytes[q][o] = IF o < offset THEN Kernels!Wanted(q, o)
          ELSE Kernels!Old(q, o)
    BY <1>2 DEF Kernels!EachByteOnce, KernelsTyped
  <2>3. CASE o < offset  BY <2>1, <2>2, <2>3 DEF KernelsTyped
  <2>4. CASE o \in offset .. end - 1
    <3>1. Kernels!ByteUpdate(r, o) = Kernels!Wanted(r, o)
      BY <2>2, <2>4, UpdateIsWanted DEF KernelsTyped
    <3>. QED BY <2>1, <2>4, <3>1 DEF KernelsTyped
  <2>5. CASE o >= end  BY <2>1, <2>2, <2>5 DEF KernelsTyped
  <2>. QED BY <2>3, <2>4, <2>5 DEF KernelsTyped
<1>3. \A r, o : Kernels!Wanted(r, o)' = Kernels!Wanted(r, o)  BY DEF Kernels!Wanted
<1>4. Kernels!EachByteOnce'
  <2>. SUFFICES ASSUME NEW r \in DOMAIN bytes', NEW o \in DOMAIN bytes'[r]
       PROVE \/ bytes'[r][o] = IF o < offset' THEN Kernels!Wanted(r, o)' ELSE Kernels!Old(r, o)
             \/ call'.name = "mulassign" /\ nonzero' = {}
    BY DEF Kernels!EachByteOnce, Kernels!Old
  <2>1. r \in 1 .. call.dests /\ o \in 0 .. len - 1  BY <1>1
  <2>. QED BY <1>2, <1>3, <2>1
<1>. QED BY <1>1, <1>4

\* Vectors that fit keep the invariant, however many are taken at once.
LEMMA VectorStep ==
  ASSUME Kernels!KernelAssumption, CallOk(call), KernelsInv, NEW lanes \in Nat,
         phase = "vectors", Kernels!Fits(lanes), Kernels!Vectors(lanes)
  PROVE  KernelsInv'
<1>. DEFINE end == offset + lanes * Lane
            chunk == offset .. offset + lanes * Lane - 1
<1>1. lanes * Lane \in Nat  BY DEF Kernels!KernelAssumption
<1>2. end \in offset .. len /\ offset \in Nat /\ offset <= len /\ len \in Nat
  BY <1>1 DEF Kernels!Fits, KernelsInv, KernelsTyped
<1>3. /\ UNCHANGED <<call, len, nonzero, avx2>>
      /\ offset' = end
      /\ touched' = chunk
      /\ seen' = (seen \/ nonzero \cap chunk # {})
      /\ bytes' = [r \in DOMAIN bytes |-> [o \in DOMAIN bytes[r] |->
                     IF o \in chunk THEN Kernels!VectorUpdate(r, o) ELSE bytes[r][o]]]
      /\ IF Kernels!ReturnsEarly(chunk) THEN Kernels!Return("nonzero")
           ELSE UNCHANGED <<phase, verdict>>
  <2>1. UNCHANGED <<call, len, nonzero, avx2>> /\ offset' = end
    BY DEF Kernels!Vectors, Kernels!AfterChunk
  <2>2. touched' = chunk  BY DEF Kernels!Vectors
  <2>3. seen' = (seen \/ nonzero \cap chunk # {})  BY Zenon DEF Kernels!Vectors
  <2>4. bytes' = [r \in DOMAIN bytes |-> [o \in DOMAIN bytes[r] |->
                     IF o \in chunk THEN Kernels!VectorUpdate(r, o) ELSE bytes[r][o]]]
                       BY Zenon DEF Kernels!Vectors
  <2>5. IF Kernels!ReturnsEarly(chunk) THEN Kernels!Return("nonzero")
          ELSE UNCHANGED <<phase, verdict>>
    BY Zenon DEF Kernels!Vectors
  <2>. QED BY <2>1, <2>2, <2>3, <2>4, <2>5, Zenon
<1>10. chunk = offset .. end - 1  BY <1>1, <1>2
<1>. HIDE DEF end, chunk
<1>4. Kernels!EachByteOnce' /\ DOMAIN bytes' = 1 .. call.dests
      /\ \A r \in DOMAIN bytes' : DOMAIN bytes'[r] = 0 .. len - 1
  <2>1. \A r \in DOMAIN bytes : \A o : Kernels!VectorUpdate(r, o) = Kernels!ByteUpdate(r, o)
    BY VectorsAreBytes DEF KernelsInv, KernelsTyped
  <2>2. bytes' = [r \in DOMAIN bytes |-> [o \in DOMAIN bytes[r] |->
                     IF o \in chunk THEN Kernels!VectorUpdate(r, o) ELSE bytes[r][o]]]
    BY <1>3
  <2>3. bytes' = [r \in DOMAIN bytes |-> [o \in DOMAIN bytes[r] |->
                     IF o \in offset .. end - 1 THEN Kernels!ByteUpdate(r, o) ELSE bytes[r][o]]]
    BY <1>10, <2>1, <2>2
  <2>. QED BY <1>2, <1>3, <2>3, ChunkUpdated DEF KernelsInv
<1>5. phase' \in {"vectors", "done"} /\ verdict' \in {"none", "zero", "nonzero"}
  BY DEF Kernels!Vectors, Kernels!Return, KernelsInv, KernelsTyped
<1>6. KernelsTyped'  BY <1>10, <1>2, <1>3, <1>4, <1>5 DEF KernelsInv, KernelsTyped
<1>7. nonzero \cap (0 .. end - 1) = (nonzero \cap (0 .. offset - 1)) \cup (nonzero \cap chunk)
  <2>1. 0 .. end - 1 = (0 .. offset - 1) \cup chunk  BY <1>2, <1>10
  <2>. QED BY <2>1
<1>8. CASE Kernels!ReturnsEarly(chunk)
  <2>1. phase' = "done" /\ verdict' = "nonzero"  BY <1>3, <1>8 DEF Kernels!Return
  <2>2. nonzero # {} /\ call.name \in {"is_zero", "xor_is_zero"}
    BY <1>8 DEF Kernels!ReturnsEarly
  <2>. QED BY <1>3, <1>4, <1>6, <2>1, <2>2 DEF KernelsInv, BytesPassed, Kernels!VerdictIsRight
<1>9. CASE ~Kernels!ReturnsEarly(chunk)
  <2>1. phase' = phase /\ verdict' = verdict  BY <1>3, <1>9
  <2>2. call.name \in {"is_zero", "xor_is_zero"} => nonzero \cap chunk = {}
    BY <1>9 DEF Kernels!ReturnsEarly
  <2>3. BytesPassed'  BY <1>3, <1>7, <2>1, <2>2 DEF KernelsInv, BytesPassed
  <2>. QED BY <1>3, <1>4, <1>6, <2>1, <2>3 DEF KernelsInv, Kernels!VerdictIsRight
<1>. QED BY <1>8, <1>9

\* Every step of a call keeps the invariant.
LEMMA KernelsNext ==
  ASSUME Kernels!KernelAssumption, KernelsInv, [Kernels!Next]_(Kernels!vars) PROVE KernelsInv'
<1>0. CallOk(call)  BY CallsAreOk DEF KernelsInv, KernelsTyped
<1>. USE <1>0
<1>00. call.dests \in Nat /\ len \in Nat /\ offset \in Nat /\ offset <= len
       /\ Lane \in Nat \ {0}
      /\ nonzero \subseteq 0 .. len - 1
  BY DEF CallOk, KernelsInv, KernelsTyped, Kernels!KernelAssumption
<1>1. ASSUME UNCHANGED Kernels!vars PROVE KernelsInv'
  <2>1. KernelsTyped' /\ BytesPassed' /\ Kernels!VerdictIsRight'
    BY <1>1 DEF Kernels!vars, KernelsInv, KernelsTyped, BytesPassed, Kernels!VerdictIsRight
  <2>2. Kernels!EachByteOnce'
    BY <1>1 DEF Kernels!vars, KernelsInv, Kernels!EachByteOnce, Kernels!Wanted
  <2>. QED BY <2>1, <2>2 DEF KernelsInv
<1>2. ASSUME Kernels!Skip PROVE KernelsInv'
  <2>1. KernelsTyped' /\ BytesPassed'
    BY <1>00, <1>2 DEF Kernels!Skip, Kernels!Return, KernelsInv, KernelsTyped, BytesPassed
  <2>2. Kernels!VerdictIsRight'
    BY <1>2 DEF Kernels!Skip, Kernels!NothingToDo, Kernels!VerdictIsRight
  <2>3. ASSUME NEW r \in 1 .. call.dests, NEW o \in 0 .. len - 1,
               ~(call.name = "mulassign" /\ nonzero = {})
        PROVE bytes[r][o] = Kernels!Wanted(r, o)
    <3>1. bytes[r][o] = Kernels!Old(r, o)
      BY <1>00, <1>2, <2>3 DEF Kernels!Skip, KernelsInv, KernelsTyped, BytesPassed,
         Kernels!EachByteOnce
    <3>2. r = 1  BY <1>2 DEF Kernels!Skip, Kernels!NothingToDo, CallOk
    <3>3. CASE call.name = "mul" /\ call.factors[1] = Kernels!Zero
      <4>1. \A s : Kernels!Times(call.factors[r], Kernels!Source(s, o)) = {}
        BY <3>2, <3>3 DEF Kernels!Times
      <4>2. Kernels!Wanted(r, o) = Kernels!Old(r, o)
              \cup UNION {Kernels!Times(call.factors[r], Kernels!Source(s, o)) :
                s \in 1 .. call.sources}
        BY <3>3 DEF Kernels!Wanted
      <4>. QED BY <3>1, <4>1, <4>2
    <3>4. CASE call.name = "mulassign" /\ call.factors[1] = Kernels!One
      <4>1. Kernels!Times(Kernels!One, Kernels!Old(r, o)) = Kernels!Old(r, o)
        BY DEF Kernels!Times, Kernels!Old, Kernels!One, Kernels!Zero, Kernels!FTimes
      <4>. QED BY <3>1, <3>2, <3>4, <4>1 DEF Kernels!Wanted
    <3>. QED BY <1>2, <2>3, <3>3, <3>4 DEF Kernels!Skip, Kernels!NothingToDo
  <2>4. Kernels!EachByteOnce'
    <3>1. \A r, o : Kernels!Wanted(r, o)' = Kernels!Wanted(r, o)
      BY <1>2 DEF Kernels!Skip, Kernels!Wanted
    <3>. QED BY <1>00, <1>2, <2>3, <3>1 DEF Kernels!Skip, KernelsInv, KernelsTyped,
           Kernels!EachByteOnce
  <2>. QED BY <2>1, <2>2, <2>4 DEF KernelsInv
<1>3. ASSUME Kernels!Fill PROVE KernelsInv'
  <2>1. call.name = "mulassign" /\ call.factors[1] = Kernels!Zero /\ call.dests = 1
    BY <1>3 DEF Kernels!Fill, Kernels!Fills, CallOk
  <2>2. KernelsTyped' /\ BytesPassed' /\ Kernels!VerdictIsRight'

      BY <1>00, <1>3, <2>1 DEF Kernels!Fill, Kernels!Return, KernelsInv, KernelsTyped,
         BytesPassed, Kernels!VerdictIsRight
  <2>3. Kernels!EachByteOnce'
    BY <1>00, <1>3, <2>1 DEF Kernels!Fill, KernelsInv, KernelsTyped, Kernels!EachByteOnce,
       Kernels!Wanted, Kernels!Times
  <2>. QED BY <2>2, <2>3 DEF KernelsInv
<1>4. ASSUME Kernels!CheckPrefix PROVE KernelsInv'
  <2>1. call.name = "is_zero" /\ call.dests = 0  BY <1>4 DEF Kernels!CheckPrefix, CallOk
  <2>2. Kernels!PrefixLen \in 0 .. len  BY <1>00 DEF Kernels!PrefixLen
  <2>3. KernelsTyped'
    BY <1>00, <1>4, <2>2 DEF Kernels!CheckPrefix, Kernels!Return, KernelsInv, KernelsTyped
  <2>4. BytesPassed'
    BY <1>00, <1>4, <2>1, <2>2 DEF Kernels!CheckPrefix, Kernels!Return, KernelsInv, BytesPassed
  <2>5. Kernels!VerdictIsRight'
    BY <1>4 DEF Kernels!CheckPrefix, Kernels!Return, Kernels!VerdictIsRight
  <2>6. Kernels!EachByteOnce'
    BY <1>4, <2>1 DEF Kernels!CheckPrefix, KernelsInv, KernelsTyped, Kernels!EachByteOnce
  <2>. QED BY <2>3, <2>4, <2>5, <2>6 DEF KernelsInv
<1>5. ASSUME Kernels!Enter PROVE KernelsInv'
  <2>1. KernelsTyped' /\ Kernels!VerdictIsRight'
    BY <1>5 DEF Kernels!Enter, KernelsInv, KernelsTyped, Kernels!VerdictIsRight
  <2>2. BytesPassed'  BY <1>5 DEF Kernels!Enter, KernelsInv, BytesPassed
  <2>3. Kernels!EachByteOnce'
    BY <1>5 DEF Kernels!Enter, KernelsInv, Kernels!EachByteOnce, Kernels!Wanted
  <2>. QED BY <2>1, <2>2, <2>3 DEF KernelsInv
<1>6. ASSUME Kernels!FourVectors PROVE KernelsInv'  BY <1>6, VectorStep DEF Kernels!FourVectors
<1>7. ASSUME Kernels!OneVector PROVE KernelsInv'  BY <1>7, VectorStep DEF Kernels!OneVector
<1>8. ASSUME Kernels!Rest PROVE KernelsInv'
  <2>1. UNCHANGED <<call, len, nonzero, avx2, seen>> /\ offset' = len
        /\ touched' = offset .. len - 1
        /\ phase' = "done" /\ verdict' = Kernels!Answer(offset .. len - 1)
    BY <1>8 DEF Kernels!Rest, Kernels!Return
  <2>2. bytes' = [r \in DOMAIN bytes |-> [o \in DOMAIN bytes[r] |->
                     IF o \in offset .. len - 1 THEN Kernels!ByteUpdate(r, o) ELSE bytes[r][o]]]
    BY <1>00, <1>8 DEF Kernels!Rest, KernelsInv, KernelsTyped
  <2>3. Kernels!EachByteOnce' /\ DOMAIN bytes' = 1 .. call.dests
      /\ \A r \in DOMAIN bytes' : DOMAIN bytes'[r] = 0 .. len - 1
    BY <1>00, <2>1, <2>2, ChunkUpdated DEF KernelsInv
  <2>4. KernelsTyped' /\ BytesPassed'
    BY <1>00, <2>1, <2>3 DEF KernelsInv, KernelsTyped, BytesPassed, Kernels!Answer
  <2>5. nonzero = (nonzero \cap (0 .. offset - 1)) \cup (nonzero \cap (offset .. len - 1))
    <3>1. 0 .. len - 1 = (0 .. offset - 1) \cup (offset .. len - 1)  BY <1>00
    <3>. QED BY <1>00, <3>1
  <2>6. Kernels!VerdictIsRight'
    <3>1. phase \in {"rest", "vectors"}  BY <1>8 DEF Kernels!Rest
    <3>. QED BY <2>1, <2>5, <3>1 DEF KernelsInv, BytesPassed, Kernels!VerdictIsRight,
           Kernels!Answer
  <2>. QED BY <2>3, <2>4, <2>6 DEF KernelsInv
<1>. QED BY <1>1, <1>2, <1>3, <1>4, <1>5, <1>6, <1>7, <1>8 DEF Kernels!Next, Kernels!Done

\* The invariant implies the properties that the run checks.
LEMMA KernelsAnswers ==
  ASSUME Kernels!KernelAssumption, KernelsInv
  PROVE  /\ Kernels!TypeInv /\ Kernels!StaysInside
         /\ Kernels!EachByteOnce /\ Kernels!VerdictIsRight
<1>1. SliceMaxLen \in Nat  BY DEF Kernels!KernelAssumption
<1>. QED BY <1>1 DEF KernelsInv, KernelsTyped, Kernels!TypeInv, Kernels!StaysInside

-----------------------------------------------------------------------------
(* The batches of the solver.                                              *)

\* What a list of at most three batch widths takes.
Total(w) == IF Len(w) = 0 THEN 0
            ELSE IF Len(w) = 1 THEN w[1]
            ELSE IF Len(w) = 2 THEN w[1] + w[2] ELSE w[1] + w[2] + w[3]

\* A list of at most three widths that takes n entries if each is used once.
Once(w, n) == w \in Seq(Nat \ {0}) /\ Len(w) <= 3 /\ Total(w) = n

\* A list of widths that ends with single entries.
ToOne(w) == w \in Seq(Nat \ {0}) /\ w # <<>> /\ w[Len(w)] = 1

\* The widths of a routine fit its list: those of a table, used once, take all n
\* entries; the others end with single ones.
RoutineOk(r, n) ==
  /\ r.dir \in {"to", "from"}
  /\ r.mapped <=> r.name = "mapped"
  /\ r.once => ~r.zeroCheck /\ Once(r.ladder, n)
  /\ ~r.once => ToOne(r.ladder)

\* The ladders of widths end with single entries.
LEMMA Ladders ==
  /\ ToOne(<<8, 4, 1>>) /\ ToOne(<<1>>) /\ ToOne(<<16, 8, 4, 3, 2, 1>>)
  /\ ToOne(<<>> \o <<16, 8, 4, 3, 2, 1>>) /\ ToOne(<<32>> \o <<16, 8, 4, 3, 2, 1>>)
<1>1. ToOne(<<8, 4, 1>>) /\ ToOne(<<1>>)  BY DEF ToOne
<1>2. ToOne(<<16, 8, 4, 3, 2, 1>>)  BY DEF ToOne
<1>3. ASSUME NEW s \in Seq(Nat \ {0}), NEW t, ToOne(t) PROVE ToOne(s \o t)
  <2>1. t \in Seq(Nat \ {0}) /\ Len(t) > 0 /\ Len(t) \in Nat /\ Len(s) \in Nat
    BY <1>3 DEF ToOne
  <2>2. s \o t \in Seq(Nat \ {0}) /\ Len(s \o t) = Len(s) + Len(t)  BY <2>1
  <2>3. (s \o t)[Len(s) + Len(t)] = t[Len(t)]  BY <2>1
  <2>. QED BY <1>3, <2>1, <2>2, <2>3 DEF ToOne
<1>4. <<>> \in Seq(Nat \ {0}) /\ <<32>> \in Seq(Nat \ {0})  OBVIOUS
<1>. QED BY <1>1, <1>2, <1>3, <1>4

\* A sequence with one more element, index by index.
LEMMA AppendTo ==
  ASSUME NEW X, NEW T, T \in Seq(X), NEW e, e \in X, NEW n \in Nat, Len(T) = n
  PROVE  /\ DOMAIN Append(T, e) = 1 .. n + 1
         /\ \A k \in 1 .. n + 1 : Append(T, e)[k] = IF k = n + 1 THEN e ELSE T[k]
OBVIOUS

\* The table for pointers is that for slots with one more row.
LEMMA PointerBatches ==
  /\ DOMAIN Batches!PointerTinyBatches = 1 .. 16
  /\ \A k \in 1 .. 16 : Batches!PointerTinyBatches[k] = IF k = 16 THEN <<16>>
       ELSE Batches!TinySourceBatches[k]
<1>1. Batches!TinySourceBatches \in Seq(Seq(Nat)) /\ Len(Batches!TinySourceBatches) = 15
  BY DEF Batches!TinySourceBatches
<1>2. <<16>> \in Seq(Nat)  OBVIOUS
<1>3. 15 \in Nat /\ 15 + 1 = 16  OBVIOUS
<1>. DEFINE X == Seq(Nat)
            T == Batches!TinySourceBatches
            e == <<16>>
            m == 15
<1>4. T \in Seq(X) /\ Len(T) = m /\ e \in X /\ m \in Nat /\ m + 1 = 16  BY <1>1, <1>2
<1>5. Batches!PointerTinyBatches = Append(T, e)  BY DEF Batches!PointerTinyBatches
<1>. HIDE DEF X, T, e, m
<1>6. DOMAIN Append(T, e) = 1 .. m + 1
      /\ \A k \in 1 .. m + 1 : Append(T, e)[k] = IF k = m + 1 THEN e ELSE T[k]
  BY <1>4, AppendTo
<1>. QED BY <1>4, <1>5, <1>6 DEF T, e

\* Each row of a table takes exactly the number of entries it is for.
LEMMA TinyBatches ==
  ASSUME NEW n \in DOMAIN Batches!PointerTinyBatches
  PROVE  /\ Once(Batches!PointerTinyBatches[n], n)
         /\ n \in DOMAIN Batches!TinySourceBatches => Once(Batches!TinySourceBatches[n], n)
<1>1. DOMAIN Batches!TinySourceBatches = 1 .. 15  BY DEF Batches!TinySourceBatches
<1>2. ASSUME NEW k \in 1 .. 15 PROVE Once(Batches!TinySourceBatches[k], k)
  <2>. USE DEF Batches!TinySourceBatches, Once, Total
  <2>1. CASE k = 1 BY <2>1
  <2>2. CASE k = 2 BY <2>2
  <2>3. CASE k = 3 BY <2>3
  <2>4. CASE k = 4 BY <2>4
  <2>5. CASE k = 5 BY <2>5
  <2>6. CASE k = 6 BY <2>6
  <2>7. CASE k = 7 BY <2>7
  <2>8. CASE k = 8 BY <2>8
  <2>9. CASE k = 9 BY <2>9
  <2>10. CASE k = 10 BY <2>10
  <2>11. CASE k = 11 BY <2>11
  <2>12. CASE k = 12 BY <2>12
  <2>13. CASE k = 13 BY <2>13
  <2>14. CASE k = 14 BY <2>14
  <2>15. CASE k = 15 BY <2>15
  <2>16. \/ k = 1 \/ k = 2 \/ k = 3 \/ k = 4 \/ k = 5 \/ k = 6 \/ k = 7 \/ k = 8 \/ k = 9
         \/ k = 10 \/ k = 11 \/ k = 12 \/ k = 13 \/ k = 14 \/ k = 15
    OBVIOUS
  <2>. QED BY <2>1, <2>2, <2>3, <2>4, <2>5, <2>6, <2>7, <2>8, <2>9, <2>10, <2>11, <2>12,
              <2>13, <2>14, <2>15, <2>16
<1>4. Once(<<16>>, 16)  BY DEF Once, Total
<1>5. /\ DOMAIN Batches!PointerTinyBatches = 1 .. 16
      /\ \A k \in 1 .. 16 : Batches!PointerTinyBatches[k] = IF k = 16 THEN <<16>>
           ELSE Batches!TinySourceBatches[k]
  BY PointerBatches
<1>6. n # 16 => n \in 1 .. 15  BY <1>5
<1>. QED BY <1>1, <1>2, <1>4, <1>5, <1>6

\* Every routine of the code has widths that fit its lists of any length.
LEMMA RoutinesAreOk ==
  ASSUME NEW n \in Nat, NEW r \in Batches!RoutinesFor(n)
  PROVE  RoutineOk(r, n)
<1>. USE DEF RoutineOk, Batches!Routine
<1>1. ASSUME NEW w \in BOOLEAN, NEW c \in BOOLEAN, NEW m \in BOOLEAN
      PROVE  RoutineOk(Batches!addassign_symbol_sources_raw_impl(w, c, m, n), n)
  <2>1. CASE Batches!UsesTinyBatches(w, c, m, n)
    <3>1. n \in DOMAIN Batches!TinySourceBatches  BY <2>1 DEF Batches!UsesTinyBatches
    <3>2. n \in DOMAIN Batches!PointerTinyBatches
      BY <3>1 DEF Batches!PointerTinyBatches, Batches!TinySourceBatches
    <3>3. Once(Batches!TinySourceBatches[n], n)  BY <3>1, <3>2, TinyBatches
    <3>. QED BY <2>1, <3>3 DEF Batches!addassign_symbol_sources_raw_impl
  <2>2. CASE ~Batches!UsesTinyBatches(w, c, m, n)
    <3>1. ToOne(Batches!WideSourceChunks(w) \o Batches!SourceChunks)
      BY Ladders DEF Batches!WideSourceChunks, Batches!SourceChunks
    <3>. QED BY <2>2, <3>1 DEF Batches!addassign_symbol_sources_raw_impl
  <2>. QED BY <2>1, <2>2
<1>2. RoutineOk(Batches!addassign_symbol_source_ptrs_to_slice, n)
  BY Ladders DEF Batches!addassign_symbol_source_ptrs_to_slice
<1>3. RoutineOk(Batches!addassign_symbol_source_ptrs_to_slice_tiny_fast(n), n)
  <2>1. CASE n \in DOMAIN Batches!PointerTinyBatches
    <3>1. Once(Batches!PointerTinyBatches[n], n)  BY <2>1, TinyBatches
    <3>. QED BY <2>1, <3>1 DEF Batches!addassign_symbol_source_ptrs_to_slice_tiny_fast
  <2>. QED BY <2>1, <1>2 DEF Batches!addassign_symbol_source_ptrs_to_slice_tiny_fast
<1>4. \A u \in BOOLEAN : RoutineOk(Batches!fused_addassign_cached_symbol_batch(u), n)
  BY Ladders DEF Batches!fused_addassign_cached_symbol_batch
<1>5. RoutineOk(Batches!addassign_external_symbol_batch, n)
      /\ RoutineOk(Batches!addassign_mapped_binary_symbol_batch, n)
    BY Ladders DEF Batches!addassign_external_symbol_batch,
       Batches!addassign_mapped_binary_symbol_batch
<1>6. \A c \in BOOLEAN : RoutineOk(Batches!addassign_direct_symbol_batch_impl(c), n)
                         /\ RoutineOk(Batches!addassign_symbol_row_batch(c), n)
  BY Ladders DEF Batches!addassign_direct_symbol_batch_impl, Batches!addassign_symbol_row_batch
<1>7. RoutineOk(Batches!addassign_direct_symbol_source_batch(n), n)
      /\ RoutineOk(Batches!addassign_symbol_source_batch(n), n)
    BY <1>1 DEF Batches!addassign_direct_symbol_source_batch,
       Batches!addassign_symbol_source_batch
<1>8. \A w \in BOOLEAN :
        RoutineOk(Batches!addassign_direct_symbol_source_batch_trusted(w, n), n)
                         /\ RoutineOk(Batches!addassign_symbol_sources_to_slice(w, n), n)
    BY <1>1 DEF Batches!addassign_direct_symbol_source_batch_trusted,
       Batches!addassign_symbol_sources_to_slice
<1>. HIDE DEF RoutineOk, Batches!Routine
<1>. QED BY <1>2, <1>3, <1>4, <1>5, <1>6, <1>7, <1>8 DEF Batches!RoutinesFor

\* The slab before the call: each slot holds its own symbol, slot 0 perhaps zero.
Begins ==
  /\ before \in [Batches!Slot -> Batches!Symbol]
  /\ before[Batches!Hub] \in {{}, {<<Batches!Hub, UnitScalar>>}}
  /\ \A slot \in Batches!Slot \ {Batches!Hub} : before[slot] = {<<slot, UnitScalar>>}

\* The widths that are left take the entries that are left: those of a table
\* exactly, and the others end with single ones until none is left.
WidthsSuffice ==
  /\ widths \in Seq(Nat \ {0})
  /\ routine.once => ~routine.zeroCheck /\ Once(widths, Batches!Left)
  /\ ~routine.once /\ widths = <<>> => Batches!Left = 0 \/ Batches!SkipsZero
  /\ ~routine.once /\ widths # <<>> => widths[Len(widths)] = 1

\* The list is that of the n entries.
Entries(n) == n \in 0 .. BatchMaxLen /\ list = [i \in 1 .. n |-> i] /\ Len(list) = n

\* The slab is what single additions give so far, and the widths that are left
\* suffice for the rest.
BatchesInv ==
  /\ \E n \in 0 .. BatchMaxLen : Entries(n) /\ RoutineOk(routine, n)
  /\ Begins
  /\ done \in 0 .. Len(list)
  /\ Batches!BatchesEqualSingles
  /\ WidthsSuffice

\* A call begins with nothing taken.
LEMMA BatchesInit == Batches!BatchAssumption /\ Batches!Init => BatchesInv
<1>. SUFFICES ASSUME Batches!BatchAssumption, Batches!Init PROVE BatchesInv  OBVIOUS
<1>1. PICK n \in 0 .. BatchMaxLen, zeroHub \in BOOLEAN :
    /\ list = [i \in 1 .. n |-> i]
    /\ routine \in Batches!RoutinesFor(n)
    /\ symbols = [slot \in Batches!Slot |-> IF slot = Batches!Hub /\ zeroHub THEN {}
         ELSE {<<slot, UnitScalar>>}]
    /\ before = symbols /\ widths = routine.ladder /\ done = 0
  BY DEF Batches!Init
<1>2. BatchMaxLen \in Nat /\ LdpcRows \in Nat /\ HdpcRows \in Nat
  BY DEF Batches!BatchAssumption
<1>3. Entries(n) /\ n \in Nat  BY <1>1, <1>2 DEF Entries
<1>4. RoutineOk(routine, n)  BY <1>1, <1>3, RoutinesAreOk
<1>5. Batches!Hub \in Batches!Slot  BY <1>2 DEF Batches!Hub, Batches!Slot
<1>6. Begins
  <2>1. \A slot \in Batches!Slot : before[slot] = IF slot = Batches!Hub /\ zeroHub THEN {}
          ELSE {<<slot, UnitScalar>>}
    BY <1>1
  <2>2. before \in [Batches!Slot -> Batches!Symbol]  BY <1>1 DEF Batches!Symbol
  <2>. QED BY <1>5, <2>1, <2>2 DEF Begins
<1>7. Batches!Left = n  BY <1>1, <1>3 DEF Batches!Left, Entries
<1>8. WidthsSuffice  BY <1>1, <1>3, <1>4, <1>7 DEF WidthsSuffice, RoutineOk, Once, ToOne
<1>9. Batches!BatchesEqualSingles
  <2>1. ~ \E i \in 1 .. done : TRUE  BY <1>1
  <2>2. UNION {before[Batches!Target(i)] : i \in 1 .. done} = {}  BY <2>1
  <2>3. Batches!Plus(before[Batches!Hub], {}) = before[Batches!Hub]  BY DEF Batches!Plus
  <2>4. before \in [Batches!Slot -> Batches!Symbol]  BY <1>6 DEF Begins
  <2>5. Batches!AddedSingly = before
    <3>1. CASE routine.dir = "from"
      <4>1. Batches!AddedSingly =
              [before EXCEPT ![Batches!Hub] = Batches!Plus(before[Batches!Hub], {})]
        BY <2>2, <3>1 DEF Batches!AddedSingly
      <4>. QED BY <1>5, <2>3, <2>4, <4>1
    <3>2. CASE routine.dir # "from"
      <4>1. Batches!AddedSingly = [slot \in Batches!Slot |-> before[slot]]
        BY <2>1, <3>2 DEF Batches!AddedSingly
      <4>. QED BY <2>4, <4>1
    <3>. QED BY <3>1, <3>2
  <2>. QED BY <1>1, <2>5 DEF Batches!BatchesEqualSingles
<1>10. done \in 0 .. Len(list)  BY <1>1, <1>3 DEF Entries
<1>. QED BY <1>3, <1>4, <1>6, <1>8, <1>9, <1>10 DEF BatchesInv

\* Entries name different slots, none of them slot 0, and a routine finds the slot
\* that holds the symbol, past the HDPC symbols if it maps rows.
LEMMA Targets ==
  ASSUME Batches!BatchAssumption, NEW n, Entries(n), RoutineOk(routine, n)
  PROVE  \A i \in 1 .. n :
           /\ Batches!Target(i) \in Batches!Slot \ {Batches!Hub}
           /\ Batches!Place(list[i]) = Batches!Target(i) /\ list[i] = i
           /\ \A j \in 1 .. n : Batches!Target(i) = Batches!Target(j) => i = j
<1>1. BatchMaxLen \in Nat /\ LdpcRows \in Nat /\ HdpcRows \in Nat /\ n \in 0 .. BatchMaxLen
  BY DEF Batches!BatchAssumption, Entries
<1>2. \A i \in 1 .. n : list[i] = i  BY DEF Entries
<1>3. \A i \in 1 .. n : Batches!Target(i) = IF routine.name = "mapped" /\ i >= LdpcRows
        THEN i + HdpcRows ELSE i
  BY <1>2 DEF Batches!Target
<1>4. \A i \in 1 .. n : Batches!Place(list[i]) = IF routine.mapped THEN IF i < LdpcRows
        THEN i ELSE i + HdpcRows ELSE i
  BY <1>2 DEF Batches!Place, Batches!mapped_binary_symbol_row
<1>5. routine.mapped <=> routine.name = "mapped"  BY DEF RoutineOk
<1>6. ASSUME NEW i \in 1 .. n PROVE Batches!Target(i) \in Batches!Slot \ {Batches!Hub}
             /\ Batches!Place(list[i]) = Batches!Target(i)
  BY <1>1, <1>3, <1>4, <1>5 DEF Batches!Slot, Batches!Hub
<1>7. ASSUME NEW i \in 1 .. n, NEW j \in 1 .. n, Batches!Target(i) = Batches!Target(j)
      PROVE i = j
  BY <1>1, <1>3, <1>7
<1>. QED BY <1>2, <1>6, <1>7

\* Counting in an instance of FiniteSets is counting.
LEMMA CountOfOne == \A thing : Batches!Cardinality({thing}) = 1
<1>. TAKE thing
<1>1. Batches!Cardinality({thing}) = Cardinality({thing})  BY DEF Batches!Cardinality, Cardinality
<1>. QED BY <1>1, FS_Singleton

\* One kernel call on the next entries leaves what single additions of all
\* entries so far leave: no entry is read after another has changed it.
LEMMA KernelAddsSingly ==
  ASSUME Batches!BatchAssumption, BatchesInv, NEW n, Entries(n), RoutineOk(routine, n),
         NEW w \in Nat \ {0}, done + w <= n,
         done' = done + w, symbols' = Batches!Kernel(done + 1, done + w),
         routine' = routine, list' = list, before' = before
  PROVE  Batches!BatchesEqualSingles'
<1>. DEFINE d == done
            e == done + w
            T(i) == Batches!Target(i)
<1>1. /\ d \in Nat /\ e \in Nat /\ d < e /\ e <= n /\ n \in Nat
      /\ BatchMaxLen \in Nat /\ LdpcRows \in Nat /\ HdpcRows \in Nat
  BY DEF BatchesInv, Entries, Batches!BatchAssumption
<1>2. /\ before \in [Batches!Slot -> Batches!Symbol]
      /\ before[Batches!Hub] \in {{}, {<<Batches!Hub, UnitScalar>>}}
      /\ \A slot \in Batches!Slot \ {Batches!Hub} : before[slot] = {<<slot, UnitScalar>>}
      /\ symbols = Batches!AddedSingly /\ Batches!Hub \in Batches!Slot
  BY <1>1 DEF BatchesInv, Begins, Batches!BatchesEqualSingles, Batches!Hub, Batches!Slot
<1>3. \A i \in 1 .. n :
         /\ T(i) \in Batches!Slot \ {Batches!Hub} /\ Batches!Place(list[i]) = T(i)
         /\ list[i] = i
         /\ \A j \in 1 .. n : T(i) = T(j) => i = j
  BY Targets
<1>4. \A i : Batches!Target(i)' = T(i)  BY DEF Batches!Target
<1>. HIDE DEF T
<1>5. CASE routine.dir = "from"
  <2>. DEFINE U(p, q) == UNION {before[T(i)] : i \in p .. q}
  <2>1. symbols = [before EXCEPT ![Batches!Hub] = Batches!Plus(@, U(1, d))]
    BY <1>2, <1>5 DEF Batches!AddedSingly, T
  <2>2. Batches!AddedSingly' = [before EXCEPT ![Batches!Hub] = Batches!Plus(@, U(1, e))]
    <3>1. Batches!AddedSingly' =
            [before EXCEPT ![Batches!Hub] =
              Batches!Plus(@, UNION {before[Batches!Target(i)'] : i \in 1 .. done'})]
      BY <1>5 DEF Batches!AddedSingly
    <3>2. {before[Batches!Target(i)'] : i \in 1 .. done'} = {before[T(i)] : i \in 1 .. e}
      BY <1>4
    <3>. QED BY <3>1, <3>2
  <2>3. \A i \in d + 1 .. e : i \in 1 .. n  BY <1>1
  <2>4. ASSUME NEW i \in d + 1 .. e PROVE symbols[Batches!Place(list[i])] =
                 {<<T(i), UnitScalar>>}
    <3>1. T(i) \in Batches!Slot \ {Batches!Hub} /\ Batches!Place(list[i]) = T(i)  BY <1>3, <2>3
    <3>2. symbols[T(i)] = before[T(i)]  BY <1>2, <2>1, <3>1
    <3>. QED BY <1>2, <3>1, <3>2
  <2>5. Batches!SumOf(d + 1, e) = U(d + 1, e)
    <3>1. ASSUME NEW t \in UNION {symbols[Batches!Place(list[i])] : i \in d + 1 .. e}
          PROVE  Batches!Cardinality({i \in d + 1 .. e : t \in symbols[Batches!Place(list[i])]}) = 1
      <4>1. PICK k \in d + 1 .. e : t \in symbols[Batches!Place(list[k])]  OBVIOUS
      <4>2. t = <<T(k), UnitScalar>>  BY <2>4, <4>1
      <4>3. ASSUME NEW i \in d + 1 .. e, t \in symbols[Batches!Place(list[i])] PROVE i = k
        <5>1. <<T(k), UnitScalar>> = <<T(i), UnitScalar>>  BY <2>4, <4>2, <4>3
        <5>2. T(k) = T(i)  BY <5>1
        <5>. QED BY <1>3, <2>3, <5>2
      <4>4. {i \in d + 1 .. e : t \in symbols[Batches!Place(list[i])]} = {k}  BY <4>1, <4>3
      <4>. QED BY <4>4, CountOfOne
    <3>2. 1 % 2 = 1  OBVIOUS
    <3>3. Batches!SumOf(d + 1, e) = UNION {symbols[Batches!Place(list[i])] : i \in d + 1 .. e}
      BY <3>1, <3>2 DEF Batches!SumOf
    <3>4. \A i \in d + 1 .. e : symbols[Batches!Place(list[i])] = before[T(i)]
      BY <1>2, <1>3, <2>3, <2>4
    <3>. QED BY <3>3, <3>4
  <2>6. symbols' = [symbols EXCEPT ![Batches!Hub] = Batches!Plus(@, U(d + 1, e))]
    BY <1>5, <2>5 DEF Batches!Kernel
  <2>7. Batches!Plus(Batches!Plus(before[Batches!Hub], U(1, d)), U(d + 1, e)) =
          Batches!Plus(before[Batches!Hub], U(1, e))
    <3>1. \A i \in 1 .. n : before[T(i)] = {<<T(i), UnitScalar>>}  BY <1>2, <1>3
    <3>2. U(1, e) = U(1, d) \cup U(d + 1, e)
      <4>1. 1 .. e = (1 .. d) \cup (d + 1 .. e)  BY <1>1
      <4>. QED BY <4>1
    <3>3. ASSUME NEW t \in U(1, d), t \in U(d + 1, e) PROVE FALSE
      <4>1. PICK i \in 1 .. d : t \in before[T(i)]  OBVIOUS
      <4>2. PICK j \in d + 1 .. e : t \in before[T(j)]  BY <3>3
      <4>3. i \in 1 .. n /\ j \in 1 .. n /\ i # j  BY <1>1, <2>3
      <4>4. t = <<T(i), UnitScalar>> /\ t = <<T(j), UnitScalar>>  BY <3>1, <4>1, <4>2, <4>3
      <4>5. T(i) = T(j)  BY <4>4
      <4>. QED BY <1>3, <4>3, <4>5
    <3>4. ASSUME NEW t \in before[Batches!Hub], NEW i \in 1 .. n, t \in before[T(i)] PROVE FALSE
      <4>1. t = <<Batches!Hub, UnitScalar>> /\ t = <<T(i), UnitScalar>>  BY <1>2, <3>1, <3>4
      <4>2. T(i) = Batches!Hub  BY <4>1
      <4>. QED BY <1>3, <4>2
    <3>5. U(1, d) \cap U(d + 1, e) = {}  BY <3>3
    <3>6. before[Batches!Hub] \cap U(1, e) = {}
      <4>1. \A i \in 1 .. e : i \in 1 .. n  BY <1>1
      <4>. QED BY <3>4, <4>1
    <3>. HIDE DEF U
    <3>. QED BY <3>2, <3>5, <3>6 DEF Batches!Plus
  <2>. HIDE DEF U
  <2>8. symbols' =
          [before EXCEPT ![Batches!Hub] =
            Batches!Plus(Batches!Plus(before[Batches!Hub], U(1, d)), U(d + 1, e))]
    BY <1>2, <2>1, <2>6
  <2>9. symbols' = [before EXCEPT ![Batches!Hub] = Batches!Plus(before[Batches!Hub], U(1, e))]
    BY <2>7, <2>8
  <2>. QED BY <2>2, <2>9 DEF Batches!BatchesEqualSingles
<1>6. CASE routine.dir # "from"
  <2>. DEFINE A(slot, i) ==
         Batches!Plus(before[slot],
           Batches!Scaled(before[Batches!Hub], Batches!Factor(list[i])))
              In(slot, p, q) == \E i \in p .. q : T(i) = slot
  <2>1. \A i : Batches!Factor(list[i])' = Batches!Factor(list[i])  BY DEF Batches!Factor
  <2>2. \A slot \in Batches!Slot :
          symbols[slot] = IF In(slot, 1, d)
            THEN LET i == CHOOSE i \in 1 .. d : T(i) = slot IN A(slot, i)
                          ELSE before[slot]
    BY <1>2, <1>6 DEF Batches!AddedSingly, T
  <2>3. ASSUME NEW p, NEW q, NEW i \in p .. q, \A k \in p .. q : k \in 1 .. n
        PROVE  (CHOOSE j \in p .. q : T(j) = T(i)) = i
    BY <1>3, <2>3
  <2>4. Batches!AddedSingly' = [slot \in Batches!Slot |->
          IF \E i \in 1 .. e : T(i) = slot THEN A(slot, CHOOSE i \in 1 .. e : T(i) = slot)
                            ELSE before[slot]]
    BY <1>4, <1>6, <2>1 DEF Batches!AddedSingly
  <2>5. symbols = [slot \in Batches!Slot |->
          IF \E i \in 1 .. d : T(i) = slot THEN A(slot, CHOOSE i \in 1 .. d : T(i) = slot)
                            ELSE before[slot]]
    BY <1>2, <1>6 DEF Batches!AddedSingly, T
  <2>. DEFINE P(i) == Batches!Place(list[i])
              K(slot, i) == Batches!Plus(symbols[slot],
                Batches!Scaled(symbols[Batches!Hub], Batches!Factor(list[i])))
  <2>6. symbols' = [slot \in Batches!Slot |->
          IF \E i \in d + 1 .. e : P(i) = slot
            THEN K(slot, CHOOSE i \in d + 1 .. e : P(i) = slot)
                            ELSE symbols[slot]]
    BY <1>6 DEF Batches!Kernel
  <2>7. /\ \A i \in 1 .. d : i \in 1 .. n
        /\ \A i \in 1 .. e : i \in 1 .. n
        /\ \A i \in d + 1 .. e : i \in 1 .. n
        /\ \A i \in 1 .. e : i \in 1 .. d \/ i \in d + 1 .. e
        /\ \A i \in 1 .. d : i \in 1 .. e /\ i \notin d + 1 .. e
        /\ \A i \in d + 1 .. e : i \in 1 .. e
    BY <1>1
  <2>8. \A i \in d + 1 .. e : P(i) = T(i)  BY <1>3, <2>7
  <2>9. ASSUME NEW i \in d + 1 .. e PROVE (CHOOSE j \in d + 1 .. e : P(j) = T(i)) = i
    <3>1. \A j \in d + 1 .. e : P(j) = T(i) => j = i  BY <1>3, <2>7, <2>8
    <3>. QED BY <2>8, <3>1
  <2>10. symbols[Batches!Hub] = before[Batches!Hub]
    <3>1. ~ \E i \in 1 .. d : T(i) = Batches!Hub  BY <1>3, <2>7
    <3>. HIDE DEF A
    <3>. QED BY <1>2, <2>5, <3>1
  <2>. HIDE DEF A, P, K
  <2>11. ASSUME NEW slot \in Batches!Slot, \A i \in 1 .. e : T(i) # slot
         PROVE  symbols'[slot] = before[slot] /\ Batches!AddedSingly'[slot] = before[slot]
    <3>1. ~ \E i \in 1 .. d : T(i) = slot  BY <2>7, <2>11
    <3>2. ~ \E i \in d + 1 .. e : P(i) = slot  BY <2>7, <2>8, <2>11
    <3>3. ~ \E i \in 1 .. e : T(i) = slot  BY <2>11
    <3>4. symbols[slot] = before[slot]  BY <2>5, <3>1
    <3>5. symbols'[slot] = symbols[slot]  BY <2>6, <3>2
    <3>6. Batches!AddedSingly'[slot] = before[slot]  BY <2>4, <3>3
    <3>. QED BY <3>4, <3>5, <3>6
  <2>12. ASSUME NEW i \in 1 .. e
         PROVE  Batches!AddedSingly'[T(i)] = A(T(i), i) /\ symbols'[T(i)] = A(T(i), i)
    <3>1. T(i) \in Batches!Slot /\ T(i) # Batches!Hub  BY <1>3, <2>7
    <3>2. Batches!AddedSingly'[T(i)] = A(T(i), i)
      <4>1. (CHOOSE j \in 1 .. e : T(j) = T(i)) = i  BY <2>3, <2>7
      <4>. QED BY <2>4, <3>1, <4>1
    <3>3. CASE i \in 1 .. d
      <4>1. (CHOOSE j \in 1 .. d : T(j) = T(i)) = i  BY <2>3, <2>7, <3>3
      <4>2. symbols[T(i)] = A(T(i), i)  BY <2>5, <3>1, <3>3, <4>1
      <4>3. ~ \E j \in d + 1 .. e : P(j) = T(i)  BY <1>3, <2>7, <2>8, <3>3
      <4>4. symbols'[T(i)] = symbols[T(i)]  BY <2>6, <3>1, <4>3
      <4>. QED BY <3>2, <4>2, <4>4
    <3>4. CASE i \in d + 1 .. e
      <4>1. ~ \E j \in 1 .. d : T(j) = T(i)  BY <1>3, <2>7, <3>4
      <4>2. symbols[T(i)] = before[T(i)]  BY <2>5, <3>1, <4>1
      <4>3. symbols'[T(i)] = K(T(i), i)  BY <2>6, <2>8, <2>9, <3>1, <3>4
      <4>4. K(T(i), i) = A(T(i), i)  BY <2>10, <4>2 DEF K, A
      <4>. QED BY <3>2, <4>3, <4>4
    <3>. QED BY <2>7, <3>3, <3>4
  <2>13. \A slot \in Batches!Slot : symbols'[slot] = Batches!AddedSingly'[slot]
    <3>. TAKE slot \in Batches!Slot
    <3>1. CASE \E i \in 1 .. e : T(i) = slot  BY <2>12, <3>1
    <3>2. CASE ~ \E i \in 1 .. e : T(i) = slot  BY <2>11, <3>2
    <3>. QED BY <3>1, <3>2
  <2>14. symbols' = [slot \in Batches!Slot |-> symbols'[slot]]  BY <2>6
  <2>15. Batches!AddedSingly' = [slot \in Batches!Slot |-> Batches!AddedSingly'[slot]]  BY <2>4
  <2>. QED BY <2>13, <2>14, <2>15 DEF Batches!BatchesEqualSingles
<1>. QED BY <1>5, <1>6

\* A sequence without its first element, index by index.
LEMMA TailOf ==
  ASSUME NEW X, NEW w, w \in Seq(X), w # <<>>
  PROVE  /\ Tail(w) \in Seq(X) /\ Len(Tail(w)) = Len(w) - 1 /\ Len(w) \in Nat \ {0}
         /\ \A k \in 1 .. Len(w) - 1 : Tail(w)[k] = w[k + 1]
OBVIOUS

\* What is left to take when the first width has been used.
LEMMA TotalOfTail ==
  ASSUME NEW w, w \in Seq(Nat \ {0}), w # <<>>, Len(w) <= 3
  PROVE  Total(Tail(w)) = Total(w) - w[1]
<1>. DEFINE t == Tail(w)
            m == Len(w)
<1>1. Len(t) = m - 1 /\ m \in Nat \ {0} /\ \A k \in 1 .. m - 1 : t[k] = w[k + 1]  BY TailOf
<1>2. \A k \in 1 .. m : w[k] \in Nat  OBVIOUS
<1>3. Total(w) = IF m = 0 THEN 0 ELSE IF m = 1 THEN w[1]
                 ELSE IF m = 2 THEN w[1] + w[2] ELSE w[1] + w[2] + w[3]
  BY DEF Total
<1>4. Total(t) = IF m - 1 = 0 THEN 0 ELSE IF m - 1 = 1 THEN t[1]
                 ELSE IF m - 1 = 2 THEN t[1] + t[2] ELSE t[1] + t[2] + t[3]
  BY <1>1 DEF Total
<1>5. m = 1 \/ m = 2 \/ m = 3  BY <1>1
<1>. HIDE DEF t, m
<1>6. CASE m = 1
  <2>1. w[1] \in Nat  BY <1>2, <1>6
  <2>. QED BY <1>3, <1>4, <1>6, <2>1 DEF t
<1>7. CASE m = 2
  <2>1. 1 \in 1 .. m - 1 /\ 1 + 1 = 2 /\ 1 \in 1 .. m /\ 2 \in 1 .. m  BY <1>7
  <2>2. t[1] = w[2] /\ w[1] \in Nat /\ w[2] \in Nat  BY <1>1, <1>2, <2>1
  <2>3. Total(w) = w[1] + w[2]  BY <1>3, <1>7
  <2>4. Total(t) = w[2]  BY <1>4, <1>7, <2>2
  <2>5. Total(t) = Total(w) - w[1]  BY <2>2, <2>3, <2>4
  <2>. QED BY <2>5 DEF t
<1>8. CASE m = 3
  <2>1. 1 \in 1 .. m - 1 /\ 1 + 1 = 2 /\ 2 \in 1 .. m - 1 /\ 2 + 1 = 3
        /\ 1 \in 1 .. m /\ 2 \in 1 .. m /\ 3 \in 1 .. m
    BY <1>8
  <2>2. t[1] = w[2] /\ t[2] = w[3] /\ w[1] \in Nat /\ w[2] \in Nat /\ w[3] \in Nat
    BY <1>1, <1>2, <2>1
  <2>3. Total(w) = w[1] + w[2] + w[3]  BY <1>3, <1>8
  <2>4. Total(t) = w[2] + w[3]  BY <1>4, <1>8, <2>2
  <2>5. Total(t) = Total(w) - w[1]  BY <2>2, <2>3, <2>4
  <2>. QED BY <2>5 DEF t
<1>. QED BY <1>5, <1>6, <1>7, <1>8

\* What single additions give depends on the slab before, the list and the
\* number taken.
LEMMA AddedSame ==
  ASSUME routine' = routine, list' = list, before' = before, done' = done
  PROVE  Batches!AddedSingly' = Batches!AddedSingly
<1>1. \A i : Batches!Target(i)' = Batches!Target(i)  BY DEF Batches!Target
<1>2. \A i : Batches!Factor(list[i])' = Batches!Factor(list[i])  BY DEF Batches!Factor
<1>. DEFINE A(slot, i) ==
       Batches!Plus(before[slot], Batches!Scaled(before[Batches!Hub], Batches!Factor(list[i])))
            T(i) == Batches!Target(i)
<1>3. CASE routine.dir = "from"
  <2>1. Batches!AddedSingly =
          [before EXCEPT ![Batches!Hub] =
            Batches!Plus(@, UNION {before[T(i)] : i \in 1 .. done})]
    BY <1>3 DEF Batches!AddedSingly
  <2>2. Batches!AddedSingly' =
          [before EXCEPT ![Batches!Hub] =
            Batches!Plus(@, UNION {before[Batches!Target(i)'] : i \in 1 .. done'})]
    BY <1>3 DEF Batches!AddedSingly
  <2>. HIDE DEF T
  <2>3. {before[Batches!Target(i)'] : i \in 1 .. done'} = {before[T(i)] : i \in 1 .. done}
    BY <1>1 DEF T
  <2>. QED BY <2>1, <2>2, <2>3
<1>4. CASE routine.dir # "from"
  <2>1. Batches!AddedSingly' = [slot \in Batches!Slot |->
          IF \E i \in 1 .. done : T(i) = slot THEN A(slot, CHOOSE i \in 1 .. done : T(i) = slot)
                            ELSE before[slot]]
    BY <1>1, <1>4, <1>2 DEF Batches!AddedSingly
  <2>2. Batches!AddedSingly = [slot \in Batches!Slot |->
          IF \E i \in 1 .. done : T(i) = slot THEN A(slot, CHOOSE i \in 1 .. done : T(i) = slot)
                            ELSE before[slot]]
    BY <1>4 DEF Batches!AddedSingly
  <2>. QED BY <2>1, <2>2
<1>. QED BY <1>3, <1>4

\* Every step of a routine keeps the invariant.
LEMMA BatchesNext ==
  Batches!BatchAssumption /\ BatchesInv /\ [Batches!Next]_(Batches!vars) => BatchesInv'
<1>. SUFFICES ASSUME Batches!BatchAssumption, BatchesInv, [Batches!Next]_(Batches!vars)
              PROVE BatchesInv'  OBVIOUS
<1>0. PICK n \in 0 .. BatchMaxLen : Entries(n) /\ RoutineOk(routine, n)  BY DEF BatchesInv
<1>1. Len(list) = n /\ n \in Nat /\ done \in 0 .. n /\ Batches!Left = n - done /\ Begins
      /\ symbols = Batches!AddedSingly /\ WidthsSuffice
    BY <1>0 DEF BatchesInv, Entries, Batches!BatchAssumption, Batches!Left,
       Batches!BatchesEqualSingles
<1>2. SUFFICES ASSUME routine' = routine, list' = list, before' = before
      PROVE done' \in 0 .. n /\ symbols' = Batches!AddedSingly' /\ WidthsSuffice'
  <2>1. routine' = routine /\ list' = list /\ before' = before

      BY DEF Batches!Next, Batches!ReturnEarly, Batches!TakeBatch, Batches!NextWidth,
         Batches!Returned, Batches!vars
  <2>2. (Entries(n) /\ RoutineOk(routine, n) /\ Begins)'
    BY <1>0, <1>1, <2>1 DEF Entries, RoutineOk, Begins
  <2>3. done' \in 0 .. n /\ symbols' = Batches!AddedSingly' /\ WidthsSuffice' BY <1>2, <2>1
  <2>. QED BY <1>1, <2>1, <2>2, <2>3 DEF BatchesInv, Batches!BatchesEqualSingles
<1>3. CASE UNCHANGED <<symbols, done>>
  <2>1. Batches!AddedSingly' = Batches!AddedSingly  BY <1>2, <1>3, AddedSame
  <2>2. done' \in 0 .. n /\ symbols' = Batches!AddedSingly'  BY <1>1, <1>3, <2>1
  <2>3. Batches!Left' = Batches!Left /\ (Batches!SkipsZero <=> Batches!SkipsZero')
    BY <1>2, <1>3 DEF Batches!Left, Batches!SkipsZero
  <2>4. CASE Batches!ReturnEarly
    <3>1. widths' = <<>> /\ (Batches!Left = 0 \/ Batches!SkipsZero)
      BY <2>4 DEF Batches!ReturnEarly
    <3>2. routine.once => Batches!Left = 0  BY <1>1, <3>1 DEF WidthsSuffice, Batches!SkipsZero
    <3>3. WidthsSuffice'  BY <1>1, <1>2, <2>3, <3>1, <3>2 DEF WidthsSuffice, Once, Total
    <3>. QED BY <2>2, <3>3
  <2>5. CASE Batches!NextWidth
    <3>1. /\ widths # <<>> /\ ~routine.once /\ Batches!Left > 0
          /\ Head(widths) > Batches!Left /\ widths' = Tail(widths)
      BY <2>5 DEF Batches!NextWidth, Batches!NarrowerWidths
    <3>2. widths \in Seq(Nat \ {0}) /\ widths[Len(widths)] = 1  BY <1>1, <3>1 DEF WidthsSuffice
    <3>3. Len(widths) # 1 /\ Len(widths) > 0 /\ Len(widths) \in Nat  BY <1>1, <3>1, <3>2
    <3>4. /\ Tail(widths) \in Seq(Nat \ {0}) /\ Tail(widths) # <<>>
          /\ Len(Tail(widths)) = Len(widths) - 1
          /\ Tail(widths)[Len(widths) - 1] = 1
      <4>1. /\ Tail(widths) \in Seq(Nat \ {0}) /\ Len(Tail(widths)) = Len(widths) - 1
            /\ \A k \in 1 .. Len(widths) - 1 : Tail(widths)[k] = widths[k + 1]
        BY <3>1, <3>2, TailOf
      <4>. DEFINE k == Len(widths) - 1
      <4>2. k \in 1 .. Len(widths) - 1 /\ k + 1 = Len(widths)
        <5>. DEFINE l == Len(widths)
        <5>1. l # 1 /\ l > 0 /\ l \in Nat  BY <3>3
        <5>. HIDE DEF l
        <5>2. l - 1 \in 1 .. l - 1 /\ (l - 1) + 1 = l  BY <5>1
        <5>. QED BY <5>2 DEF l
      <4>3. Tail(widths)[k] = widths[k + 1]  BY <4>1, <4>2
      <4>4. Tail(widths) # <<>>
        <5>. DEFINE t == Tail(widths)
        <5>1. Len(t) # 0  BY <3>3, <4>1
        <5>. HIDE DEF t
        <5>2. t # <<>>  BY <5>1
        <5>. QED BY <5>2 DEF t
      <4>. QED BY <3>2, <4>1, <4>2, <4>3, <4>4
    <3>5. WidthsSuffice'  BY <1>2, <3>1, <3>4 DEF WidthsSuffice
    <3>. QED BY <2>2, <3>5
  <2>6. CASE Batches!TakeBatch
    <3>1. widths # <<>> /\ done' = done + Head(widths)
      BY <2>6 DEF Batches!TakeBatch, Batches!AfterBatch
    <3>2. Head(widths) \in Nat \ {0}  BY <1>1, <3>1 DEF WidthsSuffice
    <3>. QED BY <1>1, <1>3, <3>1, <3>2
  <2>7. CASE UNCHANGED Batches!vars
    <3>1. WidthsSuffice'  BY <1>1, <1>2, <2>3, <2>7 DEF WidthsSuffice, Batches!vars
    <3>. QED BY <2>2, <3>1
  <2>. QED BY <2>4, <2>5, <2>6, <2>7 DEF Batches!Next, Batches!Returned
<1>4. CASE Batches!TakeBatch
  <2>. DEFINE w == Head(widths)
  <2>1. /\ widths # <<>> /\ ~Batches!SkipsZero /\ w <= Batches!Left
        /\ symbols' = Batches!Kernel(done + 1, done + w)
        /\ done' = done + w /\ widths' = IF routine.once THEN Tail(widths) ELSE widths
    BY <1>4 DEF Batches!TakeBatch, Batches!AfterBatch
  <2>2. widths \in Seq(Nat \ {0}) /\ w \in Nat \ {0} /\ Len(widths) > 0 /\ w = widths[1]
    BY <1>1, <2>1 DEF WidthsSuffice
  <2>. HIDE DEF w
  <2>3. done + w <= n /\ done' \in 0 .. n /\ Batches!Left' = Batches!Left - w
    BY <1>1, <1>2, <2>1, <2>2 DEF Batches!Left
  <2>4. symbols' = Batches!AddedSingly'
    BY <1>0, <1>2, <2>1, <2>2, <2>3, KernelAddsSingly DEF Batches!BatchesEqualSingles
  <2>5. CASE routine.once
    <3>1. Once(widths, Batches!Left) /\ ~routine.zeroCheck  BY <1>1, <2>5 DEF WidthsSuffice
    <3>2. /\ Tail(widths) \in Seq(Nat \ {0}) /\ Len(Tail(widths)) = Len(widths) - 1
          /\ \A k \in 1 .. Len(widths) - 1 : Tail(widths)[k] = widths[k + 1]
          /\ Len(widths) \in Nat
      BY <2>2
    <3>3. Total(widths) = Batches!Left /\ Len(widths) <= 3  BY <3>1 DEF Once
    <3>4. Total(Tail(widths)) = Batches!Left - w  BY <2>1, <2>2, <3>3, TotalOfTail
    <3>5. Once(Tail(widths), Batches!Left - w)  BY <3>2, <3>3, <3>4 DEF Once
    <3>6. WidthsSuffice'  BY <1>2, <2>1, <2>3, <2>5, <3>1, <3>2, <3>5 DEF WidthsSuffice
    <3>. QED BY <2>3, <2>4, <3>6
  <2>6. CASE ~routine.once
    <3>1. WidthsSuffice'  BY <1>1, <1>2, <2>1, <2>6 DEF WidthsSuffice
    <3>. QED BY <2>3, <2>4, <3>1
  <2>. QED BY <2>5, <2>6
<1>. QED BY <1>3, <1>4 DEF Batches!Next, Batches!Returned, Batches!ReturnEarly,
       Batches!NextWidth, Batches!vars

\* What single additions give is a slab of symbols.
LEMMA BatchesTypes == Batches!BatchAssumption /\ BatchesInv => Batches!TypeInv
<1>. SUFFICES ASSUME Batches!BatchAssumption, BatchesInv PROVE Batches!TypeInv  OBVIOUS
<1>0. PICK n \in 0 .. BatchMaxLen : Entries(n) /\ RoutineOk(routine, n)  BY DEF BatchesInv
<1>1. /\ list = [i \in 1 .. n |-> i] /\ Len(list) = n /\ n \in Nat /\ n <= BatchMaxLen
      /\ BatchMaxLen \in Nat /\ HdpcRows \in Nat /\ LdpcRows \in Nat
  BY <1>0 DEF Entries, Batches!BatchAssumption
<1>2. list \in Seq(Batches!Slot)
  <2>1. \A i \in 1 .. n : i \in Batches!Slot  BY <1>1 DEF Batches!Slot
  <2>. QED BY <1>1, <2>1
<1>3. symbols = Batches!AddedSingly /\ before \in [Batches!Slot -> Batches!Symbol]
      /\ Batches!Hub \in Batches!Slot /\ done \in 0 .. n
  BY <1>1 DEF BatchesInv, Batches!BatchesEqualSingles, Begins, Batches!Hub, Batches!Slot
<1>4. \A i \in 1 .. done : Batches!Target(i) \in Batches!Slot /\ i \in 1 .. n
  <2>1. \A i \in 1 .. done : i \in 1 .. n  BY <1>1, <1>3
  <2>. QED BY <1>0, <2>1, Targets
<1>5. \A slot \in Batches!Slot :
        before[slot] \subseteq Batches!Slot \X {UnitScalar, OtherScalar}
  BY <1>3 DEF Batches!Symbol
<1>6. CASE routine.dir = "from"
  <2>. DEFINE U == UNION {before[Batches!Target(i)] : i \in 1 .. done}
  <2>1. U \subseteq Batches!Slot \X {UnitScalar, OtherScalar}  BY <1>4, <1>5
  <2>2. symbols = [before EXCEPT ![Batches!Hub] = Batches!Plus(@, U)]
    BY <1>3, <1>6 DEF Batches!AddedSingly
  <2>. HIDE DEF U
  <2>3. Batches!Plus(before[Batches!Hub], U) \in Batches!Symbol
    BY <1>3, <1>5, <2>1 DEF Batches!Plus, Batches!Symbol
  <2>4. symbols \in [Batches!Slot -> Batches!Symbol]  BY <1>3, <2>2, <2>3
  <2>. QED BY <1>1, <1>2, <1>3, <2>4 DEF Batches!TypeInv
<1>7. CASE routine.dir # "from"
  <2>. DEFINE A(slot) == LET i == CHOOSE i \in 1 .. done : Batches!Target(i) = slot
               IN Batches!Plus(before[slot],
                 Batches!Scaled(before[Batches!Hub], Batches!Factor(list[i])))
  <2>1. symbols =
          [slot \in Batches!Slot |-> IF \E i \in 1 .. done : Batches!Target(i) = slot
            THEN A(slot) ELSE before[slot]]
    BY <1>3, <1>7 DEF Batches!AddedSingly
  <2>2. ASSUME NEW slot \in Batches!Slot, NEW i
        PROVE Batches!Plus(before[slot],
                Batches!Scaled(before[Batches!Hub], Batches!Factor(i))) \in Batches!Symbol
    <3>1. Batches!Factor(i) \in {UnitScalar, OtherScalar}  BY DEF Batches!Factor
    <3>2. Batches!Scaled(before[Batches!Hub], Batches!Factor(i)) \in Batches!Symbol
      <4>1. \A t \in before[Batches!Hub] : t[1] \in Batches!Slot  BY <1>3, <1>5
      <4>. QED BY <3>1, <4>1 DEF Batches!Scaled, Batches!Symbol
    <3>. QED BY <1>5, <3>2 DEF Batches!Plus, Batches!Symbol
  <2>3. \A slot \in Batches!Slot : A(slot) \in Batches!Symbol  BY <2>2
  <2>. HIDE DEF A
  <2>4. symbols \in [Batches!Slot -> Batches!Symbol]  BY <1>3, <2>1, <2>3
  <2>. QED BY <1>1, <1>2, <1>3, <2>4 DEF Batches!TypeInv
<1>. QED BY <1>6, <1>7

\* The invariant implies the properties that the run checks.
LEMMA BatchesAnswers ==
  Batches!BatchAssumption /\ BatchesInv =>
    Batches!TypeInv /\ Batches!BatchesEqualSingles /\ Batches!NothingLeftOver
<1>. SUFFICES ASSUME Batches!BatchAssumption, BatchesInv PROVE Batches!NothingLeftOver
  BY BatchesTypes DEF BatchesInv
<1>1. WidthsSuffice BY DEF BatchesInv
<1>2. CASE routine.once  BY <1>1, <1>2 DEF WidthsSuffice, Batches!NothingLeftOver, Once, Total
<1>3. CASE ~routine.once  BY <1>1, <1>3 DEF WidthsSuffice, Batches!NothingLeftOver
<1>. QED BY <1>2, <1>3

-----------------------------------------------------------------------------
(* The operations of a plan.                                               *)

\* The slabs of a block.
Slab == [Ops!Slot -> Ops!Symbol]

\* The laws of GF(4) that the operations use.
LEMMA FieldLaws ==
  \A p, q \in Ops!F :
    /\ Ops!FPlus(p, q) \in Ops!F /\ Ops!FTimes(p, q) \in Ops!F
    /\ Ops!FPlus(p, Ops!Zero) = p /\ Ops!FTimes(Ops!Zero, p) = Ops!Zero
    /\ Ops!FTimes(p, Ops!Zero) = Ops!Zero /\ Ops!FTimes(Ops!One, p) = p
    /\ Ops!FTimes(Ops!FPlus(Ops!One, p), q) = Ops!FPlus(q, Ops!FTimes(p, q))
<1>. SUFFICES ASSUME NEW p \in {0, 1, 2, 3}, NEW q \in {0, 1, 2, 3}
     PROVE /\ Ops!FPlus(p, q) \in Ops!F /\ Ops!FTimes(p, q) \in Ops!F
           /\ Ops!FPlus(p, Ops!Zero) = p /\ Ops!FTimes(Ops!Zero, p) = Ops!Zero
           /\ Ops!FTimes(p, Ops!Zero) = Ops!Zero /\ Ops!FTimes(Ops!One, p) = p
           /\ Ops!FTimes(Ops!FPlus(Ops!One, p), q) = Ops!FPlus(q, Ops!FTimes(p, q))
  BY DEF Ops!F
<1>1. \A c \in {1, 2, 3} : \A d \in {1, 2, 3} : Ops!FTimes(c, d) = IF c = 1 THEN d
        ELSE IF d = 1 THEN c
           ELSE IF c # d THEN 1 ELSE IF c = 2 THEN 3 ELSE 2
  BY DEF Ops!FTimes
<1>2. \A c \in {0, 1, 2, 3} : Ops!FTimes(c, 0) = 0 /\ Ops!FTimes(0, c) = 0  BY DEF Ops!FTimes
<1>3. \A c \in {0, 1, 2, 3} : \A d \in {0, 1, 2, 3} : Ops!FPlus(c, d) \in {0, 1, 2, 3}
       /\ Ops!FPlus(c, d) = IF c = d THEN 0 ELSE IF c = 0 THEN d ELSE IF d = 0 THEN c
            ELSE 6 - c - d
  BY DEF Ops!FPlus
<1>4. Ops!F = {0, 1, 2, 3} /\ Ops!Zero = 0 /\ Ops!One = 1  BY DEF Ops!F, Ops!Zero, Ops!One
<1>5. Ops!FPlus(p, q) \in Ops!F /\ Ops!FPlus(p, 0) = p  BY <1>3, <1>4
<1>6. Ops!FTimes(p, q) \in Ops!F /\ Ops!FTimes(1, p) = p /\ Ops!FTimes(0, p) = 0
      /\ Ops!FTimes(p, 0) = 0
  <2>1. CASE p = 0 \/ q = 0  BY <1>1, <1>2, <1>4, <2>1
  <2>2. CASE p # 0 /\ q # 0  BY <1>1, <1>2, <1>4, <2>2
  <2>. QED BY <2>1, <2>2
<1>7. Ops!FTimes(Ops!FPlus(1, p), q) = Ops!FPlus(q, Ops!FTimes(p, q))
  <2>1. CASE q = 0  BY <1>2, <1>3, <2>1
  <2>2. CASE p = 0 /\ q # 0
    <3>1. Ops!FPlus(1, p) = 1 /\ Ops!FTimes(p, q) = 0 /\ Ops!FTimes(1, q) = q
          /\ Ops!FPlus(q, 0) = q
      BY <1>1, <1>2, <1>3, <2>2
    <3>. QED BY <3>1
  <2>3. CASE p = 1 /\ q # 0
    <3>1. Ops!FPlus(1, p) = 0 /\ Ops!FTimes(p, q) = q /\ Ops!FTimes(0, q) = 0
          /\ Ops!FPlus(q, q) = 0
      BY <1>1, <1>2, <1>3, <2>3
    <3>. QED BY <3>1
  <2>4. CASE p = 2 /\ q # 0
    <3>1. Ops!FPlus(1, p) = 3  BY <1>3, <2>4
    <3>2. Ops!FTimes(3, q) = Ops!FPlus(q, Ops!FTimes(2, q))  BY <1>1, <1>3, <2>4
    <3>. QED BY <2>4, <3>1, <3>2
  <2>5. CASE p = 3 /\ q # 0
    <3>1. Ops!FPlus(1, p) = 2  BY <1>3, <2>5
    <3>2. Ops!FTimes(2, q) = Ops!FPlus(q, Ops!FTimes(3, q))  BY <1>1, <1>3, <2>5
    <3>. QED BY <2>5, <3>1, <3>2
  <2>. QED BY <2>1, <2>2, <2>3, <2>4, <2>5
<1>. QED BY <1>4, <1>5, <1>6, <1>7

\* The same laws for symbols: zero and one as factors, a factor that is one more,
\* and what a factor does to zeros.
LEMMA SymbolLaws ==
  ASSUME NEW v \in Ops!Symbol, NEW w \in Ops!Symbol, NEW c \in Ops!F
  PROVE  /\ Ops!VPlus(v, w) \in Ops!Symbol /\ Ops!VTimes(c, v) \in Ops!Symbol
         /\ Ops!VTimes(Ops!Zero, v) = Ops!VZero(Ops!Slot) /\ Ops!VTimes(Ops!One, v) = v
         /\ Ops!VPlus(v, Ops!VZero(Ops!Slot)) = v
         /\ Ops!VTimes(Ops!FPlus(Ops!One, c), v) = Ops!VPlus(v, Ops!VTimes(c, v))
         /\ Ops!IsZero(v) => Ops!VTimes(c, v) = v /\ v = Ops!VZero(Ops!Slot)
<1>. DEFINE p == Ops!VPlus(v, w)
            t == Ops!VTimes(c, v)
<1>1. \A s \in Ops!Slot : v[s] \in Ops!F /\ w[s] \in Ops!F  BY DEF Ops!Symbol
<1>2. /\ p = [s \in Ops!Slot |-> Ops!FPlus(v[s], w[s])]
      /\ t = [s \in Ops!Slot |-> Ops!FTimes(c, v[s])]
      /\ v = [s \in Ops!Slot |-> v[s]]
  BY DEF Ops!VPlus, Ops!VTimes, Ops!Symbol
<1>3. p \in Ops!Symbol /\ t \in Ops!Symbol  BY <1>1, <1>2, FieldLaws DEF Ops!Symbol
<1>4. Ops!Zero \in Ops!F /\ Ops!One \in Ops!F  BY DEF Ops!F, Ops!Zero, Ops!One
<1>5. Ops!VTimes(Ops!Zero, v) = Ops!VZero(Ops!Slot)
  <2>1. Ops!VTimes(Ops!Zero, v) = [s \in Ops!Slot |-> Ops!FTimes(Ops!Zero, v[s])]
    BY DEF Ops!VTimes, Ops!Symbol
  <2>. QED BY <1>1, <2>1, FieldLaws DEF Ops!VZero
<1>6. Ops!VTimes(Ops!One, v) = v
  <2>1. Ops!VTimes(Ops!One, v) = [s \in Ops!Slot |-> Ops!FTimes(Ops!One, v[s])]
    BY DEF Ops!VTimes, Ops!Symbol
  <2>. QED BY <1>1, <1>2, <2>1, FieldLaws
<1>7. Ops!VPlus(v, Ops!VZero(Ops!Slot)) = v
  <2>1. Ops!VPlus(v, Ops!VZero(Ops!Slot)) = [s \in Ops!Slot |-> Ops!FPlus(v[s], Ops!Zero)]
    BY DEF Ops!VPlus, Ops!VZero, Ops!Symbol
  <2>. QED BY <1>1, <1>2, <2>1, FieldLaws
<1>8. Ops!VTimes(Ops!FPlus(Ops!One, c), v) = Ops!VPlus(v, t)
  <2>1. Ops!VTimes(Ops!FPlus(Ops!One, c), v) =
          [s \in Ops!Slot |-> Ops!FTimes(Ops!FPlus(Ops!One, c), v[s])]
    BY DEF Ops!VTimes, Ops!Symbol
  <2>2. Ops!VPlus(v, t) = [s \in Ops!Slot |-> Ops!FPlus(v[s], Ops!FTimes(c, v[s]))]
    <3>1. \A s \in Ops!Slot : t[s] = Ops!FTimes(c, v[s])  BY <1>2
    <3>2. Ops!VPlus(v, t) = [s \in Ops!Slot |-> Ops!FPlus(v[s], t[s])]
      <4>. HIDE DEF t
      <4>. QED BY DEF Ops!VPlus, Ops!Symbol
    <3>. QED BY <3>1, <3>2
  <2>. QED BY <1>1, <2>1, <2>2, FieldLaws
<1>9. ASSUME Ops!IsZero(v) PROVE t = v /\ v = Ops!VZero(Ops!Slot)
  <2>1. \A s \in Ops!Slot : v[s] = Ops!Zero
    BY <1>1, <1>9 DEF Ops!IsZero, Ops!Support, Ops!Symbol
  <2>. QED BY <1>2, <1>4, <2>1, FieldLaws DEF Ops!VZero
<1>. QED BY <1>3, <1>5, <1>6, <1>7, <1>8, <1>9

\* fused_addassign_symbol adds the source times the factor, also where source and
\* destination are the same, and changes nothing if the source is zero.
LEMMA FusedAdd ==
  ASSUME NEW slab \in Slab, NEW d \in Ops!Slot, NEW src \in Ops!Slot, NEW c \in Ops!F
  PROVE  /\ Ops!fused_addassign_symbol(slab, d, src, c) \in Slab
         /\ Ops!fused_addassign_symbol(slab, d, src, c)[d] =
              Ops!VPlus(slab[d], Ops!VTimes(c, slab[src]))
         /\ Ops!fused_addassign_symbol(slab, d, src, c) =
              [slab EXCEPT ![d] = Ops!VPlus(@, Ops!VTimes(c, slab[src]))]
         /\ Ops!IsZero(slab[src]) => Ops!fused_addassign_symbol(slab, d, src, c) = slab
<1>. DEFINE v == slab[d]
            w == slab[src]
            r == Ops!VPlus(v, Ops!VTimes(c, w))
            f == Ops!fused_addassign_symbol(slab, d, src, c)
<1>1. v \in Ops!Symbol /\ w \in Ops!Symbol  BY DEF Slab
<1>2. Ops!VTimes(c, w) \in Ops!Symbol /\ r \in Ops!Symbol
  <2>. HIDE DEF v, w
  <2>1. Ops!VTimes(c, w) \in Ops!Symbol  BY <1>1, SymbolLaws
  <2>. QED BY <1>1, <2>1, SymbolLaws
<1>3. d = src => Ops!VTimes(Ops!FPlus(Ops!One, c), v) = r
  <2>1. Ops!VTimes(Ops!FPlus(Ops!One, c), v) = Ops!VPlus(v, Ops!VTimes(c, v))
    <3>. HIDE DEF v
    <3>. QED BY <1>1, SymbolLaws
  <2>. QED BY <2>1
<1>4. f = [slab EXCEPT ![d] = r]
  <2>1. f = [slab EXCEPT ![d] = IF d = src THEN Ops!VTimes(Ops!FPlus(Ops!One, c), v) ELSE r]
    BY DEF Ops!fused_addassign_symbol
  <2>. HIDE DEF r, f
  <2>. QED BY <1>3, <2>1
<1>5. ASSUME Ops!IsZero(w) PROVE r = v
  <2>1. Ops!VTimes(c, w) = w /\ w = Ops!VZero(Ops!Slot)
    <3>. HIDE DEF w
    <3>. QED BY <1>1, <1>5, SymbolLaws
  <2>2. Ops!VPlus(v, Ops!VZero(Ops!Slot)) = v
    <3>. HIDE DEF v
    <3>. QED BY <1>1, SymbolLaws
  <2>. QED BY <2>1, <2>2
<1>. HIDE DEF r, f
<1>6. f \in Slab /\ f[d] = r  BY <1>2, <1>4 DEF Slab
<1>7. Ops!IsZero(w) => f = slab  BY <1>4, <1>5 DEF Slab
<1>. QED BY <1>4, <1>6, <1>7 DEF f, r

\* What the batches of a plan hold.
LEMMA BatchType ==
  ASSUME Ops!VectorAssumption, NEW o \in Ops!Batches
  PROVE  /\ o.name = "batch" /\ o.src \in Ops!Slot
         /\ Len(o.dests) \in 0 .. MaxDests
         /\ o.dests \in Seq(Ops!Slot \X Ops!Scalars)
         /\ \A i \in 1 .. Len(o.dests) : o.dests[i] \in Ops!Slot \X Ops!Scalars
            /\ o.dests[i][1] \in Ops!Slot
                                         /\ o.dests[i][2] \in Ops!Scalars
                                         /\ o.dests[i][2] \in Ops!F
<1>1. Ops!Scalars \subseteq Ops!F /\ Ops!One \in Ops!Scalars
  BY DEF Ops!Scalars, Ops!F, Ops!Zero, Ops!One
<1>2. MaxDests \in Nat \ {0, 1} /\ BatchSources \subseteq Ops!Slot
  BY DEF Ops!VectorAssumption, Ops!Slot
<1>3. PICK n \in 0 .. MaxDests : o.dests \in [1 .. n -> Ops!Slot \X Ops!Scalars]
  <2>1. CASE o \in [name : {"batch"}, src : BatchSources, dests :
          UNION {[1 .. n -> Ops!Slot \X {Ops!One}] : n \in 0 .. MaxDests}]
    <3>1. PICK n \in 0 .. MaxDests : o.dests \in [1 .. n -> Ops!Slot \X {Ops!One}]  BY <2>1
    <3>2. o.dests \in [1 .. n -> Ops!Slot \X Ops!Scalars]  BY <1>1, <3>1
    <3>. QED BY <3>2
  <2>2. CASE o \in [name : {"batch"}, src : BatchSources, dests :
          UNION {[1 .. n -> Ops!Slot \X Ops!Scalars] : n \in 0 .. 2}]
    <3>1. PICK n \in 0 .. 2 : o.dests \in [1 .. n -> Ops!Slot \X Ops!Scalars]  BY <2>2
    <3>2. n \in 0 .. MaxDests  BY <1>2
    <3>. QED BY <3>1, <3>2
  <2>. QED BY <2>1, <2>2 DEF Ops!Batches
<1>4. o.name = "batch" /\ o.src \in Ops!Slot  BY <1>2 DEF Ops!Batches
<1>5. Len(o.dests) = n /\ o.dests \in Seq(Ops!Slot \X Ops!Scalars)
  <2>. DEFINE X == Ops!Slot \X Ops!Scalars
              q == o.dests
  <2>1. n \in Nat /\ q \in [1 .. n -> X]  BY <1>2, <1>3
  <2>. HIDE DEF X, q
  <2>2. q \in Seq(X) /\ Len(q) = n  BY <2>1
  <2>. QED BY <2>2 DEF X, q
<1>. QED BY <1>1, <1>3, <1>4, <1>5

\* The slabs on the way through a batch, one addition at a time.
Adds(u, slab, o) ==
  /\ u \in [0 .. Len(o.dests) -> Slab]
  /\ u[0] = slab
  /\ \A n \in 1 .. Len(o.dests) :
       u[n] = Ops!fused_addassign_symbol(u[n - 1], o.dests[n][1], o.src, o.dests[n][2])

\* The slabs on the way exist for every batch, and OneByOne is the last of them.
LEMMA AddsExist ==
  ASSUME Ops!VectorAssumption, NEW o \in Ops!Batches, NEW slab \in Slab
  PROVE  \E u : Adds(u, slab, o) /\ Ops!OneByOne(slab, o) = u[Len(o.dests)]
<1>. DEFINE n == Len(o.dests)
            Add(i, c) == Ops!fused_addassign_symbol(c, o.dests[i][1], o.src, o.dests[i][2])
            G == [p \in (1 .. n) \X Slab |-> Add(p[1], p[2])]
            Eqn(f) == f = [i \in 0 .. n |->
                 IF i = 0 THEN slab
                 ELSE Ops!fused_addassign_symbol(f[i - 1], o.dests[i][1], o.src, o.dests[i][2])]
            u == CHOOSE f : Eqn(f)
<1>1. Ops!OneByOne(slab, o) = u[n]  BY DEF Ops!OneByOne
<1>2. n \in Nat /\ o.src \in Ops!Slot /\ \A i \in 1 .. n : o.dests[i][1] \in Ops!Slot
      /\ o.dests[i][2] \in Ops!F
  BY BatchType DEF Ops!VectorAssumption
<1>. HIDE DEF n
<1>3. \A i \in 1 .. n : \A c \in Slab : Add(i, c) \in Slab  BY <1>2, FusedAdd
<1>. HIDE DEF Add
<1>4. G \in [(1 .. n) \X Slab -> Slab]  BY <1>3
<1>. HIDE DEF G, u, Eqn
<1>5. PICK f : Recurs(f, Slab, slab, n, G)  BY <1>2, <1>4, Recursion
<1>6. f \in [0 .. n -> Slab] /\ f[0] = slab /\ \A i \in 1 .. n : f[i] = Add(i, f[i - 1])
  <2>1. f \in [0 .. n -> Slab] /\ f[0] = slab /\ \A i \in 1 .. n : f[i] = G[<<i, f[i - 1]>>]
    BY <1>5 DEF Recurs
  <2>2. ASSUME NEW i \in 1 .. n PROVE G[<<i, f[i - 1]>>] = Add(i, f[i - 1])
    <3>1. <<i, f[i - 1]>> \in (1 .. n) \X Slab  BY <1>2, <2>1
    <3>. QED BY <3>1 DEF G
  <2>. QED BY <2>1, <2>2
<1>7. Eqn(f)
  <2>. DEFINE E(g, i) == IF i = 0 THEN slab ELSE Add(i, g[i - 1])
  <2>1. \A i \in 0 .. n : f[i] = E(f, i)
    <3>1. \A i \in 0 .. n : i # 0 => i \in 1 .. n  BY <1>2
    <3>. QED BY <1>6, <3>1
  <2>2. f = [i \in 0 .. n |-> E(f, i)]
    <3>. HIDE DEF E
    <3>. QED BY <1>6, <2>1
  <2>. QED BY <2>2 DEF Eqn, Add
<1>8. Eqn(u)  BY <1>7 DEF u
<1>9. u = f
  <2>. DEFINE P == {i \in Nat : i <= n => u[i] = f[i]}
              E(g, i) == IF i = 0 THEN slab ELSE Add(i, g[i - 1])
  <2>1. u = [i \in 0 .. n |-> E(u, i)]  BY <1>8 DEF Eqn, Add
  <2>2. \A i \in 0 .. n : u[i] = E(u, i)
    <3>. HIDE DEF E
    <3>. QED BY <2>1
  <2>3. 0 \in P  BY <1>2, <1>6, <2>2
  <2>4. ASSUME NEW i \in Nat, i \in P PROVE i + 1 \in P
    <3>. SUFFICES ASSUME i + 1 <= n PROVE u[i + 1] = f[i + 1]  OBVIOUS
    <3>1. i + 1 \in 1 .. n /\ i + 1 \in 0 .. n /\ i + 1 # 0 /\ (i + 1) - 1 = i /\ i <= n
      BY <1>2
    <3>. QED BY <1>6, <2>2, <2>4, <3>1
  <2>. HIDE DEF P
  <2>5. \A i \in Nat : i \in P  BY <2>3, <2>4, SetInduction
  <2>6. \A i \in 0 .. n : u[i] = f[i]  BY <1>2, <2>5 DEF P
  <2>. HIDE DEF E
  <2>. QED BY <1>6, <2>1, <2>6
<1>. QED BY <1>1, <1>6, <1>9 DEF Adds, Add, n

\* Addition i of a batch adds a symbol to itself.
Stops(o, i) == o.dests[i] \in {o.src} \X {Ops!One, 2}

\* The slab is what the additions up to the index give, none of which stops.
Way ==
  /\ \A u : Adds(u, before, op) => symbols = u[index]
  /\ symbols[op.src] = before[op.src]
  /\ \A i \in 1 .. index : ~Stops(op, i)
  /\ panicked => \E i \in 1 .. Len(op.dests) : Stops(op, i)

\* Where a batch is: skipped for a symbol that is zero, stopped by the first
\* addition to its own source, or on its way.
BatchUnderWay ==
  op.name = "batch" =>
    /\ op \in Ops!Batches
    /\ index \in 0 .. Len(op.dests)
    /\ width <= Len(Chunks) => Ops!Units(op.dests)
    /\ IF Ops!IsZero(before[op.src]) \/ op.dests = <<>>
       THEN symbols = before /\ ~panicked /\ index = Len(op.dests)
       ELSE Way

\* Types, and the way of a batch through its additions.
OpsInv ==
  /\ symbols \in Slab /\ before \in Slab
  /\ panicked \in BOOLEAN /\ fast \in BOOLEAN
  /\ index \in 0 .. MaxDests /\ width \in 1 .. Len(Chunks) + 1
  /\ op.name = "none" => op = Ops!NoOp
  /\ op = Ops!NoOp => ~panicked
  /\ Ops!AddIsLinear
  /\ BatchUnderWay

\* Nothing runs at first.
LEMMA OpsInit == Ops!VectorAssumption /\ Ops!Init => OpsInv
<1>. SUFFICES ASSUME Ops!VectorAssumption, Ops!Init PROVE OpsInv  OBVIOUS
<1>1. PICK zeros \in SUBSET {0} :
       symbols = [s \in Ops!Slot |-> IF s \in zeros THEN Ops!VZero(Ops!Slot)
         ELSE Ops!VUnit(Ops!Slot, s)]
  BY DEF Ops!Init
<1>2. /\ fast \in BOOLEAN /\ op = Ops!NoOp /\ index = 0 /\ width = 1 /\ panicked = FALSE
      /\ before = symbols
      /\ MaxDests \in Nat /\ Len(Chunks) \in Nat
  BY DEF Ops!Init, Ops!VectorAssumption
<1>3. \A s \in Ops!Slot : Ops!VZero(Ops!Slot) \in Ops!Symbol
      /\ Ops!VUnit(Ops!Slot, s) \in Ops!Symbol
  BY DEF Ops!VZero, Ops!VUnit, Ops!Symbol, Ops!Zero, Ops!One, Ops!F
<1>4. symbols \in Slab  BY <1>1, <1>3 DEF Slab
<1>5. op.name = "none"  BY <1>2 DEF Ops!NoOp
<1>6. Ops!AddIsLinear /\ BatchUnderWay  BY <1>5 DEF Ops!AddIsLinear, BatchUnderWay
<1>7. index \in 0 .. MaxDests /\ width \in 1 .. Len(Chunks) + 1  BY <1>2
<1>8. panicked \in BOOLEAN /\ ~panicked  BY <1>2
<1>9. before \in Slab /\ fast \in BOOLEAN /\ op = Ops!NoOp  BY <1>2, <1>4
<1>. QED BY <1>4, <1>6, <1>7, <1>8, <1>9 DEF OpsInv

\* Swap, scale and add are done in one step.
LEMMA OperationBegins ==
  ASSUME Ops!VectorAssumption, OpsInv, NEW o, NEW slab \in Slab, Ops!Perform(o, slab),
         o.name # "batch", o.name # "none",
         o.name = "add" =>
           slab[o.dest] = Ops!VPlus(symbols[o.dest], Ops!VTimes(o.by, symbols[o.src]))
  PROVE  OpsInv'
<1>1. /\ op' = o /\ symbols' = slab /\ before' = symbols /\ index' = 0 /\ width' = 1
      /\ panicked' = panicked /\ fast' = fast /\ op = Ops!NoOp
  BY DEF Ops!Perform
<1>2. MaxDests \in Nat /\ Len(Chunks) \in Nat  BY DEF Ops!VectorAssumption
<1>3. Ops!AddIsLinear'  BY <1>1 DEF Ops!AddIsLinear
<1>4. BatchUnderWay'  BY <1>1 DEF BatchUnderWay
<1>5. op'.name # "none" /\ ~panicked  BY <1>1 DEF OpsInv
<1>. QED BY <1>1, <1>2, <1>3, <1>4, <1>5 DEF OpsInv

\* A batch begins with none of its additions made, or with all of them if there
\* is nothing to add.
LEMMA BatchBegins ==
  ASSUME Ops!VectorAssumption, OpsInv, NEW o \in Ops!Batches,
         Ops!fused_addassign_symbol_batch_inner(o)
  PROVE  OpsInv'
<1>1. /\ op' = o /\ symbols' = symbols /\ before' = symbols /\ index' = IF Ops!Skips(o)
        THEN Len(o.dests) ELSE 0
      /\ width' = IF Ops!use_replay_batch_fast_paths(o.dests) /\ Ops!Units(o.dests) THEN 1
           ELSE Len(Chunks) + 1
      /\ panicked' = panicked /\ fast' = fast /\ op = Ops!NoOp
  BY DEF Ops!fused_addassign_symbol_batch_inner
<1>2. MaxDests \in Nat /\ Len(Chunks) \in Nat /\ Len(o.dests) \in 0 .. MaxDests
      /\ o.name = "batch"
      /\ o.dests \in Seq(Ops!Slot \X Ops!Scalars)
  BY BatchType DEF Ops!VectorAssumption
<1>3. ~panicked  BY <1>1 DEF OpsInv
<1>4. Ops!AddIsLinear'  BY <1>1, <1>2 DEF Ops!AddIsLinear
<1>5. Ops!Skips(o) <=> Ops!IsZero(before'[o.src]) \/ o.dests = <<>>  BY <1>1 DEF Ops!Skips
<1>6. index' \in 0 .. Len(o.dests) /\ index' \in 0 .. MaxDests  BY <1>1, <1>2
<1>7. width' \in 1 .. Len(Chunks) + 1 /\ (width' <= Len(Chunks) => Ops!Units(o.dests))
  BY <1>1, <1>2
<1>8. BatchUnderWay'
  <2>1. CASE Ops!Skips(o)
    <3>1. symbols' = before' /\ ~panicked' /\ index' = Len(op'.dests)  BY <1>1, <1>3, <2>1
    <3>. QED BY <1>1, <1>5, <1>6, <1>7, <2>1, <3>1 DEF BatchUnderWay, Ops!Units
  <2>2. CASE ~Ops!Skips(o)
    <3>1. Way'
      <4>1. ASSUME NEW u, Adds(u, before', op') PROVE symbols' = u[index']
        BY <1>1, <2>2, <4>1 DEF Adds
      <4>. QED BY <1>1, <1>3, <2>2, <4>1 DEF Way, Adds, Stops
    <3>. QED BY <1>1, <1>5, <1>6, <1>7, <2>2, <3>1 DEF BatchUnderWay, Ops!Units
  <2>. QED BY <2>1, <2>2
<1>9. op'.name # "none"  BY <1>1, <1>2
<1>10. op' # Ops!NoOp  BY <1>9 DEF Ops!NoOp
<1>. QED BY <1>1, <1>2, <1>3, <1>4, <1>6, <1>7, <1>8, <1>9, <1>10 DEF OpsInv

\* What holds while a batch runs, and what a step of it must keep.
LEMMA WhileRunning ==
  ASSUME Ops!VectorAssumption, OpsInv, Ops!Running
  PROVE  /\ op \in Ops!Batches /\ op.name = "batch" /\ op.src \in Ops!Slot
         /\ symbols \in Slab /\ before \in Slab
         /\ index \in Nat /\ Len(op.dests) \in 0 .. MaxDests /\ index < Len(op.dests)
         /\ MaxDests \in Nat
         /\ op # Ops!NoOp /\ ~panicked /\ Way /\ (width <= Len(Chunks) => Ops!Units(op.dests))
         /\ width \in 1 .. Len(Chunks) + 1 /\ Len(Chunks) \in Nat
         /\ ~(Ops!IsZero(before[op.src]) \/ op.dests = <<>>)
         /\ \A i \in 1 .. Len(op.dests) : /\ op.dests[i][1] \in Ops!Slot
                                         /\ op.dests[i][2] \in Ops!Scalars
                                         /\ op.dests[i][2] \in Ops!F
<1>1. op.name = "batch" /\ ~panicked /\ index < Len(op.dests)  BY DEF Ops!Running
<1>2. op \in Ops!Batches /\ index \in 0 .. Len(op.dests)
      /\ (width <= Len(Chunks) => Ops!Units(op.dests))
      /\ ~(Ops!IsZero(before[op.src]) \/ op.dests = <<>>) /\ Way
  <2>1. Len(op.dests) \in Nat
    BY <1>1, BatchType DEF OpsInv, BatchUnderWay, Ops!VectorAssumption
  <2>. QED BY <1>1, <2>1 DEF OpsInv, BatchUnderWay
<1>3. op # Ops!NoOp  BY <1>1 DEF Ops!NoOp
<1>. QED BY <1>1, <1>2, <1>3, BatchType DEF OpsInv, Ops!VectorAssumption

\* A step of a batch that makes some of its additions keeps the invariant.
LEMMA RunningStep ==
  ASSUME Ops!VectorAssumption, OpsInv, Ops!Running, op' = op, before' = before, fast' = fast,
         symbols' \in Slab, panicked' \in BOOLEAN, index' \in 0 .. Len(op.dests),
         width' \in 1 .. Len(Chunks) + 1, width' <= Len(Chunks) => Ops!Units(op.dests), Way'
  PROVE  OpsInv'
<1>1. Ops!AddIsLinear'
  <2>1. op.name # "add"  BY DEF Ops!Running
  <2>. QED BY <2>1 DEF Ops!AddIsLinear
<1>2. BatchUnderWay'  BY WhileRunning DEF BatchUnderWay, Ops!Units
<1>. QED BY <1>1, <1>2, WhileRunning DEF OpsInv

\* One addition, or the assertion that stops it.
LEMMA OneAdded ==
  ASSUME Ops!VectorAssumption, OpsInv, Ops!Running, Ops!AddOne, op' = op, before' = before,
         fast' = fast,
         width' \in 1 .. Len(Chunks) + 1, width' <= Len(Chunks) => Ops!Units(op.dests)
  PROVE  OpsInv'
<1>. DEFINE n == index + 1
            d == op.dests[n][1]
            c == op.dests[n][2]
            src == op.src
<1>1. n \in 1 .. Len(op.dests) /\ n - 1 = index /\ d \in Ops!Slot /\ c \in Ops!F
      /\ c \in Ops!Scalars /\ src \in Ops!Slot
      /\ symbols \in Slab /\ ~panicked /\ Way /\ symbols[src] = before[src]
      /\ Len(op.dests) \in Nat
      /\ index \in Nat
  BY WhileRunning DEF Way
<1>2. op.dests[n] = <<d, c>>
  <2>1. op.dests[n] \in Ops!Slot \X Ops!Scalars  BY <1>1, WhileRunning, BatchType
  <2>. QED BY <2>1
<1>3. Stops(op, n) <=> d = src /\ c # Ops!Zero
  <2>1. c \in {Ops!Zero, Ops!One, 2} /\ Ops!Zero # Ops!One /\ Ops!Zero # 2
    BY <1>1 DEF Ops!Scalars, Ops!Zero, Ops!One
  <2>2. Stops(op, n) <=> <<d, c>> \in {src} \X {Ops!One, 2}  BY <1>2 DEF Stops
  <2>. HIDE DEF d, c, src
  <2>. QED BY <2>1, <2>2
<1>4. CASE d = src /\ c # Ops!Zero
  <2>1. panicked' = TRUE /\ symbols' = symbols /\ index' = index  BY <1>4 DEF Ops!AddOne
  <2>2. Way'
    <3>1. \A u : Adds(u, before', op') => symbols' = u[index']  BY <1>1, <2>1 DEF Way
    <3>2. \E i \in 1 .. Len(op'.dests) : Stops(op', i)  BY <1>1, <1>3, <1>4
    <3>. QED BY <1>1, <2>1, <3>1, <3>2 DEF Way
  <2>. QED BY <1>1, <2>1, <2>2, RunningStep
<1>5. CASE ~(d = src /\ c # Ops!Zero)
  <2>1. /\ symbols' = [symbols EXCEPT ![d] = Ops!VPlus(@, Ops!VTimes(c, symbols[src]))]
        /\ index' = n /\ panicked' = panicked
    BY <1>5 DEF Ops!AddOne, Ops!AfterOne
  <2>2. symbols' = Ops!fused_addassign_symbol(symbols, d, src, c) /\ symbols' \in Slab
    <3>. HIDE DEF d, c, src
    <3>1. Ops!fused_addassign_symbol(symbols, d, src, c) \in Slab  BY <1>1, FusedAdd
    <3>2. Ops!fused_addassign_symbol(symbols, d, src, c) =
            [symbols EXCEPT ![d] = Ops!VPlus(@, Ops!VTimes(c, symbols[src]))]
      BY <1>1, FusedAdd
    <3>. QED BY <2>1, <3>1, <3>2
  <2>3. symbols'[src] = symbols[src]
    <3>1. CASE d # src  BY <1>1, <2>1, <3>1 DEF Slab
    <3>2. CASE d = src /\ c = Ops!Zero
      <4>. DEFINE v == symbols[src]
      <4>1. symbols'[src] = Ops!VPlus(v, Ops!VTimes(Ops!Zero, v))  BY <1>1, <2>1, <3>2 DEF Slab
      <4>2. v \in Ops!Symbol /\ Ops!Zero \in Ops!F  BY <1>1 DEF Slab, Ops!F, Ops!Zero
      <4>. HIDE DEF v
      <4>3. Ops!VTimes(Ops!Zero, v) = Ops!VZero(Ops!Slot)
            /\ Ops!VPlus(v, Ops!VZero(Ops!Slot)) = v
        BY <4>2, SymbolLaws
      <4>. QED BY <4>1, <4>3 DEF v
    <3>. QED BY <1>5, <3>1, <3>2
  <2>4. Way'
    <3>1. ASSUME NEW u, Adds(u, before', op') PROVE symbols' = u[index']
      <4>1. Adds(u, before, op)  BY <3>1
      <4>2. symbols = u[index]  BY <1>1, <4>1 DEF Way
      <4>3. u[n] = Ops!fused_addassign_symbol(u[n - 1], d, src, c)  BY <1>1, <4>1 DEF Adds
      <4>. QED BY <1>1, <2>1, <2>2, <4>2, <4>3
    <3>2. \A i \in 1 .. index' : ~Stops(op', i)
      <4>1. \A i \in 1 .. n : i = n \/ i \in 1 .. index  BY <1>1
      <4>. QED BY <1>1, <1>3, <1>5, <2>1, <4>1 DEF Way
    <3>. QED BY <1>1, <2>1, <2>3, <3>1, <3>2 DEF Way
  <2>5. index' \in 0 .. Len(op.dests)  BY <1>1, <2>1
  <2>6. panicked' \in BOOLEAN  BY <2>1 DEF OpsInv
  <2>7. symbols' \in Slab  BY <2>2
  <2>. QED BY <2>4, <2>5, <2>6, <2>7, RunningStep
<1>. QED BY <1>4, <1>5

\* A kernel's additions to symbols that differ are those made one at a time.
LEMMA ChunkAdded ==
  ASSUME Ops!VectorAssumption, OpsInv, Ops!Running, NEW n \in Nat \ {0},
         index + n <= Len(op.dests), Ops!Units(op.dests),
         NEW chunk, chunk = [i \in 1 .. n |-> op.dests[index + i][1]],
         Ops!unit_dest_chunk_is_disjoint(op.src, chunk),
         Ops!AddChunk(chunk), index' = index + n, panicked' = panicked,
         op' = op, before' = before, fast' = fast, width' = width
  PROVE  OpsInv'
<1>. DEFINE src == op.src
            w == symbols[src]
            At(m) == [s \in Ops!Slot |-> IF \E i \in 1 .. m : chunk[i] = s
              THEN Ops!VPlus(symbols[s], w) ELSE symbols[s]]
<1>1. /\ index \in Nat /\ Len(op.dests) \in Nat /\ src \in Ops!Slot /\ symbols \in Slab /\ Way
      /\ \A i \in 1 .. Len(op.dests) : op.dests[i][1] \in Ops!Slot /\ op.dests[i][2] = Ops!One
      /\ width \in 1 .. Len(Chunks) + 1 /\ (width <= Len(Chunks) => Ops!Units(op.dests))
         /\ ~panicked
      /\ symbols[src] = before[src]
  BY WhileRunning DEF Ops!Units, Way
<1>2. \A i \in 1 .. n : /\ index + i \in 1 .. Len(op.dests) /\ chunk[i] = op.dests[index + i][1]
                       /\ chunk[i] \in Ops!Slot /\ chunk[i] # src
                       /\ \A j \in 1 .. n : chunk[i] = chunk[j] => i = j
  <2>1. DOMAIN chunk = 1 .. n  OBVIOUS
  <2>2. \A i \in 1 .. n : index + i \in 1 .. Len(op.dests)  BY <1>1
  <2>. QED BY <1>1, <2>1, <2>2 DEF Ops!unit_dest_chunk_is_disjoint, Ops!IsInjective
<1>3. w \in Ops!Symbol /\ \A s \in Ops!Slot : symbols[s] \in Ops!Symbol
      /\ Ops!VPlus(symbols[s], w) \in Ops!Symbol
  <2>1. w \in Ops!Symbol /\ \A s \in Ops!Slot : symbols[s] \in Ops!Symbol  BY <1>1 DEF Slab
  <2>. HIDE DEF w
  <2>2. Ops!One \in Ops!F  BY DEF Ops!One, Ops!F
  <2>. QED BY <2>1, <2>2, SymbolLaws
<1>4. Ops!VTimes(Ops!One, w) = w
  <2>. HIDE DEF w
  <2>. QED BY <1>3, SymbolLaws DEF Ops!One, Ops!F
<1>. HIDE DEF w
<1>5. \A m : At(m) \in Slab  BY <1>3, <1>1 DEF Slab
<1>6. ASSUME NEW u, Adds(u, before, op) PROVE \A m \in 0 .. n : u[index + m] = At(m)
  <2>. DEFINE P == {m \in Nat : m <= n => u[index + m] = At(m)}
  <2>1. 0 \in P
    <3>1. u[index] = symbols  BY <1>1, <1>6 DEF Way
    <3>2. At(0) = symbols  BY <1>1 DEF Slab
    <3>3. index + 0 = index  BY <1>1
    <3>. QED BY <3>1, <3>2, <3>3
  <2>2. ASSUME NEW m \in Nat, m \in P PROVE m + 1 \in P
    <3>. SUFFICES ASSUME m + 1 <= n PROVE u[index + (m + 1)] = At(m + 1)  OBVIOUS
    <3>. DEFINE k == index + (m + 1)
                d == chunk[m + 1]
    <3>1. /\ m + 1 \in 1 .. n /\ k \in 1 .. Len(op.dests) /\ k - 1 = index + m
          /\ d = op.dests[k][1]
          /\ d \in Ops!Slot /\ d # src /\ op.dests[k][2] = Ops!One
      <4>1. m + 1 \in 1 .. n /\ k - 1 = index + m  BY <1>1
      <4>. DEFINE j == m + 1
      <4>2. j \in 1 .. n /\ k = index + j /\ d = chunk[j]  BY <4>1
      <4>. HIDE DEF j, k, d
      <4>3. k \in 1 .. Len(op.dests) /\ d = op.dests[k][1] /\ d \in Ops!Slot /\ d # src
        BY <1>2, <4>2
      <4>4. op.dests[k][2] = Ops!One  BY <1>1, <4>3
      <4>. QED BY <4>1, <4>3, <4>4
    <3>2. u[k - 1] = At(m)  BY <2>2, <3>1
    <3>3. u[k] = Ops!fused_addassign_symbol(At(m), d, src, Ops!One)
      BY <1>6, <3>1, <3>2 DEF Adds
    <3>4. At(m)[src] = w
      <4>1. ~ \E i \in 1 .. m : chunk[i] = src  BY <1>2
      <4>. QED BY <1>1, <4>1 DEF w
    <3>5. At(m)[d] = symbols[d]
      <4>1. ~ \E i \in 1 .. m : chunk[i] = d  BY <1>2, <3>1
      <4>. QED BY <3>1, <4>1
    <3>6. u[k] = [At(m) EXCEPT ![d] = Ops!VPlus(symbols[d], w)]
      <4>. HIDE DEF k, d
      <4>. HIDE DEF At
      <4>1. Ops!fused_addassign_symbol(At(m), d, src, Ops!One) =
              [At(m) EXCEPT ![d] = Ops!VPlus(At(m)[d], Ops!VTimes(Ops!One, At(m)[src]))]
        BY <3>1 DEF Ops!fused_addassign_symbol
      <4>. QED BY <1>4, <3>3, <3>4, <3>5, <4>1
    <3>7. [At(m) EXCEPT ![d] = Ops!VPlus(symbols[d], w)] = At(m + 1)
      <4>1. \A i \in 1 .. m + 1 : i = m + 1 \/ i \in 1 .. m  OBVIOUS
      <4>2. \A i \in 1 .. m : i \in 1 .. m + 1  OBVIOUS
      <4>3. m + 1 \in 1 .. m + 1  OBVIOUS
      <4>. HIDE DEF d
      <4>4. \A s \in Ops!Slot : (\E i \in 1 .. m + 1 : chunk[i] = s) <=>
              (s = d \/ \E i \in 1 .. m : chunk[i] = s)
        BY <4>1, <4>2, <4>3 DEF d
      <4>. QED BY <3>1, <4>4
    <3>. QED BY <3>6, <3>7
  <2>. HIDE DEF P
  <2>3. \A m \in Nat : m \in P  BY <2>1, <2>2, SetInduction
  <2>4. \A m \in 0 .. n : m \in Nat /\ m <= n  BY <1>1
  <2>5. \A m \in 0 .. n : m \in P  BY <2>3, <2>4
  <2>. HIDE DEF At
  <2>. QED BY <2>4, <2>5 DEF P
<1>7. symbols' = At(n)
  <2>1. Ops!ToSet(chunk) = {chunk[i] : i \in 1 .. n}  BY DEF Ops!ToSet
  <2>2. \A s \in Ops!Slot : s \in Ops!ToSet(chunk) <=> \E i \in 1 .. n : chunk[i] = s  BY <2>1
  <2>. QED BY <2>2 DEF Ops!AddChunk, w
<1>8. symbols' \in Slab  BY <1>5, <1>7
<1>9. Way'
  <2>1. ASSUME NEW u, Adds(u, before', op') PROVE symbols' = u[index']
    <3>1. Adds(u, before, op)  BY <2>1
    <3>. HIDE DEF At
    <3>2. n \in 0 .. n  BY <1>1
    <3>3. u[index + n] = At(n)  BY <1>6, <3>1, <3>2
    <3>. QED BY <1>7, <3>3
  <2>2. symbols'[src] = symbols[src]
    <3>1. ~ \E i \in 1 .. n : chunk[i] = src  BY <1>2
    <3>. QED BY <1>1, <1>7, <3>1
  <2>3. ASSUME NEW i \in 1 .. index + n PROVE ~Stops(op, i)
    <3>1. CASE i \in 1 .. index  BY <1>1, <3>1 DEF Way
    <3>2. CASE i \notin 1 .. index
      <4>. DEFINE k == i - index
      <4>1. k \in 1 .. n /\ index + k = i  BY <1>1, <3>2
      <4>2. op.dests[i][1] # src  BY <1>2, <4>1
      <4>. QED BY <4>2 DEF Stops
    <3>. QED BY <3>1, <3>2
  <2>. QED BY <1>1, <2>1, <2>2, <2>3 DEF Way
<1>10. index' \in 0 .. Len(op.dests)  BY <1>1
<1>. QED BY <1>1, <1>8, <1>9, <1>10, RunningStep DEF OpsInv

\* Every step keeps the invariant.
LEMMA OpsNext == Ops!VectorAssumption /\ OpsInv /\ [Ops!Next]_(Ops!vars) => OpsInv'
<1>. SUFFICES ASSUME Ops!VectorAssumption, OpsInv, [Ops!Next]_(Ops!vars) PROVE OpsInv'  OBVIOUS
<1>1. CASE UNCHANGED Ops!vars
  BY <1>1 DEF Ops!vars, OpsInv, Ops!AddIsLinear, BatchUnderWay, Way, Ops!Units, Stops, Adds
<1>2. ASSUME NEW p \in Ops!Slot, NEW q \in Ops!Slot,
             Ops!Perform([name |-> "swap", a |-> p, b |-> q], Ops!Swapped(symbols, p, q))
      PROVE  OpsInv'
  <2>. DEFINE o == [name |-> "swap", a |-> p, b |-> q]
  <2>1. Ops!Swapped(symbols, p, q) \in Slab  BY DEF OpsInv, Slab, Ops!Swapped
  <2>2. o.name = "swap"  OBVIOUS
  <2>3. Ops!Perform(o, Ops!Swapped(symbols, p, q))  BY <1>2
  <2>. HIDE DEF o
  <2>. QED BY <2>1, <2>2, <2>3, OperationBegins
<1>3. ASSUME NEW row \in Ops!Slot, NEW c \in Ops!Scalars,
             Ops!Perform([name |-> "scale", row |-> row, by |-> c], Ops!Scaled(symbols, row, c))
      PROVE  OpsInv'
  <2>. DEFINE o == [name |-> "scale", row |-> row, by |-> c]
              v == symbols[row]
  <2>1. Ops!Scaled(symbols, row, c) \in Slab
    <3>1. v \in Ops!Symbol /\ c \in Ops!F /\ symbols \in Slab
      BY DEF OpsInv, Slab, Ops!Scalars, Ops!F, Ops!Zero, Ops!One
    <3>2. Ops!VTimes(c, v) \in Ops!Symbol
      <4>. HIDE DEF v
      <4>. QED BY <3>1, SymbolLaws
    <3>3. Ops!Scaled(symbols, row, c) = [symbols EXCEPT ![row] = Ops!VTimes(c, v)]
      BY DEF Ops!Scaled
    <3>. HIDE DEF v
    <3>. QED BY <3>1, <3>2, <3>3 DEF Slab
  <2>2. o.name = "scale"  OBVIOUS
  <2>3. Ops!Perform(o, Ops!Scaled(symbols, row, c))  BY <1>3
  <2>. HIDE DEF o
  <2>. QED BY <2>1, <2>2, <2>3, OperationBegins
<1>4. ASSUME NEW dest \in Ops!Slot, NEW src \in Ops!Slot, NEW c \in Ops!Scalars,
             Ops!Perform([name |-> "add", dest |-> dest, src |-> src, by |-> c],
                     Ops!fused_addassign_symbol(symbols, dest, src, c))
      PROVE  OpsInv'
  <2>. DEFINE o == [name |-> "add", dest |-> dest, src |-> src, by |-> c]
              f == Ops!fused_addassign_symbol(symbols, dest, src, c)
  <2>1. symbols \in Slab /\ c \in Ops!F  BY DEF OpsInv, Ops!Scalars, Ops!F, Ops!Zero, Ops!One
  <2>2. f \in Slab /\ f[dest] = Ops!VPlus(symbols[dest], Ops!VTimes(c, symbols[src]))
    BY <2>1, FusedAdd
  <2>3. o.name = "add" /\ o.dest = dest /\ o.src = src /\ o.by = c  OBVIOUS
  <2>4. Ops!Perform(o, f)  BY <1>4
  <2>. HIDE DEF o, f
  <2>. QED BY <2>2, <2>3, <2>4, OperationBegins
<1>5. ASSUME NEW o \in Ops!Batches, Ops!fused_addassign_symbol_batch_inner(o) PROVE OpsInv'
  BY <1>5, BatchBegins
<1>6. CASE Ops!addassign_unit_symbol_batch_for_replay
  <2>. DEFINE n == Chunks[width]
              chunk == [i \in 1 .. n |-> op.dests[index + i][1]]
  <2>1. Ops!Running /\ width <= Len(Chunks) /\ op' = op /\ before' = before /\ fast' = fast
    BY <1>6 DEF Ops!addassign_unit_symbol_batch_for_replay
  <2>2. /\ width \in 1 .. Len(Chunks) + 1 /\ Len(Chunks) \in Nat /\ Ops!Units(op.dests)
        /\ index \in Nat /\ index < Len(op.dests) /\ Len(op.dests) \in Nat /\ Way
        /\ symbols \in Slab /\ panicked \in BOOLEAN
    BY <2>1, WhileRunning DEF OpsInv
  <2>3. n \in Nat \ {0}
    <3>1. Chunks \in Seq(Nat \ {0}) /\ width \in 1 .. Len(Chunks)
      BY <2>1, <2>2 DEF Ops!VectorAssumption
    <3>. QED BY <3>1
  <2>4. CASE index + n > Len(op.dests)
    <3>1. width' = width + 1 /\ symbols' = symbols /\ index' = index /\ panicked' = panicked
      BY <1>6, <2>4 DEF Ops!addassign_unit_symbol_batch_for_replay
    <3>2. Way'  BY <2>1, <2>2, <3>1 DEF Way, Adds, Stops
    <3>3. index' \in 0 .. Len(op.dests) /\ width' \in 1 .. Len(Chunks) + 1  BY <2>1, <2>2, <3>1
    <3>. QED BY <2>1, <2>2, <3>1, <3>2, <3>3, RunningStep
  <2>5. CASE ~(index + n > Len(op.dests)) /\ Ops!unit_dest_chunk_is_disjoint(op.src, chunk)
    <3>1. Ops!AddChunk(chunk) /\ index' = index + n /\ panicked' = panicked /\ width' = width
      BY <1>6, <2>5 DEF Ops!addassign_unit_symbol_batch_for_replay, Ops!AfterChunk
    <3>2. index + n <= Len(op.dests)  BY <2>2, <2>3, <2>5
    <3>3. chunk = [i \in 1 .. n |-> op.dests[index + i][1]]
          /\ Ops!unit_dest_chunk_is_disjoint(op.src, chunk)
      BY <2>5
    <3>. HIDE DEF n, chunk
    <3>. QED BY <2>1, <2>2, <2>3, <3>1, <3>2, <3>3, ChunkAdded
  <2>6. CASE ~(index + n > Len(op.dests)) /\ ~Ops!unit_dest_chunk_is_disjoint(op.src, chunk)
    <3>1. Ops!AddOne /\ width' = width
      BY <1>6, <2>6 DEF Ops!addassign_unit_symbol_batch_for_replay
    <3>. QED BY <2>1, <2>2, <3>1, OneAdded
  <2>. QED BY <2>4, <2>5, <2>6
<1>7. CASE Ops!AddRest
  <2>1. Ops!Running /\ Ops!AddOne /\ op' = op /\ width' = width /\ before' = before
        /\ fast' = fast
    BY <1>7 DEF Ops!AddRest
  <2>2. width' \in 1 .. Len(Chunks) + 1 /\ (width' <= Len(Chunks) => Ops!Units(op.dests))
    BY <2>1, WhileRunning
  <2>. QED BY <2>1, <2>2, OneAdded
<1>8. CASE Ops!Stop  BY <1>1, <1>8 DEF Ops!Stop
<1>. QED BY <1>1, <1>2, <1>3, <1>4, <1>5, <1>6, <1>7, <1>8 DEF Ops!Next

\* A batch of a symbol that is zero: its additions change nothing.
LEMMA ZeroAdds ==
  ASSUME Ops!VectorAssumption, NEW o \in Ops!Batches, NEW slab \in Slab, NEW u,
         Adds(u, slab, o), Ops!IsZero(slab[o.src])
  PROVE  u[Len(o.dests)] = slab
<1>. DEFINE n == Len(o.dests)
            P == {i \in Nat : i <= n => u[i] = slab}
<1>1. n \in Nat /\ o.src \in Ops!Slot /\ \A i \in 1 .. n : o.dests[i][1] \in Ops!Slot
      /\ o.dests[i][2] \in Ops!F
  BY BatchType DEF Ops!VectorAssumption
<1>2. 0 \in P  BY DEF Adds
<1>3. ASSUME NEW i \in Nat, i \in P PROVE i + 1 \in P
  <2>. SUFFICES ASSUME i + 1 <= n PROVE u[i + 1] = slab  OBVIOUS
  <2>. DEFINE k == i + 1
              d == o.dests[k][1]
              c == o.dests[k][2]
              src == o.src
  <2>1. k \in 1 .. n /\ k - 1 = i /\ i <= n  BY <1>1
  <2>2. u[k - 1] = slab  BY <1>3, <2>1
  <2>3. u[k] = Ops!fused_addassign_symbol(slab, d, src, c) /\ d \in Ops!Slot /\ c \in Ops!F
        /\ src \in Ops!Slot
    <3>. HIDE DEF k
    <3>. QED BY <1>1, <2>1, <2>2 DEF Adds
  <2>4. Ops!IsZero(slab[src])  OBVIOUS
  <2>. HIDE DEF d, c, src
  <2>5. Ops!fused_addassign_symbol(slab, d, src, c) = slab  BY <2>3, <2>4, FusedAdd
  <2>. QED BY <2>3, <2>5
<1>. HIDE DEF P
<1>4. n \in P  BY <1>1, <1>2, <1>3, SetInduction
<1>. QED BY <1>1, <1>4 DEF P

\* The invariant implies the properties that the run checks.
LEMMA OpsAnswers ==
  Ops!VectorAssumption /\ OpsInv =>
    Ops!TypeInv /\ Ops!BatchIsAdditions /\ Ops!StopsOnSourceOnly /\ Ops!AddIsLinear
<1>. SUFFICES ASSUME Ops!VectorAssumption, OpsInv
              PROVE Ops!TypeInv /\ Ops!BatchIsAdditions /\ Ops!StopsOnSourceOnly
                    /\ Ops!AddIsLinear
  OBVIOUS
<1>1. Ops!AddIsLinear  BY DEF OpsInv
<1>2. Ops!TypeInv
  <2>1. op.name = "batch" => index <= Len(op.dests)
    <3>. HAVE op.name = "batch"
    <3>1. op \in Ops!Batches /\ index \in 0 .. Len(op.dests)  BY DEF OpsInv, BatchUnderWay
    <3>2. Len(op.dests) \in Nat /\ index \in Nat
      BY <3>1, BatchType DEF Ops!VectorAssumption, OpsInv
    <3>. QED BY <3>1, <3>2
  <2>. QED BY <2>1 DEF OpsInv, Ops!TypeInv, Slab
<1>3. ASSUME op.name = "batch", ~Ops!Running
      PROVE  /\ ~panicked => symbols = Ops!OneByOne(before, op)
             /\ panicked <=> /\ ~Ops!IsZero(before[op.src])
                             /\ \E i \in DOMAIN op.dests :
                                  op.dests[i] \in {op.src} \X {Ops!One, 2}
  <2>1. op \in Ops!Batches /\ before \in Slab /\ panicked \in BOOLEAN
        /\ index \in 0 .. Len(op.dests)
    BY <1>3 DEF OpsInv, BatchUnderWay
  <2>2. Len(op.dests) \in Nat /\ op.dests \in Seq(Ops!Slot \X Ops!Scalars)
    BY <2>1, BatchType DEF Ops!VectorAssumption
  <2>3. PICK u : Adds(u, before, op) /\ Ops!OneByOne(before, op) = u[Len(op.dests)]
    BY <2>1, AddsExist
  <2>4. DOMAIN op.dests = 1 .. Len(op.dests)  BY <2>2
  <2>5. CASE Ops!IsZero(before[op.src])
    <3>1. symbols = before /\ ~panicked  BY <1>3, <2>5 DEF OpsInv, BatchUnderWay
    <3>2. u[Len(op.dests)] = before  BY <2>1, <2>3, <2>5, ZeroAdds
    <3>. QED BY <2>3, <2>5, <3>1, <3>2
  <2>6. CASE ~Ops!IsZero(before[op.src]) /\ op.dests = <<>>
    <3>1. symbols = before /\ ~panicked  BY <1>3, <2>6 DEF OpsInv, BatchUnderWay
    <3>2. Len(op.dests) = 0  BY <2>6
    <3>3. u[0] = before  BY <2>3 DEF Adds
    <3>4. ~ \E i \in DOMAIN op.dests : TRUE  BY <2>4, <3>2
    <3>. QED BY <2>3, <3>1, <3>2, <3>3, <3>4
  <2>7. CASE ~Ops!IsZero(before[op.src]) /\ op.dests # <<>>
    <3>1. Way  BY <1>3, <2>7 DEF OpsInv, BatchUnderWay
    <3>2. CASE panicked  BY <2>4, <2>7, <3>1, <3>2 DEF Way, Stops
    <3>3. CASE ~panicked
      <4>1. index = Len(op.dests)  BY <1>3, <2>1, <2>2, <3>3 DEF Ops!Running
      <4>2. \A i \in DOMAIN op.dests : ~(op.dests[i] \in {op.src} \X {Ops!One, 2})
        BY <2>4, <3>1, <4>1 DEF Way, Stops
      <4>3. symbols = u[index]  BY <2>3, <3>1 DEF Way
      <4>. QED BY <2>3, <3>3, <4>1, <4>2, <4>3
    <3>. QED BY <3>2, <3>3
  <2>. QED BY <2>5, <2>6, <2>7
<1>. QED BY <1>1, <1>2, <1>3 DEF Ops!BatchIsAdditions, Ops!StopsOnSourceOnly

-----------------------------------------------------------------------------
(* Systems solved in one stage: what was done to rows and symbols leaves   *)
(* what solves them as it was, and what was recorded does it to any        *)
(* symbols; a system without a pivot, or with rows left over that do not   *)
(* fit, has no single solution.                                            *)

\* The laws of GF(4) that elimination uses.
LEMMA FourField ==
  /\ OneStage!Zero \in OneStage!F /\ OneStage!One \in OneStage!F /\ OneStage!Zero # OneStage!One
  /\ \A a0 \in OneStage!F : /\ OneStage!FPlus(a0, OneStage!Zero) = a0
                              /\ OneStage!FPlus(OneStage!Zero, a0) = a0
                                 /\ OneStage!FPlus(a0, a0) = OneStage!Zero
                           /\ OneStage!FTimes(OneStage!One, a0) = a0
                              /\ OneStage!FTimes(a0, OneStage!One) = a0
                           /\ OneStage!FTimes(OneStage!Zero, a0) = OneStage!Zero
                              /\ OneStage!FTimes(a0, OneStage!Zero) = OneStage!Zero
  /\ \A a0, b0 \in OneStage!F : /\ OneStage!FPlus(a0, b0) \in OneStage!F
                                 /\ OneStage!FPlus(a0, b0) = OneStage!FPlus(b0, a0)
                              /\ OneStage!FTimes(a0, b0) \in OneStage!F
                              /\ OneStage!FPlus(OneStage!FPlus(a0, b0), b0) = a0
  /\ \A a0, b0, c \in OneStage!F : /\ OneStage!FPlus(OneStage!FPlus(a0, b0), c)
                                    = OneStage!FPlus(a0, OneStage!FPlus(b0, c))
                                 /\ OneStage!FTimes(a0, OneStage!FTimes(b0, c))
                                    = OneStage!FTimes(OneStage!FTimes(a0, b0), c)
                                 /\ OneStage!FTimes(a0, OneStage!FPlus(b0, c))
                                    = OneStage!FPlus(OneStage!FTimes(a0, b0),
                                        OneStage!FTimes(a0, c))
                                 /\ OneStage!FTimes(OneStage!FPlus(a0, b0), c)
                                    = OneStage!FPlus(OneStage!FTimes(a0, c),
                                        OneStage!FTimes(b0, c))
<1>0. OneStage!F = {0, 1, 2, 3} /\ OneStage!Zero = 0 /\ OneStage!One = 1
  BY DEF OneStage!F, OneStage!Zero, OneStage!One
<1>1. \A a0, b0 \in {0, 1, 2, 3} : OneStage!FPlus(a0, b0) = IF a0 = b0 THEN 0 ELSE IF a0 = 0 THEN b0
                                            ELSE IF b0 = 0 THEN a0 ELSE 6 - a0 - b0
  BY DEF OneStage!FPlus
<1>2. \A a0, b0 \in {0, 1, 2, 3} :
        OneStage!FTimes(a0, b0) = IF a0 = 0
            \/ b0 = 0 THEN 0 ELSE IF a0 = 1 THEN b0 ELSE IF b0 = 1 THEN a0
                       ELSE IF a0 # b0 THEN 1 ELSE IF a0 = 2 THEN 3 ELSE 2
  <2>1. \A a0, b0 \in {1, 2, 3} :
          (((a0 - 1) + (b0 - 1)) % 3) + 1 = IF a0 = 1 THEN b0 ELSE IF b0 = 1 THEN a0
                                        ELSE IF a0 # b0 THEN 1 ELSE IF a0 = 2 THEN 3 ELSE 2
    OBVIOUS
  <2>. QED BY <2>1 DEF OneStage!FTimes
<1>3. \A a0, b0 \in {0, 1, 2, 3} : OneStage!FPlus(a0, b0) \in {0, 1, 2, 3}
        /\ OneStage!FTimes(a0, b0) \in {0, 1, 2, 3}
  BY <1>1, <1>2
<1>4. \A a0 \in {0, 1, 2, 3} :
        /\ OneStage!FPlus(a0, 0) = a0 /\ OneStage!FPlus(0, a0) = a0 /\ OneStage!FPlus(a0, a0) = 0
        /\ OneStage!FTimes(1, a0) = a0 /\ OneStage!FTimes(a0, 1) = a0 /\ OneStage!FTimes(0, a0) = 0
           /\ OneStage!FTimes(a0, 0) = 0
  BY <1>1, <1>2
<1>5. \A a0, b0 \in {0, 1, 2, 3} : OneStage!FPlus(a0, b0) = OneStage!FPlus(b0, a0)
        /\ OneStage!FPlus(OneStage!FPlus(a0, b0), b0) = a0
  BY <1>1, <1>3
<1>6. \A a0, b0, c \in {0, 1, 2, 3} : OneStage!FPlus(OneStage!FPlus(a0, b0), c)
        = OneStage!FPlus(a0, OneStage!FPlus(b0, c))
  BY <1>1, <1>3
<1>7. \A a0, b0, c \in {0, 1, 2, 3} : OneStage!FTimes(a0, OneStage!FTimes(b0, c))
        = OneStage!FTimes(OneStage!FTimes(a0, b0), c)
  BY <1>2, <1>3
<1>8. \A a0, b0, c \in {0, 1, 2, 3} : OneStage!FTimes(a0, OneStage!FPlus(b0, c))
        = OneStage!FPlus(OneStage!FTimes(a0, b0), OneStage!FTimes(a0, c))
  BY <1>1, <1>2, <1>3
<1>9. \A a0, b0, c \in {0, 1, 2, 3} : OneStage!FTimes(OneStage!FPlus(a0, b0), c)
        = OneStage!FPlus(OneStage!FTimes(a0, c), OneStage!FTimes(b0, c))
  BY <1>1, <1>2, <1>3
<1>. QED BY <1>0, <1>3, <1>4, <1>5, <1>6, <1>7, <1>8, <1>9

\* Dividing by what is not zero.
LEMMA FourInverse ==
  ASSUME NEW a0 \in OneStage!F, a0 # OneStage!Zero
  PROVE  OneStage!FInverse(a0) \in OneStage!F /\ OneStage!FInverse(a0) # OneStage!Zero
           /\ OneStage!FTimes(OneStage!FInverse(a0), a0) = OneStage!One
           /\ OneStage!FTimes(a0, OneStage!FInverse(a0)) = OneStage!One
<1>1. \E b0 \in OneStage!F : OneStage!FTimes(a0, b0) = OneStage!One
  <2>1. a0 \in {1, 2, 3} /\ {1, 2, 3} \subseteq OneStage!F  BY DEF OneStage!F, OneStage!Zero
  <2>2. OneStage!FTimes(1, 1) = OneStage!One /\ OneStage!FTimes(2, 3) = OneStage!One
          /\ OneStage!FTimes(3, 2) = OneStage!One
    <3>1. (((1 - 1) + (1 - 1)) % 3) + 1 = 1 /\ (((2 - 1) + (3 - 1)) % 3) + 1 = 1
          /\ (((3 - 1) + (2 - 1)) % 3) + 1 = 1
      OBVIOUS
    <3>. QED BY <3>1 DEF OneStage!FTimes, OneStage!One
  <2>. QED BY <2>1, <2>2
<1>2. OneStage!FInverse(a0) \in OneStage!F
        /\ OneStage!FTimes(a0, OneStage!FInverse(a0)) = OneStage!One
  BY <1>1 DEF OneStage!FInverse
<1>3. \A b0 \in OneStage!F : OneStage!FTimes(a0, b0) = OneStage!FTimes(b0, a0)
  <2>1. \A b0 \in OneStage!F : (a0 - 1) + (b0 - 1) = (b0 - 1) + (a0 - 1)  BY DEF OneStage!F
  <2>. QED BY <2>1 DEF OneStage!FTimes
<1>. QED BY <1>2, <1>3, FourField

\* Sums and products stay in the field.
LEMMA FourTypes ==
  /\ OneStage!Zero \in OneStage!F /\ OneStage!One \in OneStage!F
  /\ \A a0, b0 \in OneStage!F : OneStage!FPlus(a0, b0) \in OneStage!F
     /\ OneStage!FTimes(a0, b0) \in OneStage!F
BY FourField

\* Adding nothing, and multiplying by nothing.
LEMMA FourNothing ==
  ASSUME NEW a0 \in OneStage!F
  PROVE  /\ OneStage!FPlus(a0, OneStage!Zero) = a0 /\ OneStage!FPlus(OneStage!Zero, a0) = a0
            /\ OneStage!FPlus(a0, a0) = OneStage!Zero
         /\ OneStage!FTimes(OneStage!One, a0) = a0 /\ OneStage!FTimes(a0, OneStage!One) = a0
         /\ OneStage!FTimes(OneStage!Zero, a0) = OneStage!Zero
            /\ OneStage!FTimes(a0, OneStage!Zero) = OneStage!Zero
BY FourField

\* Sums and products of three.
LEMMA FourThree ==
  ASSUME NEW a0 \in OneStage!F, NEW b0 \in OneStage!F, NEW c \in OneStage!F
  PROVE  /\ OneStage!FPlus(OneStage!FPlus(a0, b0), c) = OneStage!FPlus(a0, OneStage!FPlus(b0, c))
         /\ OneStage!FPlus(a0, b0) = OneStage!FPlus(b0, a0)
            /\ OneStage!FPlus(OneStage!FPlus(a0, b0), b0) = a0
         /\ OneStage!FTimes(a0, OneStage!FTimes(b0, c))
            = OneStage!FTimes(OneStage!FTimes(a0, b0), c)
         /\ OneStage!FTimes(a0, OneStage!FPlus(b0, c))
            = OneStage!FPlus(OneStage!FTimes(a0, b0), OneStage!FTimes(a0, c))
         /\ OneStage!FTimes(OneStage!FPlus(a0, b0), c)
            = OneStage!FPlus(OneStage!FTimes(a0, c), OneStage!FTimes(b0, c))
BY FourField

-----------------------------------------------------------------------------
(* Products of a row and a vector, sum by sum.                             *)

Vec == [0 .. shape.n - 1 -> OneStage!F]

\* The sums of the first columns.
DotPartial(P, r, v) ==
  /\ P \in [0 .. shape.n -> OneStage!F] /\ P[0] = OneStage!Zero
  /\ \A k \in 1 .. shape.n : P[k]
     = OneStage!FPlus(P[k - 1], OneStage!FTimes(r[k - 1], v[k - 1]))

\* A product is the last of its partial sums.
LEMMA DotIs ==
  ASSUME shape.n \in Nat \ {0}, NEW r \in Vec, NEW v \in Vec
  PROVE  \E P : DotPartial(P, r, v) /\ OneStage!Dot(r, v) = P[shape.n]
<1>. DEFINE w == shape.n
            Eqn(f) == f = [k \in 0 .. shape.n |->
                             IF k = 0 THEN OneStage!Zero ELSE OneStage!FPlus(f[k - 1],
                                 OneStage!FTimes(r[k - 1], v[k - 1]))]
            u == CHOOSE f : Eqn(f)
            G == [z \in (1 .. w) \X OneStage!F |-> OneStage!FPlus(z[2],
                OneStage!FTimes(r[z[1] - 1], v[z[1] - 1]))]
<1>0. OneStage!Dot(r, v) = u[w]  BY DEF OneStage!Dot
<1>1. ASSUME NEW k \in 1 .. w,
        NEW p \in OneStage!F PROVE OneStage!FPlus(p, OneStage!FTimes(r[k - 1], v[k - 1]))
        \in OneStage!F
  <2>1. k - 1 \in 0 .. w - 1  OBVIOUS
  <2>2. r[k - 1] \in OneStage!F /\ v[k - 1] \in OneStage!F  BY <2>1 DEF Vec
  <2>3. OneStage!FTimes(r[k - 1], v[k - 1]) \in OneStage!F  BY <2>2, FourTypes
  <2>. QED BY <2>3, FourTypes
<1>2. G \in [(1 .. w) \X OneStage!F -> OneStage!F]
  <2>1. \A z \in (1 .. w) \X OneStage!F : z[1] \in 1 .. w /\ z[2] \in OneStage!F  OBVIOUS
  <2>. QED BY <1>1, <2>1
<1>3. OneStage!Zero \in OneStage!F /\ w \in Nat  BY FourField
<1>4. PICK f : Recurs(f, OneStage!F, OneStage!Zero, w, G)
  <2>. HIDE DEF G, w
  <2>. QED BY <1>2, <1>3, Recursion
<1>5. f \in [0 .. w -> OneStage!F] /\ f[0] = OneStage!Zero
      /\ \A k \in 1 .. w : f[k] = OneStage!FPlus(f[k - 1], OneStage!FTimes(r[k - 1], v[k - 1]))
  <2>1. ASSUME NEW k \in 1 .. w PROVE f[k]
          = OneStage!FPlus(f[k - 1], OneStage!FTimes(r[k - 1], v[k - 1]))
    <3>1. k - 1 \in 0 .. w  OBVIOUS
    <3>2. f[k - 1] \in OneStage!F /\ f[k] = G[<<k, f[k - 1]>>]  BY <1>4, <3>1 DEF Recurs
    <3>3. <<k, f[k - 1]>> \in (1 .. w) \X OneStage!F  BY <3>2
    <3>. QED BY <3>2, <3>3
  <2>. QED BY <1>4, <2>1 DEF Recurs
<1>6. Eqn(f)
  <2>1. f = [k \in 0 .. w |-> f[k]]  BY <1>5
  <2>2. \A k \in 0 .. w : k # 0 => k \in 1 .. w  OBVIOUS
  <2>. QED BY <1>5, <2>1, <2>2
<1>7. Eqn(u)  BY <1>6
<1>. HIDE DEF u
<1>8. u[0] = OneStage!Zero
        /\ \A k \in 1 .. w : u[k] = OneStage!FPlus(u[k - 1],
           OneStage!FTimes(r[k - 1], v[k - 1]))
  <2>. DEFINE E(k) == IF k = 0 THEN OneStage!Zero ELSE OneStage!FPlus(u[k - 1],
         OneStage!FTimes(r[k - 1], v[k - 1]))
  <2>1. u = [k \in 0 .. w |-> E(k)]  BY <1>7
  <2>2. \A k \in 0 .. w : u[k] = E(k)
    <3>. HIDE DEF E
    <3>. QED BY <2>1
  <2>3. 0 \in 0 .. w /\ \A k \in 1 .. w : k # 0 /\ k \in 0 .. w  OBVIOUS
  <2>. QED BY <2>2, <2>3
<1>9. \A k \in 0 .. w : u[k] = f[k]
  <2>. DEFINE T == {k \in 0 .. w : u[k] = f[k]}
  <2>1. 0 \in T  BY <1>5, <1>8
  <2>2. ASSUME NEW k \in 0 .. w - 1, k \in T PROVE k + 1 \in T
    <3>1. PICK m \in 1 .. w : m = k + 1  OBVIOUS
    <3>2. m - 1 = k /\ u[k] = f[k] /\ m \in 0 .. w  BY <2>2, <3>1
    <3>3. u[m] = f[m]  BY <1>5, <1>8, <3>2
    <3>. QED BY <3>1, <3>2, <3>3
  <2>. HIDE DEF T, w
  <2>3. \A k \in 0 .. w : k \in T  BY <1>3, <2>1, <2>2, UpTo
  <2>. QED BY <2>3 DEF T
<1>10. w \in 0 .. w  OBVIOUS
<1>11. DotPartial(f, r, v)  BY <1>5 DEF DotPartial
<1>. QED BY <1>0, <1>9, <1>10, <1>11

\* The next of the partial sums.
LEMMA NextDot ==
  ASSUME shape.n \in Nat \ {0}, NEW r \in Vec, NEW v \in Vec, NEW P, DotPartial(P, r, v),
         NEW k \in 0 .. shape.n - 1
  PROVE  /\ P[k] \in OneStage!F /\ r[k] \in OneStage!F /\ v[k] \in OneStage!F
            /\ k + 1 \in 0 .. shape.n
         /\ P[k + 1] = OneStage!FPlus(P[k], OneStage!FTimes(r[k], v[k]))
<1>1. PICK m \in 1 .. shape.n : m = k + 1  OBVIOUS
<1>2. m - 1 = k /\ k \in 0 .. shape.n /\ m \in 0 .. shape.n  BY <1>1
<1>3. P[m] = OneStage!FPlus(P[m - 1], OneStage!FTimes(r[m - 1], v[m - 1]))  BY DEF DotPartial
<1>. QED BY <1>1, <1>2, <1>3 DEF DotPartial, Vec

\* A product is an element of the field.
LEMMA DotType ==
  ASSUME shape.n \in Nat \ {0}, NEW r \in Vec, NEW v \in Vec
  PROVE  OneStage!Dot(r, v) \in OneStage!F
<1>1. shape.n \in 0 .. shape.n  OBVIOUS
<1>. QED BY <1>1, DotIs DEF DotPartial

\* The sum of two multiples, with sums taken apart.
LEMMA FourSums ==
  ASSUME NEW p \in OneStage!F, NEW q \in OneStage!F, NEW c \in OneStage!F, NEW a0 \in OneStage!F,
           NEW b0 \in OneStage!F, NEW v \in OneStage!F
  PROVE  OneStage!FPlus(OneStage!FPlus(p, OneStage!FTimes(c, q)),
           OneStage!FTimes(OneStage!FPlus(a0, OneStage!FTimes(c, b0)), v))
           = OneStage!FPlus(OneStage!FPlus(p, OneStage!FTimes(a0, v)),
               OneStage!FTimes(c, OneStage!FPlus(q, OneStage!FTimes(b0, v))))
<1>1. PICK d \in OneStage!F : d = OneStage!FTimes(c, q)  BY FourField
<1>2. PICK e \in OneStage!F : e = OneStage!FTimes(a0, v)  BY FourField
<1>3. PICK g \in OneStage!F : g = OneStage!FTimes(b0, v)  BY FourField
<1>4. PICK h \in OneStage!F : h = OneStage!FTimes(c, g)  BY FourField
<1>5. OneStage!FTimes(OneStage!FPlus(a0, OneStage!FTimes(c, b0)), v) = OneStage!FPlus(e, h)
  <2>1. PICK m \in OneStage!F : m = OneStage!FTimes(c, b0)  BY FourField
  <2>2. OneStage!FTimes(OneStage!FPlus(a0, m), v)
          = OneStage!FPlus(OneStage!FTimes(a0, v), OneStage!FTimes(m, v))
    BY FourField
  <2>3. OneStage!FTimes(m, v) = h  BY <1>3, <1>4, <2>1, FourField
  <2>. QED BY <1>2, <2>1, <2>2, <2>3
<1>6. OneStage!FTimes(c, OneStage!FPlus(q, g)) = OneStage!FPlus(d, h)  BY <1>1, <1>4, FourField
<1>7. OneStage!FPlus(OneStage!FPlus(p, d), OneStage!FPlus(e, h))
        = OneStage!FPlus(OneStage!FPlus(p, e), OneStage!FPlus(d, h))
  <2>1. OneStage!FPlus(e, h) \in OneStage!F /\ OneStage!FPlus(d, h) \in OneStage!F  BY FourField
  <2>2. OneStage!FPlus(OneStage!FPlus(p, d), OneStage!FPlus(e, h))
          = OneStage!FPlus(p, OneStage!FPlus(d, OneStage!FPlus(e, h)))
    BY <2>1, FourField
  <2>3. OneStage!FPlus(OneStage!FPlus(p, e), OneStage!FPlus(d, h))
          = OneStage!FPlus(p, OneStage!FPlus(e, OneStage!FPlus(d, h)))
    BY <2>1, FourField
  <2>4. OneStage!FPlus(d, OneStage!FPlus(e, h)) = OneStage!FPlus(OneStage!FPlus(d, e), h)
          /\ OneStage!FPlus(e, OneStage!FPlus(d, h)) = OneStage!FPlus(OneStage!FPlus(e, d), h)
        /\ OneStage!FPlus(d, e) = OneStage!FPlus(e, d)
    BY FourField
  <2>. QED BY <2>2, <2>3, <2>4
<1>. QED BY <1>1, <1>2, <1>3, <1>5, <1>6, <1>7

\* The sum of a row and a multiple of another.
Mixture(r, c, q) == OneStage!VPlus(r, OneStage!VTimes(c, q))

\* A sum of a row and a multiple of another is a row.
LEMMA MixtureType ==
  ASSUME NEW D, NEW r \in [D -> OneStage!F], NEW q \in [D -> OneStage!F], NEW c \in OneStage!F
  PROVE  Mixture(r, c, q) \in [D -> OneStage!F]
<1>1. OneStage!VTimes(c, q) = [k \in D |-> OneStage!FTimes(c, q[k])]  BY DEF OneStage!VTimes
<1>2. Mixture(r, c, q) = [k \in D |-> OneStage!FPlus(r[k], OneStage!FTimes(c, q[k]))]
  BY <1>1 DEF OneStage!VPlus, Mixture
<1>3. \A k \in D : OneStage!FPlus(r[k], OneStage!FTimes(c, q[k])) \in OneStage!F  BY FourTypes
<1>. QED BY <1>2, <1>3

\* What it holds in a column.
LEMMA MixtureAt ==
  ASSUME NEW D, NEW r \in [D -> OneStage!F], NEW q \in [D -> OneStage!F], NEW c, NEW k \in D
  PROVE  Mixture(r, c, q)[k] = OneStage!FPlus(r[k], OneStage!FTimes(c, q[k]))
<1>1. OneStage!VTimes(c, q) = [e \in D |-> OneStage!FTimes(c, q[e])]  BY DEF OneStage!VTimes
<1>2. Mixture(r, c, q) = [e \in D |-> OneStage!FPlus(r[e], OneStage!FTimes(c, q[e]))]
  BY <1>1 DEF OneStage!VPlus, Mixture
<1>. QED BY <1>2

\* Its product is the sum of the products.
LEMMA DotAdds ==
  ASSUME shape.n \in Nat \ {0}, NEW r \in Vec, NEW q \in Vec, NEW c \in OneStage!F,
           NEW v \in Vec
  PROVE  OneStage!Dot(Mixture(r, c, q), v)
           = OneStage!FPlus(OneStage!Dot(r, v), OneStage!FTimes(c, OneStage!Dot(q, v)))
<1>. DEFINE w == shape.n
            t == Mixture(r, c, q)
<1>1. t \in Vec /\ \A k \in 0 .. w - 1 : t[k] = OneStage!FPlus(r[k], OneStage!FTimes(c, q[k]))
  <2>. DEFINE D == 0 .. shape.n - 1
  <2>1. r \in [D -> OneStage!F] /\ q \in [D -> OneStage!F]  BY DEF Vec
  <2>. HIDE DEF D
  <2>2. t \in [D -> OneStage!F]  BY <2>1, MixtureType
  <2>3. \A k \in D : t[k] = OneStage!FPlus(r[k], OneStage!FTimes(c, q[k]))  BY <2>1, MixtureAt
  <2>. QED BY <2>2, <2>3 DEF D, Vec
<1>. HIDE DEF t
<1>2. PICK P : DotPartial(P, r, v) /\ OneStage!Dot(r, v) = P[w]  BY DotIs
<1>3. PICK Q : DotPartial(Q, q, v) /\ OneStage!Dot(q, v) = Q[w]  BY DotIs
<1>4. PICK R : DotPartial(R, t, v) /\ OneStage!Dot(t, v) = R[w]  BY <1>1, DotIs
<1>. DEFINE T == {k \in 0 .. w : R[k] = OneStage!FPlus(P[k], OneStage!FTimes(c, Q[k]))}
<1>5. 0 \in T
  <2>1. P[0] = OneStage!Zero /\ Q[0] = OneStage!Zero /\ R[0] = OneStage!Zero
    BY <1>2, <1>3, <1>4 DEF DotPartial
  <2>2. OneStage!FTimes(c, OneStage!Zero) = OneStage!Zero
          /\ OneStage!FPlus(OneStage!Zero, OneStage!Zero) = OneStage!Zero
    BY FourTypes, FourNothing
  <2>. QED BY <2>1, <2>2
<1>6. ASSUME NEW k \in 0 .. w - 1, k \in T PROVE k + 1 \in T
  <2>1. P[k] \in OneStage!F /\ r[k] \in OneStage!F /\ v[k] \in OneStage!F
          /\ P[k + 1] = OneStage!FPlus(P[k], OneStage!FTimes(r[k], v[k]))
    BY <1>2, NextDot
  <2>2. Q[k] \in OneStage!F /\ q[k] \in OneStage!F
          /\ Q[k + 1] = OneStage!FPlus(Q[k], OneStage!FTimes(q[k], v[k]))
    BY <1>3, NextDot
  <2>3. R[k + 1] = OneStage!FPlus(R[k], OneStage!FTimes(t[k], v[k]))  BY <1>1, <1>4, NextDot
  <2>4. R[k] = OneStage!FPlus(P[k], OneStage!FTimes(c, Q[k]))
          /\ t[k] = OneStage!FPlus(r[k], OneStage!FTimes(c, q[k]))
    BY <1>1, <1>6
  <2>5. OneStage!FPlus(OneStage!FPlus(P[k], OneStage!FTimes(c, Q[k])),
          OneStage!FTimes(OneStage!FPlus(r[k], OneStage!FTimes(c, q[k])), v[k]))
          = OneStage!FPlus(OneStage!FPlus(P[k], OneStage!FTimes(r[k], v[k])),
              OneStage!FTimes(c, OneStage!FPlus(Q[k], OneStage!FTimes(q[k], v[k]))))
    <3>1. PICK p1 \in OneStage!F, q1 \in OneStage!F : p1 = P[k] /\ q1 = Q[k]  BY <2>1, <2>2
    <3>2. PICK a1 \in OneStage!F, b1 \in OneStage!F, v1 \in OneStage!F : a1 = r[k] /\ b1 = q[k]
            /\ v1 = v[k]
      BY <2>1, <2>2
    <3>3. OneStage!FPlus(OneStage!FPlus(p1, OneStage!FTimes(c, q1)),
            OneStage!FTimes(OneStage!FPlus(a1, OneStage!FTimes(c, b1)), v1))
            = OneStage!FPlus(OneStage!FPlus(p1, OneStage!FTimes(a1, v1)),
                OneStage!FTimes(c, OneStage!FPlus(q1, OneStage!FTimes(b1, v1))))
      BY FourSums
    <3>. QED BY <3>1, <3>2, <3>3
  <2>6. R[k + 1] = OneStage!FPlus(P[k + 1], OneStage!FTimes(c, Q[k + 1]))
    BY ONLY <2>1, <2>2, <2>3, <2>4, <2>5
  <2>. QED BY <2>6
<1>. HIDE DEF T
<1>7. \A k \in 0 .. w : k \in T
  <2>. HIDE DEF w
  <2>. QED BY <1>5, <1>6, UpTo DEF w
<1>8. R[w] = OneStage!FPlus(P[w], OneStage!FTimes(c, Q[w]))
  <2>1. w \in T  BY <1>7
  <2>. QED BY <2>1 DEF T
<1>. QED BY <1>2, <1>3, <1>4, <1>8 DEF t

\* A row and a vector that meet in no column.
LEMMA DotVanishes ==
  ASSUME shape.n \in Nat \ {0}, NEW r \in Vec, NEW v \in Vec,
         \A k \in 0 .. shape.n - 1 : r[k] = OneStage!Zero \/ v[k] = OneStage!Zero
  PROVE  OneStage!Dot(r, v) = OneStage!Zero
<1>. DEFINE w == shape.n
<1>1. PICK P : DotPartial(P, r, v) /\ OneStage!Dot(r, v) = P[w]  BY DotIs
<1>. DEFINE T == {k \in 0 .. w : P[k] = OneStage!Zero}
<1>2. 0 \in T  BY <1>1 DEF DotPartial
<1>3. ASSUME NEW k \in 0 .. w - 1, k \in T PROVE k + 1 \in T
  <2>1. P[k + 1] = OneStage!FPlus(P[k], OneStage!FTimes(r[k], v[k])) /\ r[k] \in OneStage!F
          /\ v[k] \in OneStage!F
    BY <1>1, NextDot
  <2>2. r[k] = OneStage!Zero \/ v[k] = OneStage!Zero  OBVIOUS
  <2>3. OneStage!FTimes(r[k], v[k]) = OneStage!Zero  BY <2>1, <2>2, FourNothing
  <2>4. OneStage!FPlus(OneStage!Zero, OneStage!Zero) = OneStage!Zero  BY FourTypes, FourNothing
  <2>5. P[k] = OneStage!Zero  BY <1>3
  <2>. QED BY <2>1, <2>3, <2>4, <2>5
<1>. HIDE DEF T
<1>4. \A k \in 0 .. w : k \in T
  <2>. HIDE DEF w
  <2>. QED BY <1>2, <1>3, UpTo DEF w
<1>. QED BY <1>1, <1>4 DEF T

\* Sums in another order.
LEMMA FourSwapped ==
  ASSUME NEW p \in OneStage!F, NEW a0 \in OneStage!F, NEW b0 \in OneStage!F
  PROVE  OneStage!FPlus(OneStage!FPlus(p, a0), b0) = OneStage!FPlus(OneStage!FPlus(p, b0), a0)
<1>1. OneStage!FPlus(OneStage!FPlus(p, a0), b0) = OneStage!FPlus(p, OneStage!FPlus(a0, b0))
  BY FourField
<1>2. OneStage!FPlus(OneStage!FPlus(p, b0), a0) = OneStage!FPlus(p, OneStage!FPlus(b0, a0))
  BY FourField
<1>3. OneStage!FPlus(a0, b0) = OneStage!FPlus(b0, a0)  BY FourField
<1>. QED BY <1>1, <1>2, <1>3

\* A vector with one component changed.
Changed(v, j, c) == [v EXCEPT ![j] = OneStage!FPlus(v[j], c)]

\* What a vector holds once an element is added to one entry.
LEMMA ChangedAt ==
  ASSUME shape.n \in Nat \ {0}, NEW v \in Vec, NEW j \in 0 .. shape.n - 1, NEW c \in OneStage!F
  PROVE  /\ Changed(v, j, c) \in Vec
         /\ Changed(v, j, c)[j] = OneStage!FPlus(v[j], c)
         /\ \A k \in 0 .. shape.n - 1 : k # j => Changed(v, j, c)[k] = v[k]
<1>. DEFINE I == 0 .. shape.n - 1
<1>1. v \in [I -> OneStage!F]  BY DEF Vec
<1>. HIDE DEF I
<1>2. v[j] \in OneStage!F  BY <1>1 DEF I
<1>3. OneStage!FPlus(v[j], c) \in OneStage!F  BY <1>2, FourTypes
<1>4. j \in I  BY DEF I
<1>5. Changed(v, j, c) \in [I -> OneStage!F] /\ Changed(v, j, c)[j] = OneStage!FPlus(v[j], c)
      /\ \A k \in I : k # j => Changed(v, j, c)[k] = v[k]
  BY <1>1, <1>3, <1>4 DEF Changed
<1>. QED BY <1>5 DEF I, Vec

\* What the change does to a product.
LEMMA DotChange ==
  ASSUME shape.n \in Nat \ {0}, NEW r \in Vec, NEW v \in Vec, NEW j \in 0 .. shape.n - 1,
           NEW c \in OneStage!F
  PROVE  OneStage!Dot(r, Changed(v, j, c))
           = OneStage!FPlus(OneStage!Dot(r, v), OneStage!FTimes(r[j], c))
<1>. DEFINE w == shape.n
            u == Changed(v, j, c)
<1>1. u \in Vec /\ u[j] = OneStage!FPlus(v[j], c) /\ \A k \in 0 .. w - 1 : k # j => u[k] = v[k]
  BY ChangedAt
<1>. HIDE DEF u
<1>2. PICK P : DotPartial(P, r, v) /\ OneStage!Dot(r, v) = P[w]  BY DotIs
<1>3. PICK Q : DotPartial(Q, r, u) /\ OneStage!Dot(r, u) = Q[w]  BY <1>1, DotIs
<1>4. PICK a0 \in OneStage!F : a0 = OneStage!FTimes(r[j], c)
  <2>1. r[j] \in OneStage!F  BY <1>2, NextDot
  <2>. QED BY <2>1, FourTypes
<1>. DEFINE T == {k \in 0 .. w : Q[k] = IF k <= j THEN P[k] ELSE OneStage!FPlus(P[k], a0)}
<1>5. 0 \in T  BY <1>2, <1>3 DEF DotPartial
<1>6. ASSUME NEW k \in 0 .. w - 1, k \in T PROVE k + 1 \in T
  <2>1. P[k + 1] = OneStage!FPlus(P[k], OneStage!FTimes(r[k], v[k])) /\ P[k] \in OneStage!F
          /\ r[k] \in OneStage!F /\ v[k] \in OneStage!F
        /\ k + 1 \in 0 .. w
    BY <1>2, NextDot
  <2>2. Q[k + 1] = OneStage!FPlus(Q[k], OneStage!FTimes(r[k], u[k]))  BY <1>1, <1>3, NextDot
  <2>3. PICK b0 \in OneStage!F : b0 = OneStage!FTimes(r[k], v[k])  BY <2>1, FourTypes
  <2>4. CASE k < j
    <3>1. Q[k] = P[k] /\ u[k] = v[k] /\ k + 1 <= j  BY <1>1, <1>6, <2>4
    <3>2. Q[k + 1] = P[k + 1]  BY ONLY <2>1, <2>2, <3>1
    <3>. QED BY <2>1, <3>1, <3>2
  <2>5. CASE k = j
    <3>1. Q[k] = P[k] /\ u[k] = OneStage!FPlus(v[k], c)  BY <1>1, <1>6, <2>5
    <3>2. OneStage!FTimes(r[k], OneStage!FPlus(v[k], c)) = OneStage!FPlus(b0, a0)
      <4>1. OneStage!FTimes(r[k], OneStage!FPlus(v[k], c))
              = OneStage!FPlus(OneStage!FTimes(r[k], v[k]), OneStage!FTimes(r[k], c))
        BY <2>1, FourThree
      <4>. QED BY <1>4, <2>3, <2>5, <4>1
    <3>3. OneStage!FPlus(P[k], OneStage!FPlus(b0, a0))
            = OneStage!FPlus(OneStage!FPlus(P[k], b0), a0)
      BY <2>1, FourThree
    <3>4. Q[k + 1] = OneStage!FPlus(P[k + 1], a0)  BY ONLY <2>1, <2>2, <2>3, <3>1, <3>2, <3>3
    <3>. QED BY <2>1, <2>5, <3>4
  <2>6. CASE k > j
    <3>1. Q[k] = OneStage!FPlus(P[k], a0) /\ u[k] = v[k] /\ ~(k <= j) /\ ~(k + 1 <= j)
      BY <1>1, <1>6, <2>6
    <3>2. OneStage!FPlus(OneStage!FPlus(P[k], a0), b0)
            = OneStage!FPlus(OneStage!FPlus(P[k], b0), a0)
      BY <2>1, FourSwapped
    <3>3. Q[k + 1] = OneStage!FPlus(P[k + 1], a0)  BY ONLY <2>1, <2>2, <2>3, <3>1, <3>2
    <3>. QED BY <2>1, <3>1, <3>3
  <2>. QED BY <2>4, <2>5, <2>6
<1>. HIDE DEF T
<1>7. \A k \in 0 .. w : k \in T
  <2>. HIDE DEF w
  <2>. QED BY <1>5, <1>6, UpTo DEF w
<1>8. w \in T /\ ~(w <= j)  BY <1>7
<1>9. Q[w] = OneStage!FPlus(P[w], a0)  BY <1>8 DEF T
<1>. QED BY <1>2, <1>3, <1>4, <1>9 DEF u

\* A row with a single entry, which is one.
LEMMA DotUnit ==
  ASSUME shape.n \in Nat \ {0}, NEW r \in Vec, NEW v \in Vec, NEW j \in 0 .. shape.n - 1,
         r[j] = OneStage!One, \A k \in 0 .. shape.n - 1 : k # j => r[k] = OneStage!Zero
  PROVE  OneStage!Dot(r, v) = v[j]
<1>1. v[j] \in OneStage!F  BY DEF Vec
<1>. DEFINE u == Changed(v, j, v[j])
<1>2. u \in Vec /\ u[j] = OneStage!FPlus(v[j], v[j])  BY <1>1, ChangedAt
<1>3. OneStage!Dot(r, u) = OneStage!FPlus(OneStage!Dot(r, v), OneStage!FTimes(r[j], v[j]))
  BY <1>1, DotChange
<1>. HIDE DEF u
<1>4. u[j] = OneStage!Zero /\ OneStage!FTimes(OneStage!One, v[j]) = v[j]
  BY <1>1, <1>2, FourNothing
<1>5. \A k \in 0 .. shape.n - 1 : r[k] = OneStage!Zero \/ u[k] = OneStage!Zero  BY <1>4
<1>6. OneStage!Dot(r, u) = OneStage!Zero  BY <1>2, <1>5, DotVanishes
<1>7. OneStage!FPlus(OneStage!Dot(r, v), v[j]) = OneStage!Zero  BY <1>3, <1>4, <1>6
<1>8. OneStage!Dot(r, v) \in OneStage!F  BY DotType
<1>9. OneStage!FPlus(OneStage!FPlus(OneStage!Dot(r, v), v[j]), v[j]) = OneStage!Dot(r, v)
  BY <1>1, <1>8, FourThree
<1>10. OneStage!FPlus(OneStage!Zero, v[j]) = v[j]  BY <1>1, FourNothing
<1>. QED BY <1>7, <1>9, <1>10

\* A row whose first entry is a one in column j.
StartsAt(r, j) == r \in Vec /\ r[j] = OneStage!One /\ \A k \in 0 .. j - 1 : r[k] = OneStage!Zero

\* The first m rows start one column after the other.
Stairs(P, t, m) == \A j \in 0 .. m - 1 : StartsAt(P[j], j) /\ t[j] \in OneStage!F

\* v gives them what they ask, and is z from column m on.
Answers(P, t, m, v, z) ==
  /\ \A k \in m .. shape.n - 1 : v[k] = z[k]
  /\ \A j \in 0 .. m - 1 : OneStage!Dot(P[j], v) = t[j]

\* Rows that start one column after the other ask for what they like: the
\* columns from m on may be anything, and those before it answer.
LEMMA CanAnswer ==
  ASSUME shape.n \in Nat \ {0}, NEW m \in 0 .. shape.n, NEW P, NEW t, NEW z \in Vec,
         Stairs(P, t, m)
  PROVE  \E v \in Vec : Answers(P, t, m, v, z)
<1>. DEFINE Behind(v) == \A k \in m .. shape.n - 1 : v[k] = z[k]
            Good(e, v) == \A j \in 0 .. m - 1 : j >= m - e => OneStage!Dot(P[j], v) = t[j]
            T == {e \in 0 .. m : \E v \in Vec : Behind(v) /\ Good(e, v)}
<1>1. 0 \in T
  <2>1. Behind(z) /\ Good(0, z)  OBVIOUS
  <2>. QED BY <2>1
<1>2. ASSUME NEW e \in 0 .. m - 1, e \in T PROVE e + 1 \in T
  <2>1. PICK v \in Vec : Behind(v) /\ Good(e, v)  BY <1>2
  <2>2. PICK j \in 0 .. m - 1 : j = m - 1 - e  OBVIOUS
  <2>3. j \in 0 .. shape.n - 1 /\ \A k \in m .. shape.n - 1 : k \in 0 .. shape.n - 1 /\ k # j
    OBVIOUS
  <2>4. StartsAt(P[j], j) /\ t[j] \in OneStage!F  BY DEF Stairs
  <2>5. OneStage!Dot(P[j], v) \in OneStage!F  BY <2>4, DotType DEF StartsAt
  <2>6. PICK c \in OneStage!F : c = OneStage!FPlus(t[j], OneStage!Dot(P[j], v))
    BY <2>4, <2>5, FourTypes
  <2>. DEFINE u == Changed(v, j, c)
  <2>7. u \in Vec /\ \A k \in 0 .. shape.n - 1 : k # j => u[k] = v[k]  BY <2>3, ChangedAt
  <2>8. OneStage!Dot(P[j], u) = t[j]
    <3>1. OneStage!Dot(P[j], u)
            = OneStage!FPlus(OneStage!Dot(P[j], v), OneStage!FTimes(P[j][j], c))
      BY <2>3, <2>4, DotChange DEF StartsAt
    <3>2. OneStage!FTimes(P[j][j], c) = c  BY <2>4, FourNothing DEF StartsAt
    <3>3. OneStage!FPlus(OneStage!Dot(P[j], v), c) = t[j]
      <4>1. OneStage!FPlus(OneStage!FPlus(t[j], OneStage!Dot(P[j], v)), OneStage!Dot(P[j], v))
              = t[j]
        BY <2>4, <2>5, FourThree
      <4>2. OneStage!FPlus(c, OneStage!Dot(P[j], v)) = OneStage!FPlus(OneStage!Dot(P[j], v), c)
        BY <2>5, FourThree
      <4>. QED BY <2>6, <4>1, <4>2
    <3>. QED BY <3>1, <3>2, <3>3
  <2>9. ASSUME NEW k \in 0 .. m - 1, k > j PROVE OneStage!Dot(P[k], u) = OneStage!Dot(P[k], v)
    <3>1. P[k] \in Vec /\ P[k][j] = OneStage!Zero  BY <2>9 DEF StartsAt, Stairs
    <3>2. OneStage!Dot(P[k], u)
            = OneStage!FPlus(OneStage!Dot(P[k], v), OneStage!FTimes(P[k][j], c))
      BY <2>3, <3>1, DotChange
    <3>3. OneStage!FTimes(OneStage!Zero, c) = OneStage!Zero  BY FourNothing
    <3>4. OneStage!Dot(P[k], v) \in OneStage!F  BY <3>1, DotType
    <3>. QED BY <3>1, <3>2, <3>3, <3>4, FourNothing
  <2>. HIDE DEF u
  <2>10. Behind(u)  BY <2>1, <2>3, <2>7
  <2>11. Good(e + 1, u)
    <3>1. ASSUME NEW k \in 0 .. m - 1, k >= m - (e + 1) PROVE OneStage!Dot(P[k], u) = t[k]
      <4>1. CASE k = j  BY <2>8, <4>1
      <4>2. CASE k # j
        <5>1. k > j /\ k >= m - e  BY <2>2, <3>1, <4>2
        <5>. QED BY <2>1, <2>9, <5>1
      <4>. QED BY <4>1, <4>2
    <3>. QED BY <3>1
  <2>12. e + 1 \in 0 .. m  OBVIOUS
  <2>. HIDE DEF Behind, Good
  <2>. QED BY <2>7, <2>10, <2>11, <2>12
<1>. HIDE DEF T
<1>3. \A e \in 0 .. m : e \in T  BY <1>1, <1>2, UpTo
<1>4. m \in 0 .. m /\ m - m = 0  OBVIOUS
<1>5. PICK v \in Vec : Behind(v) /\ Good(m, v)  BY <1>3, <1>4 DEF T
<1>. QED BY <1>4, <1>5 DEF Answers

Syms == [0 .. shape.n -> OneStage!F]

\* A symbol, and a multiple of another added to it.
LEMMA SymsAdd ==
  ASSUME NEW p \in Syms, NEW c \in OneStage!F, NEW x0 \in Syms
  PROVE  OneStage!VPlus(p, OneStage!VTimes(c, x0)) \in Syms
<1>. DEFINE D == 0 .. shape.n
<1>1. p \in [D -> OneStage!F] /\ x0 \in [D -> OneStage!F]  BY DEF Syms
<1>. HIDE DEF D
<1>2. Mixture(p, c, x0) \in [D -> OneStage!F]  BY <1>1, MixtureType
<1>. QED BY <1>2 DEF D, Syms, Mixture

\* Column by column, the columns behind j are taken out of s.
Taken(q, r, s, x0, j) ==
  /\ q \in [j .. shape.n - 1 -> Syms] /\ q[j] = s
  /\ \A k \in j + 1 .. shape.n - 1 : q[k]
     = OneStage!VPlus(q[k - 1], OneStage!VTimes(r[k], x0[k]))

\* What is left depends on the columns behind only.
LEMMA TakenSame ==
  ASSUME shape.n \in Nat \ {0}, NEW r, NEW s, NEW x0, NEW z, NEW j \in 0 .. shape.n - 1,
         NEW q, Taken(q, r, s, x0, j), NEW p, Taken(p, r, s, z, j),
         \A k \in j + 1 .. shape.n - 1 : x0[k] = z[k]
  PROVE  q[shape.n - 1] = p[shape.n - 1]
<1>. DEFINE w == shape.n
            m == w - 1 - j
            U == {e \in 0 .. m : q[j + e] = p[j + e]}
<1>1. 0 \in U
  <2>1. j + 0 = j /\ 0 \in 0 .. m  OBVIOUS
  <2>2. q[j] = s /\ p[j] = s  BY DEF Taken
  <2>. QED BY <2>1, <2>2
<1>2. ASSUME NEW e \in 0 .. m - 1, e \in U PROVE e + 1 \in U
  <2>1. PICK k \in j + 1 .. w - 1 : k = j + e + 1  OBVIOUS
  <2>2. k - 1 = j + e /\ j + (e + 1) = k /\ e + 1 \in 0 .. m  BY <2>1
  <2>3. q[k] = OneStage!VPlus(q[k - 1], OneStage!VTimes(r[k], x0[k]))  BY DEF Taken
  <2>4. p[k] = OneStage!VPlus(p[k - 1], OneStage!VTimes(r[k], z[k]))  BY DEF Taken
  <2>5. q[k - 1] = p[k - 1]  BY <1>2, <2>2
  <2>6. q[k] = p[k]  BY <2>3, <2>4, <2>5
  <2>. QED BY <2>2, <2>6
<1>3. m \in Nat /\ m \in 0 .. m /\ j + m = w - 1  OBVIOUS
<1>. HIDE DEF U, m
<1>4. \A e \in 0 .. m : e \in U  BY <1>1, <1>2, <1>3, UpTo
<1>5. m \in U  BY <1>3, <1>4
<1>. QED BY <1>3, <1>5 DEF U

\* What is left over is found by taking out column by column.
LEMMA LeftOverIs ==
  ASSUME shape.n \in Nat \ {0}, NEW r \in Vec, NEW s \in Syms, NEW x0,
         NEW j \in 0 .. shape.n - 1, \A k \in j + 1 .. shape.n - 1 : x0[k] \in Syms
  PROVE  \E q : Taken(q, r, s, x0, j) /\ OneStage!LeftOver(r, s, j, x0) = q[shape.n - 1]
<1>. DEFINE w == shape.n
            X == Syms
            m == w - 1 - j
            Eqn(f) == f = [k \in j .. w - 1 |->
                             IF k = j THEN s ELSE OneStage!VPlus(f[k - 1],
                                 OneStage!VTimes(r[k], x0[k]))]
            u == CHOOSE f : Eqn(f)
            G == [z \in (1 .. m) \X X |-> OneStage!VPlus(z[2],
                OneStage!VTimes(r[j + z[1]], x0[j + z[1]]))]
<1>0. OneStage!LeftOver(r, s, j, x0) = u[w - 1]  BY DEF OneStage!LeftOver
<1>1. \A p \in X, k \in j + 1 .. w - 1 : OneStage!VPlus(p, OneStage!VTimes(r[k], x0[k])) \in X
  <2>. TAKE p \in X, k \in j + 1 .. w - 1
  <2>1. k \in 0 .. shape.n - 1  OBVIOUS
  <2>2. r[k] \in OneStage!F  BY <2>1 DEF Vec
  <2>. QED BY <2>2, SymsAdd
<1>2. m \in Nat  OBVIOUS
<1>3. G \in [(1 .. m) \X X -> X]
  <2>1. \A z \in (1 .. m) \X X : z[1] \in 1 .. m /\ z[2] \in X  OBVIOUS
  <2>2. \A e \in 1 .. m : j + e \in j + 1 .. w - 1  OBVIOUS
  <2>. HIDE DEF X, m, w
  <2>3. ASSUME NEW z \in (1 .. m) \X X
        PROVE  OneStage!VPlus(z[2], OneStage!VTimes(r[j + z[1]], x0[j + z[1]])) \in X
    <3>1. z[2] \in X /\ j + z[1] \in j + 1 .. w - 1  BY <2>1, <2>2
    <3>. QED BY <1>1, <3>1
  <2>. QED BY <2>3
<1>. HIDE DEF m
<1>4. PICK g : Recurs(g, X, s, m, G)
  <2>. HIDE DEF G
  <2>. QED BY <1>2, <1>3, Recursion
<1>. DEFINE f == [k \in j .. w - 1 |-> g[k - j]]
<1>5. f[j] = s
  <2>1. j \in j .. w - 1 /\ j - j = 0  OBVIOUS
  <2>. QED BY <1>4, <2>1 DEF Recurs
<1>6. \A k \in j + 1 .. w - 1 : f[k] = OneStage!VPlus(f[k - 1], OneStage!VTimes(r[k], x0[k]))
  <2>. TAKE k \in j + 1 .. w - 1
  <2>1. PICK e \in 1 .. m : e = k - j  BY DEF m
  <2>2. k \in j .. w - 1 /\ k - 1 \in j .. w - 1 /\ (k - 1) - j = e - 1 /\ j + e = k
        /\ e - 1 \in 0 .. m
    BY <1>2, <2>1
  <2>3. g[e] = G[<<e, g[e - 1]>>] /\ g[e - 1] \in X  BY <1>4, <2>2 DEF Recurs
  <2>. HIDE DEF X, w
  <2>4. <<e, g[e - 1]>> \in (1 .. m) \X X  BY <2>3
  <2>5. g[e] = OneStage!VPlus(g[e - 1], OneStage!VTimes(r[k], x0[k]))  BY <2>2, <2>3, <2>4
  <2>. QED BY <2>1, <2>2, <2>5
<1>7. Eqn(f)
  <2>. DEFINE E(k) == IF k = j THEN s ELSE OneStage!VPlus(f[k - 1], OneStage!VTimes(r[k], x0[k]))
  <2>1. \A k \in j .. w - 1 : k # j => k \in j + 1 .. w - 1  OBVIOUS
  <2>2. f = [k \in j .. w - 1 |-> f[k]]  OBVIOUS
  <2>. HIDE DEF f
  <2>3. \A k \in j .. w - 1 : f[k] = E(k)  BY <1>5, <1>6, <2>1
  <2>. HIDE DEF E
  <2>4. f = [k \in j .. w - 1 |-> E(k)]  BY <2>2, <2>3
  <2>. QED BY <2>4 DEF E
<1>8. Eqn(u)
  <2>. HIDE DEF f
  <2>. QED BY <1>7
<1>. HIDE DEF u
<1>9. u[j] = s /\ \A k \in j + 1 .. w - 1 : u[k]
        = OneStage!VPlus(u[k - 1], OneStage!VTimes(r[k], x0[k]))
  <2>. DEFINE E(k) == IF k = j THEN s ELSE OneStage!VPlus(u[k - 1], OneStage!VTimes(r[k], x0[k]))
  <2>1. u = [k \in j .. w - 1 |-> E(k)]  BY <1>8
  <2>2. \A k \in j .. w - 1 : u[k] = E(k)
    <3>. HIDE DEF E
    <3>. QED BY <2>1
  <2>3. j \in j .. w - 1 /\ \A k \in j + 1 .. w - 1 : k # j /\ k \in j .. w - 1  OBVIOUS
  <2>. QED BY <2>2, <2>3
<1>10. \A k \in j .. w - 1 : u[k] \in X
  <2>. DEFINE T == {e \in 0 .. m : u[j + e] \in X}
  <2>1. 0 \in T
    <3>1. j + 0 = j  OBVIOUS
    <3>. QED BY <1>2, <1>9, <3>1
  <2>2. ASSUME NEW e \in 0 .. m - 1, e \in T PROVE e + 1 \in T
    <3>1. PICK k \in j + 1 .. w - 1 : k = j + e + 1  BY DEF m
    <3>2. k - 1 = j + e /\ j + (e + 1) = k /\ e + 1 \in 0 .. m  BY <1>2, <3>1
    <3>. HIDE DEF X
    <3>3. u[k - 1] \in X  BY <2>2, <3>2
    <3>4. u[k] \in X  BY <1>1, <1>9, <3>3
    <3>. QED BY <3>2, <3>4
  <2>. HIDE DEF T
  <2>3. \A e \in 0 .. m : e \in T  BY <1>2, <2>1, <2>2, UpTo
  <2>. HIDE DEF X
  <2>4. ASSUME NEW k \in j .. w - 1 PROVE u[k] \in X
    <3>1. k - j \in 0 .. m /\ j + (k - j) = k  BY DEF m
    <3>. QED BY <2>3, <3>1 DEF T
  <2>. QED BY <2>4
<1>11. Taken(u, r, s, x0, j)
  <2>1. u \in [j .. w - 1 -> X]
    <3>1. u = [k \in j .. w - 1 |-> u[k]]  BY <1>8
    <3>. HIDE DEF X
    <3>. QED BY <1>10, <3>1
  <2>. QED BY <1>9, <2>1 DEF Taken
<1>. QED BY <1>0, <1>11

\* Columns that agree behind j leave the same.
LEMMA LeftOverSame ==
  ASSUME shape.n \in Nat \ {0}, NEW r \in Vec, NEW s \in Syms, NEW x0, NEW z,
         NEW j \in 0 .. shape.n - 1,
         \A k \in j + 1 .. shape.n - 1 : x0[k] \in Syms /\ x0[k] = z[k]
  PROVE  OneStage!LeftOver(r, s, j, x0) = OneStage!LeftOver(r, s, j, z)
           /\ OneStage!LeftOver(r, s, j, x0) \in Syms
<1>1. PICK q : Taken(q, r, s, x0, j) /\ OneStage!LeftOver(r, s, j, x0) = q[shape.n - 1]
  BY LeftOverIs
<1>2. \A k \in j + 1 .. shape.n - 1 : z[k] \in Syms  OBVIOUS
<1>3. PICK p : Taken(p, r, s, z, j) /\ OneStage!LeftOver(r, s, j, z) = p[shape.n - 1]
  BY <1>2, LeftOverIs
<1>4. q[shape.n - 1] = p[shape.n - 1]  BY <1>1, <1>3, TakenSame
<1>5. q[shape.n - 1] \in Syms
  <2>1. shape.n - 1 \in j .. shape.n - 1  OBVIOUS
  <2>. QED BY <1>1, <2>1 DEF Taken
<1>. QED BY <1>1, <1>3, <1>4, <1>5

\* Column j of x is what is left over of row j.
IsLeft(P, s, x0, j) == x0[j] = OneStage!LeftOver(P[j], s[j], j, x0)

\* There are columns that each are what is left over of their rows.
LEMMA CanBeLeft ==
  ASSUME shape.n \in Nat \ {0}, NEW P, NEW s,
         \A j \in 0 .. shape.n - 1 : P[j] \in Vec /\ s[j] \in Syms
  PROVE  \E x0 \in [0 .. shape.n - 1 -> Syms] : \A j \in 0 .. shape.n - 1 : IsLeft(P, s, x0, j)
<1>. DEFINE w == shape.n
            I == 0 .. w - 1
            X == [I -> Syms]
            Good(e, x0) == \A j \in I : j >= w - e => IsLeft(P, s, x0, j)
            T == {e \in 0 .. w : \E x0 \in X : Good(e, x0)}
<1>1. 0 \in T
  <2>. DEFINE x0 == [j \in I |-> s[j]]
  <2>2. x0 \in X
    <3>. HIDE DEF w
    <3>1. \A j \in I : s[j] \in Syms  BY DEF w
    <3>. QED BY <3>1
  <2>3. Good(0, x0)  OBVIOUS
  <2>. HIDE DEF Good, X
  <2>4. 0 \in 0 .. w  OBVIOUS
  <2>. QED BY <2>2, <2>3, <2>4
<1>2. ASSUME NEW e \in 0 .. w - 1, e \in T PROVE e + 1 \in T
  <2>1. PICK x0 \in X : Good(e, x0)  BY <1>2
  <2>2. PICK j \in I : j = w - 1 - e  OBVIOUS
  <2>. DEFINE v == OneStage!LeftOver(P[j], s[j], j, x0)
              z == [x0 EXCEPT ![j] = v]
  <2>3. \A k \in I : x0[k] \in Syms
    <3>. HIDE DEF I
    <3>. QED OBVIOUS
  <2>4. v \in Syms
    <3>1. \A k \in j + 1 .. w - 1 : k \in I  OBVIOUS
    <3>2. \A k \in j + 1 .. w - 1 : x0[k] \in Syms /\ x0[k] = x0[k]  BY <2>3, <3>1
    <3>. QED BY <3>2, LeftOverSame
  <2>. HIDE DEF v
  <2>5. z \in X /\ z[j] = v /\ \A k \in I : k # j => z[k] = x0[k]
    <3>. HIDE DEF I
    <3>. QED BY <2>4
  <2>. HIDE DEF z
  <2>6. ASSUME NEW k \in I, k >= w - (e + 1) PROVE IsLeft(P, s, z, k)
    <3>1. \A i \in k + 1 .. w - 1 : i \in I /\ i # j  BY <2>2, <2>6
    <3>2. \A i \in k + 1 .. w - 1 : x0[i] \in Syms /\ x0[i] = z[i]  BY <2>3, <2>5, <3>1
    <3>3. OneStage!LeftOver(P[k], s[k], k, x0) = OneStage!LeftOver(P[k], s[k], k, z)
      BY <3>2, LeftOverSame
    <3>4. CASE k = j  BY <2>5, <3>3, <3>4 DEF IsLeft, v
    <3>5. CASE k # j
      <4>1. k >= w - e  BY <2>2, <2>6, <3>5
      <4>2. x0[k] = OneStage!LeftOver(P[k], s[k], k, x0)  BY <2>1, <4>1 DEF IsLeft
      <4>. QED BY <2>5, <3>3, <3>5, <4>2 DEF IsLeft
    <3>. QED BY <3>4, <3>5
  <2>7. Good(e + 1, z)  BY <2>6
  <2>8. e + 1 \in 0 .. w  OBVIOUS
  <2>. HIDE DEF Good, X
  <2>. QED BY <2>5, <2>7, <2>8
<1>. HIDE DEF T
<1>3. \A e \in 0 .. w : e \in T
  <2>. HIDE DEF w
  <2>. QED BY <1>1, <1>2, UpTo DEF w
<1>4. w \in T /\ w - w = 0  BY <1>3
<1>5. PICK x0 \in X : Good(w, x0)
  <2>. HIDE DEF X, Good
  <2>. QED BY <1>4 DEF T
<1>. QED BY <1>4, <1>5

\* What back substitution makes is such a choice of columns.
LEMMA SubstitutedIs ==
  ASSUME shape.n \in Nat \ {0},
         \A j \in 0 .. shape.n - 1 : /\ rows[pivot_for_col[j]] \in Vec
                                     /\ symbols[pivot_for_col[j]] \in Syms
  PROVE  /\ OneStage!Substituted \in [0 .. shape.n - 1 -> Syms]
         /\ \A j \in 0 .. shape.n - 1 :
              OneStage!Substituted[j] = OneStage!LeftOver(rows[pivot_for_col[j]],
                  symbols[pivot_for_col[j]], j, OneStage!Substituted)
<1>. DEFINE I == 0 .. shape.n - 1
            P == [j \in I |-> rows[pivot_for_col[j]]]
            s == [j \in I |-> symbols[pivot_for_col[j]]]
            Eqn(x0) == x0 = [j \in OneStage!Col |-> OneStage!LeftOver(rows[pivot_for_col[j]],
                symbols[pivot_for_col[j]], j, x0)]
            u == CHOOSE x0 : Eqn(x0)
<1>1. OneStage!Substituted = u  BY DEF OneStage!Substituted
<1>2. \A j \in I : P[j] = rows[pivot_for_col[j]] /\ s[j] = symbols[pivot_for_col[j]]  OBVIOUS
<1>3. OneStage!Col = I  BY DEF OneStage!Col
<1>. HIDE DEF P, s
<1>4. PICK z \in [I -> Syms] : \A j \in I : IsLeft(P, s, z, j)  BY <1>2, CanBeLeft
<1>5. Eqn(z)
  <2>. DEFINE E(j) == OneStage!LeftOver(rows[pivot_for_col[j]], symbols[pivot_for_col[j]], j, z)
  <2>1. \A j \in I : z[j] = E(j)  BY <1>2, <1>4 DEF IsLeft
  <2>. HIDE DEF E, I
  <2>2. z = [j \in I |-> z[j]]  OBVIOUS
  <2>3. z = [j \in OneStage!Col |-> E(j)]  BY <1>3, <2>1, <2>2
  <2>. QED BY <2>3 DEF E
<1>6. Eqn(u)
  <2>. HIDE DEF Eqn
  <2>. QED BY <1>5
<1>. HIDE DEF u, I
<1>7. u = [j \in I |-> u[j]] /\ \A j \in I : IsLeft(P, s, u, j)
  <2>. DEFINE E(j) == OneStage!LeftOver(rows[pivot_for_col[j]], symbols[pivot_for_col[j]], j, u)
  <2>1. u = [j \in I |-> E(j)]  BY <1>3, <1>6
  <2>. HIDE DEF E
  <2>2. u = [j \in I |-> u[j]] /\ \A j \in I : u[j] = E(j)  BY <2>1
  <2>. QED BY <1>2, <2>2 DEF E, IsLeft
<1>. HIDE DEF Eqn
\* There is only one.
<1>8. \A j \in I : u[j] \in Syms
  <2>. DEFINE w == shape.n
              T == {e \in 0 .. w : \A j \in I : j >= w - e => u[j] \in Syms}
  <2>1. 0 \in T  BY DEF I
  <2>2. ASSUME NEW e \in 0 .. w - 1, e \in T PROVE e + 1 \in T
    <3>1. PICK j \in I : j = w - 1 - e  BY DEF I
    <3>2. \A k \in j + 1 .. w - 1 : k \in I /\ k >= w - e  BY <3>1 DEF I
    <3>3. \A k \in j + 1 .. w - 1 : u[k] \in Syms /\ u[k] = u[k]  BY <2>2, <3>2
    <3>4. P[j] \in Vec /\ s[j] \in Syms  BY <1>2 DEF I
    <3>5. OneStage!LeftOver(P[j], s[j], j, u) \in Syms  BY <3>3, <3>4, LeftOverSame DEF I
    <3>6. u[j] \in Syms  BY <1>7, <3>5 DEF IsLeft
    <3>7. \A k \in I : k >= w - (e + 1) => k = j \/ k >= w - e  BY <3>1 DEF I
    <3>. QED BY <2>2, <3>6, <3>7
  <2>. HIDE DEF T
  <2>3. \A e \in 0 .. w : e \in T
    <3>. HIDE DEF w
    <3>. QED BY <2>1, <2>2, UpTo DEF w
  <2>4. w \in T /\ w - w = 0  BY <2>3
  <2>5. \A j \in I : j >= 0  BY DEF I
  <2>. QED BY <2>4, <2>5 DEF T
<1>9. u \in [I -> Syms]  BY <1>7, <1>8
<1>. QED BY <1>1, <1>2, <1>7, <1>9 DEF I, IsLeft

\* The component d of the symbols of all columns.
At(x0, d) == [k \in 0 .. shape.n - 1 |-> x0[k][d]]

\* It is a vector of the field.
LEMMA AtIs ==
  ASSUME shape.n \in Nat \ {0}, NEW x0, \A k \in 0 .. shape.n - 1 : x0[k] \in Syms,
         NEW d \in 0 .. shape.n
  PROVE  At(x0, d) \in Vec /\ \A k \in 0 .. shape.n - 1 : At(x0, d)[k] = x0[k][d]
BY DEF At, Vec, Syms

\* A column that is what is left over of a row makes the row give its symbol.
LEMMA LeftOverAnswers ==
  ASSUME shape.n \in Nat \ {0}, NEW r, NEW j \in 0 .. shape.n - 1, StartsAt(r, j),
         NEW s \in Syms, NEW x0, \A k \in 0 .. shape.n - 1 : x0[k] \in Syms,
         x0[j] = OneStage!LeftOver(r, s, j, x0), NEW d \in 0 .. shape.n
  PROVE  OneStage!Dot(r, At(x0, d)) = s[d]
<1>. DEFINE w == shape.n
            v == At(x0, d)
            m == w - 1 - j
<1>1. r \in Vec /\ r[j] = OneStage!One /\ \A k \in 0 .. j - 1 : r[k] = OneStage!Zero
  BY DEF StartsAt
<1>2. v \in Vec /\ \A k \in 0 .. w - 1 : v[k] = x0[k][d]  BY AtIs
<1>. HIDE DEF v
<1>3. PICK P : DotPartial(P, r, v) /\ OneStage!Dot(r, v) = P[w]  BY <1>1, <1>2, DotIs
<1>4. PICK q : Taken(q, r, s, x0, j) /\ OneStage!LeftOver(r, s, j, x0) = q[w - 1]
  <2>1. \A k \in j + 1 .. w - 1 : k \in 0 .. w - 1  OBVIOUS
  <2>2. \A k \in j + 1 .. w - 1 : x0[k] \in Syms  BY <2>1
  <2>. QED BY <1>1, <2>2, LeftOverIs
<1>5. PICK a0 \in OneStage!F, b0 \in OneStage!F : a0 = s[d] /\ b0 = v[j]
  <2>1. s[d] \in OneStage!F  BY DEF Syms
  <2>2. v[j] \in OneStage!F  BY <1>2 DEF Vec
  <2>. QED BY <2>1, <2>2
<1>6. P[j] = OneStage!Zero
  <2>. DEFINE T == {k \in 0 .. j : P[k] = OneStage!Zero}
  <2>1. 0 \in T  BY <1>3 DEF DotPartial
  <2>2. ASSUME NEW k \in 0 .. j - 1, k \in T PROVE k + 1 \in T
    <3>1. k \in 0 .. w - 1 /\ k + 1 \in 0 .. j /\ P[k] = OneStage!Zero /\ r[k] = OneStage!Zero
      BY <1>1, <2>2
    <3>2. P[k + 1] = OneStage!FPlus(P[k], OneStage!FTimes(r[k], v[k])) /\ v[k] \in OneStage!F
      BY <1>1, <1>2, <1>3, <3>1, NextDot
    <3>3. OneStage!FTimes(OneStage!Zero, v[k]) = OneStage!Zero
            /\ OneStage!FPlus(OneStage!Zero, OneStage!Zero) = OneStage!Zero
      BY <3>2, FourTypes, FourNothing
    <3>4. P[k + 1] = OneStage!Zero  BY ONLY <3>1, <3>2, <3>3
    <3>. QED BY <3>1, <3>4
  <2>. HIDE DEF T
  <2>3. \A k \in 0 .. j : k \in T  BY <2>1, <2>2, UpTo
  <2>. QED BY <2>3 DEF T
<1>7. P[j + 1] = b0
  <2>1. P[j + 1] = OneStage!FPlus(P[j], OneStage!FTimes(r[j], v[j]))
    BY <1>1, <1>2, <1>3, NextDot
  <2>2. OneStage!FTimes(OneStage!One, b0) = b0 /\ OneStage!FPlus(OneStage!Zero, b0) = b0
    BY FourNothing
  <2>. QED BY <1>1, <1>5, <1>6, <2>1, <2>2
<1>. DEFINE T == {e \in 0 .. m : P[j + e + 1]
       = OneStage!FPlus(OneStage!FPlus(q[j + e][d], a0), b0)}
<1>8. 0 \in T
  <2>1. q[j] = s  BY <1>4 DEF Taken
  <2>2. OneStage!FPlus(a0, a0) = OneStage!Zero /\ OneStage!FPlus(OneStage!Zero, b0) = b0
    BY FourNothing
  <2>3. j + 0 = j /\ j + 0 + 1 = j + 1 /\ 0 \in 0 .. m  OBVIOUS
  <2>4. P[j + 1] = OneStage!FPlus(OneStage!FPlus(q[j][d], a0), b0)  BY <1>5, <1>7, <2>1, <2>2
  <2>. QED BY <2>3, <2>4
<1>9. ASSUME NEW e \in 0 .. m - 1, e \in T PROVE e + 1 \in T
  <2>1. PICK k \in j + 1 .. w - 1 : k = j + e + 1  OBVIOUS
  <2>2. k - 1 = j + e /\ j + (e + 1) = k /\ e + 1 \in 0 .. m /\ j + (e + 1) + 1 = k + 1
        /\ k \in 0 .. w - 1 /\ k - 1 \in j .. w - 1
    BY <2>1
  <2>3. P[k + 1] = OneStage!FPlus(P[k], OneStage!FTimes(r[k], v[k])) /\ r[k] \in OneStage!F
          /\ v[k] \in OneStage!F
    BY <1>1, <1>2, <1>3, <2>2, NextDot
  <2>4. q[k - 1] \in Syms /\ q[k] = OneStage!VPlus(q[k - 1], OneStage!VTimes(r[k], x0[k]))
    BY <1>4, <2>2 DEF Taken
  <2>5. q[k][d] = OneStage!FPlus(q[k - 1][d], OneStage!FTimes(r[k], x0[k][d]))
    <3>. DEFINE D == 0 .. shape.n
    <3>1. q[k - 1] \in [D -> OneStage!F] /\ x0[k] \in [D -> OneStage!F] /\ d \in D
      BY <2>2, <2>4 DEF Syms
    <3>. HIDE DEF D
    <3>2. PICK q1 \in [D -> OneStage!F], x1 \in [D -> OneStage!F] : q1 = q[k - 1] /\ x1 = x0[k]
      BY <3>1
    <3>3. PICK r1 : r1 = r[k]  OBVIOUS
    <3>4. \A h \in D : Mixture(q1, r1, x1)[h]
            = OneStage!FPlus(q1[h], OneStage!FTimes(r1, x1[h]))
      BY MixtureAt
    <3>. QED BY <2>4, <3>1, <3>2, <3>3, <3>4 DEF Mixture
  <2>6. PICK p \in OneStage!F : p = q[k - 1][d]  BY <2>4 DEF Syms
  <2>7. PICK c \in OneStage!F : c = OneStage!FTimes(r[k], v[k])  BY <2>3, FourTypes
  <2>8. P[k] = OneStage!FPlus(OneStage!FPlus(p, a0), b0)  BY <1>9, <2>1, <2>2, <2>6
  <2>9. q[k][d] = OneStage!FPlus(p, c)  BY <1>2, <2>2, <2>5, <2>6, <2>7
  <2>10. OneStage!FPlus(OneStage!FPlus(OneStage!FPlus(p, a0), b0), c)
           = OneStage!FPlus(OneStage!FPlus(OneStage!FPlus(p, c), a0), b0)
    <3>1. PICK g \in OneStage!F : g = OneStage!FPlus(p, a0)  BY FourTypes
    <3>2. OneStage!FPlus(OneStage!FPlus(g, b0), c) = OneStage!FPlus(OneStage!FPlus(g, c), b0)
      BY FourSwapped
    <3>3. OneStage!FPlus(OneStage!FPlus(p, a0), c) = OneStage!FPlus(OneStage!FPlus(p, c), a0)
      BY FourSwapped
    <3>. QED BY <3>1, <3>2, <3>3
  <2>11. P[k + 1] = OneStage!FPlus(OneStage!FPlus(q[k][d], a0), b0)
    BY <2>3, <2>7, <2>8, <2>9, <2>10
  <2>. QED BY <2>2, <2>11
<1>10. m \in Nat /\ m \in 0 .. m /\ j + m = w - 1 /\ j + m + 1 = w  OBVIOUS
<1>. HIDE DEF T, m
<1>11. \A e \in 0 .. m : e \in T  BY <1>8, <1>9, <1>10, UpTo
<1>12. P[w] = OneStage!FPlus(OneStage!FPlus(q[w - 1][d], a0), b0)  BY <1>10, <1>11 DEF T
<1>13. q[w - 1][d] = b0  BY <1>2, <1>4, <1>5
<1>14. OneStage!FPlus(OneStage!FPlus(b0, a0), b0) = a0
  <2>1. OneStage!FPlus(b0, a0) = OneStage!FPlus(a0, b0)
          /\ OneStage!FPlus(OneStage!FPlus(a0, b0), b0) = a0
    BY FourThree
  <2>. QED BY <2>1
<1>. QED BY <1>3, <1>5, <1>12, <1>13, <1>14 DEF v

\* The combinations of the first columns.
Combined(S, r, x0) ==
  /\ S \in [0 .. shape.n -> Syms] /\ S[0] = OneStage!VZero(0 .. shape.n)
  /\ \A k \in 1 .. shape.n : S[k]
     = OneStage!VPlus(S[k - 1], OneStage!VTimes(r[k - 1], x0[k - 1]))

\* A combination of columns is the last of them.
LEMMA CombinedIs ==
  ASSUME shape.n \in Nat \ {0}, NEW r \in Vec, NEW x0, \A k \in 0 .. shape.n - 1 : x0[k] \in Syms
  PROVE  \E S : Combined(S, r, x0) /\ OneStage!Combination(r, x0, shape.n) = S[shape.n]
<1>. DEFINE w == shape.n
            X == Syms
            z0 == OneStage!VZero(0 .. w)
            Eqn(f) == f = [k \in 0 .. w |-> IF k = 0 THEN OneStage!VZero(DOMAIN x0[0])
                                            ELSE OneStage!VPlus(f[k - 1],
                                                OneStage!VTimes(r[k - 1], x0[k - 1]))]
            u == CHOOSE f : Eqn(f)
            G == [z \in (1 .. w) \X X |-> OneStage!VPlus(z[2],
                OneStage!VTimes(r[z[1] - 1], x0[z[1] - 1]))]
<1>0. OneStage!Combination(r, x0, w) = u[w]  BY DEF OneStage!Combination
<1>1. ASSUME NEW k \in 1 .. w,
        NEW p \in X PROVE OneStage!VPlus(p, OneStage!VTimes(r[k - 1], x0[k - 1])) \in X
  <2>1. k - 1 \in 0 .. w - 1  OBVIOUS
  <2>2. r[k - 1] \in OneStage!F /\ x0[k - 1] \in Syms  BY <2>1 DEF Vec
  <2>. QED BY <2>2, SymsAdd
<1>2. G \in [(1 .. w) \X X -> X]
  <2>1. \A z \in (1 .. w) \X X : z[1] \in 1 .. w /\ z[2] \in X  OBVIOUS
  <2>. HIDE DEF w, X
  <2>. QED BY <1>1, <2>1
<1>3. w \in Nat /\ OneStage!VZero(DOMAIN x0[0]) = z0 /\ z0 \in X
  <2>1. x0[0] \in Syms  OBVIOUS
  <2>2. DOMAIN x0[0] = 0 .. w  BY <2>1 DEF Syms
  <2>3. OneStage!Zero \in OneStage!F  BY FourTypes
  <2>. QED BY <2>2, <2>3 DEF Syms, OneStage!VZero
<1>. HIDE DEF z0
<1>4. PICK f : Recurs(f, X, z0, w, G)
  <2>. HIDE DEF G, w, X
  <2>. QED BY <1>2, <1>3, Recursion
<1>5. f \in [0 .. w -> X] /\ f[0] = z0
      /\ \A k \in 1 .. w : f[k] = OneStage!VPlus(f[k - 1], OneStage!VTimes(r[k - 1], x0[k - 1]))
  <2>1. ASSUME NEW k \in 1 .. w PROVE f[k]
          = OneStage!VPlus(f[k - 1], OneStage!VTimes(r[k - 1], x0[k - 1]))
    <3>1. k - 1 \in 0 .. w  OBVIOUS
    <3>2. f[k - 1] \in X /\ f[k] = G[<<k, f[k - 1]>>]  BY <1>4, <3>1 DEF Recurs
    <3>. HIDE DEF X
    <3>3. <<k, f[k - 1]>> \in (1 .. w) \X X  BY <3>2
    <3>. QED BY <3>2, <3>3
  <2>. QED BY <1>4, <2>1 DEF Recurs
<1>6. Eqn(f)
  <2>. DEFINE E(k) == IF k = 0 THEN OneStage!VZero(DOMAIN x0[0])
                      ELSE OneStage!VPlus(f[k - 1], OneStage!VTimes(r[k - 1], x0[k - 1]))
  <2>1. f = [k \in 0 .. w |-> f[k]]  BY <1>5
  <2>2. \A k \in 0 .. w : k # 0 => k \in 1 .. w  OBVIOUS
  <2>3. \A k \in 0 .. w : f[k] = E(k)  BY <1>3, <1>5, <2>2
  <2>. HIDE DEF E
  <2>4. f = [k \in 0 .. w |-> E(k)]  BY <2>1, <2>3
  <2>. QED BY <2>4 DEF E
<1>7. Eqn(u)  BY <1>6
<1>. HIDE DEF u
<1>8. u[0] = z0 /\ \A k \in 1 .. w : u[k]
        = OneStage!VPlus(u[k - 1], OneStage!VTimes(r[k - 1], x0[k - 1]))
  <2>. DEFINE E(k) == IF k = 0 THEN OneStage!VZero(DOMAIN x0[0])
                      ELSE OneStage!VPlus(u[k - 1], OneStage!VTimes(r[k - 1], x0[k - 1]))
  <2>1. u = [k \in 0 .. w |-> E(k)]  BY <1>7
  <2>2. \A k \in 0 .. w : u[k] = E(k)
    <3>. HIDE DEF E
    <3>. QED BY <2>1
  <2>3. 0 \in 0 .. w /\ \A k \in 1 .. w : k # 0 /\ k \in 0 .. w  OBVIOUS
  <2>. QED BY <1>3, <2>2, <2>3
<1>9. \A k \in 0 .. w : u[k] = f[k]
  <2>. DEFINE T == {k \in 0 .. w : u[k] = f[k]}
  <2>1. 0 \in T  BY <1>5, <1>8
  <2>2. ASSUME NEW k \in 0 .. w - 1, k \in T PROVE k + 1 \in T
    <3>1. PICK m \in 1 .. w : m = k + 1  OBVIOUS
    <3>2. m - 1 = k /\ u[k] = f[k] /\ m \in 0 .. w  BY <2>2, <3>1
    <3>3. u[m] = f[m]  BY <1>5, <1>8, <3>2
    <3>. QED BY <3>1, <3>2, <3>3
  <2>. HIDE DEF T, w
  <2>3. \A k \in 0 .. w : k \in T  BY <1>3, <2>1, <2>2, UpTo
  <2>. QED BY <2>3 DEF T
<1>10. w \in 0 .. w  OBVIOUS
<1>11. Combined(f, r, x0)  BY <1>5 DEF Combined, z0
<1>. QED BY <1>0, <1>9, <1>10, <1>11

\* Each of its components is a product.
LEMMA CombinationIsDot ==
  ASSUME shape.n \in Nat \ {0}, NEW r \in Vec, NEW x0, \A k \in 0 .. shape.n - 1 : x0[k] \in Syms
  PROVE  /\ OneStage!Combination(r, x0, shape.n) \in Syms
         /\ \A d \in 0 .. shape.n : OneStage!Combination(r, x0, shape.n)[d]
            = OneStage!Dot(r, At(x0, d))
<1>. DEFINE w == shape.n
<1>1. PICK S : Combined(S, r, x0) /\ OneStage!Combination(r, x0, w) = S[w]  BY CombinedIs
<1>2. w \in 0 .. w  OBVIOUS
<1>3. S[w] \in Syms  BY <1>1, <1>2 DEF Combined
<1>4. ASSUME NEW d \in 0 .. w PROVE S[w][d] = OneStage!Dot(r, At(x0, d))
  <2>. DEFINE v == At(x0, d)
  <2>1. v \in Vec /\ \A k \in 0 .. w - 1 : v[k] = x0[k][d]  BY AtIs
  <2>. HIDE DEF v
  <2>2. PICK P : DotPartial(P, r, v) /\ OneStage!Dot(r, v) = P[w]  BY <2>1, DotIs
  <2>. DEFINE T == {k \in 0 .. w : S[k][d] = P[k]}
  <2>3. 0 \in T
    <3>1. OneStage!VZero(0 .. shape.n)[d] = OneStage!Zero  BY DEF OneStage!VZero
    <3>. QED BY <1>1, <2>2, <3>1 DEF Combined, DotPartial
  <2>4. ASSUME NEW k \in 0 .. w - 1, k \in T PROVE k + 1 \in T
    <3>1. P[k + 1] = OneStage!FPlus(P[k], OneStage!FTimes(r[k], v[k])) /\ r[k] \in OneStage!F
            /\ k + 1 \in 0 .. w
      BY <2>1, <2>2, NextDot
    <3>2. PICK m \in 1 .. w : m = k + 1  OBVIOUS
    <3>3. m - 1 = k /\ k \in 0 .. w  BY <3>2
    <3>4. S[m] = OneStage!VPlus(S[m - 1], OneStage!VTimes(r[m - 1], x0[m - 1])) /\ S[k] \in Syms
      BY <1>1, <3>3 DEF Combined
    <3>. DEFINE D == 0 .. shape.n
    <3>5. PICK q1 \in [D -> OneStage!F], x1 \in [D -> OneStage!F] : q1 = S[k] /\ x1 = x0[k]
      BY <3>4 DEF Syms
    <3>. HIDE DEF D
    <3>6. PICK r1 \in OneStage!F : r1 = r[k]  BY <3>1
    <3>7. \A e \in D : Mixture(q1, r1, x1)[e]
            = OneStage!FPlus(q1[e], OneStage!FTimes(r1, x1[e]))
      BY MixtureAt
    <3>8. S[k + 1] = Mixture(q1, r1, x1)  BY <3>2, <3>3, <3>4, <3>5, <3>6 DEF Mixture
    <3>9. S[k + 1][d] = OneStage!FPlus(S[k][d], OneStage!FTimes(r[k], x0[k][d]))
      BY <3>5, <3>6, <3>7, <3>8 DEF D
    <3>10. S[k][d] = P[k] /\ x0[k][d] = v[k]  BY <2>1, <2>4
    <3>11. S[k + 1][d] = P[k + 1]  BY ONLY <3>1, <3>9, <3>10
    <3>. QED BY <3>1, <3>11
  <2>. HIDE DEF T
  <2>5. \A k \in 0 .. w : k \in T
    <3>. HIDE DEF w
    <3>. QED BY <2>3, <2>4, UpTo DEF w
  <2>. QED BY <1>2, <2>2, <2>5 DEF T, v
<1>. QED BY <1>1, <1>3, <1>4

\* A row times a number, as a sum.
LEMMA FourScaled ==
  ASSUME NEW a0 \in OneStage!F, NEW c \in OneStage!F
  PROVE  OneStage!FPlus(a0, OneStage!FTimes(OneStage!FPlus(c, OneStage!One), a0))
           = OneStage!FTimes(c, a0)
<1>1. PICK b0 \in OneStage!F : b0 = OneStage!FTimes(c, a0)  BY FourTypes
<1>2. OneStage!One \in OneStage!F /\ OneStage!FTimes(OneStage!One, a0) = a0
  BY FourTypes, FourNothing
<1>3. OneStage!FTimes(OneStage!FPlus(c, OneStage!One), a0) = OneStage!FPlus(b0, a0)
  BY <1>1, <1>2, FourThree
<1>4. OneStage!FPlus(a0, OneStage!FPlus(b0, a0)) = OneStage!FPlus(OneStage!FPlus(b0, a0), a0)
  BY FourTypes, FourThree
<1>5. OneStage!FPlus(OneStage!FPlus(b0, a0), a0) = b0  BY FourThree
<1>. QED BY <1>1, <1>3, <1>4, <1>5

\* A multiple of a row has that multiple as its product.
LEMMA DotScaled ==
  ASSUME shape.n \in Nat \ {0}, NEW r \in Vec, NEW c \in OneStage!F, NEW v \in Vec
  PROVE  OneStage!VTimes(c, r) \in Vec
           /\ OneStage!Dot(OneStage!VTimes(c, r), v) = OneStage!FTimes(c, OneStage!Dot(r, v))
<1>. DEFINE I == 0 .. shape.n - 1
<1>1. PICK e \in OneStage!F : e = OneStage!FPlus(c, OneStage!One)  BY FourTypes
<1>2. r \in [I -> OneStage!F] /\ Vec = [I -> OneStage!F]  BY DEF Vec
<1>. HIDE DEF I
<1>3. OneStage!VTimes(c, r) = [k \in I |-> OneStage!FTimes(c, r[k])]
  BY <1>2 DEF OneStage!VTimes
<1>4. Mixture(r, e, r) \in [I -> OneStage!F]  BY <1>2, MixtureType
<1>5. \A k \in I : Mixture(r, e, r)[k] = OneStage!FPlus(r[k], OneStage!FTimes(e, r[k]))
  BY <1>2, MixtureAt
<1>6. \A k \in I : r[k] \in OneStage!F  BY <1>2
<1>7. \A k \in I : OneStage!FPlus(r[k], OneStage!FTimes(e, r[k])) = OneStage!FTimes(c, r[k])
  BY <1>1, <1>6, FourScaled
<1>8. OneStage!VTimes(c, r) = Mixture(r, e, r)
  <2>1. Mixture(r, e, r) = [k \in I |-> Mixture(r, e, r)[k]]  BY <1>4
  <2>2. \A k \in I : Mixture(r, e, r)[k] = OneStage!FTimes(c, r[k])  BY <1>5, <1>7
  <2>. QED BY <1>3, <2>1, <2>2
<1>9. OneStage!Dot(Mixture(r, e, r), v)
        = OneStage!FPlus(OneStage!Dot(r, v), OneStage!FTimes(e, OneStage!Dot(r, v)))
  BY DotAdds
<1>10. OneStage!Dot(r, v) \in OneStage!F  BY DotType
<1>11. OneStage!FPlus(OneStage!Dot(r, v), OneStage!FTimes(e, OneStage!Dot(r, v)))
         = OneStage!FTimes(c, OneStage!Dot(r, v))
  BY <1>1, <1>10, FourScaled
<1>. QED BY <1>2, <1>4, <1>8, <1>9, <1>11

-----------------------------------------------------------------------------
(* The operations on all rows or symbols.                                  *)

Slabs(D) == [OneStage!Row -> [D -> OneStage!F]]

\* Swapped, scaled, and added.
LEMMA SwapIs ==
  ASSUME NEW D, NEW s \in Slabs(D), NEW a0 \in OneStage!Row, NEW b0 \in OneStage!Row
  PROVE  /\ OneStage!swap(s, a0, b0) \in Slabs(D)
         /\ OneStage!swap(s, a0, b0)[a0] = s[b0] /\ OneStage!swap(s, a0, b0)[b0] = s[a0]
         /\ \A i \in OneStage!Row : i # a0 /\ i # b0 => OneStage!swap(s, a0, b0)[i] = s[i]
<1>. DEFINE X == [D -> OneStage!F]
<1>1. s \in [OneStage!Row -> X]  BY DEF Slabs
<1>. HIDE DEF X
<1>2. OneStage!swap(s, a0, b0) \in [OneStage!Row -> X] /\ OneStage!swap(s, a0, b0)[a0] = s[b0]
        /\ OneStage!swap(s, a0, b0)[b0] = s[a0]
      /\ \A i \in OneStage!Row : i # a0 /\ i # b0 => OneStage!swap(s, a0, b0)[i] = s[i]
  BY <1>1 DEF OneStage!swap
<1>. QED BY <1>2 DEF X, Slabs

\* One row is a multiple of what it was, and the others are what they were.
LEMMA ScaleIs ==
  ASSUME NEW D, NEW s \in Slabs(D), NEW a0 \in OneStage!Row, NEW c \in OneStage!F
  PROVE  /\ OneStage!scale(s, a0, c) \in Slabs(D)
         /\ \A k \in D : OneStage!scale(s, a0, c)[a0][k] = OneStage!FTimes(c, s[a0][k])
         /\ OneStage!scale(s, a0, c)[a0] = OneStage!VTimes(c, s[a0])
         /\ \A i \in OneStage!Row : i # a0 => OneStage!scale(s, a0, c)[i] = s[i]
<1>. DEFINE X == [D -> OneStage!F]
<1>1. s \in [OneStage!Row -> X] /\ s[a0] \in [D -> OneStage!F]  BY DEF Slabs
<1>2. OneStage!VTimes(c, s[a0]) = [k \in D |-> OneStage!FTimes(c, s[a0][k])]
  BY <1>1 DEF OneStage!VTimes
<1>3. \A k \in D : s[a0][k] \in OneStage!F  BY <1>1
<1>4. \A k \in D : OneStage!FTimes(c, s[a0][k]) \in OneStage!F  BY <1>3, FourTypes
<1>5. OneStage!VTimes(c, s[a0]) \in X  BY <1>2, <1>4
<1>. HIDE DEF X
<1>6. OneStage!scale(s, a0, c) \in [OneStage!Row -> X]
        /\ OneStage!scale(s, a0, c)[a0] = OneStage!VTimes(c, s[a0])
      /\ \A i \in OneStage!Row : i # a0 => OneStage!scale(s, a0, c)[i] = s[i]
  BY <1>1, <1>5 DEF OneStage!scale
<1>. QED BY <1>2, <1>6 DEF X, Slabs

\* The rows of a batch are sums, and the others are what they were.
LEMMA FusedIs ==
  ASSUME NEW D, NEW s \in Slabs(D), NEW a0 \in OneStage!Row, NEW E, E \subseteq OneStage!Row,
           NEW f \in [E -> OneStage!F]
  PROVE  /\ OneStage!fused_add_batch(s, a0, f) \in Slabs(D)
         /\ \A i \in OneStage!Row :
              OneStage!fused_add_batch(s, a0, f)[i]
                  = IF i \in E THEN Mixture(s[i], f[i], s[a0]) ELSE s[i]
         /\ \A i \in OneStage!Row, k \in D :
              OneStage!fused_add_batch(s, a0, f)[i][k]
                = IF i \in E THEN OneStage!FPlus(s[i][k],
                    OneStage!FTimes(f[i], s[a0][k])) ELSE s[i][k]
<1>. DEFINE g == OneStage!fused_add_batch(s, a0, f)
            G(i) == IF i \in E THEN Mixture(s[i], f[i], s[a0]) ELSE s[i]
<1>1. s \in [OneStage!Row -> [D -> OneStage!F]] /\ DOMAIN f = E  BY DEF Slabs
<1>2. \A i \in OneStage!Row : s[i] \in [D -> OneStage!F]  BY <1>1
<1>3. g = [i \in OneStage!Row |-> G(i)]
  <2>1. DOMAIN s = OneStage!Row  BY <1>1
  <2>2. g = [i \in DOMAIN s |-> IF i
          \in DOMAIN f THEN OneStage!VPlus(s[i], OneStage!VTimes(f[i], s[a0])) ELSE s[i]]
    BY DEF OneStage!fused_add_batch
  <2>. QED BY <1>1, <2>1, <2>2 DEF Mixture
<1>4. ASSUME NEW i \in OneStage!Row PROVE G(i) \in [D -> OneStage!F]
  <2>1. PICK p \in [D -> OneStage!F], q \in [D -> OneStage!F] : p = s[i] /\ q = s[a0]  BY <1>2
  <2>2. CASE i \in E
    <3>1. PICK c \in OneStage!F : c = f[i]  BY <2>2
    <3>2. Mixture(p, c, q) \in [D -> OneStage!F]  BY MixtureType
    <3>. QED BY <2>1, <2>2, <3>1, <3>2
  <2>3. CASE i \notin E  BY <1>2, <2>3
  <2>. QED BY <2>2, <2>3
<1>5. ASSUME NEW i \in OneStage!Row, NEW k \in D
      PROVE  G(i)[k] = IF i \in E THEN OneStage!FPlus(s[i][k],
               OneStage!FTimes(f[i], s[a0][k])) ELSE s[i][k]
  <2>1. PICK p \in [D -> OneStage!F], q \in [D -> OneStage!F] : p = s[i] /\ q = s[a0]  BY <1>2
  <2>2. CASE i \in E
    <3>1. PICK c \in OneStage!F : c = f[i]  BY <2>2
    <3>2. \A e \in D : Mixture(p, c, q)[e] = OneStage!FPlus(p[e], OneStage!FTimes(c, q[e]))
      BY MixtureAt
    <3>. QED BY <2>1, <2>2, <3>1, <3>2
  <2>3. CASE i \notin E  BY <2>3
  <2>. QED BY <2>2, <2>3
<1>. HIDE DEF G, g
<1>6. \A i \in OneStage!Row : g[i] = G(i)  BY <1>3
<1>7. g \in Slabs(D)  BY <1>3, <1>4 DEF Slabs
<1>8. \A i \in OneStage!Row : g[i] = IF i \in E THEN Mixture(s[i], f[i], s[a0]) ELSE s[i]
  BY <1>6 DEF G
<1>9. \A i \in OneStage!Row, k \in D :
        g[i][k] = IF i \in E THEN OneStage!FPlus(s[i][k],
            OneStage!FTimes(f[i], s[a0][k])) ELSE s[i][k]
  BY <1>5, <1>6
<1>. QED BY <1>7, <1>8, <1>9 DEF g

\* The same of one row.
LEMMA FusedRow ==
  ASSUME NEW D, NEW s \in Slabs(D), NEW a0 \in OneStage!Row, NEW E, E \subseteq OneStage!Row,
           NEW f \in [E -> OneStage!F], NEW i \in OneStage!Row
  PROVE  OneStage!fused_add_batch(s, a0, f)[i]
           = IF i \in E THEN Mixture(s[i], f[i], s[a0]) ELSE s[i]
BY FusedIs

\* The same of one entry.
LEMMA FusedAt ==
  ASSUME NEW D, NEW s \in Slabs(D), NEW a0 \in OneStage!Row, NEW E, E \subseteq OneStage!Row,
           NEW f \in [E -> OneStage!F],
         NEW i \in OneStage!Row, NEW k \in D
  PROVE  OneStage!fused_add_batch(s, a0, f)[i][k]
           = IF i \in E THEN OneStage!FPlus(s[i][k],
               OneStage!FTimes(f[i], s[a0][k])) ELSE s[i][k]
BY FusedIs

\* The symbols hold the coefficients of the rows.
Follows(s, A) == \A i \in OneStage!Row, j \in 0 .. shape.n - 1 : s[i][j] = A[i][j]

\* The operations reach rows and symbols alike.
LEMMA SwapFollows ==
  ASSUME NEW s \in Slabs(0 .. shape.n), NEW A \in Slabs(0 .. shape.n - 1), Follows(s, A),
         NEW a0 \in OneStage!Row, NEW b0 \in OneStage!Row
  PROVE  Follows(OneStage!swap(s, a0, b0), OneStage!swap(A, a0, b0))
<1>1. /\ OneStage!swap(s, a0, b0)[a0] = s[b0] /\ OneStage!swap(s, a0, b0)[b0] = s[a0]
      /\ \A i \in OneStage!Row : i # a0 /\ i # b0 => OneStage!swap(s, a0, b0)[i] = s[i]
  BY SwapIs
<1>2. /\ OneStage!swap(A, a0, b0)[a0] = A[b0] /\ OneStage!swap(A, a0, b0)[b0] = A[a0]
      /\ \A i \in OneStage!Row : i # a0 /\ i # b0 => OneStage!swap(A, a0, b0)[i] = A[i]
  BY SwapIs
<1>3. ASSUME NEW i \in OneStage!Row, NEW j \in 0 .. shape.n - 1
      PROVE  OneStage!swap(s, a0, b0)[i][j] = OneStage!swap(A, a0, b0)[i][j]
  <2>1. CASE i = a0  BY <1>1, <1>2, <2>1 DEF Follows
  <2>2. CASE i # a0 /\ i = b0  BY <1>1, <1>2, <2>2 DEF Follows
  <2>3. CASE i # a0 /\ i # b0  BY <1>1, <1>2, <2>3 DEF Follows
  <2>. QED BY <2>1, <2>2, <2>3
<1>. QED BY <1>3 DEF Follows

\* Scaling reaches rows and symbols alike.
LEMMA ScaleFollows ==
  ASSUME shape.n \in Nat \ {0},
         NEW s \in Slabs(0 .. shape.n), NEW A \in Slabs(0 .. shape.n - 1), Follows(s, A),
         NEW a0 \in OneStage!Row, NEW c \in OneStage!F
  PROVE  Follows(OneStage!scale(s, a0, c), OneStage!scale(A, a0, c))
<1>1. /\ \A k \in 0 .. shape.n : OneStage!scale(s, a0, c)[a0][k] = OneStage!FTimes(c, s[a0][k])
      /\ \A i \in OneStage!Row : i # a0 => OneStage!scale(s, a0, c)[i] = s[i]
  BY ScaleIs
<1>2. /\ \A k \in 0 .. shape.n - 1 : OneStage!scale(A, a0, c)[a0][k] = OneStage!FTimes(c, A[a0][k])
      /\ \A i \in OneStage!Row : i # a0 => OneStage!scale(A, a0, c)[i] = A[i]
  BY ScaleIs
<1>3. ASSUME NEW i \in OneStage!Row, NEW j \in 0 .. shape.n - 1
      PROVE  OneStage!scale(s, a0, c)[i][j] = OneStage!scale(A, a0, c)[i][j]
  <2>1. j \in 0 .. shape.n /\ s[i][j] = A[i][j]  BY DEF Follows
  <2>2. CASE i = a0  BY <1>1, <1>2, <2>1, <2>2
  <2>3. CASE i # a0  BY <1>1, <1>2, <2>1, <2>3
  <2>. QED BY <2>2, <2>3
<1>. QED BY <1>3 DEF Follows

\* So does adding.
LEMMA FusedFollows ==
  ASSUME shape.n \in Nat \ {0},
         NEW s \in Slabs(0 .. shape.n), NEW A \in Slabs(0 .. shape.n - 1), Follows(s, A),
         NEW a0 \in OneStage!Row, NEW E, E \subseteq OneStage!Row, NEW f \in [E -> OneStage!F]
  PROVE  Follows(OneStage!fused_add_batch(s, a0, f), OneStage!fused_add_batch(A, a0, f))
<1>. DEFINE D == 0 .. shape.n
            I == 0 .. shape.n - 1
            s1 == OneStage!fused_add_batch(s, a0, f)
            A1 == OneStage!fused_add_batch(A, a0, f)
<1>1. \A i \in OneStage!Row, k \in D : s1[i][k]
        = IF i \in E THEN OneStage!FPlus(s[i][k], OneStage!FTimes(f[i], s[a0][k])) ELSE s[i][k]
  <2>. HIDE DEF D
  <2>1. s \in Slabs(D)  BY DEF D
  <2>. QED BY <2>1, FusedIs
<1>2. \A i \in OneStage!Row, k \in I : A1[i][k]
        = IF i \in E THEN OneStage!FPlus(A[i][k], OneStage!FTimes(f[i], A[a0][k])) ELSE A[i][k]
  <2>. HIDE DEF I
  <2>1. A \in Slabs(I)  BY DEF I
  <2>. QED BY <2>1, FusedIs
<1>. HIDE DEF s1, A1
<1>3. ASSUME NEW i \in OneStage!Row, NEW j \in I PROVE s1[i][j] = A1[i][j]
  <2>1. j \in D /\ s[i][j] = A[i][j] /\ s[a0][j] = A[a0][j]  BY DEF Follows
  <2>. QED BY <1>1, <1>2, <2>1
<1>. QED BY <1>3 DEF Follows, s1, A1

-----------------------------------------------------------------------------
(* What solves the system.                                                 *)

\* v gives the component d of every symbol.
Fulfils(A, s, d, v) == \A i \in OneStage!Row : OneStage!Dot(A[i], v) = s[i][d]

\* What solved rows and symbols solves them once two are swapped.
LEMMA SwapSolves ==
  ASSUME NEW D, NEW s \in Slabs(D), NEW A \in Slabs(0 .. shape.n - 1), NEW d \in D,
           NEW v \in Vec,
         NEW a0 \in OneStage!Row, NEW b0 \in OneStage!Row
  PROVE  Fulfils(OneStage!swap(A, a0, b0), OneStage!swap(s, a0, b0), d, v) <=> Fulfils(A, s, d, v)
<1>1. /\ OneStage!swap(s, a0, b0)[a0] = s[b0] /\ OneStage!swap(s, a0, b0)[b0] = s[a0]
      /\ \A i \in OneStage!Row : i # a0 /\ i # b0 => OneStage!swap(s, a0, b0)[i] = s[i]
  BY SwapIs
<1>2. /\ OneStage!swap(A, a0, b0)[a0] = A[b0] /\ OneStage!swap(A, a0, b0)[b0] = A[a0]
      /\ \A i \in OneStage!Row : i # a0 /\ i # b0 => OneStage!swap(A, a0, b0)[i] = A[i]
  BY SwapIs
<1>. DEFINE A1 == OneStage!swap(A, a0, b0)
            s1 == OneStage!swap(s, a0, b0)
            Ok(i) == OneStage!Dot(A[i], v) = s[i][d]
            Ok1(i) == OneStage!Dot(A1[i], v) = s1[i][d]
<1>3. Ok1(a0) = Ok(b0) /\ Ok1(b0) = Ok(a0)  BY <1>1, <1>2
<1>4. \A i \in OneStage!Row : i # a0 /\ i # b0 => Ok1(i) = Ok(i)  BY <1>1, <1>2
<1>. HIDE DEF Ok, Ok1
<1>5. (\A i \in OneStage!Row : Ok1(i)) <=> (\A i \in OneStage!Row : Ok(i))  BY <1>3, <1>4
<1>. QED BY <1>5 DEF Ok, Ok1, Fulfils

\* The same once one of them is scaled by what is not zero.
LEMMA ScaleSolves ==
  ASSUME shape.n \in Nat \ {0},
         NEW D, NEW s \in Slabs(D), NEW A \in Slabs(0 .. shape.n - 1), NEW d \in D,
         NEW v \in Vec,
         NEW a0 \in OneStage!Row, NEW c \in OneStage!F, c # OneStage!Zero
  PROVE  Fulfils(OneStage!scale(A, a0, c), OneStage!scale(s, a0, c), d, v) <=> Fulfils(A, s, d, v)
<1>. DEFINE A1 == OneStage!scale(A, a0, c)
            s1 == OneStage!scale(s, a0, c)
            Ok(i) == OneStage!Dot(A[i], v) = s[i][d]
            Ok1(i) == OneStage!Dot(A1[i], v) = s1[i][d]
<1>1. s1[a0][d] = OneStage!FTimes(c, s[a0][d]) /\ \A i \in OneStage!Row : i # a0 => s1[i] = s[i]
  BY ScaleIs
<1>2. A1[a0] = OneStage!VTimes(c, A[a0]) /\ \A i \in OneStage!Row : i # a0 => A1[i] = A[i]
  BY ScaleIs
<1>3. A[a0] \in Vec /\ s[a0][d] \in OneStage!F  BY DEF Slabs, Vec
<1>. HIDE DEF A1, s1
<1>4. OneStage!Dot(A1[a0], v) = OneStage!FTimes(c, OneStage!Dot(A[a0], v))
        /\ OneStage!Dot(A[a0], v) \in OneStage!F
  <2>1. PICK r \in Vec : r = A[a0]  BY <1>3
  <2>2. OneStage!Dot(OneStage!VTimes(c, r), v) = OneStage!FTimes(c, OneStage!Dot(r, v))
          /\ OneStage!Dot(r, v) \in OneStage!F
    BY DotScaled, DotType
  <2>. QED BY <1>2, <2>1, <2>2
<1>5. Ok1(a0) = Ok(a0)
  <2>1. PICK p \in OneStage!F, q \in OneStage!F : p = OneStage!Dot(A[a0], v) /\ q = s[a0][d]
    BY <1>3, <1>4
  <2>2. PICK e \in OneStage!F : OneStage!FTimes(e, c) = OneStage!One  BY FourInverse
  <2>3. OneStage!FTimes(e, OneStage!FTimes(c, p)) = p
          /\ OneStage!FTimes(e, OneStage!FTimes(c, q)) = q
    <3>1. OneStage!FTimes(e, OneStage!FTimes(c, p)) = OneStage!FTimes(OneStage!FTimes(e, c), p)
          /\ OneStage!FTimes(e, OneStage!FTimes(c, q))
             = OneStage!FTimes(OneStage!FTimes(e, c), q)
      BY FourThree
    <3>2. OneStage!FTimes(OneStage!One, p) = p /\ OneStage!FTimes(OneStage!One, q) = q
      BY FourNothing
    <3>. QED BY <2>2, <3>1, <3>2
  <2>4. (OneStage!FTimes(c, p) = OneStage!FTimes(c, q)) <=> (p = q)  BY ONLY <2>3
  <2>. QED BY <1>1, <1>4, <2>1, <2>4
<1>6. \A i \in OneStage!Row : i # a0 => Ok1(i) = Ok(i)  BY <1>1, <1>2
<1>. HIDE DEF Ok, Ok1
<1>7. (\A i \in OneStage!Row : Ok1(i)) <=> (\A i \in OneStage!Row : Ok(i))  BY <1>5, <1>6
<1>. QED BY <1>7 DEF Ok, Ok1, Fulfils, A1, s1

\* The same once a row is added to rows that it is not among.
LEMMA FusedSolves ==
  ASSUME shape.n \in Nat \ {0},
         NEW D, NEW s \in Slabs(D), NEW A \in Slabs(0 .. shape.n - 1), NEW d \in D,
         NEW v \in Vec,
         NEW a0 \in OneStage!Row, NEW E, E \subseteq OneStage!Row, a0 \notin E,
         NEW f \in [E -> OneStage!F]
  PROVE  Fulfils(OneStage!fused_add_batch(A, a0, f), OneStage!fused_add_batch(s, a0, f), d, v)
           <=> Fulfils(A, s, d, v)
<1>. DEFINE I == 0 .. shape.n - 1
            A1 == OneStage!fused_add_batch(A, a0, f)
            s1 == OneStage!fused_add_batch(s, a0, f)
            Ok(i) == OneStage!Dot(A[i], v) = s[i][d]
            Ok1(i) == OneStage!Dot(A1[i], v) = s1[i][d]
<1>1. \A i \in OneStage!Row : s1[i][d]
        = IF i \in E THEN OneStage!FPlus(s[i][d], OneStage!FTimes(f[i], s[a0][d])) ELSE s[i][d]
  <2>1. a0 \in OneStage!Row /\ E \subseteq OneStage!Row /\ f \in [E -> OneStage!F]
          /\ s \in Slabs(D) /\ d \in D  OBVIOUS
  <2>2. ASSUME NEW i \in OneStage!Row
        PROVE  OneStage!fused_add_batch(s, a0, f)[i][d]
                 = IF i \in E THEN OneStage!FPlus(s[i][d],
                     OneStage!FTimes(f[i], s[a0][d])) ELSE s[i][d]
    BY ONLY <2>1, FusedAt
  <2>. QED BY <2>2
<1>2. \A i \in OneStage!Row : A1[i] = IF i \in E THEN Mixture(A[i], f[i], A[a0]) ELSE A[i]
  <2>. HIDE DEF I
  <2>1. A \in Slabs(I)  BY DEF I
  <2>. QED BY <2>1, FusedIs
<1>3. \A i \in OneStage!Row : A[i] \in Vec /\ s[i][d] \in OneStage!F  BY DEF Slabs, Vec
<1>. HIDE DEF A1, s1
<1>4. ASSUME NEW i \in OneStage!Row, Ok(a0) PROVE Ok1(i) = Ok(i)
  <2>1. CASE i \in E
    <3>1. PICK p \in Vec, q \in Vec, c \in OneStage!F : p = A[i] /\ q = A[a0] /\ c = f[i]
      BY <1>3, <2>1
    <3>2. OneStage!Dot(Mixture(p, c, q), v)
            = OneStage!FPlus(OneStage!Dot(p, v), OneStage!FTimes(c, OneStage!Dot(q, v)))
      BY DotAdds
    <3>3. PICK x0 \in OneStage!F, h \in OneStage!F, b0 \in OneStage!F : x0 = OneStage!Dot(p, v)
            /\ h = s[i][d] /\ b0 = OneStage!FTimes(c, s[a0][d])
      BY <1>3, DotType, FourTypes
    <3>4. OneStage!Dot(A1[i], v) = OneStage!FPlus(x0, b0)  BY <1>2, <1>4, <2>1, <3>1, <3>2, <3>3
    <3>5. s1[i][d] = OneStage!FPlus(h, b0)  BY <1>1, <2>1, <3>1, <3>3
    <3>6. OneStage!FPlus(OneStage!FPlus(x0, b0), b0) = x0
            /\ OneStage!FPlus(OneStage!FPlus(h, b0), b0) = h
      BY FourThree
    <3>7. (OneStage!FPlus(x0, b0) = OneStage!FPlus(h, b0)) <=> (x0 = h)  BY ONLY <3>6
    <3>. QED BY <3>1, <3>3, <3>4, <3>5, <3>7
  <2>2. CASE i \notin E  BY <1>1, <1>2, <2>2
  <2>. QED BY <2>1, <2>2
<1>5. Ok1(a0) = Ok(a0)  BY <1>1, <1>2
<1>. HIDE DEF Ok, Ok1
<1>6. (\A i \in OneStage!Row : Ok1(i)) <=> (\A i \in OneStage!Row : Ok(i))  BY <1>4, <1>5
<1>. QED BY <1>6 DEF Ok, Ok1, Fulfils, A1, s1

Bank == Slabs(0 .. shape.n)

\* Operations o make z of s, by way of f.
Applied(o, s, f) ==
  /\ f \in [0 .. Len(o) -> Bank] /\ f[0] = s
  /\ \A k \in 1 .. Len(o) : f[k] = OneStage!perform_op(f[k - 1], o[k])
Reaches(o, s, z) == (\E X : o \in Seq(X)) /\ \E f : Applied(o, s, f) /\ f[Len(o)] = z

\* No operations make nothing else of it.
LEMMA ReachesStart ==
  ASSUME NEW s \in Bank
  PROVE  Reaches(<<>>, s, s)
<1>. DEFINE f == [k \in 0 .. 0 |-> s]
<1>1. <<>> \in Seq({}) /\ Len(<<>>) = 0  OBVIOUS
<1>2. f \in [0 .. 0 -> Bank] /\ f[0] = s  OBVIOUS
<1>. HIDE DEF f
<1>3. Applied(<<>>, s, f)  BY <1>1, <1>2 DEF Applied
<1>. QED BY <1>1, <1>2, <1>3 DEF Reaches

\* One operation more.
LEMMA ReachesNext ==
  ASSUME NEW o, NEW s, NEW z, Reaches(o, s, z), NEW e, OneStage!perform_op(z, e) \in Bank
  PROVE  Reaches(o \o <<e>>, s, OneStage!perform_op(z, e))
<1>. DEFINE m == Len(o)
            p == o \o <<e>>
            h == OneStage!perform_op(z, e)
<1>1. PICK X : o \in Seq(X)  BY DEF Reaches
<1>2. PICK f : Applied(o, s, f) /\ f[m] = z  BY DEF Reaches
<1>3. m \in Nat /\ Len(p) = m + 1 /\ p[m + 1] = e /\ \A k \in 1 .. m : p[k] = o[k]
  <2>1. o \in Seq(X \cup {e}) /\ <<e>> \in Seq(X \cup {e})  BY <1>1
  <2>. QED BY <2>1
<1>4. p \in Seq(X \cup {e})
  <2>1. o \in Seq(X \cup {e}) /\ <<e>> \in Seq(X \cup {e})  BY <1>1
  <2>. QED BY <2>1
<1>. HIDE DEF p, m, h
<1>. DEFINE g == [k \in 0 .. m + 1 |-> IF k = m + 1 THEN h ELSE f[k]]
<1>5. \A k \in 0 .. m : f[k] \in Bank  BY <1>2 DEF Applied, m
<1>6. g[m + 1] = h /\ \A k \in 0 .. m : g[k] = f[k]  BY <1>3
<1>7. g \in [0 .. m + 1 -> Bank]
  <2>1. h \in Bank  BY DEF h
  <2>2. \A k \in 0 .. m + 1 : k # m + 1 => k \in 0 .. m  BY <1>3
  <2>. QED BY <1>5, <2>1, <2>2
<1>. HIDE DEF g
<1>8. g[0] = s  BY <1>2, <1>3, <1>6 DEF Applied
<1>9. ASSUME NEW k \in 1 .. m + 1 PROVE g[k] = OneStage!perform_op(g[k - 1], p[k])
  <2>1. CASE k = m + 1
    <3>1. k - 1 = m /\ m \in 0 .. m  BY <1>3, <2>1
    <3>2. g[k - 1] = z  BY <1>2, <1>6, <3>1
    <3>. QED BY <1>3, <1>6, <2>1, <3>2 DEF h
  <2>2. CASE k # m + 1
    <3>1. k \in 1 .. m /\ k \in 0 .. m /\ k - 1 \in 0 .. m  BY <1>3, <2>2
    <3>2. f[k] = OneStage!perform_op(f[k - 1], o[k])  BY <1>2, <3>1 DEF Applied, m
    <3>. QED BY <1>3, <1>6, <3>1, <3>2
  <2>. QED BY <2>1, <2>2
<1>10. Applied(p, s, g)  BY <1>3, <1>7, <1>8, <1>9 DEF Applied
<1>11. g[Len(p)] = h  BY <1>3, <1>6
<1>. QED BY <1>4, <1>10, <1>11 DEF Reaches, p, h

\* An operation that is left out would have changed nothing.
LEMMA ReachesSwap ==
  ASSUME NEW o, NEW s, NEW z \in Bank, Reaches(o, s, z), NEW a0 \in OneStage!Row,
           NEW b0 \in OneStage!Row
  PROVE  Reaches(o \o OneStage!SwapOps(a0, b0), s, OneStage!swap(z, a0, b0))
           /\ OneStage!swap(z, a0, b0) \in Bank
<1>1. OneStage!swap(z, a0, b0) \in Bank  BY SwapIs DEF Bank
<1>2. CASE a0 = b0
  <2>1. OneStage!SwapOps(a0, b0) = <<>>  BY <1>2 DEF OneStage!SwapOps
  <2>2. o \o <<>> = o  BY DEF Reaches
  <2>3. OneStage!swap(z, a0, b0) = z
    <3>1. \A i \in OneStage!Row : OneStage!swap(z, a0, b0)[i] = z[i]  BY <1>2, SwapIs DEF Bank
    <3>. QED BY <1>1, <3>1 DEF Bank, Slabs
  <2>. QED BY <1>1, <2>1, <2>2, <2>3
<1>3. CASE a0 # b0
  <2>. DEFINE e == [op |-> "Swap", a |-> a0, b |-> b0]
  <2>1. OneStage!SwapOps(a0, b0) = <<e>>  BY <1>3 DEF OneStage!SwapOps
  <2>2. OneStage!perform_op(z, e) = OneStage!swap(z, a0, b0)  BY DEF OneStage!perform_op
  <2>. HIDE DEF e
  <2>. QED BY <1>1, <2>1, <2>2, ReachesNext
<1>. QED BY <1>2, <1>3

\* A scaling that is recorded, or left out for a factor of one.
LEMMA ReachesScale ==
  ASSUME NEW o, NEW s, NEW z \in Bank, Reaches(o, s, z), NEW a0 \in OneStage!Row,
           NEW c \in OneStage!F
  PROVE  Reaches(o \o OneStage!ScaleOps(a0, c), s, OneStage!scale(z, a0, c))
           /\ OneStage!scale(z, a0, c) \in Bank
<1>1. OneStage!scale(z, a0, c) \in Bank  BY ScaleIs DEF Bank
<1>2. CASE c = OneStage!One
  <2>1. OneStage!ScaleOps(a0, c) = <<>>  BY <1>2 DEF OneStage!ScaleOps
  <2>2. o \o <<>> = o  BY DEF Reaches
  <2>3. OneStage!scale(z, a0, c) = z
    <3>. DEFINE D == 0 .. shape.n
    <3>1. z \in Slabs(D)  BY DEF Bank
    <3>. HIDE DEF D
    <3>2. OneStage!scale(z, a0, c)[a0] = OneStage!VTimes(c, z[a0]) /\ \A i \in OneStage!Row : i # a0
            => OneStage!scale(z, a0, c)[i] = z[i]
      BY <3>1, ScaleIs
    <3>3. z[a0] \in [D -> OneStage!F]  BY <3>1 DEF Slabs
    <3>4. OneStage!VTimes(c, z[a0]) = [k \in D |-> OneStage!FTimes(c, z[a0][k])]
      BY <3>3 DEF OneStage!VTimes
    <3>5. \A k \in D : OneStage!FTimes(c, z[a0][k]) = z[a0][k]  BY <1>2, <3>3, FourNothing
    <3>6. OneStage!VTimes(c, z[a0]) = z[a0]  BY <3>3, <3>4, <3>5
    <3>7. \A i \in OneStage!Row : OneStage!scale(z, a0, c)[i] = z[i]  BY <3>2, <3>6
    <3>. QED BY <1>1, <3>7 DEF Bank, Slabs
  <2>. QED BY <1>1, <2>1, <2>2, <2>3
<1>3. CASE c # OneStage!One
  <2>. DEFINE e == [op |-> "Scale", row |-> a0, scalar |-> c]
  <2>1. OneStage!ScaleOps(a0, c) = <<e>>  BY <1>3 DEF OneStage!ScaleOps
  <2>2. OneStage!perform_op(z, e) = OneStage!scale(z, a0, c)  BY DEF OneStage!perform_op
  <2>. HIDE DEF e
  <2>. QED BY <1>1, <2>1, <2>2, ReachesNext
<1>. QED BY <1>2, <1>3

\* An addition that is recorded, or left out for no destinations.
LEMMA ReachesFused ==
  ASSUME NEW o, NEW s, NEW z \in Bank, Reaches(o, s, z),
         NEW a0 \in OneStage!Row, NEW E, E \subseteq OneStage!Row, NEW f \in [E -> OneStage!F]
  PROVE  /\ Reaches(o \o OneStage!FusedAddOps(a0, f), s, OneStage!fused_add_batch(z, a0, f))
         /\ OneStage!fused_add_batch(z, a0, f) \in Bank
<1>0. OneStage!fused_add_batch(z, a0, f) \in Slabs(0 .. shape.n)
      /\ \A i \in OneStage!Row : OneStage!fused_add_batch(z, a0, f)[i]
         = IF i \in E THEN Mixture(z[i], f[i], z[a0]) ELSE z[i]
  <2>. DEFINE D == 0 .. shape.n
  <2>1. z \in Slabs(D)  BY DEF Bank
  <2>. HIDE DEF D
  <2>2. OneStage!fused_add_batch(z, a0, f) \in Slabs(D)
        /\ \A i \in OneStage!Row : OneStage!fused_add_batch(z, a0, f)[i]
           = IF i \in E THEN Mixture(z[i], f[i], z[a0]) ELSE z[i]
    BY <2>1, FusedIs
  <2>. QED BY <2>2 DEF D
<1>1. OneStage!fused_add_batch(z, a0, f) \in Bank  BY <1>0 DEF Bank
<1>4. DOMAIN f = E  OBVIOUS
<1>2. CASE E = {}
  <2>1. OneStage!FusedAddOps(a0, f) = <<>>  BY <1>2, <1>4 DEF OneStage!FusedAddOps
  <2>2. o \o <<>> = o  BY DEF Reaches
  <2>3. OneStage!fused_add_batch(z, a0, f) = z
    <3>1. \A i \in OneStage!Row : OneStage!fused_add_batch(z, a0, f)[i] = z[i]  BY <1>0, <1>2
    <3>. QED BY <1>1, <3>1 DEF Bank, Slabs
  <2>. QED BY <1>1, <2>1, <2>2, <2>3
<1>3. CASE E # {}
  <2>. DEFINE e == [op |-> "FusedAddBatch", src |-> a0, factors |-> f]
  <2>1. OneStage!FusedAddOps(a0, f) = <<e>>  BY <1>3, <1>4 DEF OneStage!FusedAddOps
  <2>2. OneStage!perform_op(z, e) = OneStage!fused_add_batch(z, a0, f)
    BY DEF OneStage!perform_op
  <2>. HIDE DEF e
  <2>. QED BY <1>1, <2>1, <2>2, ReachesNext
<1>. QED BY <1>2, <1>3

\* Replaying what was recorded.
LEMMA ReplayedIs ==
  ASSUME NEW s, NEW z, Reaches(ops, s, z)
  PROVE  OneStage!Replayed(s) = z
<1>. DEFINE m == Len(ops)
            Eqn(f) == f = [k \in 0 .. m |-> IF k
                = 0 THEN s ELSE OneStage!perform_op(f[k - 1], ops[k])]
            u == CHOOSE f : Eqn(f)
<1>0. OneStage!Replayed(s) = u[m]  BY DEF OneStage!Replayed
<1>1. m \in Nat  BY DEF Reaches
<1>2. PICK f : Applied(ops, s, f) /\ f[m] = z  BY DEF Reaches
<1>3. Eqn(f)
  <2>. DEFINE E(k) == IF k = 0 THEN s ELSE OneStage!perform_op(f[k - 1], ops[k])
  <2>1. f = [k \in 0 .. m |-> f[k]]  BY <1>2 DEF Applied
  <2>2. \A k \in 0 .. m : k # 0 => k \in 1 .. m  BY <1>1
  <2>3. \A k \in 0 .. m : f[k] = E(k)  BY <1>2, <2>2 DEF Applied
  <2>. HIDE DEF E, m
  <2>4. f = [k \in 0 .. m |-> E(k)]  BY <2>1, <2>3
  <2>. QED BY <2>4 DEF E
<1>4. Eqn(u)
  <2>. HIDE DEF Eqn
  <2>. QED BY <1>3
<1>. HIDE DEF u
<1>5. u[0] = s /\ \A k \in 1 .. m : u[k] = OneStage!perform_op(u[k - 1], ops[k])
  <2>. DEFINE E(k) == IF k = 0 THEN s ELSE OneStage!perform_op(u[k - 1], ops[k])
  <2>1. u = [k \in 0 .. m |-> E(k)]  BY <1>4
  <2>. HIDE DEF m
  <2>2. \A k \in 0 .. m : u[k] = E(k)
    <3>. HIDE DEF E
    <3>. QED BY <2>1
  <2>3. 0 \in 0 .. m /\ \A k \in 1 .. m : k # 0 /\ k \in 0 .. m  BY <1>1
  <2>. QED BY <2>2, <2>3
<1>. DEFINE T == {k \in 0 .. m : u[k] = f[k]}
<1>6. 0 \in T  BY <1>1, <1>2, <1>5 DEF Applied
<1>7. ASSUME NEW k \in 0 .. m - 1, k \in T PROVE k + 1 \in T
  <2>1. PICK e \in 1 .. m : e = k + 1  BY <1>1
  <2>2. e - 1 = k /\ u[k] = f[k] /\ e \in 0 .. m  BY <1>1, <1>7, <2>1
  <2>3. f[e] = OneStage!perform_op(f[e - 1], ops[e])  BY <1>2 DEF Applied
  <2>4. u[e] = f[e]  BY <1>5, <2>2, <2>3
  <2>. QED BY <2>1, <2>2, <2>4
<1>. HIDE DEF T, m
<1>8. \A k \in 0 .. m : k \in T  BY <1>1, <1>6, <1>7, UpTo
<1>9. m \in 0 .. m  BY <1>1
<1>. QED BY <1>0, <1>2, <1>8, <1>9 DEF T

\* What a column does to rows or symbols: a row is brought to its place,
\* scaled, and added to others.
Steps(s, p, at, c, f) == OneStage!fused_add_batch(OneStage!scale(OneStage!swap(s, p, at), at, c),
    at, f)
StepOps(p, at, c, f) == OneStage!SwapOps(p, at) \o OneStage!ScaleOps(at,
    c) \o OneStage!FusedAddOps(at, f)

Grid == Slabs(0 .. shape.n - 1)

\* The steps of a column keep the widths of rows and symbols.
LEMMA StepsType ==
  ASSUME NEW D, NEW s \in Slabs(D), NEW p \in OneStage!Row, NEW at \in OneStage!Row,
           NEW c \in OneStage!F,
         NEW E, E \subseteq OneStage!Row, NEW f \in [E -> OneStage!F]
  PROVE  /\ OneStage!swap(s, p, at) \in Slabs(D)
            /\ OneStage!scale(OneStage!swap(s, p, at), at, c) \in Slabs(D)
         /\ Steps(s, p, at, c, f) \in Slabs(D)
<1>1. PICK q : q = OneStage!swap(s, p, at) /\ q \in Slabs(D)  BY SwapIs
<1>2. PICK r : r = OneStage!scale(q, at, c) /\ r \in Slabs(D)  BY <1>1, ScaleIs
<1>3. OneStage!fused_add_batch(r, at, f) \in Slabs(D)  BY <1>2, FusedIs
<1>. QED BY <1>1, <1>2, <1>3 DEF Steps

\* The steps of a column reach rows and symbols alike.
LEMMA StepsFollow ==
  ASSUME shape.n \in Nat \ {0}, NEW s \in Bank, NEW A \in Grid, Follows(s, A),
         NEW p \in OneStage!Row, NEW at \in OneStage!Row, NEW c \in OneStage!F,
         NEW E, E \subseteq OneStage!Row, NEW f \in [E -> OneStage!F]
  PROVE  Follows(Steps(s, p, at, c, f), Steps(A, p, at, c, f))
<1>1. s \in Slabs(0 .. shape.n) /\ A \in Slabs(0 .. shape.n - 1)  BY DEF Bank, Grid
<1>2. PICK q, Q : /\ q = OneStage!swap(s, p, at) /\ q \in Slabs(0 .. shape.n)
                  /\ Q = OneStage!swap(A, p, at) /\ Q \in Slabs(0 .. shape.n - 1)
  BY <1>1, SwapIs
<1>3. Follows(q, Q)  BY <1>1, <1>2, SwapFollows
<1>4. PICK r, R : /\ r = OneStage!scale(q, at, c) /\ r \in Slabs(0 .. shape.n)
                  /\ R = OneStage!scale(Q, at, c) /\ R \in Slabs(0 .. shape.n - 1)
  BY <1>2, ScaleIs
<1>5. Follows(r, R)  BY <1>2, <1>3, <1>4, ScaleFollows
<1>6. Follows(OneStage!fused_add_batch(r, at, f), OneStage!fused_add_batch(R, at, f))
  BY <1>4, <1>5, FusedFollows
<1>. QED BY <1>2, <1>4, <1>6 DEF Steps

\* The steps of a column leave what solves rows and symbols as it was.
LEMMA StepsSolve ==
  ASSUME shape.n \in Nat \ {0},
         NEW D, NEW s \in Slabs(D), NEW A \in Grid, NEW d \in D, NEW v \in Vec,
         NEW p \in OneStage!Row, NEW at \in OneStage!Row, NEW c \in OneStage!F,
         c # OneStage!Zero,
         NEW E, E \subseteq OneStage!Row, at \notin E, NEW f \in [E -> OneStage!F]
  PROVE  Fulfils(Steps(A, p, at, c, f), Steps(s, p, at, c, f), d, v) <=> Fulfils(A, s, d, v)
<1>1. A \in Slabs(0 .. shape.n - 1)  BY DEF Grid
<1>2. PICK q, Q : /\ q = OneStage!swap(s, p, at) /\ q \in Slabs(D)
                  /\ Q = OneStage!swap(A, p, at) /\ Q \in Slabs(0 .. shape.n - 1)
  BY <1>1, SwapIs
<1>3. Fulfils(Q, q, d, v) <=> Fulfils(A, s, d, v)  BY <1>1, <1>2, SwapSolves
<1>4. PICK r, R : /\ r = OneStage!scale(q, at, c) /\ r \in Slabs(D)
                  /\ R = OneStage!scale(Q, at, c) /\ R \in Slabs(0 .. shape.n - 1)
  BY <1>2, ScaleIs
<1>5. Fulfils(R, r, d, v) <=> Fulfils(Q, q, d, v)  BY <1>2, <1>4, ScaleSolves
<1>6. Fulfils(OneStage!fused_add_batch(R, at, f), OneStage!fused_add_batch(r, at, f), d, v)
        <=> Fulfils(R, r, d, v)
  BY <1>4, FusedSolves
<1>. QED BY <1>2, <1>3, <1>4, <1>5, <1>6 DEF Steps

\* The rows take v to nothing.
Nulls(A, v) == \A i \in OneStage!Row : OneStage!Dot(A[i], v) = OneStage!Zero

\* Symbols that are all zero stay so.
AllZero(s) == s \in Slabs({0}) /\ \A i \in OneStage!Row : s[i][0] = OneStage!Zero

\* To solve symbols that are zero is to be taken to nothing.
LEMMA NullsSolve ==
  ASSUME NEW s, AllZero(s), NEW A, NEW v
  PROVE  Fulfils(A, s, 0, v) <=> Nulls(A, v)
BY DEF AllZero, Fulfils, Nulls

\* Adding zero symbols gives zero symbols.
LEMMA FusedZero ==
  ASSUME NEW s, AllZero(s), NEW at \in OneStage!Row, NEW E, E \subseteq OneStage!Row,
           NEW f \in [E -> OneStage!F]
  PROVE  AllZero(OneStage!fused_add_batch(s, at, f))
<1>1. PICK D : D = {0}  OBVIOUS
<1>2. s \in Slabs(D) /\ 0 \in D /\ \A i \in OneStage!Row : s[i][0] = OneStage!Zero
  BY <1>1 DEF AllZero
<1>3. OneStage!fused_add_batch(s, at, f) \in Slabs(D)  BY <1>2, FusedIs
<1>4. ASSUME NEW i \in OneStage!Row PROVE OneStage!fused_add_batch(s, at, f)[i][0]
        = OneStage!Zero
  <2>1. OneStage!fused_add_batch(s, at, f)[i][0]
          = IF i \in E THEN OneStage!FPlus(s[i][0],
              OneStage!FTimes(f[i], s[at][0])) ELSE s[i][0]
    BY <1>2, FusedAt
  <2>2. \A a0 \in OneStage!F : OneStage!FPlus(OneStage!Zero, OneStage!FTimes(a0, OneStage!Zero))
          = OneStage!Zero
    <3>1. \A a0 \in OneStage!F : OneStage!FTimes(a0, OneStage!Zero) = OneStage!Zero
      BY FourNothing
    <3>2. OneStage!FPlus(OneStage!Zero, OneStage!Zero) = OneStage!Zero
      BY FourNothing, FourTypes
    <3>. QED BY <3>1, <3>2
  <2>3. s[i][0] = OneStage!Zero /\ s[at][0] = OneStage!Zero /\ (i \in E => f[i] \in OneStage!F)
    BY <1>2
  <2>. QED BY <2>1, <2>2, <2>3
<1>. QED BY <1>1, <1>3, <1>4 DEF AllZero

\* So do the steps of a column.
LEMMA StepsZero ==
  ASSUME NEW s, AllZero(s), NEW p \in OneStage!Row, NEW at \in OneStage!Row,
           NEW c \in OneStage!F,
         NEW E, E \subseteq OneStage!Row, NEW f \in [E -> OneStage!F]
  PROVE  AllZero(Steps(s, p, at, c, f))
<1>1. PICK D : D = {0}  OBVIOUS
<1>2. s \in Slabs(D) /\ 0 \in D /\ \A i \in OneStage!Row : s[i][0] = OneStage!Zero
  BY <1>1 DEF AllZero
<1>3. PICK q : q = OneStage!swap(s, p, at)  OBVIOUS
<1>4. q \in Slabs(D) /\ \A i \in OneStage!Row : q[i][0] = OneStage!Zero
  <2>1. /\ OneStage!swap(s, p, at) \in Slabs(D) /\ OneStage!swap(s, p, at)[p] = s[at]
           /\ OneStage!swap(s, p, at)[at] = s[p]
        /\ \A i \in OneStage!Row : i # p /\ i # at => OneStage!swap(s, p, at)[i] = s[i]
    BY <1>2, SwapIs
  <2>. QED BY <1>2, <1>3, <2>1
<1>5. PICK r : r = OneStage!scale(q, at, c)  OBVIOUS
<1>6. r \in Slabs(D) /\ \A i \in OneStage!Row : r[i][0] = OneStage!Zero
  <2>1. /\ r \in Slabs(D) /\ \A k \in D : r[at][k] = OneStage!FTimes(c, q[at][k])
        /\ \A i \in OneStage!Row : i # at => r[i] = q[i]
    BY <1>4, <1>5, ScaleIs
  <2>2. OneStage!FTimes(c, OneStage!Zero) = OneStage!Zero  BY FourNothing
  <2>. QED BY <1>2, <1>4, <2>1, <2>2
<1>7. AllZero(r)  BY <1>1, <1>6 DEF AllZero
<1>. QED BY <1>3, <1>5, <1>7, FusedZero DEF Steps

\* There are such symbols.
LEMMA ZeroSlab ==
  \E s : AllZero(s)
<1>1. [i \in OneStage!Row |-> [k \in {0} |-> OneStage!Zero]] \in Slabs({0})
  BY FourTypes DEF Slabs
<1>. QED BY <1>1 DEF AllZero

\* The steps of a column leave what the rows take to nothing as it was.
LEMMA StepsNull ==
  ASSUME shape.n \in Nat \ {0}, NEW A \in Grid, NEW v \in Vec,
         NEW p \in OneStage!Row, NEW at \in OneStage!Row, NEW c \in OneStage!F,
         c # OneStage!Zero,
         NEW E, E \subseteq OneStage!Row, at \notin E, NEW f \in [E -> OneStage!F]
  PROVE  Nulls(Steps(A, p, at, c, f), v) <=> Nulls(A, v)
<1>1. PICK s : AllZero(s)  BY ZeroSlab
<1>2. s \in Slabs({0}) /\ 0 \in {0}  BY <1>1 DEF AllZero
<1>3. Fulfils(Steps(A, p, at, c, f), Steps(s, p, at, c, f), 0, v) <=> Fulfils(A, s, 0, v)
  BY <1>2, StepsSolve
<1>4. AllZero(Steps(s, p, at, c, f))  BY <1>1, StepsZero
<1>. QED BY <1>1, <1>3, <1>4, NullsSolve

\* So does adding a row to others.
LEMMA FusedNull ==
  ASSUME shape.n \in Nat \ {0}, NEW A \in Grid, NEW v \in Vec,
         NEW at \in OneStage!Row, NEW E, E \subseteq OneStage!Row, at \notin E,
         NEW f \in [E -> OneStage!F]
  PROVE  Nulls(OneStage!fused_add_batch(A, at, f), v) <=> Nulls(A, v)
<1>1. PICK s : AllZero(s)  BY ZeroSlab
<1>2. s \in Slabs({0}) /\ 0 \in {0} /\ A \in Slabs(0 .. shape.n - 1)  BY <1>1 DEF AllZero, Grid
<1>3. Fulfils(OneStage!fused_add_batch(A, at, f), OneStage!fused_add_batch(s, at, f), 0, v)
        <=> Fulfils(A, s, 0, v)
  BY <1>2, FusedSolves
<1>4. AllZero(OneStage!fused_add_batch(s, at, f))  BY <1>1, FusedZero
<1>. QED BY <1>1, <1>3, <1>4, NullsSolve

\* The operations of a column are recorded in their order.
LEMMA StepsReach ==
  ASSUME NEW o, NEW s, NEW z \in Bank, Reaches(o, s, z), NEW p \in OneStage!Row,
           NEW at \in OneStage!Row,
         NEW c \in OneStage!F, NEW E, E \subseteq OneStage!Row, NEW f \in [E -> OneStage!F]
  PROVE  /\ Reaches(o \o StepOps(p, at, c, f), s, Steps(z, p, at, c, f))
         /\ Steps(z, p, at, c, f) \in Bank
<1>1. PICK q, q1 : q = OneStage!swap(z, p, at) /\ q1 = o \o OneStage!SwapOps(p, at)  OBVIOUS
<1>2. Reaches(q1, s, q) /\ q \in Bank  BY <1>1, ReachesSwap
<1>3. PICK r, r1 : r = OneStage!scale(q, at, c) /\ r1 = q1 \o OneStage!ScaleOps(at, c)  OBVIOUS
<1>4. Reaches(r1, s, r) /\ r \in Bank  BY <1>2, <1>3, ReachesScale
<1>5. /\ Reaches(r1 \o OneStage!FusedAddOps(at, f), s, OneStage!fused_add_batch(r, at, f))
      /\ OneStage!fused_add_batch(r, at, f) \in Bank
  BY <1>4, ReachesFused
<1>6. r1 \o OneStage!FusedAddOps(at, f) = o \o StepOps(p, at, c, f)
  <2>1. PICK X : o \in Seq(X)  BY DEF Reaches
  <2>2. PICK Y : /\ o \in Seq(Y) /\ OneStage!SwapOps(p, at) \in Seq(Y)
                    /\ OneStage!ScaleOps(at, c) \in Seq(Y)
                 /\ OneStage!FusedAddOps(at, f) \in Seq(Y)
    <3>. DEFINE e1 == [op |-> "Swap", a |-> p, b |-> at]
                e2 == [op |-> "Scale", row |-> at, scalar |-> c]
                e3 == [op |-> "FusedAddBatch", src |-> at, factors |-> f]
                Y == X \cup {e1, e2, e3}
    <3>1. OneStage!SwapOps(p, at) \in {<<>>, <<e1>>}
            /\ OneStage!ScaleOps(at, c) \in {<<>>, <<e2>>}
          /\ OneStage!FusedAddOps(at, f) \in {<<>>, <<e3>>}
      BY DEF OneStage!SwapOps, OneStage!ScaleOps, OneStage!FusedAddOps
    <3>. HIDE DEF e1, e2, e3
    <3>2. o \in Seq(Y) /\ <<>> \in Seq(Y) /\ <<e1>> \in Seq(Y) /\ <<e2>> \in Seq(Y)
            /\ <<e3>> \in Seq(Y)
      BY <2>1
    <3>. QED BY <3>1, <3>2
  <2>3. PICK a0, b0, g : a0 = OneStage!SwapOps(p, at) /\ b0 = OneStage!ScaleOps(at, c)
          /\ g = OneStage!FusedAddOps(at, f)  OBVIOUS
  <2>4. a0 \in Seq(Y) /\ b0 \in Seq(Y) /\ g \in Seq(Y) /\ o \in Seq(Y)  BY <2>2, <2>3
  <2>5. a0 \o b0 \in Seq(Y)  BY <2>4, ConcatProperties
  <2>6. (o \o (a0 \o b0)) \o g = o \o ((a0 \o b0) \o g)  BY <2>4, <2>5, ConcatAssociative
  <2>7. (o \o a0) \o b0 = o \o (a0 \o b0)  BY <2>4, ConcatAssociative
  <2>8. StepOps(p, at, c, f) = (a0 \o b0) \o g  BY <2>3 DEF StepOps
  <2>. QED BY <1>1, <1>3, <2>3, <2>6, <2>7, <2>8
<1>. QED BY <1>1, <1>3, <1>5, <1>6 DEF Steps

Formals == [i \in OneStage!Row |-> OneStage!Formal(i)]

\* Symbols that hold something follow their rows, and are solved by what
\* solves the symbols received.
Carried(A, s) ==
  /\ s \in Bank
  /\ ~OneStage!symbols_are_zero =>
       /\ Follows(s, A)
       /\ \A d \in 0 .. shape.n, v \in Vec : Fulfils(A, s, d, v)
          <=> Fulfils(matrix, received, d, v)
  /\ OneStage!symbols_are_zero => s = received

\* The rows ask what the matrix asks.
Equivalent(A) == A \in Grid /\ \A v \in Vec : Nulls(A, v) <=> Nulls(matrix, v)

\* What was recorded brings symbols of the matrix to the rows.
Recorded(A, o) == kind \in OneStage!Recording => \E z \in Bank : Reaches(o, Formals, z)
    /\ Follows(z, A)

\* Rows A, symbols s and operations o are what elimination makes of the system.
Linear(A, s, o) == Carried(A, s) /\ Equivalent(A) /\ Recorded(A, o)

\* The steps of a column are made of the system.
LEMMA StepsLinear ==
  ASSUME shape.n \in Nat \ {0}, NEW A, NEW s, NEW o, Linear(A, s, o),
         NEW p \in OneStage!Row, NEW at \in OneStage!Row, NEW c \in OneStage!F,
         c # OneStage!Zero,
         NEW E, E \subseteq OneStage!Row, at \notin E, NEW f \in [E -> OneStage!F]
  PROVE  Linear(Steps(A, p, at, c, f),
                IF OneStage!symbols_are_zero THEN s ELSE Steps(s, p, at, c, f),
                IF kind \in OneStage!Recording THEN o \o StepOps(p, at, c, f) ELSE o)
<1>0. A \in Grid /\ s \in Bank  BY DEF Linear, Carried, Equivalent
<1>. DEFINE B == Steps(A, p, at, c, f)
            t == Steps(s, p, at, c, f)
<1>1. B \in Grid /\ t \in Bank  BY <1>0, StepsType DEF Grid, Bank
<1>. HIDE DEF B, t
<1>2. Equivalent(B)
  <2>1. ASSUME NEW v \in Vec PROVE Nulls(B, v) <=> Nulls(A, v)  BY <1>0, StepsNull DEF B
  <2>. QED BY <1>1, <2>1 DEF Linear, Equivalent
<1>3. Carried(B, IF OneStage!symbols_are_zero THEN s ELSE t)
  <2>1. CASE OneStage!symbols_are_zero  BY <2>1 DEF Linear, Carried
  <2>2. CASE ~OneStage!symbols_are_zero
    <3>1. Follows(t, B)  BY <1>0, <2>2, StepsFollow DEF B, t, Linear, Carried
    <3>2. ASSUME NEW d \in 0 .. shape.n, NEW v \in Vec PROVE Fulfils(B, t, d, v)
            <=> Fulfils(A, s, d, v)
      <4>1. s \in Slabs(0 .. shape.n)  BY <1>0 DEF Bank
      <4>. QED BY <1>0, <4>1, StepsSolve DEF B, t
    <3>. QED BY <1>1, <2>2, <3>1, <3>2 DEF Linear, Carried
  <2>. QED BY <2>1, <2>2
<1>4. Recorded(B, IF kind \in OneStage!Recording THEN o \o StepOps(p, at, c, f) ELSE o)
  <2>. SUFFICES ASSUME kind \in OneStage!Recording
                PROVE  \E z \in Bank : Reaches(o \o StepOps(p, at, c, f), Formals, z)
                         /\ Follows(z, B)
    BY DEF Recorded
  <2>1. PICK z \in Bank : Reaches(o, Formals, z) /\ Follows(z, A)  BY DEF Linear, Recorded
  <2>2. /\ Reaches(o \o StepOps(p, at, c, f), Formals, Steps(z, p, at, c, f))
        /\ Steps(z, p, at, c, f) \in Bank
    BY <2>1, StepsReach
  <2>3. Follows(Steps(z, p, at, c, f), B)  BY <1>0, <2>1, StepsFollow DEF B
  <2>. QED BY <2>2, <2>3
<1>. QED BY <1>2, <1>3, <1>4 DEF Linear, B, t

\* So is a column taken out in back substitution.
LEMMA FusedLinear ==
  ASSUME shape.n \in Nat \ {0}, NEW A, NEW s, NEW o, Linear(A, s, o),
           kind \in OneStage!Recording,
         NEW at \in OneStage!Row, NEW E, E \subseteq OneStage!Row, at \notin E,
         NEW f \in [E -> OneStage!F]
  PROVE  Linear(OneStage!fused_add_batch(A, at, f),
                IF OneStage!symbols_are_zero THEN s ELSE OneStage!fused_add_batch(s, at, f),
                o \o OneStage!FusedAddOps(at, f))
<1>0. A \in Grid /\ s \in Bank  BY DEF Linear, Carried, Equivalent
<1>. DEFINE B == OneStage!fused_add_batch(A, at, f)
            t == OneStage!fused_add_batch(s, at, f)
<1>1. B \in Grid /\ t \in Bank  BY <1>0, FusedIs DEF Grid, Bank
<1>. HIDE DEF B, t
<1>2. Equivalent(B)
  <2>1. ASSUME NEW v \in Vec PROVE Nulls(B, v) <=> Nulls(A, v)  BY <1>0, FusedNull DEF B
  <2>. QED BY <1>1, <2>1 DEF Linear, Equivalent
<1>3. Carried(B, IF OneStage!symbols_are_zero THEN s ELSE t)
  <2>1. CASE OneStage!symbols_are_zero  BY <2>1 DEF Linear, Carried
  <2>2. CASE ~OneStage!symbols_are_zero
    <3>0. A \in Slabs(0 .. shape.n - 1) /\ s \in Slabs(0 .. shape.n)  BY <1>0 DEF Bank, Grid
    <3>1. Follows(t, B)  BY <3>0, <2>2, FusedFollows DEF B, t, Linear, Carried
    <3>2. ASSUME NEW d \in 0 .. shape.n, NEW v \in Vec PROVE Fulfils(B, t, d, v)
            <=> Fulfils(A, s, d, v)
      BY <3>0, FusedSolves DEF B, t
    <3>. QED BY <1>1, <2>2, <3>1, <3>2 DEF Linear, Carried
  <2>. QED BY <2>1, <2>2
<1>4. Recorded(B, o \o OneStage!FusedAddOps(at, f))
  <2>. SUFFICES ASSUME kind \in OneStage!Recording
                PROVE  \E z \in Bank : Reaches(o \o OneStage!FusedAddOps(at, f), Formals, z)
                         /\ Follows(z, B)
    BY DEF Recorded
  <2>1. PICK z \in Bank : Reaches(o, Formals, z) /\ Follows(z, A)  BY DEF Linear, Recorded
  <2>2. /\ Reaches(o \o OneStage!FusedAddOps(at, f), Formals,
           OneStage!fused_add_batch(z, at, f))
        /\ OneStage!fused_add_batch(z, at, f) \in Bank
    BY <2>1, ReachesFused
  <2>3. z \in Slabs(0 .. shape.n) /\ A \in Slabs(0 .. shape.n - 1)  BY <1>0, <2>1 DEF Bank, Grid
  <2>4. Follows(OneStage!fused_add_batch(z, at, f), B)  BY <2>1, <2>3, FusedFollows DEF B
  <2>. QED BY <2>2, <2>4
<1>. QED BY <1>2, <1>3, <1>4 DEF Linear, B, t
-----------------------------------------------------------------------------
(* Steps that leave the system alone.                                      *)

\* A product depends on the number of columns only.
LEMMA DotSame ==
  ASSUME shape' = shape, NEW r, NEW v
  PROVE  OneStage!Dot(r, v)' = OneStage!Dot(r, v)
BY DEF OneStage!Dot

\* Whether a plan is recorded on zeros is a matter of the system.
LEMMA ZeroSame ==
  ASSUME OneStage!system' = OneStage!system
  PROVE  OneStage!symbols_are_zero' = OneStage!symbols_are_zero
BY DEF OneStage!system, OneStage!symbols_are_zero, OneStage!Row, OneStage!VZero

\* What symbols follow and are solved by is a matter of the system.
LEMMA CarriedSame ==
  ASSUME OneStage!system' = OneStage!system, NEW A, NEW s, Carried(A, s)
  PROVE  Carried(A, s)'
<1>1. shape' = shape /\ matrix' = matrix /\ received' = received  BY DEF OneStage!system
<1>2. OneStage!symbols_are_zero' = OneStage!symbols_are_zero  BY ZeroSame
<1>. QED BY <1>1, <1>2, DotSame DEF Carried, Bank, Slabs, OneStage!Row, Follows, Fulfils, Vec

\* So is what rows ask.
LEMMA EquivalentSame ==
  ASSUME OneStage!system' = OneStage!system, NEW A, Equivalent(A)
  PROVE  Equivalent(A)'
<1>1. shape' = shape /\ matrix' = matrix  BY DEF OneStage!system
<1>. QED BY <1>1, DotSame DEF Equivalent, Grid, Slabs, OneStage!Row, Nulls, Vec

\* So is where operations lead.
LEMMA ReachesSame ==
  ASSUME OneStage!system' = OneStage!system, NEW o, NEW s, NEW z, Reaches(o, s, z)
  PROVE  Reaches(o, s, z)'
<1>1. shape' = shape  BY DEF OneStage!system
<1>2. Bank' = Bank  BY <1>1 DEF Bank, Slabs, OneStage!Row
<1>3. ASSUME NEW u, NEW e PROVE OneStage!perform_op(u, e)' = OneStage!perform_op(u, e)

    BY DEF OneStage!perform_op, OneStage!swap, OneStage!scale, OneStage!fused_add_batch,
       OneStage!VPlus, OneStage!VTimes, OneStage!FPlus, OneStage!FTimes
<1>. QED BY <1>2, <1>3 DEF Reaches, Applied

\* So is what operations were recorded for.
LEMMA RecordedSame ==
  ASSUME OneStage!system' = OneStage!system, NEW A, NEW o, Recorded(A, o)
  PROVE  Recorded(A, o)'
<1>1. shape' = shape /\ matrix' = matrix /\ kind' = kind  BY DEF OneStage!system
<1>2. Bank' = Bank  BY <1>1 DEF Bank, Slabs, OneStage!Row
<1>3. Formals' = Formals  BY <1>1 DEF Formals, OneStage!Formal, OneStage!Symbol, OneStage!Row
<1>4. \A z : Reaches(o, Formals, z) => Reaches(o, Formals, z)'
  <2>1. PICK s : s = Formals  OBVIOUS
  <2>2. \A z : Reaches(o, s, z) => Reaches(o, s, z)'  BY ReachesSame
  <2>. QED BY <1>3, <2>1, <2>2
<1>5. \A z : Follows(z, A) => Follows(z, A)'  BY <1>1 DEF Follows, OneStage!Row
<1>. QED BY <1>1, <1>2, <1>4, <1>5 DEF Recorded

\* So is all of it.
LEMMA LinearSame ==
  ASSUME OneStage!system' = OneStage!system, NEW A, NEW s, NEW o, Linear(A, s, o)
  PROVE  Linear(A, s, o)'
BY CarriedSame, EquivalentSame, RecordedSame DEF Linear

\* Rows that are the pivots of none of the first columns.
Unpivoted(w, m) == {i \in OneStage!Row : \A j \in 0 .. m - 1 : w[j] # i}

\* The first m columns have pivots.
Staged(A, w, m) ==
  /\ w \in [0 .. shape.n - 1 -> OneStage!Row \cup {OneStage!NoPivot}]
  /\ \A j \in 0 .. m - 1 : w[j] \in OneStage!Row /\ StartsAt(A[w[j]], j)
  /\ \A j \in m .. shape.n - 1 : w[j] = OneStage!NoPivot
  /\ kind \in OneStage!Swapping => \A j \in 0 .. m - 1 : w[j] = j
  /\ \A i \in Unpivoted(w, m), k \in 0 .. m - 1 : A[i][k] = OneStage!Zero
  /\ kind = "record" => \A i \in OneStage!Row, k \in 0 .. m - 1 : i # k
     => A[i][k] = OneStage!Zero

\* The factors of a column.
Batch(S, cleared, m) == [i \in {i \in cleared : S[i][m] # OneStage!Zero} |-> S[i][m]]

\* Row p, with its first entry in column m, becomes row at, and is added to others.
ColumnStep(A, m, p, at, c, cleared, S, f, R) ==
  /\ A \in Grid /\ m \in 0 .. shape.n - 1 /\ p \in OneStage!Row /\ at \in OneStage!Row
  /\ c \in OneStage!F /\ OneStage!FTimes(c, A[p][m]) = OneStage!One
     /\ \A k \in 0 .. m - 1 : A[p][k] = OneStage!Zero
  /\ cleared \subseteq OneStage!Row \ {at}
  /\ S = OneStage!scale(OneStage!swap(A, p, at), at, c)
  /\ f = Batch(S, cleared, m)
  /\ R = OneStage!fused_add_batch(S, at, f)

\* What a column makes of its rows.
ColumnMade(A, m, p, at, c, cleared, S, R) ==
  /\ R \in Grid
  /\ StartsAt(R[at], m)
  /\ \A k \in 0 .. shape.n - 1 : R[at][k] = OneStage!FTimes(c, A[p][k])
  /\ \A i \in OneStage!Row : i # at => /\ S[i] = IF i = p THEN A[at] ELSE A[i]
                                       /\ \A k \in 0 .. m - 1 : R[i][k] = S[i][k]
                                       /\ i \in cleared => R[i][m] = OneStage!Zero
                                       /\ i \notin cleared => R[i] = S[i]

\* The steps of a column make it.
LEMMA ColumnRows ==
  ASSUME shape.n \in Nat \ {0}, NEW A, NEW m, NEW p, NEW at, NEW c, NEW cleared, NEW S, NEW f,
           NEW R,
         ColumnStep(A, m, p, at, c, cleared, S, f, R)
  PROVE  /\ f \in [{i \in cleared : S[i][m] # OneStage!Zero} -> OneStage!F]
         /\ ColumnMade(A, m, p, at, c, cleared, S, R)
<1>. DEFINE D == 0 .. shape.n - 1
            E == {i \in cleared : S[i][m] # OneStage!Zero}
            q == OneStage!swap(A, p, at)
<1>a. /\ A \in Grid /\ m \in 0 .. shape.n - 1 /\ p \in OneStage!Row /\ at \in OneStage!Row
      /\ c \in OneStage!F /\ OneStage!FTimes(c, A[p][m]) = OneStage!One
         /\ \A k \in 0 .. m - 1 : A[p][k] = OneStage!Zero
      /\ cleared \subseteq OneStage!Row \ {at}
      /\ S = OneStage!scale(OneStage!swap(A, p, at), at, c)
      /\ f = Batch(S, cleared, m)
      /\ R = OneStage!fused_add_batch(S, at, f)
  BY DEF ColumnStep
<1>0. A \in Slabs(D) /\ m \in D /\ \A k \in 0 .. m - 1 : k \in D  BY <1>a DEF Grid
<1>. HIDE DEF D
<1>1. /\ q \in Slabs(D) /\ q[p] = A[at] /\ q[at] = A[p]
      /\ \A i \in OneStage!Row : i # p /\ i # at => q[i] = A[i]
  BY <1>a, <1>0, SwapIs
<1>. HIDE DEF q
<1>2. /\ S \in Slabs(D) /\ \A k \in D : S[at][k] = OneStage!FTimes(c, q[at][k])
      /\ \A i \in OneStage!Row : i # at => S[i] = q[i]
  <2>1. /\ OneStage!scale(q, at, c) \in Slabs(D)
           /\ \A k \in D : OneStage!scale(q, at, c)[at][k] = OneStage!FTimes(c, q[at][k])
        /\ \A i \in OneStage!Row : i # at => OneStage!scale(q, at, c)[i] = q[i]
    BY <1>a, <1>1, ScaleIs
  <2>. QED BY <1>a, <2>1 DEF q
<1>3. E \subseteq OneStage!Row /\ at \notin E  BY <1>a
<1>4. f \in [E -> OneStage!F] /\ \A i \in E : f[i] = S[i][m]
  <2>1. \A i \in E : S[i][m] \in OneStage!F  BY <1>a, <1>0, <1>2, <1>3 DEF Slabs
  <2>2. f = [i \in E |-> S[i][m]]  BY <1>a DEF Batch
  <2>. HIDE DEF E
  <2>. QED BY <1>a, <2>1, <2>2
<1>. HIDE DEF E
<1>5. /\ R \in Slabs(D)
      /\ \A i \in OneStage!Row : R[i] = IF i \in E THEN Mixture(S[i], f[i], S[at]) ELSE S[i]
      /\ \A i \in OneStage!Row, k \in D : R[i][k]
         = IF i \in E THEN OneStage!FPlus(S[i][k], OneStage!FTimes(f[i], S[at][k])) ELSE S[i][k]
  <2>1. /\ OneStage!fused_add_batch(S, at, f) \in Slabs(D)
        /\ \A i \in OneStage!Row : OneStage!fused_add_batch(S, at, f)[i]
           = IF i \in E THEN Mixture(S[i], f[i], S[at]) ELSE S[i]
    <3>1. S \in Slabs(D) /\ at \in OneStage!Row /\ E \subseteq OneStage!Row
            /\ f \in [E -> OneStage!F]
      BY <1>a, <1>2, <1>3, <1>4
    <3>2. OneStage!fused_add_batch(S, at, f) \in Slabs(D)  BY ONLY <3>1, FusedIs
    <3>3. ASSUME NEW i \in OneStage!Row
          PROVE  OneStage!fused_add_batch(S, at, f)[i]
                   = IF i \in E THEN Mixture(S[i], f[i], S[at]) ELSE S[i]
      BY ONLY <3>1, <3>3, FusedRow
    <3>. QED BY <3>2, <3>3
  <2>2. ASSUME NEW i \in OneStage!Row, NEW k \in D
        PROVE  OneStage!fused_add_batch(S, at, f)[i][k]
                 = IF i \in E THEN OneStage!FPlus(S[i][k],
                     OneStage!FTimes(f[i], S[at][k])) ELSE S[i][k]
    <3>1. S \in Slabs(D) /\ at \in OneStage!Row /\ E \subseteq OneStage!Row
            /\ f \in [E -> OneStage!F]
      BY <1>a, <1>2, <1>3, <1>4
    <3>. QED BY ONLY <3>1, FusedAt
  <2>. QED BY <1>a, <2>1, <2>2
<1>6. R[at] = S[at] /\ \A k \in D : S[at][k] = OneStage!FTimes(c, A[p][k])
  BY <1>a, <1>1, <1>2, <1>3, <1>5
<1>7. S[at][m] = OneStage!One /\ \A k \in 0 .. m - 1 : S[at][k] = OneStage!Zero
  <2>1. OneStage!FTimes(c, OneStage!Zero) = OneStage!Zero  BY <1>a, FourNothing
  <2>. QED BY <1>a, <1>0, <1>6, <2>1
<1>8. StartsAt(R[at], m)
  <2>1. R[at] \in [D -> OneStage!F]  BY <1>a, <1>5 DEF Slabs
  <2>. QED BY <1>a, <1>6, <1>7, <2>1 DEF StartsAt, Vec, D
<1>9. ASSUME NEW i \in OneStage!Row, i # at
      PROVE  /\ S[i] = IF i = p THEN A[at] ELSE A[i]
             /\ \A k \in 0 .. m - 1 : R[i][k] = S[i][k]
             /\ i \in cleared => R[i][m] = OneStage!Zero
             /\ i \notin cleared => R[i] = S[i]
  <2>1. S[i] = IF i = p THEN A[at] ELSE A[i]  BY <1>a, <1>1, <1>2, <1>9
  <2>2. \A k \in D : S[i][k] \in OneStage!F  BY <1>a, <1>2 DEF Slabs
  <2>3. ASSUME NEW k \in 0 .. m - 1 PROVE R[i][k] = S[i][k]
    <3>1. k \in D /\ S[at][k] = OneStage!Zero /\ S[i][k] \in OneStage!F
      BY <1>a, <1>0, <1>7, <2>2
    <3>2. i \in E => OneStage!FPlus(S[i][k], OneStage!FTimes(f[i], OneStage!Zero)) = S[i][k]
      <4>1. i \in E => f[i] \in OneStage!F  BY <1>a, <1>4
      <4>2. i \in E => OneStage!FTimes(f[i], OneStage!Zero) = OneStage!Zero
        BY <1>a, <4>1, FourNothing
      <4>. QED BY <1>a, <3>1, <4>2, FourNothing
    <3>. QED BY <1>a, <1>5, <3>1, <3>2
  <2>4. ASSUME i \in cleared PROVE R[i][m] = OneStage!Zero
    <3>1. CASE i \in E
      <4>1. PICK a0 \in OneStage!F : a0 = S[i][m]  BY <1>a, <1>0, <2>2
      <4>2. R[i][m] = OneStage!FPlus(a0, OneStage!FTimes(a0, OneStage!One))
        BY <1>a, <1>0, <1>4, <1>5, <1>7, <3>1, <4>1
      <4>3. OneStage!FTimes(a0, OneStage!One) = a0 /\ OneStage!FPlus(a0, a0) = OneStage!Zero
        BY <1>a, FourNothing
      <4>. QED BY <1>a, <4>2, <4>3
    <3>2. CASE i \notin E  BY <1>a, <1>0, <1>5, <2>4, <3>2 DEF E
    <3>. QED BY <1>a, <3>1, <3>2
  <2>5. ASSUME i \notin cleared PROVE R[i] = S[i]  BY <1>a, <1>5, <2>5 DEF E
  <2>. QED BY <1>a, <2>1, <2>3, <2>4, <2>5
<1>. QED BY <1>a, <1>4, <1>5, <1>6, <1>8, <1>9 DEF Grid, D, E, ColumnMade

\* The next column has its pivot.
LEMMA ColumnPlaced ==
  ASSUME shape.n \in Nat \ {0}, shape.height \in Nat,
         NEW A, NEW m, NEW p, NEW at, NEW c, NEW cleared, NEW S, NEW f, NEW R,
         ColumnStep(A, m, p, at, c, cleared, S, f, R),
         NEW w, Staged(A, w, m), p \in Unpivoted(w, m), at \in Unpivoted(w, m),
         kind \in OneStage!Swapping => at = m,
         kind = "record" => cleared = OneStage!Row \ {at},
         \A i \in Unpivoted(w, m) : i # at /\ S[i][m] # OneStage!Zero => i \in cleared
  PROVE  Staged(R, [w EXCEPT ![m] = at], m + 1)
<1>. DEFINE x0 == [w EXCEPT ![m] = at]
            D == 0 .. shape.n - 1
<1>a. /\ A \in Grid /\ m \in 0 .. shape.n - 1 /\ c \in OneStage!F
         /\ cleared \subseteq OneStage!Row \ {at}
  BY DEF ColumnStep
<1>0. p \in OneStage!Row /\ at \in OneStage!Row /\ \A j \in 0 .. m - 1 : w[j] # p /\ w[j] # at
  BY DEF Unpivoted
<1>1. \A k \in 0 .. m - 1 : A[p][k] = OneStage!Zero /\ A[at][k] = OneStage!Zero  BY DEF Staged
<1>2. /\ R \in Grid
      /\ StartsAt(R[at], m)
      /\ \A k \in D : R[at][k] = OneStage!FTimes(c, A[p][k])
      /\ \A i \in OneStage!Row : i # at => /\ S[i] = IF i = p THEN A[at] ELSE A[i]
                                           /\ \A k \in 0 .. m - 1 : R[i][k] = S[i][k]
                                           /\ i \in cleared => R[i][m] = OneStage!Zero
                                           /\ i \notin cleared => R[i] = S[i]
  <2>1. ColumnMade(A, m, p, at, c, cleared, S, R)  BY ColumnRows
  <2>. QED BY <2>1 DEF ColumnMade
<1>3. /\ x0 \in [D -> OneStage!Row \cup {OneStage!NoPivot}] /\ x0[m] = at /\ \A j \in D : j # m
         => x0[j] = w[j]
  BY <1>a, <1>0 DEF Staged
<1>. HIDE DEF x0
<1>4. ASSUME NEW j \in 0 .. m PROVE x0[j] \in OneStage!Row /\ StartsAt(R[x0[j]], j)
  <2>1. CASE j = m  BY <1>a, <1>0, <1>2, <1>3, <2>1
  <2>2. CASE j # m
    <3>1. j \in 0 .. m - 1 /\ j \in D  BY <1>a, <2>2
    <3>2. PICK i \in OneStage!Row : i = x0[j] /\ i = w[j] /\ StartsAt(A[i], j)
      BY <1>a, <1>3, <2>2, <3>1 DEF Staged
    <3>3. i # at /\ i # p  BY <1>a, <1>0, <3>1, <3>2
    <3>4. \A k \in 0 .. m - 1 : R[i][k] = A[i][k]  BY <1>a, <1>2, <3>3
    <3>5. R[i] \in Vec  BY <1>a, <1>2 DEF Grid, Slabs, Vec
    <3>6. \A k \in 0 .. j - 1 : k \in 0 .. m - 1  BY <1>a, <3>1
    <3>. QED BY <1>a, <3>1, <3>2, <3>4, <3>5, <3>6 DEF StartsAt
  <2>. QED BY <1>a, <2>1, <2>2
<1>5. ASSUME NEW j \in m + 1 .. shape.n - 1 PROVE x0[j] = OneStage!NoPivot
  <2>1. j \in D /\ j # m /\ j \in m .. shape.n - 1  BY <1>a
  <2>. QED BY <1>a, <1>3, <2>1 DEF Staged
<1>6. ASSUME kind \in OneStage!Swapping, NEW j \in 0 .. m PROVE x0[j] = j
  <2>1. CASE j = m  BY <1>a, <1>3, <1>6, <2>1
  <2>2. CASE j # m
    <3>1. j \in 0 .. m - 1 /\ j \in D  BY <1>a, <2>2
    <3>. QED BY <1>a, <1>3, <1>6, <2>2, <3>1 DEF Staged
  <2>. QED BY <1>a, <2>1, <2>2
<1>7. ASSUME NEW i \in Unpivoted(x0, m + 1), NEW k \in 0 .. m PROVE R[i][k] = OneStage!Zero
  <2>1. i \in OneStage!Row /\ i # at /\ \A j \in 0 .. m - 1 : w[j] # i
    <3>0. (m + 1) - 1 = m /\ \A j \in 0 .. m : j \in D  BY <1>a
    <3>1. \A j \in 0 .. m : x0[j] # i /\ j \in D  BY <3>0 DEF Unpivoted
    <3>2. m \in 0 .. m /\ \A j \in 0 .. m - 1 : j \in 0 .. m /\ j # m  BY <1>a
    <3>. QED BY <1>a, <1>3, <3>1, <3>2 DEF Unpivoted
  <2>2. i \in Unpivoted(w, m)  BY <1>a, <2>1 DEF Unpivoted
  <2>3. CASE k = m
    <3>1. CASE i \in cleared  BY <1>a, <1>2, <2>1, <2>3, <3>1
    <3>2. CASE i \notin cleared  BY <1>a, <1>2, <2>1, <2>2, <2>3, <3>2
    <3>. QED BY <1>a, <3>1, <3>2
  <2>4. CASE k # m
    <3>1. k \in 0 .. m - 1  BY <1>a, <2>4
    <3>2. A[i][k] = OneStage!Zero  BY <1>a, <2>2, <3>1 DEF Staged
    <3>. QED BY <1>a, <1>1, <1>2, <2>1, <3>1, <3>2
  <2>. QED BY <1>a, <2>3, <2>4
<1>8. ASSUME kind = "record", NEW i \in OneStage!Row, NEW k \in 0 .. m,
        i # k PROVE R[i][k] = OneStage!Zero
  <2>1. at = m /\ kind \in OneStage!Swapping /\ cleared = OneStage!Row \ {at}
    BY <1>a, <1>8 DEF OneStage!Swapping, OneStage!Recording
  <2>2. CASE k = m  BY <1>a, <1>2, <1>8, <2>1, <2>2
  <2>3. CASE k # m
    <3>1. k \in 0 .. m - 1 /\ k \in D  BY <1>a, <2>3
    <3>2. \A e \in OneStage!Row : e # k => A[e][k] = OneStage!Zero
      BY <1>a, <1>8, <3>1 DEF Staged
    <3>3. CASE i = at
      <4>1. R[i][k] = OneStage!FTimes(c, OneStage!Zero)  BY <1>a, <1>1, <1>2, <3>1, <3>3
      <4>. QED BY <1>a, <4>1, FourNothing
    <3>4. CASE i # at  BY <1>a, <1>1, <1>2, <1>8, <3>1, <3>2, <3>4
    <3>. QED BY <1>a, <3>3, <3>4
  <2>. QED BY <1>a, <2>2, <2>3
<1>9. (m + 1) - 1 = m  BY <1>a
<1>. HIDE DEF D
<1>10. x0 \in [0 .. shape.n - 1 -> OneStage!Row \cup {OneStage!NoPivot}]  BY <1>a, <1>3 DEF D
<1>11. Staged(R, x0, m + 1)
  <2>. PICK e : e = m + 1  BY <1>a
  <2>1. e - 1 = m /\ e = m + 1  BY <1>a
  <2>2. \A j \in 0 .. e - 1 : x0[j] \in OneStage!Row /\ StartsAt(R[x0[j]], j)  BY ONLY <1>4, <2>1
  <2>3. \A j \in e .. shape.n - 1 : x0[j] = OneStage!NoPivot  BY ONLY <1>5, <2>1
  <2>4. kind \in OneStage!Swapping => \A j \in 0 .. e - 1 : x0[j] = j  BY ONLY <1>6, <2>1
  <2>5. \A i \in Unpivoted(x0, e), k \in 0 .. e - 1 : R[i][k] = OneStage!Zero  BY ONLY <1>7, <2>1
  <2>6. kind = "record" => \A i \in OneStage!Row, k \in 0 .. e - 1 : i # k
          => R[i][k] = OneStage!Zero
    BY ONLY <1>8, <2>1
  <2>7. Staged(R, x0, e)  BY ONLY <1>10, <2>2, <2>3, <2>4, <2>5, <2>6 DEF Staged
  <2>. QED BY <1>a, <2>1, <2>7
<1>. QED BY <1>a, <1>11 DEF x0

\* Pivots and operations are handed on to the next state.
LEMMA PlacedMoves ==
  ASSUME OneStage!system' = OneStage!system, NEW A, NEW w, NEW m, Staged(A, w, m), rows' = A,
           pivot_for_col' = w, col' = m
  PROVE  Staged(rows, pivot_for_col, col)'
<1>1. shape' = shape /\ kind' = kind  BY DEF OneStage!system
<1>. QED BY <1>1 DEF Staged, Unpivoted, OneStage!Row, OneStage!NoPivot, StartsAt, Vec

\* The same of what elimination has made of the system.
LEMMA LinearMoves ==
  ASSUME OneStage!system' = OneStage!system, NEW A, NEW s, NEW o, Linear(A, s, o), rows' = A,
           symbols' = s, ops' = o
  PROVE  Linear(rows, symbols, ops)'
BY LinearSame

\* A system as it is given.
SystemOk ==
  /\ shape \in OneStageShapes /\ kind \in OneStage!Kinds
  /\ kind = "triangular" => shape.height = shape.n
  /\ matrix \in Grid /\ received \in Bank

\* Elimination so far.
Eliminated ==
  /\ col \in 0 .. shape.n
  /\ Staged(rows, pivot_for_col, col) /\ Linear(rows, symbols, ops)

\* Rows that can be the pivot of the column.
Fit == {i \in Unpivoted(pivot_for_col, col) : rows[i][col] # OneStage!Zero}

\* The rows that are no pivots.
LEMMA FreeIs ==
  ASSUME shape.n \in Nat \ {0}, shape.height \in Nat, Eliminated
  PROVE  OneStage!Row \ OneStage!Pivoted = Unpivoted(pivot_for_col, col)
<1>1. ASSUME NEW i \in OneStage!Row PROVE i \notin OneStage!Pivoted
        <=> \A j \in 0 .. col - 1 : pivot_for_col[j] # i
  <2>1. i # OneStage!NoPivot  BY DEF OneStage!Row, OneStage!NoPivot
  <2>2. \A j \in 0 .. shape.n - 1 : j \in 0 .. col - 1 \/ pivot_for_col[j] = OneStage!NoPivot
    BY DEF Eliminated, Staged
  <2>3. \A j \in 0 .. col - 1 : j \in 0 .. shape.n - 1  BY DEF Eliminated
  <2>. QED BY <2>1, <2>2, <2>3 DEF OneStage!Pivoted, OneStage!Col
<1>. QED BY <1>1 DEF Unpivoted

\* What the bucket of the column holds.
LEMMA BucketIs ==
  ASSUME shape.n \in Nat \ {0}, shape.height \in Nat, Eliminated, col < shape.n
  PROVE  OneStage!Bucket = Fit
<1>1. OneStage!Row \ OneStage!Pivoted = Unpivoted(pivot_for_col, col)  BY FreeIs
<1>2. ASSUME NEW i \in Unpivoted(pivot_for_col, col)
      PROVE  (OneStage!Support(rows[i]) # {} /\ OneStage!LeadingColumn(rows[i]) = col)
               <=> rows[i][col] # OneStage!Zero
  <2>1. i \in OneStage!Row /\ rows \in Grid  BY DEF Unpivoted, Eliminated, Linear, Equivalent
  <2>2. PICK r : r = rows[i]  OBVIOUS
  <2>3. r \in [0 .. shape.n - 1 -> OneStage!F]
          /\ OneStage!Support(r) = {k \in 0 .. shape.n - 1 : r[k] # OneStage!Zero}
    BY <2>1, <2>2 DEF Grid, Slabs, OneStage!Support
  <2>4. col \in 0 .. shape.n - 1 /\ \A k \in 0 .. col - 1 : r[k] = OneStage!Zero
    BY <2>2 DEF Eliminated, Staged
  <2>5. \A k \in OneStage!Support(r) : k >= col
    <3>1. \A k \in 0 .. shape.n - 1 : k < col => k \in 0 .. col - 1  BY <2>4
    <3>. QED BY <2>3, <2>4, <3>1
  <2>6. ASSUME OneStage!Support(r) # {} PROVE OneStage!LeadingColumn(r) \in OneStage!Support(r)
    <3>1. OneStage!Support(r) \subseteq Nat  BY <2>3
    <3>2. \E k \in OneStage!Support(r) : \A j \in OneStage!Support(r) : k <= j
      BY <2>6, <3>1, LeastNumber
    <3>. QED BY <3>2 DEF OneStage!LeadingColumn
  <2>7. ASSUME r[col] # OneStage!Zero PROVE OneStage!Support(r) # {}
          /\ OneStage!LeadingColumn(r) = col
    <3>1. col \in OneStage!Support(r)  BY <2>3, <2>4, <2>7
    <3>2. OneStage!LeadingColumn(r) \in OneStage!Support(r)
            /\ \A j \in OneStage!Support(r) : OneStage!LeadingColumn(r) <= j
      <4>1. \A j \in OneStage!Support(r) : col <= j  BY <2>3, <2>4, <2>5
      <4>. QED BY <3>1, <4>1 DEF OneStage!LeadingColumn
    <3>3. OneStage!LeadingColumn(r) <= col /\ OneStage!LeadingColumn(r) >= col
      BY <2>5, <3>1, <3>2
    <3>. QED BY <2>3, <2>4, <3>1, <3>2, <3>3
  <2>. QED BY <2>2, <2>3, <2>6, <2>7
<1>. QED BY <1>1, <1>2 DEF OneStage!Bucket, Fit

\* A column is eliminated.
LEMMA EliminationGoesOn ==
  ASSUME shape.n \in Nat \ {0}, shape.height \in Nat, SystemOk, Eliminated, col < shape.n,
         NEW p \in Fit, NEW at \in Unpivoted(pivot_for_col, col), NEW cleared,
         kind \in OneStage!Swapping => at = col,
         cleared \subseteq OneStage!Row \ {at}, kind = "record"
             => cleared = OneStage!Row \ {at},
         \A i \in Unpivoted(pivot_for_col, col) :
           i # at /\ (IF i = p THEN rows[at] ELSE rows[i])[col] # OneStage!Zero
               => i \in cleared,
         OneStage!EliminateWith(p, at, cleared)
  PROVE  Eliminated'
<1>1. PICK A, w, m : A = rows /\ w = pivot_for_col /\ m = col  OBVIOUS
<1>2. /\ A \in Grid /\ m \in 0 .. shape.n - 1 /\ Staged(A, w, m) /\ Linear(A, symbols, ops)
  BY <1>1 DEF Eliminated, Linear, Equivalent
<1>3. /\ p \in OneStage!Row /\ at \in OneStage!Row /\ p \in Unpivoted(w, m)
         /\ at \in Unpivoted(w, m) /\ A[p][m] # OneStage!Zero
  BY <1>1 DEF Fit, Unpivoted
<1>4. A[p][m] \in OneStage!F  BY <1>2, <1>3 DEF Grid, Slabs
<1>5. PICK c : c = OneStage!FInverse(A[p][m])  OBVIOUS
<1>6. c \in OneStage!F /\ c # OneStage!Zero /\ OneStage!FTimes(c, A[p][m]) = OneStage!One
  BY <1>3, <1>4, <1>5, FourInverse
<1>7. OneStage!swap(A, p, at)[at] = A[p]  BY <1>2, <1>3, SwapIs DEF Grid
<1>8. PICK S : S = OneStage!scale(OneStage!swap(A, p, at), at, c)  OBVIOUS
<1>9. PICK f : f = Batch(S, cleared, m)  OBVIOUS
<1>10. PICK R : R = OneStage!fused_add_batch(S, at, f)  OBVIOUS
<1>11. ColumnStep(A, m, p, at, c, cleared, S, f, R)
  <2>1. \A k \in 0 .. m - 1 : A[p][k] = OneStage!Zero  BY <1>2, <1>3 DEF Staged
  <2>. QED BY <1>2, <1>3, <1>6, <1>8, <1>9, <1>10, <2>1 DEF ColumnStep
<1>12. PICK E : E = {i \in cleared : S[i][m] # OneStage!Zero}  OBVIOUS
<1>13. f \in [E -> OneStage!F] /\ E \subseteq OneStage!Row /\ at \notin E
         /\ ColumnMade(A, m, p, at, c, cleared, S, R)
  <2>1. f \in [{i \in cleared : S[i][m] # OneStage!Zero} -> OneStage!F]
          /\ ColumnMade(A, m, p, at, c, cleared, S, R)
    BY <1>11, ColumnRows
  <2>. QED BY <1>12, <2>1
<1>14. Staged(R, [w EXCEPT ![m] = at], m + 1)
  <2>1. \A i \in Unpivoted(w, m) : i # at /\ S[i][m] # OneStage!Zero => i \in cleared
    <3>1. \A i \in OneStage!Row : i # at => S[i] = IF i = p THEN A[at] ELSE A[i]
      BY <1>13 DEF ColumnMade
    <3>. QED BY <1>1, <3>1 DEF Unpivoted
  <2>2. kind \in OneStage!Swapping => at = m  BY <1>1
  <2>3. shape.n \in Nat \ {0} /\ shape.height \in Nat
          /\ (kind = "record" => cleared = OneStage!Row \ {at})
    OBVIOUS
  <2>4. p \in Unpivoted(w, m) /\ at \in Unpivoted(w, m) /\ Staged(A, w, m)  BY <1>2, <1>3
  <2>. QED BY ONLY <1>11, <2>1, <2>2, <2>3, <2>4, ColumnPlaced
<1>15. PICK s : s = IF OneStage!symbols_are_zero THEN symbols ELSE Steps(symbols, p, at, c,
         f)  OBVIOUS
<1>16. PICK o : o = IF kind
         \in OneStage!Recording THEN ops \o StepOps(p, at, c, f) ELSE ops  OBVIOUS
<1>17. Linear(R, s, o)
  <2>1. R = Steps(A, p, at, c, f)  BY <1>8, <1>10 DEF Steps
  <2>2. PICK t, q : t = symbols /\ q = ops  OBVIOUS
  <2>3. Linear(A, t, q)  BY <1>2, <2>2
  <2>4. Linear(Steps(A, p, at, c, f),
          IF OneStage!symbols_are_zero THEN t ELSE Steps(t, p, at, c, f),
               IF kind \in OneStage!Recording THEN q \o StepOps(p, at, c, f) ELSE q)
    BY <1>3, <1>6, <1>13, <2>3, StepsLinear
  <2>. QED BY <1>15, <1>16, <2>1, <2>2, <2>4
<1>18. OneStage!system' = OneStage!system /\ rows' = R /\ symbols' = s /\ ops' = o
       /\ pivot_for_col' = [w EXCEPT ![m] = at] /\ col' = m + 1
  <2>1. OneStage!ColumnFactors(S, at, cleared) = f  BY <1>1, <1>9 DEF OneStage!ColumnFactors, Batch
  <2>. QED BY <1>1, <1>5, <1>7, <1>8, <1>10, <1>15, <1>16, <2>1
         DEF OneStage!EliminateWith, OneStage!EliminatedSymbols, OneStage!Scalar, Steps, StepOps,
             OneStage!system
<1>19. Staged(rows, pivot_for_col, col)'
  <2>1. PICK h, e : h = [w EXCEPT ![m] = at] /\ e = m + 1  OBVIOUS
  <2>2. Staged(R, h, e) /\ pivot_for_col' = h /\ col' = e  BY <1>14, <1>18, <2>1
  <2>. QED BY <1>18, <2>2, PlacedMoves
<1>20. Linear(rows, symbols, ops)'  BY <1>17, <1>18, LinearMoves
<1>21. col' \in 0 .. shape'.n  BY <1>2, <1>18 DEF OneStage!system
<1>. QED BY <1>19, <1>20, <1>21 DEF Eliminated

\* Columns are counted by a number, whichever module counts them.
LEMMA Counted ==
  ASSUME NEW m \in Nat, NEW T, T \subseteq 0 .. m - 1
  PROVE  OneStage!Cardinality(T) \in Nat
<1>1. Cardinality(T) \in Nat  BY CountingSets
<1>2. OneStage!Cardinality(T) = Cardinality(T)  BY DEF OneStage!Cardinality, Cardinality
<1>. QED BY <1>1, <1>2

\* Of rows there is a first one.
LEMMA FirstIs ==
  ASSUME NEW T, T \subseteq Nat
  PROVE  OneStage!First(T) \subseteq T /\ (T # {} => OneStage!First(T) # {})
BY LeastNumber DEF OneStage!First

\* Of rows there is a lightest one.
LEMMA LightestIs ==
  ASSUME shape.n \in Nat \ {0}, rows \in Grid, NEW T, T \subseteq OneStage!Row
  PROVE  OneStage!Lightest(T) \subseteq T /\ (T # {} => OneStage!Lightest(T) # {})
<1>1. ASSUME NEW i \in OneStage!Row PROVE OneStage!Weight(i) \in Nat
  <2>1. OneStage!Support(rows[i]) \subseteq 0 .. shape.n - 1
    <3>1. rows[i] \in [0 .. shape.n - 1 -> OneStage!F]  BY DEF Grid, Slabs
    <3>. QED BY <3>1 DEF OneStage!Support
  <2>. QED BY <2>1, Counted DEF OneStage!Weight
<1>2. ASSUME T # {} PROVE OneStage!Lightest(T) # {}
  <2>. DEFINE W == {OneStage!Weight(i) : i \in T}
  <2>1. W \subseteq Nat /\ W # {}  BY <1>1, <1>2
  <2>2. PICK b0 \in W : \A a0 \in W : b0 <= a0  BY <2>1, LeastNumber
  <2>3. PICK i \in T : OneStage!Weight(i) = b0  BY <2>2
  <2>4. \A k \in T : OneStage!Weight(i) <= OneStage!Weight(k)  BY <2>2, <2>3
  <2>. QED BY <2>3, <2>4 DEF OneStage!Lightest
<1>. QED BY <1>2 DEF OneStage!Lightest

\* Some row is chosen as pivot exactly when some row can be.
LEMMA PivotsAreFit ==
  ASSUME shape.n \in Nat \ {0}, shape.height \in Nat, kind \in OneStage!Kinds, Eliminated,
           col < shape.n
  PROVE  /\ OneStage!Pivots \subseteq Fit /\ (Fit # {} => OneStage!Pivots # {})
         /\ kind \in OneStage!Swapping => Fit = OneStage!Remaining
         /\ kind \notin OneStage!Swapping => Fit = OneStage!Bucket
<1>1. /\ rows \in Grid /\ col \in 0 .. shape.n - 1
      /\ kind \in OneStage!Swapping => \A j \in 0 .. col - 1 : pivot_for_col[j] = j
  BY DEF Eliminated, Linear, Equivalent, Staged
<1>2. OneStage!Remaining \subseteq OneStage!Row /\ OneStage!Row \subseteq Nat
        /\ Fit \subseteq OneStage!Row
  BY DEF OneStage!Remaining, OneStage!Row, Fit, Unpivoted
<1>3. kind \in OneStage!Swapping => Fit = OneStage!Remaining
  <2>1. ASSUME kind \in OneStage!Swapping, NEW i \in OneStage!Row
        PROVE  i \in Unpivoted(pivot_for_col, col) <=> i >= col
    <3>1. \A j \in 0 .. col - 1 : pivot_for_col[j] = j  BY <1>1, <2>1
    <3>2. i \in 0 .. col - 1 <=> ~(i >= col)  BY <1>1, <1>2
    <3>3. \A j \in 0 .. col - 1 : pivot_for_col[j] # i <=> j # i  BY <3>1
    <3>. QED BY <1>1, <3>2, <3>3 DEF Unpivoted
  <2>. QED BY <2>1 DEF Fit, OneStage!Remaining, Unpivoted
<1>4. Fit = OneStage!Bucket  BY BucketIs
<1>5. CASE kind \in OneStage!Recording \cup {"scan_first"}
  <2>1. OneStage!Pivots = OneStage!First(OneStage!Remaining) /\ kind \in OneStage!Swapping

      BY <1>5 DEF OneStage!Pivots, OneStage!SelectPivotFirst, OneStage!Swapping,
         OneStage!Recording
  <2>. QED BY <1>2, <1>3, <1>4, <2>1, FirstIs
<1>6. CASE kind = "scan_lightest"
  <2>1. /\ OneStage!Pivots = OneStage!First(OneStage!OnesIfAny(OneStage!Lightest(OneStage!Remaining)))
        /\ kind \in OneStage!Swapping

      BY <1>6 DEF OneStage!Pivots, OneStage!SelectPivotLightest, OneStage!Swapping,
         OneStage!Recording
  <2>2. PICK T : T = OneStage!Lightest(OneStage!Remaining)  OBVIOUS
  <2>3. T \subseteq OneStage!Remaining /\ (OneStage!Remaining # {} => T # {})
    BY <1>1, <1>2, <2>2, LightestIs
  <2>4. PICK U : U = OneStage!OnesIfAny(T)  OBVIOUS
  <2>5. U \subseteq T /\ (T # {} => U # {})  BY <2>4 DEF OneStage!OnesIfAny
  <2>6. U \subseteq Nat  BY <1>2, <2>3, <2>5
  <2>7. OneStage!First(U) \subseteq U /\ (U # {} => OneStage!First(U) # {})  BY <2>6, FirstIs
  <2>. QED BY <1>3, <1>4, <2>1, <2>2, <2>3, <2>4, <2>5, <2>7
<1>7. CASE kind \in {"bucketed", "binary"}
  <2>1. OneStage!Pivots = OneStage!Lightest(OneStage!Bucket) /\ kind \notin OneStage!Swapping
    BY <1>7 DEF OneStage!Pivots, OneStage!PopLightest, OneStage!Swapping, OneStage!Recording
  <2>2. OneStage!Bucket \subseteq OneStage!Row  BY <1>2, <1>4
  <2>. QED BY <1>1, <1>4, <2>1, <2>2, LightestIs
<1>. QED BY <1>5, <1>6, <1>7 DEF OneStage!Kinds, OneStage!Swapping, OneStage!Recording

Given == shape.n \in Nat \ {0} /\ shape.height \in Nat /\ SystemOk

\* A pivot of the routines that bring pivots into place.
LEMMA SwappingPivot ==
  ASSUME Given, Eliminated, col < shape.n, kind \in OneStage!Swapping, NEW p \in OneStage!Pivots
  PROVE  p \in Fit /\ p \in OneStage!Row /\ col \in Unpivoted(pivot_for_col, col)
           /\ col \in OneStage!Row
         /\ Unpivoted(pivot_for_col, col) \ {col} \subseteq OneStage!Below
<1>1. p \in Fit /\ Fit = OneStage!Remaining  BY PivotsAreFit DEF Given, SystemOk
<1>2. /\ col \in 0 .. shape.n - 1
      /\ \A j \in 0 .. col - 1 : pivot_for_col[j] = j
  BY DEF Eliminated, Staged, Given
<1>3. p \in OneStage!Row /\ p >= col  BY <1>1 DEF OneStage!Remaining
<1>4. col \in OneStage!Row  BY <1>2, <1>3 DEF OneStage!Row, Given
<1>5. col \in Unpivoted(pivot_for_col, col)  BY <1>2, <1>4 DEF Unpivoted
<1>6. ASSUME NEW i \in OneStage!Row, i \in Unpivoted(pivot_for_col, col), i # col PROVE i > col
  <2>1. i \notin 0 .. col - 1  BY <1>2, <1>6 DEF Unpivoted
  <2>. QED BY <1>2, <1>6, <2>1 DEF OneStage!Row, Given
<1>. QED BY <1>1, <1>3, <1>4, <1>5, <1>6 DEF OneStage!Below, Unpivoted

\* The routines of which some row is brought into place.
LEMMA SwappingGoesOn ==
  ASSUME Given, Eliminated, col < shape.n, kind \in OneStage!Swapping, NEW p \in OneStage!Pivots,
           NEW cleared,
         cleared = OneStage!Below \/ cleared = OneStage!Row \ {col}, kind = "record"
             => cleared = OneStage!Row \ {col},
         OneStage!EliminateWith(p, col, cleared)
  PROVE  Eliminated'
<1>1. p \in Fit /\ p \in OneStage!Row /\ col \in Unpivoted(pivot_for_col, col)
        /\ col \in OneStage!Row
      /\ Unpivoted(pivot_for_col, col) \ {col} \subseteq OneStage!Below
  BY SwappingPivot
<1>2. col \in Int  BY DEF Eliminated, Given
<1>3. OneStage!Below \subseteq OneStage!Row \ {col}  BY <1>2 DEF OneStage!Below
<1>4. cleared \subseteq OneStage!Row \ {col}
        /\ Unpivoted(pivot_for_col, col) \ {col} \subseteq cleared
  BY <1>1, <1>3
<1>5. \A i \in Unpivoted(pivot_for_col, col) :
        i # col /\ (IF i = p THEN rows[col] ELSE rows[i])[col] # OneStage!Zero => i \in cleared
  BY <1>4
<1>. QED BY <1>1, <1>4, <1>5, EliminationGoesOn DEF Given

\* The routines that leave rows where they are.
LEMMA StayingGoesOn ==
  ASSUME Given, Eliminated, col < shape.n, kind \notin OneStage!Swapping,
           NEW p \in OneStage!Pivots,
         OneStage!EliminateWith(p, p, OneStage!Bucket \ {p})
  PROVE  Eliminated'
<1>1. p \in Fit /\ Fit = OneStage!Bucket  BY PivotsAreFit DEF Given, SystemOk
<1>2. p \in Unpivoted(pivot_for_col, col) /\ Fit \subseteq OneStage!Row
  BY <1>1 DEF Fit, Unpivoted
<1>3. OneStage!Bucket \ {p} \subseteq OneStage!Row \ {p}  BY <1>1, <1>2
<1>4. \A i \in Unpivoted(pivot_for_col, col) :
        i # p /\ (IF i = p THEN rows[p] ELSE rows[i])[col] # OneStage!Zero
            => i \in OneStage!Bucket \ {p}
  BY <1>1 DEF Fit
<1>5. kind # "record"  BY DEF OneStage!Swapping, OneStage!Recording
<1>. QED BY <1>1, <1>2, <1>3, <1>4, <1>5, EliminationGoesOn DEF Given

\* A column without a pivot: something that is not zero is taken to nothing.
LEMMA NoPivotUndetermined ==
  ASSUME Given, Eliminated, col < shape.n, OneStage!Pivots = {}
  PROVE  \E v \in Vec : v # OneStage!VZero(OneStage!Col) /\ Nulls(matrix, v)
<1>1. shape.n \in Nat \ {0} /\ Fit = {}  BY PivotsAreFit DEF Given, SystemOk
<1>2. PICK A, w, m : A = rows /\ w = pivot_for_col /\ m = col  OBVIOUS
<1>3. /\ A \in Grid /\ m \in 0 .. shape.n /\ m \in 0 .. shape.n - 1 /\ Staged(A, w, m)
         /\ Equivalent(A)
  BY <1>1, <1>2 DEF Eliminated, Linear, Equivalent
<1>4. OneStage!Zero \in OneStage!F /\ OneStage!One \in OneStage!F
        /\ OneStage!Zero # OneStage!One
  BY FourField
<1>5. PICK z \in Vec : z[m] = OneStage!One
        /\ \A k \in m + 1 .. shape.n - 1 : z[k] = OneStage!Zero
  <2>1. [k \in 0 .. shape.n - 1 |-> IF k = m THEN OneStage!One ELSE OneStage!Zero] \in Vec
    BY <1>4 DEF Vec
  <2>2. \A k \in m + 1 .. shape.n - 1 : k # m /\ k \in 0 .. shape.n - 1  BY <1>3
  <2>. QED BY <1>3, <2>1, <2>2
<1>6. PICK P, t : P = [j \in 0 .. m - 1 |-> A[w[j]]]
        /\ t = [j \in 0 .. m - 1 |-> OneStage!Zero]  OBVIOUS
<1>7. \A j \in 0 .. m - 1 : StartsAt(P[j], j) /\ t[j] \in OneStage!F
  BY <1>3, <1>4, <1>6 DEF Staged
<1>8. PICK v \in Vec : /\ \A k \in m .. shape.n - 1 : v[k] = z[k]
                       /\ \A j \in 0 .. m - 1 : OneStage!Dot(P[j], v) = t[j]
  <2>1. shape.n \in Nat \ {0} /\ m \in 0 .. shape.n /\ z \in Vec  BY <1>1, <1>3
  <2>2. Stairs(P, t, m)  BY <1>7 DEF Stairs
  <2>3. \E v \in Vec : Answers(P, t, m, v, z)  BY <2>1, <2>2, CanAnswer
  <2>. QED BY <2>3 DEF Answers
<1>9. m \in m .. shape.n - 1 /\ \A k \in m + 1 .. shape.n - 1 : k \in m .. shape.n - 1  BY <1>3
<1>10. v[m] = OneStage!One /\ \A k \in m + 1 .. shape.n - 1 : v[k] = OneStage!Zero
  BY <1>5, <1>8, <1>9
<1>11. v # OneStage!VZero(OneStage!Col)  BY <1>3, <1>4, <1>10 DEF OneStage!VZero, OneStage!Col
<1>12. ASSUME NEW i \in OneStage!Row PROVE OneStage!Dot(A[i], v) = OneStage!Zero
  <2>1. CASE \E j \in 0 .. m - 1 : w[j] = i
    <3>1. PICK j \in 0 .. m - 1 : w[j] = i  BY <2>1
    <3>. QED BY <1>6, <1>8, <3>1
  <2>2. CASE ~ \E j \in 0 .. m - 1 : w[j] = i
    <3>1. i \in Unpivoted(w, m)  BY <2>2 DEF Unpivoted
    <3>2. A[i][m] = OneStage!Zero  BY <1>1, <1>2, <3>1 DEF Fit
    <3>3. \A k \in 0 .. m - 1 : A[i][k] = OneStage!Zero  BY <1>3, <3>1 DEF Staged
    <3>4. A[i] \in Vec  BY <1>3 DEF Grid, Slabs, Vec
    <3>5. ASSUME NEW k \in 0 .. shape.n - 1 PROVE A[i][k] = OneStage!Zero
            \/ v[k] = OneStage!Zero
      <4>1. k = m \/ k \in 0 .. m - 1 \/ k \in m + 1 .. shape.n - 1  BY <1>3
      <4>. QED BY <1>10, <3>2, <3>3, <4>1
    <3>. QED BY <1>1, <3>4, <3>5, DotVanishes
  <2>. QED BY <2>1, <2>2
<1>13. Nulls(A, v)  BY <1>12 DEF Nulls
<1>. QED BY <1>3, <1>11, <1>13 DEF Equivalent

\* All columns have pivots: what the rows hold beside the pivots.
LEMMA LeftOverRows ==
  ASSUME Given, Eliminated, col = shape.n, NEW i \in OneStage!Row \ OneStage!Pivoted
  PROVE  rows[i] \in Vec /\ \A k \in 0 .. shape.n - 1 : rows[i][k] = OneStage!Zero
<1>1. i \in Unpivoted(pivot_for_col, col)  BY FreeIs DEF Given
<1>2. \A k \in 0 .. col - 1 : rows[i][k] = OneStage!Zero  BY <1>1 DEF Eliminated, Staged
<1>3. rows[i] \in Vec  BY DEF Eliminated, Linear, Equivalent, Grid, Slabs, Vec
<1>. QED BY <1>2, <1>3

\* Left over rows that do not fit: the symbols are of no columns at all.
LEMMA LeftOverInconsistent ==
  ASSUME Given, Eliminated, col = shape.n, ~OneStage!LeftOverRowsFit
  PROVE  ~ \E v \in Vec : Fulfils(matrix, received, shape.n, v)
<1>. SUFFICES ASSUME NEW v \in Vec, Fulfils(matrix, received, shape.n, v) PROVE FALSE  OBVIOUS
<1>1. PICK i \in OneStage!Row \ OneStage!Pivoted : OneStage!Support(rows[i]) # {}
        \/ OneStage!Support(symbols[i]) # {}
  BY DEF OneStage!LeftOverRowsFit
<1>2. rows[i] \in Vec /\ \A k \in 0 .. shape.n - 1 : rows[i][k] = OneStage!Zero  BY LeftOverRows
<1>3. OneStage!Support(rows[i]) = {}  BY <1>2 DEF OneStage!Support, Vec
<1>4. symbols \in Bank /\ received \in Bank /\ shape.n \in Nat \ {0}
  BY DEF Eliminated, Linear, Carried, Given, SystemOk
<1>5. symbols[i] \in [0 .. shape.n -> OneStage!F]  BY <1>4 DEF Bank, Slabs
<1>6. \A k \in 0 .. shape.n : symbols[i][k] = OneStage!Zero
  <2>1. CASE OneStage!symbols_are_zero
    <3>1. symbols = [e \in OneStage!Row |-> OneStage!VZero(0 .. shape.n)]
      BY <2>1 DEF Eliminated, Linear, Carried, OneStage!symbols_are_zero
    <3>. QED BY <3>1 DEF OneStage!VZero
  <2>2. CASE ~OneStage!symbols_are_zero
    <3>1. /\ Follows(symbols, rows)
          /\ \A d \in 0 .. shape.n, x0 \in Vec : Fulfils(rows, symbols, d, x0)
             <=> Fulfils(matrix, received, d, x0)
      BY <2>2 DEF Eliminated, Linear, Carried
    <3>2. shape.n \in 0 .. shape.n  BY <1>4
    <3>3. Fulfils(rows, symbols, shape.n, v)  BY <3>1, <3>2
    <3>4. OneStage!Dot(rows[i], v) = OneStage!Zero
      <4>1. PICK r \in Vec : r = rows[i]  BY <1>2
      <4>2. OneStage!Dot(r, v) = OneStage!Zero  BY <1>2, <1>4, <4>1, DotVanishes
      <4>. QED BY <4>1, <4>2
    <3>5. symbols[i][shape.n] = OneStage!Zero  BY <3>3, <3>4 DEF Fulfils
    <3>6. \A k \in 0 .. shape.n - 1 : symbols[i][k] = OneStage!Zero  BY <1>2, <3>1 DEF Follows
    <3>7. \A k \in 0 .. shape.n : k = shape.n \/ k \in 0 .. shape.n - 1  BY <1>4
    <3>. QED BY <3>5, <3>6, <3>7
  <2>. QED BY <2>1, <2>2
<1>7. OneStage!Support(symbols[i]) = {}  BY <1>5, <1>6 DEF OneStage!Support
<1>. QED BY <1>1, <1>3, <1>7

-----------------------------------------------------------------------------
(* The solution is found.                                                  *)

\* Columns x that give every row its symbol are decoded symbols that satisfy
\* every row of the system.
LEMMA SatisfiesRows ==
  ASSUME Given, NEW A, NEW s, Carried(A, s), ~OneStage!symbols_are_zero,
         NEW x0, \A k \in 0 .. shape.n - 1 : x0[k] \in Syms,
         \A d \in 0 .. shape.n : Fulfils(A, s, d, At(x0, d))
  PROVE  \A i \in OneStage!Row : OneStage!Combination(matrix[i], x0, shape.n) = received[i]
<1>. SUFFICES ASSUME NEW i \in OneStage!Row PROVE OneStage!Combination(matrix[i], x0, shape.n)
       = received[i]  OBVIOUS
<1>1. shape.n \in Nat \ {0} /\ received[i] \in Syms
  BY DEF Given, SystemOk, Bank, Slabs, Syms
<1>2. PICK r \in Vec : r = matrix[i]  BY DEF Given, SystemOk, Grid, Slabs, Vec
<1>3. /\ OneStage!Combination(r, x0, shape.n) \in Syms
      /\ \A d \in 0 .. shape.n : OneStage!Combination(r, x0, shape.n)[d]
         = OneStage!Dot(r, At(x0, d))
  BY <1>1, CombinationIsDot
<1>4. ASSUME NEW d \in 0 .. shape.n PROVE OneStage!Dot(r, At(x0, d)) = received[i][d]
  <2>1. At(x0, d) \in Vec  BY <1>1, AtIs
  <2>2. Fulfils(matrix, received, d, At(x0, d))  BY <2>1 DEF Carried
  <2>. QED BY <1>2, <2>2 DEF Fulfils
<1>5. \A d \in 0 .. shape.n : OneStage!Combination(r, x0, shape.n)[d] = received[i][d]
  BY <1>3, <1>4
<1>6. PICK h \in Syms, z \in Syms : h = OneStage!Combination(r, x0, shape.n) /\ z = received[i]
  BY <1>1, <1>3
<1>7. \A d \in 0 .. shape.n : h[d] = z[d]  BY <1>5, <1>6
<1>8. h = z
  <2>. DEFINE D == 0 .. shape.n
  <2>1. h \in [D -> OneStage!F] /\ z \in [D -> OneStage!F] /\ \A d \in D : h[d] = z[d]
    BY <1>7 DEF Syms
  <2>. HIDE DEF D
  <2>. QED BY ONLY <2>1, SameFunction
<1>. QED BY <1>2, <1>6, <1>8

\* Rows that are pivots are what is left over of the columns behind.
LEMMA SubstitutedFits ==
  ASSUME Given, Eliminated, col = shape.n, OneStage!LeftOverRowsFit, ~OneStage!symbols_are_zero
  PROVE  \A i \in OneStage!Row : OneStage!Combination(matrix[i], OneStage!Substituted, shape.n)
           = received[i]
<1>1. /\ shape.n \in Nat \ {0} /\ Carried(rows, symbols) /\ rows \in Grid /\ symbols \in Bank
  BY DEF Given, Eliminated, Linear, Equivalent, Carried
<1>2. ASSUME NEW j \in 0 .. shape.n - 1
      PROVE  /\ pivot_for_col[j] \in OneStage!Row /\ StartsAt(rows[pivot_for_col[j]], j)
             /\ rows[pivot_for_col[j]] \in Vec /\ symbols[pivot_for_col[j]] \in Syms
  <2>1. pivot_for_col[j] \in OneStage!Row /\ StartsAt(rows[pivot_for_col[j]], j)
    BY DEF Eliminated, Staged
  <2>2. symbols[pivot_for_col[j]] \in Syms  BY <1>1, <2>1 DEF Bank, Slabs, Syms
  <2>. QED BY <2>1, <2>2 DEF StartsAt
<1>3. PICK x0 : x0 = OneStage!Substituted  OBVIOUS
<1>4. /\ \A j \in 0 .. shape.n - 1 : x0[j] \in Syms
      /\ \A j \in 0 .. shape.n - 1 :
           x0[j] = OneStage!LeftOver(rows[pivot_for_col[j]], symbols[pivot_for_col[j]], j, x0)
  <2>1. /\ OneStage!Substituted \in [0 .. shape.n - 1 -> Syms]
        /\ \A j \in 0 .. shape.n - 1 : OneStage!Substituted[j]
             = OneStage!LeftOver(rows[pivot_for_col[j]], symbols[pivot_for_col[j]], j,
                 OneStage!Substituted)
    BY <1>1, <1>2, SubstitutedIs
  <2>. QED BY <1>3, <2>1
<1>5. ASSUME NEW d \in 0 .. shape.n,
        NEW i \in OneStage!Row PROVE OneStage!Dot(rows[i], At(x0, d)) = symbols[i][d]
  <2>1. CASE \E j \in 0 .. shape.n - 1 : pivot_for_col[j] = i
    <3>1. PICK j \in 0 .. shape.n - 1 : pivot_for_col[j] = i  BY <2>1
    <3>2. PICK r, s : r = rows[i] /\ s = symbols[i]  OBVIOUS
    <3>3. StartsAt(r, j) /\ s \in Syms /\ x0[j] = OneStage!LeftOver(r, s, j, x0)
      BY <1>2, <1>4, <3>1, <3>2
    <3>4. OneStage!Dot(r, At(x0, d)) = s[d]  BY <1>1, <1>4, <3>3, LeftOverAnswers
    <3>. QED BY <3>2, <3>4
  <2>2. CASE ~ \E j \in 0 .. shape.n - 1 : pivot_for_col[j] = i
    <3>1. i \notin OneStage!Pivoted  BY <2>2 DEF OneStage!Pivoted, OneStage!Col
    <3>2. PICK r \in Vec : r = rows[i] /\ \A k \in 0 .. shape.n - 1 : r[k] = OneStage!Zero
      BY <3>1, LeftOverRows
    <3>3. At(x0, d) \in Vec  BY <1>1, <1>4, AtIs
    <3>4. OneStage!Dot(r, At(x0, d)) = OneStage!Zero  BY <1>1, <3>2, <3>3, DotVanishes
    <3>5. OneStage!Support(symbols[i]) = {}  BY <3>1 DEF OneStage!LeftOverRowsFit
    <3>6. symbols[i] \in [0 .. shape.n -> OneStage!F]  BY <1>1 DEF Bank, Slabs
    <3>7. symbols[i][d] = OneStage!Zero  BY <3>5, <3>6 DEF OneStage!Support
    <3>. QED BY <3>2, <3>4, <3>7
  <2>. QED BY <2>1, <2>2
<1>6. \A d \in 0 .. shape.n : Fulfils(rows, symbols, d, At(x0, d))  BY <1>5 DEF Fulfils
<1>7. PICK A, s : A = rows /\ s = symbols  OBVIOUS
<1>8. Carried(A, s) /\ \A d \in 0 .. shape.n : Fulfils(A, s, d, At(x0, d))  BY <1>1, <1>6, <1>7
<1>9. \A i \in OneStage!Row : OneStage!Combination(matrix[i], x0, shape.n) = received[i]
  BY <1>4, <1>8, SatisfiesRows
<1>. QED BY <1>3, <1>9

-----------------------------------------------------------------------------
(* Rows of which nothing is left but the columns themselves.               *)

Solved(A, s) ==
  /\ \A j \in 0 .. shape.n - 1 : /\ j \in OneStage!Row /\ A[j][j] = OneStage!One
                                 /\ \A k \in 0 .. shape.n - 1 : k # j => A[j][k] = OneStage!Zero
  /\ \A i \in OneStage!Row : i \notin 0 .. shape.n - 1 =>
       /\ \A k \in 0 .. shape.n - 1 : A[i][k] = OneStage!Zero
       /\ \A d \in 0 .. shape.n : s[i][d] = OneStage!Zero

\* The symbols are then those of the columns.
LEMMA SolvedFits ==
  ASSUME Given, NEW A, NEW s, NEW o, Linear(A, s, o), Solved(A, s), ~OneStage!symbols_are_zero
  PROVE  \A i \in OneStage!Row :
           OneStage!Combination(matrix[i], [j \in OneStage!Col |-> s[j]], shape.n) = received[i]
<1>1. shape.n \in Nat \ {0} /\ Carried(A, s) /\ A \in Grid /\ s \in Bank
  BY DEF Given, Linear, Equivalent, Carried
<1>2. PICK x0 : x0 = [j \in OneStage!Col |-> s[j]]  OBVIOUS
<1>3. \A k \in 0 .. shape.n - 1 : x0[k] \in Syms /\ x0[k] = s[k]
  BY <1>1, <1>2 DEF Solved, OneStage!Col, Bank, Slabs, Syms
<1>4. ASSUME NEW d \in 0 .. shape.n,
        NEW i \in OneStage!Row PROVE OneStage!Dot(A[i], At(x0, d)) = s[i][d]
  <2>1. PICK r \in Vec, v \in Vec : r = A[i] /\ v = At(x0, d)
    <3>1. At(x0, d) \in Vec  BY <1>1, <1>3, AtIs
    <3>. QED BY <1>1, <3>1 DEF Grid, Slabs, Vec
  <2>2. CASE i \in 0 .. shape.n - 1
    <3>1. r[i] = OneStage!One /\ \A k \in 0 .. shape.n - 1 : k # i => r[k] = OneStage!Zero
      BY <2>1, <2>2 DEF Solved
    <3>2. OneStage!Dot(r, v) = v[i]  BY <1>1, <2>2, <3>1, DotUnit
    <3>3. v[i] = x0[i][d]  BY <2>1, <2>2 DEF At
    <3>. QED BY <1>3, <2>1, <2>2, <3>2, <3>3
  <2>3. CASE i \notin 0 .. shape.n - 1
    <3>1. /\ \A k \in 0 .. shape.n - 1 : r[k] = OneStage!Zero
          /\ s[i][d] = OneStage!Zero
      BY <2>1, <2>3 DEF Solved
    <3>2. OneStage!Dot(r, v) = OneStage!Zero  BY <1>1, <3>1, DotVanishes
    <3>. QED BY <2>1, <3>1, <3>2
  <2>. QED BY <2>2, <2>3
<1>5. \A d \in 0 .. shape.n : Fulfils(A, s, d, At(x0, d))  BY <1>4 DEF Fulfils
<1>6. \A k \in 0 .. shape.n - 1 : x0[k] \in Syms  BY <1>3
<1>7. \A i \in OneStage!Row : OneStage!Combination(matrix[i], x0, shape.n) = received[i]
  BY <1>1, <1>5, <1>6, SatisfiesRows
<1>. QED BY <1>2, <1>7

\* Replayed on the symbols of the matrix, what was recorded gives the columns.
LEMMA SolvedReplays ==
  ASSUME Given, kind \in OneStage!Recording, NEW A, NEW s, NEW o, Linear(A, s, o), Solved(A, s),
           o = ops
  PROVE  \A j \in OneStage!Col : OneStage!RowCoefficients(OneStage!Replayed(Formals)[j])
           = OneStage!VUnit(OneStage!Col, j)
<1>1. PICK z \in Bank : Reaches(ops, Formals, z) /\ Follows(z, A)  BY DEF Linear, Recorded
<1>2. PICK h : h = Formals  OBVIOUS
<1>3. OneStage!Replayed(h) = z  BY <1>1, <1>2, ReplayedIs
<1>4. ASSUME NEW j \in 0 .. shape.n - 1 PROVE OneStage!RowCoefficients(z[j])
        = OneStage!VUnit(OneStage!Col, j)
  <2>1. ASSUME NEW k \in 0 .. shape.n - 1 PROVE z[j][k] = IF k
          = j THEN OneStage!One ELSE OneStage!Zero
    BY <1>1 DEF Follows, Solved
  <2>. QED BY <2>1 DEF OneStage!RowCoefficients, OneStage!VUnit, OneStage!Col
<1>. QED BY <1>2, <1>3, <1>4 DEF OneStage!Col

\* When the routine that clears all other rows has come to the end.
LEMMA RecordSolved ==
  ASSUME Given, Eliminated, col = shape.n, OneStage!LeftOverRowsFit, kind = "record"
  PROVE  Solved(rows, symbols)
<1>1. /\ \A j \in 0 .. shape.n - 1 : pivot_for_col[j] = j /\ j \in OneStage!Row
         /\ StartsAt(rows[j], j)
      /\ \A i \in OneStage!Row, k \in 0 .. shape.n - 1 : i # k => rows[i][k] = OneStage!Zero
  BY DEF Eliminated, Staged, OneStage!Swapping, OneStage!Recording
<1>2. ASSUME NEW i \in OneStage!Row, i \notin 0 .. shape.n - 1,
        NEW d \in 0 .. shape.n PROVE symbols[i][d] = OneStage!Zero
  <2>1. i \notin OneStage!Pivoted  BY <1>1, <1>2 DEF OneStage!Pivoted, OneStage!Col
  <2>2. OneStage!Support(symbols[i]) = {}  BY <2>1 DEF OneStage!LeftOverRowsFit
  <2>3. symbols[i] \in [0 .. shape.n -> OneStage!F]
    BY DEF Eliminated, Linear, Carried, Bank, Slabs
  <2>. QED BY <2>2, <2>3 DEF OneStage!Support
<1>3. \A i \in OneStage!Row : i \notin 0 .. shape.n - 1
        => \A k \in 0 .. shape.n - 1 : rows[i][k] = OneStage!Zero
  BY <1>1
<1>. QED BY <1>1, <1>2, <1>3 DEF Solved, StartsAt

-----------------------------------------------------------------------------
(* Back substitution.                                                      *)

\* The entries behind the diagonal are gone from column m on.
ClearedBehind(A, m) ==
  [i \in OneStage!Row |-> [k \in 0 .. shape.n - 1 |-> IF k > i
      /\ k >= m THEN OneStage!Zero ELSE A[i][k]]]

Backed ==
  /\ kind = "triangular" /\ col \in 0 .. shape.n
  /\ Staged(rows, pivot_for_col, shape.n)
  /\ Linear(ClearedBehind(rows, col), symbols, ops)

\* At first nothing is gone.
LEMMA NothingCleared ==
  ASSUME shape.n \in Nat \ {0}, NEW A \in Grid
  PROVE  ClearedBehind(A, shape.n) = A
<1>1. PICK B : B = ClearedBehind(A, shape.n)  OBVIOUS
<1>2. ASSUME NEW i \in OneStage!Row PROVE B[i] = A[i]
  <2>1. A[i] \in [0 .. shape.n - 1 -> OneStage!F]  BY DEF Grid, Slabs
  <2>2. B[i] = [k \in 0 .. shape.n - 1 |-> IF k > i
          /\ k >= shape.n THEN OneStage!Zero ELSE A[i][k]]
    BY <1>1 DEF ClearedBehind
  <2>3. \A k \in 0 .. shape.n - 1 : ~(k > i /\ k >= shape.n)  OBVIOUS
  <2>4. B[i] = [k \in 0 .. shape.n - 1 |-> A[i][k]]  BY <2>2, <2>3
  <2>. QED BY <2>1, <2>4
<1>3. B = [i \in OneStage!Row |-> B[i]] /\ A = [i \in OneStage!Row |-> A[i]]
  BY <1>1 DEF ClearedBehind, Grid, Slabs
<1>. QED BY <1>1, <1>2, <1>3

\* When all are gone, nothing is left but the columns.
LEMMA BackSolved ==
  ASSUME Given, Backed, col = 0
  PROVE  Solved(ClearedBehind(rows, col), symbols)
<1>1. /\ \A j \in 0 .. shape.n - 1 : j \in OneStage!Row /\ StartsAt(rows[j], j)
  BY DEF Backed, Staged, OneStage!Swapping, OneStage!Recording
<1>2. OneStage!Row = 0 .. shape.n - 1  BY DEF Given, SystemOk, Backed, OneStage!Row
<1>3. ASSUME NEW j \in 0 .. shape.n - 1, NEW k \in 0 .. shape.n - 1
      PROVE  ClearedBehind(rows, col)[j][k] = IF k = j THEN OneStage!One ELSE OneStage!Zero
  <2>1. ClearedBehind(rows, col)[j][k] = IF k > j /\ k >= col THEN OneStage!Zero ELSE rows[j][k]
    BY <1>1 DEF ClearedBehind
  <2>2. k >= col  OBVIOUS
  <2>3. rows[j][j] = OneStage!One /\ (k < j => rows[j][k] = OneStage!Zero)  BY <1>1 DEF StartsAt
  <2>. QED BY <2>1, <2>2, <2>3
<1>. QED BY <1>1, <1>2, <1>3 DEF Solved

\* The rows before column m - 1 take it out with their entries in it.
ColumnTaken(A, m, E, f) == E = {j \in 0 .. m - 2 : A[j][m - 1] # OneStage!Zero}
    /\ f = [j \in E |-> A[j][m - 1]]

\* A column is taken out of the rows before it.
LEMMA ColumnTakenOut ==
  ASSUME shape.n \in Nat \ {0}, shape.height = shape.n, NEW A \in Grid,
         \A j \in 0 .. shape.n - 1 : StartsAt(A[j], j), NEW m \in 1 .. shape.n,
         NEW E, NEW f, ColumnTaken(A, m, E, f)
  PROVE  /\ m - 1 \in OneStage!Row /\ E \subseteq OneStage!Row /\ m - 1 \notin E
            /\ f \in [E -> OneStage!F]
         /\ OneStage!fused_add_batch(ClearedBehind(A, m), m - 1, f) = ClearedBehind(A, m - 1)
<1>. DEFINE D == 0 .. shape.n - 1
            B == ClearedBehind(A, m)
            C == ClearedBehind(A, m - 1)
            G == OneStage!fused_add_batch(B, m - 1, f)
<1>0. PICK e \in D : e = m - 1  OBVIOUS
<1>1. OneStage!Row = D  BY DEF OneStage!Row
<1>2. \A i \in D, k \in D : A[i][k] \in OneStage!F  BY <1>1 DEF Grid, Slabs
<1>3. /\ e \in OneStage!Row /\ E \subseteq OneStage!Row /\ e \notin E /\ f \in [E -> OneStage!F]
         /\ \A j \in E : f[j] = A[j][e]
      /\ E = {j \in 0 .. e - 1 : A[j][e] # OneStage!Zero}
  <2>1. E = {j \in 0 .. e - 1 : A[j][e] # OneStage!Zero} /\ f = [j \in E |-> A[j][e]]
    BY <1>0 DEF ColumnTaken
  <2>2. E \subseteq D /\ e \notin E  BY <2>1
  <2>. QED BY <1>1, <1>2, <2>1, <2>2
<1>4. /\ \A i \in D, k \in D : B[i][k] = IF k > i /\ k >= m THEN OneStage!Zero ELSE A[i][k]
      /\ \A i \in D, k \in D : C[i][k] = IF k > i /\ k >= e THEN OneStage!Zero ELSE A[i][k]
  BY <1>0, <1>1 DEF ClearedBehind
<1>5. B \in Slabs(D) /\ C \in Slabs(D)
  <2>1. OneStage!Zero \in OneStage!F  BY FourTypes
  <2>2. \A e0 : ClearedBehind(A, e0) \in Slabs(D)
    <3>1. \A e0 : \A i \in OneStage!Row, k \in D :
            (IF k > i /\ k >= e0 THEN OneStage!Zero ELSE A[i][k]) \in OneStage!F
      BY <1>1, <1>2, <2>1
    <3>. QED BY <3>1 DEF ClearedBehind, Slabs
  <2>. QED BY <2>2
<1>. HIDE DEF B, C
<1>6. G \in Slabs(D)
  <2>. HIDE DEF D
  <2>1. OneStage!fused_add_batch(B, e, f) \in Slabs(D)  BY ONLY <1>3, <1>5, FusedIs
  <2>. QED BY <1>0, <2>1
<1>7. ASSUME NEW i \in D, NEW k \in D PROVE G[i][k] = C[i][k]
  <2>1. OneStage!fused_add_batch(B, e, f)[i][k]
          = IF i \in E THEN OneStage!FPlus(B[i][k], OneStage!FTimes(f[i], B[e][k])) ELSE B[i][k]
    <3>1. i \in OneStage!Row /\ k \in D /\ e \in OneStage!Row /\ E \subseteq OneStage!Row
            /\ f \in [E -> OneStage!F]
      BY <1>1, <1>3
    <3>. HIDE DEF D
    <3>. QED BY ONLY <1>5, <3>1, FusedAt
  <2>2. B[e][k] = IF k = e THEN OneStage!One ELSE OneStage!Zero
    <3>1. StartsAt(A[e], e)  OBVIOUS
    <3>2. k < e => A[e][k] = OneStage!Zero  BY <3>1 DEF StartsAt
    <3>3. A[e][e] = OneStage!One  BY <3>1 DEF StartsAt
    <3>. QED BY <1>0, <1>4, <3>2, <3>3
  <2>3. CASE i \in E
    <3>1. i < e /\ f[i] = A[i][e] /\ f[i] \in OneStage!F  BY <1>0, <1>3, <2>3
    <3>2. CASE k = e
      <4>1. B[i][k] = f[i] /\ C[i][k] = OneStage!Zero  BY <1>0, <1>4, <3>1, <3>2
      <4>2. OneStage!FPlus(f[i], OneStage!FTimes(f[i], OneStage!One)) = OneStage!Zero
        <5>1. OneStage!FTimes(f[i], OneStage!One) = f[i]
                /\ OneStage!FPlus(f[i], f[i]) = OneStage!Zero
          BY <3>1, FourNothing
        <5>. QED BY <5>1
      <4>. QED BY <1>0, <2>1, <2>2, <2>3, <3>2, <4>1, <4>2
    <3>3. CASE k # e
      <4>1. B[i][k] \in OneStage!F /\ C[i][k] = B[i][k]
        <5>1. B[i][k] \in OneStage!F  BY <1>1, <1>5 DEF Slabs
        <5>. QED BY <1>0, <1>4, <3>1, <3>3, <5>1
      <4>2. OneStage!FPlus(B[i][k], OneStage!FTimes(f[i], OneStage!Zero)) = B[i][k]
        <5>1. OneStage!FTimes(f[i], OneStage!Zero) = OneStage!Zero
                /\ OneStage!FPlus(B[i][k], OneStage!Zero) = B[i][k]
          BY <3>1, <4>1, FourNothing
        <5>. QED BY <5>1
      <4>. QED BY <1>0, <2>1, <2>2, <2>3, <3>3, <4>1, <4>2
    <3>. QED BY <3>2, <3>3
  <2>4. CASE i \notin E
    <3>1. G[i][k] = B[i][k]  BY <1>0, <2>1, <2>4
    <3>2. CASE k = e /\ k > i
      <4>1. A[i][e] = OneStage!Zero  BY <1>0, <1>3, <2>4, <3>2
      <4>. QED BY <1>0, <1>4, <3>1, <3>2, <4>1
    <3>3. CASE ~(k = e /\ k > i)  BY <1>0, <1>4, <3>1, <3>3
    <3>. QED BY <3>2, <3>3
  <2>. QED BY <2>3, <2>4
<1>8. G = C
  <2>1. ASSUME NEW i \in D PROVE G[i] = C[i]
    <3>1. G[i] \in [D -> OneStage!F] /\ C[i] \in [D -> OneStage!F]
      BY <1>1, <1>5, <1>6 DEF Slabs
    <3>2. \A k \in D : G[i][k] = C[i][k]  BY <1>7
    <3>. HIDE DEF G, D
    <3>. QED BY <3>1, <3>2, SameFunction
  <2>2. G = [i \in D |-> G[i]] /\ C = [i \in D |-> C[i]]  BY <1>1, <1>5, <1>6 DEF Slabs
  <2>. QED BY <2>1, <2>2
<1>. QED BY <1>0, <1>3, <1>8 DEF B, C

OneInv ==
  /\ SystemOk /\ OneStage!TypeInv
  /\ phase = "eliminate" => Eliminated
  /\ phase = "back" => Backed
  /\ OneStage!ReplaySolves /\ OneStage!DecodedSatisfiesRows /\ OneStage!FailsOnlyUndetermined

\* A system has a column at least.
LEMMA GivenShape ==
  ASSUME OneStage!ShapesAssumption, SystemOk
  PROVE  Given
BY DEF OneStage!ShapesAssumption, SystemOk, Given

-----------------------------------------------------------------------------
(* The start.                                                              *)

\* The systems at the start, with symbols that follow their rows or are zero.
LEMMA StartSystem ==
  ASSUME OneStage!ShapesAssumption, OneStage!Init
  PROVE  Given /\ (~OneStage!symbols_are_zero => Follows(received, matrix))
<1>1. shape \in OneStageShapes /\ kind \in OneStage!Kinds
        /\ (kind = "triangular" => shape.height = shape.n)
  BY DEF OneStage!Init
<1>2. shape.n \in Nat \ {0} /\ shape.height \in Nat
        /\ shape.rows \subseteq [0 .. shape.n - 1 -> OneStage!F]
  BY <1>1 DEF OneStage!ShapesAssumption
<1>3. matrix \in [OneStage!Row -> shape.rows]  BY DEF OneStage!Init
<1>4. matrix \in Grid
  <2>. PICK X, Y : X = shape.rows /\ Y = [0 .. shape.n - 1 -> OneStage!F]  OBVIOUS
  <2>1. X \subseteq Y /\ matrix \in [OneStage!Row -> X]  BY <1>2, <1>3
  <2>2. matrix \in [OneStage!Row -> Y]  BY ONLY <2>1
  <2>. QED BY <2>2 DEF Grid, Slabs
<1>5. PICK zero \in BOOLEAN, wrong \in {shape.height} \cup OneStage!Row :
        /\ zero => kind \in OneStage!Recording
        /\ received = [i \in OneStage!Row |-> IF zero THEN OneStage!VZero(0 .. shape.n)
                                     ELSE OneStage!Symbol(matrix[i],
                                         IF i = wrong THEN OneStage!One ELSE OneStage!Zero)]
  BY DEF OneStage!Init
<1>6. OneStage!Zero \in OneStage!F /\ OneStage!One \in OneStage!F  BY FourTypes
<1>7. ASSUME NEW i \in OneStage!Row, NEW e \in OneStage!F
      PROVE  /\ OneStage!Symbol(matrix[i], e) \in [0 .. shape.n -> OneStage!F]
             /\ \A j \in 0 .. shape.n - 1 : OneStage!Symbol(matrix[i], e)[j] = matrix[i][j]
  <2>1. \A j \in 0 .. shape.n - 1 : matrix[i][j] \in OneStage!F  BY <1>4 DEF Grid, Slabs
  <2>2. \A j \in 0 .. shape.n : j < shape.n => j \in 0 .. shape.n - 1  BY <1>2
  <2>3. \A j \in 0 .. shape.n - 1 : j < shape.n /\ j \in 0 .. shape.n  BY <1>2
  <2>. QED BY <2>1, <2>2, <2>3 DEF OneStage!Symbol
<1>8. OneStage!VZero(0 .. shape.n) \in [0 .. shape.n -> OneStage!F]  BY <1>6 DEF OneStage!VZero
<1>9. received \in Bank
  <2>1. \A i \in OneStage!Row :
          OneStage!Symbol(matrix[i], IF i = wrong THEN OneStage!One ELSE OneStage!Zero)
              \in [0 .. shape.n -> OneStage!F]
    BY <1>6, <1>7
  <2>2. PICK X : X = [0 .. shape.n -> OneStage!F]  OBVIOUS
  <2>3. received \in [OneStage!Row -> X]
    <3>1. \A i \in OneStage!Row : (IF zero THEN OneStage!VZero(0 .. shape.n)
                          ELSE OneStage!Symbol(matrix[i],
                              IF i = wrong THEN OneStage!One ELSE OneStage!Zero)) \in X
      BY <1>8, <2>1, <2>2
    <3>. QED BY <1>5, <3>1
  <2>. QED BY <2>2, <2>3 DEF Bank, Slabs
<1>10. ASSUME ~OneStage!symbols_are_zero PROVE Follows(received, matrix)
  <2>1. ~zero  BY <1>5, <1>10 DEF OneStage!symbols_are_zero
  <2>2. \A i \in OneStage!Row : received[i]
          = OneStage!Symbol(matrix[i], IF i = wrong THEN OneStage!One ELSE OneStage!Zero)
    BY <1>5, <2>1
  <2>3. \A i \in OneStage!Row, j \in 0 .. shape.n - 1 : received[i][j] = matrix[i][j]
    BY <1>6, <1>7, <2>2
  <2>. QED BY <2>3 DEF Follows
<1>11. SystemOk  BY <1>1, <1>4, <1>9 DEF SystemOk
<1>. QED BY <1>2, <1>10, <1>11 DEF Given

\* The symbols of the matrix follow it.
LEMMA FormalsFollow ==
  ASSUME Given
  PROVE  Formals \in Bank /\ Follows(Formals, matrix)
<1>1. shape.n \in Nat \ {0} /\ matrix \in Grid  BY DEF Given, SystemOk
<1>2. OneStage!Zero \in OneStage!F  BY FourTypes
<1>3. ASSUME NEW i \in OneStage!Row
      PROVE  OneStage!Formal(i) \in [0 .. shape.n -> OneStage!F]
               /\ \A j \in 0 .. shape.n - 1 : OneStage!Formal(i)[j] = matrix[i][j]
  <2>1. \A j \in 0 .. shape.n - 1 : matrix[i][j] \in OneStage!F  BY <1>1 DEF Grid, Slabs
  <2>2. \A j \in 0 .. shape.n : j < shape.n => j \in 0 .. shape.n - 1  BY <1>1
  <2>3. \A j \in 0 .. shape.n - 1 : j < shape.n /\ j \in 0 .. shape.n  BY <1>1
  <2>. QED BY <1>2, <2>1, <2>2, <2>3 DEF OneStage!Formal, OneStage!Symbol
<1>. QED BY <1>3 DEF Formals, Bank, Slabs, Follows

\* Nothing has been done yet.
LEMMA StartEliminated ==
  ASSUME OneStage!ShapesAssumption, OneStage!Init
  PROVE  Given /\ Eliminated
<1>1. Given /\ (~OneStage!symbols_are_zero => Follows(received, matrix))  BY StartSystem
<1>2. /\ rows = matrix /\ symbols = received /\ col = 0 /\ ops = <<>>
      /\ pivot_for_col = [j \in OneStage!Col |-> OneStage!NoPivot]
  BY DEF OneStage!Init
<1>3. shape.n \in Nat \ {0} /\ matrix \in Grid /\ received \in Bank  BY <1>1 DEF Given, SystemOk
<1>4. Carried(matrix, received)  BY <1>1, <1>3 DEF Carried
<1>5. Equivalent(matrix)  BY <1>3 DEF Equivalent
<1>6. Recorded(matrix, <<>>)
  <2>1. PICK z \in Bank : z = Formals /\ Follows(z, matrix)  BY <1>1, FormalsFollow
  <2>2. Reaches(<<>>, z, z)  BY ReachesStart
  <2>. QED BY <2>1, <2>2 DEF Recorded
<1>7. Linear(rows, symbols, ops)  BY <1>2, <1>4, <1>5, <1>6 DEF Linear
<1>8. Staged(rows, pivot_for_col, col)
  <2>1. pivot_for_col \in [0 .. shape.n - 1 -> OneStage!Row \cup {OneStage!NoPivot}]
    BY <1>2 DEF OneStage!Col
  <2>2. \A j \in col .. shape.n - 1 : pivot_for_col[j] = OneStage!NoPivot
    BY <1>2 DEF OneStage!Col
  <2>3. 0 .. col - 1 = {}  BY <1>2
  <2>. QED BY <2>1, <2>2, <2>3 DEF Staged
<1>9. col \in 0 .. shape.n  BY <1>2, <1>3
<1>. QED BY <1>1, <1>7, <1>8, <1>9 DEF Eliminated

\* Rows and symbols in elimination have their types.
LEMMA EliminatedTypes ==
  ASSUME Eliminated, phase = "eliminate"
  PROVE  OneStage!TypeInv
BY DEF Eliminated, Staged, Linear, Carried, Equivalent, Bank, Grid, Slabs, OneStage!TypeInv,
   OneStage!Col

\* The invariant holds at the start.
LEMMA OneStart ==
  ASSUME OneStage!ShapesAssumption, OneStage!Init
  PROVE  OneInv
<1>1. Given /\ Eliminated  BY StartEliminated
<1>2. phase = "eliminate"  BY DEF OneStage!Init
<1>3. OneStage!TypeInv  BY <1>1, <1>2, EliminatedTypes
<1>. QED BY <1>1, <1>2, <1>3
       DEF OneInv, Given, OneStage!ReplaySolves, OneStage!DecodedSatisfiesRows,
           OneStage!FailsOnlyUndetermined

-----------------------------------------------------------------------------
(* The steps.                                                              *)

\* The system stays as it was given.
LEMMA SystemSame ==
  ASSUME SystemOk, OneStage!system' = OneStage!system
  PROVE  SystemOk'
BY DEF SystemOk, OneStage!system, Grid, Bank, Slabs, OneStage!Row

\* A column is eliminated.
LEMMA EliminationKept ==
  ASSUME OneStage!ShapesAssumption, OneInv,
         \/ OneStage!SolveRecording \/ OneStage!SolveTriangular \/ OneStage!SolveScanFirst
            \/ OneStage!SolveScanLightest
         \/ OneStage!SolveBucketed \/ OneStage!SolveBinary
  PROVE  OneInv'
<1>1. Given /\ phase = "eliminate" /\ col < shape.n

    BY GivenShape DEF OneInv, OneStage!SolveRecording, OneStage!SolveTriangular,
       OneStage!SolveScanFirst, OneStage!SolveScanLightest,
     OneStage!SolveBucketed, OneStage!SolveBinary, OneStage!Eliminating
<1>2. Eliminated  BY <1>1 DEF OneInv
<1>3. /\ kind \in OneStage!Swapping
         => \E p \in OneStage!Pivots, cleared \in {OneStage!Below, OneStage!Row \ {col}} :
                                /\ kind = "record" => cleared = OneStage!Row \ {col}
                                /\ OneStage!EliminateWith(p, col, cleared)
      /\ kind \notin OneStage!Swapping
         => \E p \in OneStage!Pivots : OneStage!EliminateWith(p, p, OneStage!Bucket \ {p})

    BY DEF OneStage!SolveRecording, OneStage!SolveTriangular, OneStage!SolveScanFirst,
       OneStage!SolveScanLightest,
     OneStage!SolveBucketed, OneStage!SolveBinary, OneStage!Eliminating, OneStage!Swapping,
         OneStage!Recording
<1>4. Eliminated' /\ OneStage!system' = OneStage!system /\ phase' = phase
  <2>1. CASE kind \in OneStage!Swapping
    <3>1. PICK p \in OneStage!Pivots, cleared \in {OneStage!Below, OneStage!Row \ {col}} :
            /\ kind = "record" => cleared = OneStage!Row \ {col}
            /\ OneStage!EliminateWith(p, col, cleared)
      BY <1>3, <2>1
    <3>2. Eliminated'  BY <1>1, <1>2, <2>1, <3>1, SwappingGoesOn
    <3>. QED BY <3>1, <3>2 DEF OneStage!EliminateWith
  <2>2. CASE kind \notin OneStage!Swapping
    <3>1. PICK p \in OneStage!Pivots : OneStage!EliminateWith(p, p, OneStage!Bucket \ {p})
      BY <1>3, <2>2
    <3>2. Eliminated'  BY <1>1, <1>2, <2>2, <3>1, StayingGoesOn
    <3>. QED BY <3>1, <3>2 DEF OneStage!EliminateWith
  <2>. QED BY <2>1, <2>2
<1>5. phase' = "eliminate" /\ SystemOk'  BY <1>1, <1>4, SystemSame DEF Given
<1>6. OneStage!TypeInv'

    BY <1>4, <1>5 DEF Eliminated, Staged, Linear, Carried, Equivalent, Bank, Grid, Slabs,
       OneStage!TypeInv, OneStage!Col
<1>7. OneStage!ReplaySolves' /\ OneStage!DecodedSatisfiesRows'
        /\ OneStage!FailsOnlyUndetermined'

    BY <1>5 DEF OneStage!ReplaySolves, OneStage!DecodedSatisfiesRows,
       OneStage!FailsOnlyUndetermined
<1>8. (phase = "back" => Backed)'  BY <1>5
<1>. QED BY <1>4, <1>5, <1>6, <1>7, <1>8 DEF OneInv

\* No system with one solution.
Ambiguous ==
  ~(/\ \A v \in [OneStage!Col -> OneStage!F] : v # OneStage!VZero(OneStage!Col)
       => \E i \in OneStage!Row : OneStage!Dot(matrix[i], v) # OneStage!Zero
    /\ \E v \in [OneStage!Col -> OneStage!F] : \A i \in OneStage!Row :
       OneStage!Dot(matrix[i], v) = received[i][shape.n])

\* Whether a system has one solution is a matter of the system.
LEMMA AmbiguousSame ==
  ASSUME Ambiguous, OneStage!system' = OneStage!system
  PROVE  Ambiguous'
<1>1. shape' = shape /\ matrix' = matrix /\ received' = received  BY DEF OneStage!system
<1>. QED BY <1>1, DotSame DEF Ambiguous, OneStage!Col, OneStage!Row, OneStage!VZero

\* A routine gives up: the system has no single solution.
LEMMA FailureKept ==
  ASSUME OneStage!ShapesAssumption, OneInv, OneStage!Undetermined \/ OneStage!Inconsistent
  PROVE  OneInv'
<1>1. Given /\ phase = "eliminate" /\ Eliminated
  BY GivenShape DEF OneInv, OneStage!Undetermined, OneStage!Inconsistent
<1>2. Ambiguous
  <2>1. CASE OneStage!Undetermined
    <3>1. \E v \in Vec : v # OneStage!VZero(OneStage!Col) /\ Nulls(matrix, v)
      BY <1>1, <2>1, NoPivotUndetermined DEF OneStage!Undetermined
    <3>. QED BY <3>1 DEF Ambiguous, Vec, Nulls, OneStage!Col
  <2>2. CASE OneStage!Inconsistent
    <3>1. ~ \E v \in Vec : Fulfils(matrix, received, shape.n, v)
      BY <1>1, <2>2, LeftOverInconsistent DEF OneStage!Inconsistent
    <3>. QED BY <3>1 DEF Ambiguous, Vec, Fulfils, OneStage!Col
  <2>. QED BY <2>1, <2>2
<1>3. /\ OneStage!system' = OneStage!system /\ phase' = "failed"
      /\ UNCHANGED <<col, rows, symbols, pivot_for_col>>
  BY DEF OneStage!Undetermined, OneStage!Inconsistent
<1>4. SystemOk' /\ Ambiguous'  BY <1>1, <1>2, <1>3, SystemSame, AmbiguousSame DEF Given
<1>5. OneStage!TypeInv'
  BY <1>3 DEF OneInv, OneStage!TypeInv, OneStage!system, OneStage!Row, OneStage!Col,
     OneStage!NoPivot
<1>6. OneStage!ReplaySolves' /\ OneStage!DecodedSatisfiesRows'
        /\ OneStage!FailsOnlyUndetermined'

    BY <1>3, <1>4 DEF OneStage!ReplaySolves, OneStage!DecodedSatisfiesRows,
       OneStage!FailsOnlyUndetermined, Ambiguous
<1>7. (phase = "eliminate" => Eliminated)' /\ (phase = "back" => Backed)'  BY <1>3
<1>. QED BY <1>4, <1>5, <1>6, <1>7 DEF OneInv

\* What the decoded columns must satisfy, and the replay.
RowsSatisfied(x0) == \A i \in OneStage!Row : OneStage!Combination(matrix[i], x0, shape.n)
    = received[i]
Replays == \A j \in OneStage!Col : OneStage!RowCoefficients(OneStage!Replayed(Formals)[j])
    = OneStage!VUnit(OneStage!Col, j)

\* Whether columns satisfy the rows is a matter of the system.
LEMMA SatisfiedSame ==
  ASSUME OneStage!system' = OneStage!system, NEW x0, RowsSatisfied(x0)
  PROVE  RowsSatisfied(x0)'
<1>1. shape' = shape /\ matrix' = matrix /\ received' = received  BY DEF OneStage!system
<1>. QED BY <1>1 DEF RowsSatisfied, OneStage!Row

\* Whether the operations are the solution is a matter of system and operations.
LEMMA ReplaysSame ==
  ASSUME OneStage!system' = OneStage!system, ops' = ops, Replays
  PROVE  Replays'
<1>1. shape' = shape /\ matrix' = matrix  BY DEF OneStage!system
<1>2. ASSUME NEW s PROVE OneStage!Replayed(s)' = OneStage!Replayed(s)

    BY DEF OneStage!Replayed, OneStage!perform_op, OneStage!swap, OneStage!scale,
       OneStage!fused_add_batch, OneStage!VPlus, OneStage!VTimes
<1>3. Formals' = Formals  BY <1>1 DEF Formals, OneStage!Formal, OneStage!Symbol, OneStage!Row
<1>4. ASSUME NEW s PROVE OneStage!RowCoefficients(s)' = OneStage!RowCoefficients(s)
  BY <1>1 DEF OneStage!RowCoefficients, OneStage!Col
<1>5. OneStage!Col' = OneStage!Col  BY <1>1 DEF OneStage!Col
<1>. QED BY <1>2, <1>3, <1>4, <1>5 DEF Replays

\* The elimination comes to its end.
LEMMA FinishKept ==
  ASSUME OneStage!ShapesAssumption, OneInv, OneStage!Finish
  PROVE  OneInv'
<1>1. Given /\ phase = "eliminate" /\ Eliminated /\ col = shape.n /\ OneStage!LeftOverRowsFit
  BY GivenShape DEF OneInv, OneStage!Finish
<1>2. /\ OneStage!system' = OneStage!system
         /\ phase' = IF kind = "triangular" THEN "back" ELSE "decoded"
      /\ UNCHANGED <<col, rows, symbols, pivot_for_col, ops>>
      /\ kind = "record" => decoded' = [j \in OneStage!Col |-> symbols[j]]
      /\ kind \notin OneStage!Recording => decoded' = OneStage!Substituted
  BY DEF OneStage!Finish, OneStage!Recording
<1>3. SystemOk'  BY <1>1, <1>2, SystemSame DEF Given
<1>4. OneStage!TypeInv'
  BY <1>2 DEF OneInv, OneStage!TypeInv, OneStage!system, OneStage!Row, OneStage!Col,
     OneStage!NoPivot
<1>5. PICK A, s, o, w : A = rows /\ s = symbols /\ o = ops /\ w = pivot_for_col  OBVIOUS
<1>6. Linear(A, s, o) /\ Staged(A, w, shape.n) /\ A \in Grid
  BY <1>1, <1>5 DEF Eliminated, Linear, Equivalent
<1>7. (phase = "back" => Backed)'
  <2>. SUFFICES ASSUME kind = "triangular" PROVE Backed'  BY <1>2
  <2>1. ClearedBehind(A, shape.n) = A  BY <1>1, <1>6, NothingCleared DEF Given
  <2>2. PICK size : size = shape.n  OBVIOUS
  <2>3. shape' = shape /\ kind' = kind  BY <1>2 DEF OneStage!system
  <2>4. (ClearedBehind(rows, col) = A)'
    BY <1>1, <1>2, <1>5, <2>1, <2>3 DEF ClearedBehind, OneStage!Row
  <2>5. Linear(A, s, o)'  BY <1>2, <1>6, LinearSame
  <2>6. Linear(ClearedBehind(rows, col), symbols, ops)'  BY <1>2, <1>5, <2>4, <2>5
  <2>7. Staged(A, w, size)'
    BY <1>6, <2>2, <2>3 DEF Staged, Unpivoted, OneStage!Row, OneStage!NoPivot, StartsAt, Vec
  <2>8. Staged(rows, pivot_for_col, shape.n)'  BY <1>2, <1>5, <2>2, <2>3, <2>7
  <2>9. col' \in 0 .. shape'.n /\ kind' = "triangular"  BY <1>1, <1>2, <2>3 DEF Eliminated
  <2>. QED BY <2>6, <2>8, <2>9 DEF Backed
<1>8. (phase = "eliminate" => Eliminated)' /\ OneStage!FailsOnlyUndetermined'
  BY <1>2 DEF OneStage!FailsOnlyUndetermined
<1>9. OneStage!DecodedSatisfiesRows'
  <2>1. OneStage!symbols_are_zero' = OneStage!symbols_are_zero  BY <1>2, ZeroSame
  <2>. SUFFICES ASSUME kind # "triangular",
         ~OneStage!symbols_are_zero PROVE RowsSatisfied(decoded)'
    BY <1>2, <2>1 DEF OneStage!DecodedSatisfiesRows, RowsSatisfied
  <2>2. PICK x0 : x0 = decoded'  OBVIOUS
  <2>3. RowsSatisfied(x0)
    <3>1. CASE kind = "record"
      <4>1. Solved(A, s)  BY <1>1, <1>5, <3>1, RecordSolved
      <4>2. \A i \in OneStage!Row :
              OneStage!Combination(matrix[i], [j \in OneStage!Col |-> s[j]], shape.n)
                  = received[i]
        BY <1>1, <1>6, <4>1, SolvedFits
      <4>. QED BY <1>2, <1>5, <2>2, <3>1, <4>2 DEF RowsSatisfied
    <3>2. CASE kind \notin OneStage!Recording
      <4>1. \A i \in OneStage!Row :
              OneStage!Combination(matrix[i], OneStage!Substituted, shape.n) = received[i]
        BY <1>1, SubstitutedFits
      <4>. QED BY <1>2, <2>2, <3>2, <4>1 DEF RowsSatisfied
    <3>. QED BY <3>1, <3>2 DEF OneStage!Recording
  <2>4. RowsSatisfied(x0)'  BY <1>2, <2>3, SatisfiedSame
  <2>. QED BY <2>2, <2>4
<1>10. OneStage!ReplaySolves'
  <2>0. kind' = kind  BY <1>2 DEF OneStage!system
  <2>. SUFFICES ASSUME kind = "record" PROVE Replays'
    BY <1>2, <2>0 DEF OneStage!ReplaySolves, Replays, Formals, OneStage!Recording
  <2>1. Solved(A, s)  BY <1>1, <1>5, RecordSolved
  <2>2. Replays  BY <1>1, <1>5, <1>6, <2>1, SolvedReplays DEF Replays, OneStage!Recording
  <2>. QED BY <1>2, <2>2, ReplaysSame
<1>. QED BY <1>3, <1>4, <1>7, <1>8, <1>9, <1>10 DEF OneInv

\* One column more is taken out of the rows before it.
LEMMA BackSubstituteKept ==
  ASSUME OneStage!ShapesAssumption, OneInv, OneStage!BackSubstitute
  PROVE  OneInv'
<1>1. Given /\ phase = "back" /\ Backed /\ OneStage!TypeInv
  BY GivenShape DEF OneInv, OneStage!BackSubstitute
<1>2. PICK A, s, o, w, m : A = rows /\ s = symbols /\ o = ops /\ w = pivot_for_col
        /\ m = col  OBVIOUS
<1>3. PICK f : f = OneStage!BackSubstitutionBatch(col - 1)  OBVIOUS
<1>4. /\ OneStage!system' = OneStage!system /\ phase' = phase /\ rows' = A /\ pivot_for_col' = w
         /\ col' = m - 1
      /\ symbols' = IF OneStage!symbols_are_zero THEN s ELSE OneStage!fused_add_batch(s, m - 1,
         f)
      /\ ops' = o \o OneStage!FusedAddOps(m - 1, f)
  BY <1>2, <1>3 DEF OneStage!BackSubstitute
<1>5. /\ shape.n \in Nat \ {0} /\ shape.height = shape.n /\ m \in 1 .. shape.n /\ A \in Grid
      /\ kind \in OneStage!Recording /\ kind = "triangular" /\ Staged(A, w, shape.n)
      /\ Linear(ClearedBehind(A, m), s, o)

    BY <1>1, <1>2 DEF Given, SystemOk, Backed, OneStage!BackSubstitute, OneStage!ColumnsRemain,
       OneStage!TypeInv, Grid, Slabs,
       OneStage!Col, OneStage!Recording
<1>6. \A j \in 0 .. shape.n - 1 : StartsAt(A[j], j)
  BY <1>5 DEF Staged, OneStage!Swapping
<1>7. PICK E : E = {j \in 0 .. m - 2 : A[j][m - 1] # OneStage!Zero}  OBVIOUS
<1>8. f = [j \in E |-> A[j][m - 1]]
  <2>1. (m - 1) - 1 = m - 2  BY <1>5
  <2>. QED BY <1>2, <1>3, <1>7, <2>1 DEF OneStage!BackSubstitutionBatch
<1>9. /\ m - 1 \in OneStage!Row /\ E \subseteq OneStage!Row /\ m - 1 \notin E
         /\ f \in [E -> OneStage!F]
      /\ OneStage!fused_add_batch(ClearedBehind(A, m), m - 1, f) = ClearedBehind(A, m - 1)
  <2>1. shape.n \in Nat \ {0} /\ shape.height = shape.n /\ A \in Grid /\ m \in 1 .. shape.n
    BY <1>5
  <2>2. ColumnTaken(A, m, E, f)  BY <1>7, <1>8 DEF ColumnTaken
  <2>. QED BY <1>6, <2>1, <2>2, ColumnTakenOut
<1>10. PICK B, t, q : /\ B = ClearedBehind(A, m - 1)
                      /\ t = IF OneStage!symbols_are_zero THEN s ELSE OneStage!fused_add_batch(s,
                         m - 1, f)
                      /\ q = o \o OneStage!FusedAddOps(m - 1, f)
  OBVIOUS
<1>11. Linear(B, t, q)
  <2>1. PICK C : C = ClearedBehind(A, m)  OBVIOUS
  <2>2. PICK at \in OneStage!Row : at = m - 1 /\ at \notin E  BY <1>9
  <2>3. Linear(C, s, o)  BY <1>5, <2>1
  <2>4. Linear(OneStage!fused_add_batch(C, at, f),
               IF OneStage!symbols_are_zero THEN s ELSE OneStage!fused_add_batch(s, at, f),
               o \o OneStage!FusedAddOps(at, f))
    BY <1>5, <1>9, <2>2, <2>3, FusedLinear
  <2>. QED BY <1>9, <1>10, <2>1, <2>2, <2>4
<1>12. shape' = shape /\ kind' = kind  BY <1>4 DEF OneStage!system
<1>13. Backed'
  <2>1. (ClearedBehind(rows, col) = B)'  BY <1>4, <1>10, <1>12 DEF ClearedBehind, OneStage!Row
  <2>2. Linear(B, t, q)'  BY <1>4, <1>11, LinearSame
  <2>3. Linear(ClearedBehind(rows, col), symbols, ops)'  BY <1>4, <1>10, <2>1, <2>2
  <2>4. PICK size : size = shape.n  OBVIOUS
  <2>5. Staged(A, w, size)'
    BY <1>5, <2>4, <1>12 DEF Staged, Unpivoted, OneStage!Row, OneStage!NoPivot, StartsAt, Vec
  <2>6. Staged(rows, pivot_for_col, shape.n)'  BY <1>4, <1>12, <2>4, <2>5
  <2>7. col' \in 0 .. shape'.n /\ kind' = "triangular"  BY <1>4, <1>5, <1>12
  <2>. QED BY <2>3, <2>6, <2>7 DEF Backed
<1>14. SystemOk'  BY <1>1, <1>4, SystemSame DEF Given
<1>15. OneStage!TypeInv'
  <2>1. t \in Bank  BY <1>11 DEF Linear, Carried
  <2>2. symbols' \in [OneStage!Row -> [0 .. shape.n -> OneStage!F]]
    BY <1>4, <1>10, <2>1 DEF Bank, Slabs
  <2>3. col' \in 0 .. shape.n  BY <1>4, <1>5
  <2>4. phase' \in {"eliminate", "back", "decoded", "failed"}  BY <1>1, <1>4
  <2>. QED BY <1>1, <1>2, <1>4, <1>12, <2>2, <2>3, <2>4 DEF OneStage!TypeInv, OneStage!Row,
         OneStage!Col, OneStage!NoPivot
<1>16. OneStage!ReplaySolves' /\ OneStage!DecodedSatisfiesRows'
         /\ OneStage!FailsOnlyUndetermined' /\ (phase = "eliminate" => Eliminated)'

    BY <1>1, <1>4 DEF OneStage!ReplaySolves, OneStage!DecodedSatisfiesRows,
       OneStage!FailsOnlyUndetermined
<1>. QED BY <1>13, <1>14, <1>15, <1>16 DEF OneInv

\* All columns are taken out.
LEMMA AnswerKept ==
  ASSUME OneStage!ShapesAssumption, OneInv, OneStage!AnswerTriangular
  PROVE  OneInv'
<1>1. Given /\ phase = "back" /\ Backed /\ OneStage!TypeInv /\ col = 0
  BY GivenShape DEF OneInv, OneStage!AnswerTriangular
<1>2. /\ OneStage!system' = OneStage!system /\ phase' = "decoded"
      /\ UNCHANGED <<col, rows, symbols, pivot_for_col, ops>>
      /\ decoded' = [j \in OneStage!Col |-> symbols[j]]
  BY DEF OneStage!AnswerTriangular
<1>3. PICK A, s, o : A = ClearedBehind(rows, col) /\ s = symbols /\ o = ops  OBVIOUS
<1>4. Linear(A, s, o) /\ Solved(A, s) /\ kind \in OneStage!Recording
  BY <1>1, <1>3, BackSolved DEF Backed, OneStage!Recording
<1>5. SystemOk'  BY <1>1, <1>2, SystemSame DEF Given
<1>6. OneStage!TypeInv'
  BY <1>1, <1>2 DEF OneStage!TypeInv, OneStage!system, OneStage!Row, OneStage!Col,
     OneStage!NoPivot
<1>7. OneStage!DecodedSatisfiesRows'
  <2>1. OneStage!symbols_are_zero' = OneStage!symbols_are_zero  BY <1>2, ZeroSame
  <2>. SUFFICES ASSUME ~OneStage!symbols_are_zero PROVE RowsSatisfied(decoded)'
    BY <2>1 DEF OneStage!DecodedSatisfiesRows, RowsSatisfied
  <2>2. PICK x0 : x0 = decoded'  OBVIOUS
  <2>3. RowsSatisfied(x0)
    <3>1. \A i \in OneStage!Row :
            OneStage!Combination(matrix[i], [j \in OneStage!Col |-> s[j]], shape.n)
                = received[i]
      BY <1>1, <1>4, SolvedFits
    <3>. QED BY <1>2, <1>3, <2>2, <3>1 DEF RowsSatisfied
  <2>4. RowsSatisfied(x0)'  BY <1>2, <2>3, SatisfiedSame
  <2>. QED BY <2>2, <2>4
<1>8. OneStage!ReplaySolves'
  <2>1. Replays  BY <1>1, <1>3, <1>4, SolvedReplays DEF Replays
  <2>2. Replays'  BY <1>2, <2>1, ReplaysSame
  <2>. QED BY <2>2 DEF OneStage!ReplaySolves, Replays, Formals
<1>9. OneStage!FailsOnlyUndetermined' /\ (phase = "eliminate" => Eliminated)'
        /\ (phase = "back" => Backed)'
  BY <1>2 DEF OneStage!FailsOnlyUndetermined
<1>. QED BY <1>5, <1>6, <1>7, <1>8, <1>9 DEF OneInv

\* Nothing happens.
LEMMA OneStutter ==
  ASSUME OneStage!ShapesAssumption, OneInv, UNCHANGED OneStage!vars
  PROVE  OneInv'
<1>1. /\ OneStage!system' = OneStage!system
      /\ UNCHANGED <<phase, col, rows, symbols, pivot_for_col, ops, decoded>>
  BY DEF OneStage!vars, OneStage!system
<1>2. shape' = shape /\ kind' = kind  BY <1>1 DEF OneStage!system
<1>3. SystemOk'  BY <1>1, SystemSame DEF OneInv
<1>4. OneStage!TypeInv'
  BY <1>1, <1>2 DEF OneInv, OneStage!TypeInv, OneStage!Row, OneStage!Col, OneStage!NoPivot
<1>5. (phase = "eliminate" => Eliminated)'
  <2>. SUFFICES ASSUME phase = "eliminate" PROVE Eliminated'  BY <1>1
  <2>1. PICK A, s, o, w, m : A = rows /\ s = symbols /\ o = ops /\ w = pivot_for_col
          /\ m = col  OBVIOUS
  <2>2. Staged(A, w, m) /\ Linear(A, s, o) /\ m \in 0 .. shape.n  BY <2>1 DEF OneInv, Eliminated
  <2>3. Staged(rows, pivot_for_col, col)'  BY <1>1, <2>1, <2>2, PlacedMoves
  <2>4. Linear(rows, symbols, ops)'  BY <1>1, <2>1, <2>2, LinearMoves
  <2>. QED BY <1>1, <1>2, <2>1, <2>2, <2>3, <2>4 DEF Eliminated
<1>6. (phase = "back" => Backed)'
  <2>. SUFFICES ASSUME phase = "back" PROVE Backed'  BY <1>1
  <2>1. PICK B, s, o, w, size, A : /\ B = ClearedBehind(rows, col) /\ s = symbols /\ o = ops
                                /\ w = pivot_for_col /\ size = shape.n /\ A = rows
    OBVIOUS
  <2>2. Staged(A, w, size) /\ Linear(B, s, o) /\ kind = "triangular" /\ col \in 0 .. shape.n
    BY <2>1 DEF OneInv, Backed
  <2>3. Staged(A, w, size)'
    BY <1>2, <2>2 DEF Staged, Unpivoted, OneStage!Row, OneStage!NoPivot, StartsAt, Vec
  <2>4. Staged(rows, pivot_for_col, shape.n)'  BY <1>1, <1>2, <2>1, <2>3
  <2>5. Linear(B, s, o)'  BY <1>1, <2>2, LinearSame
  <2>6. (ClearedBehind(rows, col) = B)'  BY <1>1, <1>2, <2>1 DEF ClearedBehind, OneStage!Row
  <2>7. Linear(ClearedBehind(rows, col), symbols, ops)'  BY <1>1, <2>1, <2>5, <2>6
  <2>. QED BY <1>1, <1>2, <2>2, <2>4, <2>7 DEF Backed
<1>7. OneStage!DecodedSatisfiesRows'
  <2>1. OneStage!symbols_are_zero' = OneStage!symbols_are_zero  BY <1>1, ZeroSame
  <2>. SUFFICES ASSUME phase = "decoded",
         ~OneStage!symbols_are_zero PROVE RowsSatisfied(decoded)'
    BY <1>1, <2>1 DEF OneStage!DecodedSatisfiesRows, RowsSatisfied
  <2>2. PICK x0 : x0 = decoded  OBVIOUS
  <2>3. RowsSatisfied(x0)  BY <2>2 DEF OneInv, OneStage!DecodedSatisfiesRows, RowsSatisfied
  <2>4. RowsSatisfied(x0)'  BY <1>1, <2>3, SatisfiedSame
  <2>. QED BY <1>1, <2>2, <2>4
<1>8. OneStage!ReplaySolves'
  <2>. SUFFICES ASSUME phase = "decoded", kind \in OneStage!Recording PROVE Replays'
    BY <1>1, <1>2 DEF OneStage!ReplaySolves, Replays, Formals, OneStage!Recording
  <2>1. Replays  BY DEF OneInv, OneStage!ReplaySolves, Replays, Formals
  <2>. QED BY <1>1, <2>1, ReplaysSame
<1>9. OneStage!FailsOnlyUndetermined'
  <2>. SUFFICES ASSUME phase = "failed" PROVE Ambiguous'
    BY <1>1 DEF OneStage!FailsOnlyUndetermined, Ambiguous
  <2>1. Ambiguous  BY DEF OneInv, OneStage!FailsOnlyUndetermined, Ambiguous
  <2>. QED BY <1>1, <2>1, AmbiguousSame
<1>. QED BY <1>3, <1>4, <1>5, <1>6, <1>7, <1>8, <1>9 DEF OneInv

\* Every step keeps the invariant.
LEMMA OneKept ==
  ASSUME OneStage!ShapesAssumption, OneInv, [OneStage!Next]_(OneStage!vars)
  PROVE  OneInv'
BY EliminationKept, FailureKept, FinishKept, BackSubstituteKept, AnswerKept, OneStutter
   DEF OneStage!Next, OneStage!Answered

\* What the invariant says of rows and symbols in elimination.
LEMMA OneSays ==
  ASSUME OneStage!ShapesAssumption, OneInv
  PROVE  /\ OneStage!TypeInv /\ OneStage!SymbolsFollowRows /\ OneStage!PassedColumnsCleared
         /\ OneStage!ReplaySolves /\ OneStage!DecodedSatisfiesRows
            /\ OneStage!FailsOnlyUndetermined
<1>1. Given  BY GivenShape DEF OneInv
<1>2. ASSUME phase = "eliminate", ~OneStage!symbols_are_zero, NEW i \in OneStage!Row
      PROVE  OneStage!RowCoefficients(symbols[i]) = rows[i]
  <2>1. Eliminated  BY <1>2 DEF OneInv
  <2>2. \A j \in 0 .. shape.n - 1 : symbols[i][j] = rows[i][j]
    BY <1>2, <2>1 DEF Eliminated, Linear, Carried, Follows
  <2>3. rows[i] \in [0 .. shape.n - 1 -> OneStage!F]
    BY <2>1 DEF Eliminated, Linear, Equivalent, Grid, Slabs
  <2>. QED BY <2>2, <2>3 DEF OneStage!RowCoefficients, OneStage!Col
<1>3. ASSUME phase = "eliminate", NEW i \in OneStage!Row \ OneStage!Pivoted,
        NEW j \in OneStage!Support(rows[i]) PROVE j >= col
  <2>1. Eliminated  BY <1>3 DEF OneInv
  <2>2. i \in Unpivoted(pivot_for_col, col)  BY <1>1, <2>1, FreeIs DEF Given
  <2>3. \A k \in 0 .. col - 1 : rows[i][k] = OneStage!Zero  BY <2>1, <2>2 DEF Eliminated, Staged
  <2>4. rows[i] \in [0 .. shape.n - 1 -> OneStage!F] /\ col \in 0 .. shape.n
    BY <2>1 DEF Eliminated, Linear, Equivalent, Grid, Slabs
  <2>5. j \in 0 .. shape.n - 1 /\ rows[i][j] # OneStage!Zero  BY <2>4 DEF OneStage!Support
  <2>6. shape.n \in Nat  BY <1>1 DEF Given
  <2>7. j \notin 0 .. col - 1  BY <2>3, <2>5
  <2>. QED BY <2>4, <2>5, <2>6, <2>7
<1>. QED BY <1>2, <1>3 DEF OneInv, OneStage!SymbolsFollowRows, OneStage!PassedColumnsCleared

-----------------------------------------------------------------------------
(* All of them.                                                            *)

\* Whichever runs keeps its own invariant.
RoutinesInv ==
  /\ subject = "OneStage" => OneInv
  /\ subject = "Batches" => BatchesInv
  /\ subject = "Ops" => OpsInv
  /\ subject = "Kernels" => KernelsInv

\* Every step of a behaviour keeps the invariants.
LEMMA RoutinesKept ==
  /\ Init => RoutinesInv
  /\ RoutinesInv /\ [Next]_vars => RoutinesInv'
<1>. USE RoutinesAssumption
<1>1. Init => RoutinesInv
  <2>1. CASE subject = "Batches" /\ Batches!Init  BY <2>1, BatchesInit DEF RoutinesInv
  <2>2. CASE subject = "Ops" /\ Ops!Init  BY <2>2, OpsInit DEF RoutinesInv
  <2>3. CASE subject = "Kernels" /\ Kernels!Init  BY <2>3, KernelsInit DEF RoutinesInv
  <2>4. CASE subject = "Octets"  BY <2>4 DEF RoutinesInv
  <2>5. CASE subject = "OneStage" /\ OneStage!Init
    BY <2>5, OneStart DEF RoutinesInv, RoutinesAssumption
  <2>. QED BY <2>1, <2>2, <2>3, <2>4, <2>5 DEF Init
<1>2. ASSUME RoutinesInv, [Next]_vars PROVE RoutinesInv'
  <2>1. CASE BatchesStep
    <3>1. subject = "Batches" /\ subject' = "Batches" /\ Batches!Next  BY <2>1 DEF BatchesStep
    <3>2. BatchesInv'  BY <1>2, <3>1, BatchesNext DEF RoutinesInv
    <3>. QED BY <3>1, <3>2 DEF RoutinesInv
  <2>2. CASE OpsStep
    <3>1. subject = "Ops" /\ subject' = "Ops" /\ Ops!Next  BY <2>2 DEF OpsStep
    <3>2. OpsInv'  BY <1>2, <3>1, OpsNext DEF RoutinesInv
    <3>. QED BY <3>1, <3>2 DEF RoutinesInv
  <2>3. CASE KernelsStep
    <3>1. subject = "Kernels" /\ subject' = "Kernels" /\ Kernels!Next  BY <2>3 DEF KernelsStep
    <3>2. KernelsInv'  BY <1>2, <3>1, KernelsNext DEF RoutinesInv
    <3>. QED BY <3>1, <3>2 DEF RoutinesInv
  <2>4. CASE OctetsStep
    <3>1. subject = "Octets" /\ subject' = "Octets"  BY <2>4 DEF OctetsStep
    <3>. QED BY <3>1 DEF RoutinesInv
  <2>5. CASE OneStageStep
    <3>1. subject = "OneStage" /\ subject' = "OneStage" /\ OneStage!Next  BY <2>5 DEF OneStageStep
    <3>2. OneInv'  BY <1>2, <3>1, OneKept DEF RoutinesInv, RoutinesAssumption
    <3>. QED BY <3>1, <3>2 DEF RoutinesInv
  <2>6. CASE UNCHANGED vars
    <3>1. subject' = subject  BY <2>6 DEF vars
    <3>2. subject = "Batches" => BatchesInv'
      <4>1. UNCHANGED Batches!vars  BY <2>6 DEF vars, Batches!vars
      <4>. QED BY <1>2, <4>1, BatchesNext DEF RoutinesInv
    <3>3. subject = "Ops" => OpsInv'
      <4>1. UNCHANGED Ops!vars  BY <2>6 DEF vars, Ops!vars
      <4>. QED BY <1>2, <4>1, OpsNext DEF RoutinesInv
    <3>4. subject = "Kernels" => KernelsInv'
      <4>1. UNCHANGED Kernels!vars  BY <2>6 DEF vars, Kernels!vars
      <4>. QED BY <1>2, <4>1, KernelsNext DEF RoutinesInv
    <3>5. subject = "OneStage" => OneInv'
      <4>1. UNCHANGED OneStage!vars  BY <2>6 DEF vars, OneStage!vars
      <4>. QED BY <1>2, <4>1, OneKept DEF RoutinesInv, RoutinesAssumption
    <3>. QED BY <3>1, <3>2, <3>3, <3>4, <3>5 DEF RoutinesInv
  <2>. QED BY <1>2, <2>1, <2>2, <2>3, <2>4, <2>5, <2>6 DEF Next
<1>. QED BY <1>1, <1>2

\* Adding symbols in batches of any widths, to lists of any length, leaves the
\* slab as single additions do, and no entry over: pi_solver.rs' batch routines.
THEOREM BatchesCorrect == Spec => []BatchesEqualSingles
<1>1. RoutinesInv => BatchesEqualSingles
  BY RoutinesAssumption, BatchesAnswers DEF RoutinesInv, BatchesEqualSingles
<1>. QED BY <1>1, RoutinesKept, PTL DEF Spec

\* Batches of a plan with any destinations, kernels of any widths and slabs of
\* any size: a finished batch is its additions in order, and an assertion stops
\* it exactly if one of them is to its own source (operation_vector.rs).
THEOREM PlanBatchesCorrect == Spec => []BatchIsAdditions
<1>1. RoutinesInv => BatchIsAdditions
  BY RoutinesAssumption, OpsAnswers DEF RoutinesInv, BatchIsAdditions
<1>. QED BY <1>1, RoutinesKept, PTL DEF Spec

\* Slices and vectors of any length, columns of any coefficients: the loops of
\* octets.rs stay inside and update each byte once and with its own factor.
THEOREM KernelsCorrect == Spec => []EachByteOnce
<1>1. RoutinesInv => EachByteOnce
  BY RoutinesAssumption, KernelsAnswers DEF RoutinesInv, EachByteOnce
<1>. QED BY <1>1, RoutinesKept, PTL DEF Spec

\* Wherever the byte lies that is not zero, the tests of octets.rs find it.
THEOREM TestsCorrect == Spec => []VerdictIsRight
<1>1. RoutinesInv => VerdictIsRight
  BY RoutinesAssumption, KernelsAnswers DEF RoutinesInv, VerdictIsRight
<1>. QED BY <1>1, RoutinesKept, PTL DEF Spec

\* Systems of any number of rows and columns, and each of the six ways: symbols
\* follow their rows, passed columns are cleared, what is recorded, on zeros or
\* on symbols, gives the columns when it is replayed, what is decoded satisfies
\* all rows, and a system is given up only when it has no single solution
\* (pi_solver.rs 8063-8749).
THEOREM OneStageCorrect == Spec => []OneStageFindsTheSolution
<1>1. ASSUME RoutinesInv PROVE OneStageFindsTheSolution
  <2>1. OneStage!ShapesAssumption  BY RoutinesAssumption DEF RoutinesAssumption
  <2>. QED BY <1>1, <2>1, OneSays DEF RoutinesInv, OneStageFindsTheSolution
<1>. QED BY <1>1, RoutinesKept, PTL DEF Spec
=============================================================================
