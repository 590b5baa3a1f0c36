--------------------- MODULE EliminationRoutinesProofs ----------------------
(***************************************************************************)
(* What elimination works with, for any number of rows and columns.  The   *)
(* steps of a behaviour are those of one part, and so is the invariant.    *)
(***************************************************************************)
EXTENDS MCEliminationRoutines, SequenceTheorems, FiniteSetTheorems,
        WellFoundedInduction, TLAPS

-----------------------------------------------------------------------------
(* Induction and recursion over the natural numbers, stated with sets and  *)
(* functions: the library's induction theorems take an operator as a       *)
(* parameter, which the provers cannot instantiate.                        *)

\* A set of numbers has a least member.
LEMMA LeastNumber ==
  ASSUME NEW T, T \subseteq Nat, T # {}
  PROVE  \E p \in T : \A q \in T : p <= q
<1>1. PICK p \in T : \A q \in T : ~(<<q, p>> \in OpToRel(<, Nat))
  BY WFMin, NatLessThanWellFounded
<1>2. \A q \in T : ~(q < p)  BY <1>1 DEF OpToRel
<1>. QED BY <1>2

\* Induction over the numbers: a set that holds 0 and with n also n + 1 holds
\* them all.
LEMMA SetInduction ==
  ASSUME NEW P, 0 \in P, \A n \in Nat : n \in P => n + 1 \in P
  PROVE  \A n \in Nat : n \in P
<1>. DEFINE T == {n \in Nat : n \notin P}
<1>. SUFFICES ASSUME T # {} PROVE FALSE  OBVIOUS
<1>1. PICK p \in T : \A q \in T : p <= q  BY LeastNumber
<1>2. p # 0  OBVIOUS
<1>3. p - 1 \in Nat /\ p - 1 \notin T  BY <1>1, <1>2
<1>4. (p - 1) + 1 \in P  BY <1>3
<1>. QED BY <1>4

\* f starts with base, and step e makes f[e] of f[e - 1] by G.
Recurs(f, X, base, n, G) ==
  f \in [0 .. n -> X] /\ f[0] = base /\ \A e \in 1 .. n : f[e] = G[<<e, f[e - 1]>>]

\* Functions that agree everywhere are equal.
LEMMA SameFunction ==
  ASSUME NEW S, NEW T, NEW f, NEW g, f \in [S -> T], g \in [S -> T], \A p \in S : f[p] = g[p]
  PROVE  f = g
OBVIOUS

\* Recursion over 0 .. n has a solution.
LEMMA Recursion ==
  ASSUME NEW X, NEW base, NEW n, NEW G, base \in X, n \in Nat, G \in [(1 .. n) \X X -> X]
  PROVE  \E f : Recurs(f, X, base, n, G)
<1>. DEFINE Good(m, f) == f[0] = base /\ \A e \in 1 .. m : f[e] = G[<<e, f[e - 1]>>]
            P == {m \in Nat : m <= n => \E f \in [0 .. m -> X] : Good(m, f)}
<1>1. 0 \in P
  <2>1. [e \in 0 .. 0 |-> base] \in [0 .. 0 -> X] /\ Good(0, [e \in 0 .. 0 |-> base])  OBVIOUS
  <2>. QED BY <2>1
<1>2. ASSUME NEW m \in Nat, m \in P PROVE m + 1 \in P
  <2>. SUFFICES ASSUME m + 1 <= n PROVE \E f \in [0 .. m + 1 -> X] : Good(m + 1, f)  OBVIOUS
  <2>1. PICK f \in [0 .. m -> X] : Good(m, f)  BY <1>2
  <2>. DEFINE g == [e \in 0 .. m + 1 |-> IF e = m + 1 THEN G[<<m + 1, f[m]>>] ELSE f[e]]
  <2>2. <<m + 1, f[m]>> \in (1 .. n) \X X  BY <2>1
  <2>3. g \in [0 .. m + 1 -> X]  BY <2>1, <2>2
  <2>4. g[0] = base  BY <2>1
  <2>5. ASSUME NEW e \in 1 .. m + 1 PROVE g[e] = G[<<e, g[e - 1]>>]
    <3>1. CASE e = m + 1
      <4>1. e - 1 = m /\ g[e - 1] = f[m] /\ g[e] = G[<<m + 1, f[m]>>]  BY <3>1
      <4>. QED BY <3>1, <4>1
    <3>2. CASE e # m + 1
      <4>1. e \in 1 .. m /\ g[e] = f[e] /\ g[e - 1] = f[e - 1]  BY <3>2
      <4>. QED BY <2>1, <4>1
    <3>. QED BY <3>1, <3>2
  <2>. QED BY <2>3, <2>4, <2>5
<1>. HIDE DEF P
<1>3. n \in P  BY <1>1, <1>2, SetInduction
<1>. QED BY <1>3 DEF P, Recurs

-----------------------------------------------------------------------------
(* Moving the symbols of the pivots.                                       *)

\* A sequence with one more element, index by index.
LEMMA AppendTo ==
  ASSUME NEW T, NEW q \in Seq(T), NEW x \in T
  PROVE  /\ Append(q, x) \in Seq(T) /\ Len(Append(q, x)) = Len(q) + 1 /\ Len(q) \in Nat
         /\ \A k \in 1 .. Len(q) : Append(q, x)[k] = q[k]
         /\ Append(q, x)[Len(q) + 1] = x
OBVIOUS

\* The columns without a pivot are listed once.
LEMMA FreeListed ==
  ASSUME NEW D, MoveWidth \in Nat, NEW p, DOMAIN p = D
  PROVE  LET q == Moves!FreeColumns(p) IN
         /\ q \in Seq(Moves!Place \ D)
         /\ \A k, m \in 1 .. Len(q) : q[k] = q[m] => k = m
<1>. DEFINE X == Seq(Moves!Place \ D)
            Eqn(f) == f = [n \in 0 .. MoveWidth |->
                             IF n = 0 THEN <<>>
                             ELSE IF n - 1 \in DOMAIN p THEN f[n - 1]
                               ELSE Append(f[n - 1], n - 1)]
            u == CHOOSE f : Eqn(f)
            G == [y \in (1 .. MoveWidth) \X X |-> IF y[1] - 1 \in D THEN y[2]
              ELSE Append(y[2], y[1] - 1)]
<1>0. Moves!FreeColumns(p) = u[MoveWidth]  BY DEF Moves!FreeColumns
<1>1. G \in [(1 .. MoveWidth) \X X -> X]
  <2>1. ASSUME NEW n \in 1 .. MoveWidth, NEW q \in X PROVE G[<<n, q>>] \in X
    <3>1. CASE n - 1 \in D  BY <3>1
    <3>2. CASE n - 1 \notin D
      <4>1. n - 1 \in Moves!Place \ D  BY <3>2 DEF Moves!Place
      <4>2. Append(q, n - 1) \in X  BY <4>1, AppendTo
      <4>. QED BY <3>2, <4>2
    <3>. QED BY <3>1, <3>2
  <2>2. \A y \in (1 .. MoveWidth) \X X : y = <<y[1], y[2]>> /\ y[1] \in 1 .. MoveWidth
        /\ y[2] \in X  OBVIOUS
  <2>. HIDE DEF X
  <2>3. \A y \in (1 .. MoveWidth) \X X : G[y] \in X  BY <2>1, <2>2
  <2>4. G = [y \in (1 .. MoveWidth) \X X |-> G[y]]  OBVIOUS
  <2>. HIDE DEF G
  <2>. QED BY <2>3, <2>4
<1>2. <<>> \in X  OBVIOUS
<1>3. PICK f : Recurs(f, X, <<>>, MoveWidth, G)  BY <1>1, <1>2, Recursion
<1>4. \A n \in 1 .. MoveWidth : f[n] = IF n - 1 \in D THEN f[n - 1] ELSE Append(f[n - 1], n - 1)
  <2>. TAKE n \in 1 .. MoveWidth
  <2>1. n - 1 \in 0 .. MoveWidth  OBVIOUS
  <2>2. f[n - 1] \in X  BY <1>3, <2>1 DEF Recurs
  <2>3. f[n] = G[<<n, f[n - 1]>>]  BY <1>3 DEF Recurs
  <2>. QED BY <2>2, <2>3
<1>5. Eqn(f)
  <2>1. f = [n \in 0 .. MoveWidth |-> f[n]] /\ f[0] = <<>>  BY <1>3 DEF Recurs
  <2>2. \A n \in 0 .. MoveWidth : n # 0 => n \in 1 .. MoveWidth  OBVIOUS
  <2>. QED BY <2>1, <2>2, <1>4
<1>6. Eqn(u)  BY <1>5
<1>. HIDE DEF u
<1>7. u[0] = <<>>
      /\ \A n \in 1 .. MoveWidth : u[n] = IF n - 1 \in D THEN u[n - 1]
           ELSE Append(u[n - 1], n - 1)
  <2>. DEFINE V(g, n) == IF n = 0 THEN <<>>
                         ELSE IF n - 1 \in DOMAIN p THEN g[n - 1] ELSE Append(g[n - 1], n - 1)
  <2>1. \A n \in 0 .. MoveWidth : u[n] = V(u, n)
    <3>1. u = [n \in 0 .. MoveWidth |-> V(u, n)]  BY <1>6
    <3>. HIDE DEF V
    <3>. QED BY <3>1
  <2>2. 0 \in 0 .. MoveWidth /\ \A n \in 1 .. MoveWidth : n # 0 /\ n \in 0 .. MoveWidth  OBVIOUS
  <2>. QED BY <2>1, <2>2
<1>. HIDE DEF Eqn, X
<1>. DEFINE Good(n) == /\ u[n] \in Seq(Moves!Place \ D)
                       /\ \A k \in 1 .. Len(u[n]) : u[n][k] < n
                       /\ \A k, m \in 1 .. Len(u[n]) : u[n][k] = u[n][m] => k = m
            P == {n \in Nat : n <= MoveWidth => Good(n)}
<1>8. 0 \in P
  <2>1. <<>> \in Seq(Moves!Place \ D) /\ Len(<<>>) = 0  OBVIOUS
  <2>2. u[0] = <<>>  BY <1>7
  <2>3. Good(0)
    <3>. HIDE DEF u
    <3>1. \A k \in 1 .. Len(u[0]) : FALSE  BY <2>1, <2>2
    <3>. QED BY <2>1, <2>2, <3>1
  <2>. QED BY <2>3
<1>9. ASSUME NEW n \in Nat, n \in P PROVE n + 1 \in P
  <2>. SUFFICES ASSUME n + 1 <= MoveWidth PROVE Good(n + 1)  OBVIOUS
  <2>1. n + 1 \in 1 .. MoveWidth /\ (n + 1) - 1 = n /\ Good(n)  BY <1>9
  <2>2. u[n + 1] = IF n \in D THEN u[n] ELSE Append(u[n], n)  BY <1>7, <2>1
  <2>. DEFINE q == u[n]
  <2>3. q \in Seq(Moves!Place \ D) /\ Len(q) \in Nat /\ \A k \in 1 .. Len(q) : q[k] \in Nat
    BY <2>1 DEF Moves!Place
  <2>4. CASE n \in D  BY <2>1, <2>2, <2>3, <2>4
  <2>5. CASE n \notin D
    <3>1. n \in Moves!Place \ D  BY <2>1, <2>5 DEF Moves!Place
    <3>. DEFINE r == Append(q, n)
    <3>2. /\ r \in Seq(Moves!Place \ D) /\ Len(r) = Len(q) + 1
          /\ \A k \in 1 .. Len(q) : r[k] = q[k]
          /\ r[Len(q) + 1] = n
      BY <2>3, <3>1, AppendTo
    <3>3. u[n + 1] = r  BY <2>2, <2>5
    <3>4. \A k \in 1 .. Len(q) : q[k] < n  BY <2>1
    <3>5. \A k, m \in 1 .. Len(q) : q[k] = q[m] => k = m  BY <2>1
    <3>. HIDE DEF q, r
    <3>6. \A k \in 1 .. Len(r) : k \in 1 .. Len(q) \/ k = Len(q) + 1  BY <3>2, <2>3
    <3>7. \A k \in 1 .. Len(r) : r[k] < n + 1  BY <3>2, <3>4, <3>6, <2>3
    <3>8. \A k, m \in 1 .. Len(r) : r[k] = r[m] => k = m
      BY <3>2, <3>4, <3>5, <3>6, <2>3
    <3>. QED BY <3>2, <3>3, <3>7, <3>8
  <2>. QED BY <2>4, <2>5
<1>. HIDE DEF P
<1>10. MoveWidth \in P  BY <1>8, <1>9, SetInduction
<1>. QED BY <1>0, <1>10 DEF P

\* The binary rows' symbols lie outside of the HDPC places.
LEMMA MappedRows ==
  ASSUME Moves!MovesAssumption, NEW r \in Moves!BinaryRow
  PROVE  Moves!mapped_binary_symbol_row(r, MoveLdpc,
           MoveHdpc) \in Moves!Place \ (MoveLdpc .. MoveLdpc + MoveHdpc - 1)
BY DEF Moves!MovesAssumption, Moves!BinaryRow, Moves!Place, Moves!mapped_binary_symbol_row

\* Destinations are columns, and no two symbols have one.
DestOk(f) ==
  /\ f \in [Moves!Place -> Moves!Place \cup {None}]
  /\ \A x, y \in Moves!Place : f[x] = f[y] /\ f[x] # None => x = y

\* The direct plan gives places to columns, none of them twice.
LEMMA DirectOk ==
  ASSUME Moves!MovesAssumption, NEW p \in Moves!Pivotings(Moves!BinaryRow)
  PROVE  /\ DestOk(Moves!DirectDestinations(p))
         /\ \A x \in Moves!Place : Moves!DirectDestinations(p)[x] \in DOMAIN p \cup {None}
         /\ DOMAIN p \subseteq Moves!Place
<1>1. PICK cols \in SUBSET Moves!Place : p \in [cols -> Moves!BinaryRow]
  BY DEF Moves!Pivotings, Moves!Injections
<1>. DEFINE At(c) == Moves!mapped_binary_symbol_row(p[c], MoveLdpc, MoveHdpc)
            f == Moves!DirectDestinations(p)
<1>2. f = [x \in Moves!Place |-> IF \E c \in cols : At(c) = x
        THEN CHOOSE c \in cols : At(c) = x ELSE None]
  BY <1>1 DEF Moves!DirectDestinations
<1>. HIDE DEF f, At
<1>3. ASSUME NEW x \in Moves!Place PROVE f[x] = None \/ (f[x] \in cols /\ At(f[x]) = x)
  <2>. DEFINE c0 == CHOOSE c \in cols : At(c) = x
  <2>1. CASE \E c \in cols : At(c) = x
    <3>1. c0 \in cols /\ At(c0) = x  BY <2>1
    <3>2. f[x] = c0  BY <1>2, <2>1
    <3>. QED BY <3>1, <3>2
  <2>2. CASE ~ \E c \in cols : At(c) = x
    <3>1. f[x] = IF \E c \in cols : At(c) = x THEN c0 ELSE None  BY <1>2
    <3>. HIDE DEF c0
    <3>2. f[x] = None  BY <2>2, <3>1
    <3>. QED BY <3>2
  <2>. QED BY <2>1, <2>2
<1>4. f \in [Moves!Place -> Moves!Place \cup {None}]  BY <1>2, <1>3
<1>5. \A x, y \in Moves!Place : f[x] = f[y] /\ f[x] # None => x = y  BY <1>3
<1>. QED BY <1>1, <1>3, <1>4, <1>5 DEF DestOk, f

\* So does the square plan, as injections between equal sets are onto.
LEMMA SquareOk ==
  ASSUME Moves!MovesAssumption, NEW p \in Moves!Injections(Moves!Place, Moves!Place)
  PROVE  DestOk(Moves!SquareDestinations(p))
<1>1. p \in [Moves!Place -> Moves!Place] /\ \A x, y \in Moves!Place : x # y => p[x] # p[y]
  BY DEF Moves!Injections, Moves!Injective
<1>2. IsFiniteSet(Moves!Place)  BY FS_Interval DEF Moves!Place, Moves!MovesAssumption
<1>3. p \in Injection(Moves!Place, Moves!Place)  BY <1>1 DEF Injection, IsInjective
<1>4. p \in Surjection(Moves!Place, Moves!Place)  BY <1>2, <1>3, FS_Injection
<1>5. \A x \in Moves!Place : \E c \in Moves!Place : p[c] = x  BY <1>4 DEF Surjection
<1>. DEFINE f == Moves!SquareDestinations(p)
<1>6. f = [x \in Moves!Place |-> CHOOSE c \in Moves!Place : p[c] = x]
  BY DEF Moves!SquareDestinations
<1>. HIDE DEF f
<1>7. \A x \in Moves!Place : f[x] \in Moves!Place /\ p[f[x]] = x  BY <1>5, <1>6
<1>8. f \in [Moves!Place -> Moves!Place \cup {None}]  BY <1>6, <1>7
<1>. QED BY <1>7, <1>8 DEF DestOk, f

\* So does the hybrid plan: the free columns, in the HDPC places, have no binary
\* pivot, and the others keep theirs.
LEMMA HybridOk ==
  ASSUME Moves!MovesAssumption, NEW p \in Moves!Pivotings(Moves!BinaryRow)
  PROVE  DestOk(Moves!HybridDestinations(p, Moves!FreeColumns(p)))
<1>. DEFINE q == Moves!FreeColumns(p)
            g == Moves!DirectDestinations(p)
            f == Moves!HybridDestinations(p, q)
            Free == MoveLdpc .. MoveLdpc + Len(q) - 1
<1>1. DestOk(g) /\ (\A x \in Moves!Place : g[x] \in DOMAIN p \cup {None})
      /\ DOMAIN p \subseteq Moves!Place
  BY DirectOk
<1>2. q \in Seq(Moves!Place \ DOMAIN p) /\ \A k, m \in 1 .. Len(q) : q[k] = q[m] => k = m
  BY FreeListed DEF Moves!MovesAssumption
<1>3. f = [x \in Moves!Place |-> IF x \in Free THEN q[x - MoveLdpc + 1] ELSE g[x]]
  BY DEF Moves!HybridDestinations
<1>4. Len(q) \in Nat /\ MoveLdpc \in Nat /\ None \notin Moves!Place
  BY <1>2 DEF Moves!MovesAssumption, Moves!Place
<1>. HIDE DEF f, q, g
<1>5. ASSUME NEW x \in Moves!Place, x \in Free
      PROVE  x - MoveLdpc + 1 \in 1 .. Len(q) /\ f[x] = q[x - MoveLdpc + 1]
             /\ f[x] \in Moves!Place \ DOMAIN p
  <2>1. x - MoveLdpc + 1 \in 1 .. Len(q)  BY <1>4, <1>5 DEF Moves!Place
  <2>2. q[x - MoveLdpc + 1] \in Moves!Place \ DOMAIN p  BY <1>2, <2>1
  <2>. QED BY <2>1, <2>2, <1>3, <1>5
<1>6. \A x \in Moves!Place : x \notin Free => f[x] = g[x]  BY <1>3
<1>7. f \in [Moves!Place -> Moves!Place \cup {None}]
  <2>1. \A x \in Moves!Place : f[x] \in Moves!Place \cup {None}  BY <1>5, <1>6, <1>1 DEF DestOk
  <2>. QED BY <2>1, <1>3
<1>8. ASSUME NEW x \in Moves!Place, NEW y \in Moves!Place, f[x] = f[y], f[x] # None PROVE x = y
  <2>1. CASE x \in Free /\ y \in Free
    <3>1. x - MoveLdpc + 1 = y - MoveLdpc + 1  BY <1>2, <1>5, <1>8, <2>1
    <3>. QED BY <3>1, <1>4, <2>1
  <2>2. CASE x \in Free /\ y \notin Free  BY <1>1, <1>4, <1>5, <1>6, <1>8, <2>2
  <2>3. CASE x \notin Free /\ y \in Free  BY <1>1, <1>4, <1>5, <1>6, <1>8, <2>3
  <2>4. CASE x \notin Free /\ y \notin Free  BY <1>1, <1>6, <1>8, <2>4 DEF DestOk
  <2>. QED BY <2>1, <2>2, <2>3, <2>4
<1>. QED BY <1>7, <1>8 DEF DestOk, f, q

\* Each place of a move takes its symbol to the next.
Follows(w) == \A k \in 1 .. Len(w) - 1 : w[k + 1] = dest[w[k]]

\* Planned moves are of two places or more, share no place that a symbol is
\* taken from, leave alone what lies right, and end where no symbol is waited
\* for any more.
MovesOk ==
  /\ moves \in Seq(Seq(Moves!Place))
  /\ \A n \in 1 .. Len(moves) : Len(moves[n]) > 1 /\ Follows(moves[n])
  /\ \A n, m \in 1 .. Len(moves) : \A k \in 1 .. Len(moves[n]) - 1,
       j \in 1 .. Len(moves[m]) - 1 :
       moves[n][k] = moves[m][j] => n = m /\ k = j
  /\ \A n \in 1 .. Len(moves) : \A k \in 1 .. Len(moves[n]) - 1 :
       moves[n][k] \in visited /\ dest[moves[n][k]] # moves[n][k]
  /\ \A n \in 1 .. Len(moves) :
       moves[n][Len(moves[n])] \in Moves!Sources =>
         \E m \in 1 .. n : \E k \in 1 .. Len(moves[m]) - 1 : moves[m][k] =
           moves[n][Len(moves[n])]
  /\ Moves!Sources = Moves!Place =>
       \A n \in 1 .. Len(moves) : moves[n][Len(moves[n])] = moves[n][1]

\* The move being planned goes from symbol to symbol, none of which is moved
\* otherwise, and all that has been visited is moved or lies right.
WalkOk ==
  /\ walk \in Seq(Moves!Sources) /\ Follows(walk)
  /\ \A k, j \in 1 .. Len(walk) : walk[k] = walk[j] => k = j
  /\ \A k \in 1 .. Len(walk) :
       /\ walk[k] \in visited
       /\ \A n \in 1 .. Len(moves) : \A j \in 1 .. Len(moves[n]) - 1 : moves[n][j] # walk[k]
  /\ visited \subseteq Moves!Sources
  /\ \A v \in visited :
       \/ dest[v] = v
       \/ \E k \in 1 .. Len(walk) : walk[k] = v
       \/ \E n \in 1 .. Len(moves) : \E k \in 1 .. Len(moves[n]) - 1 : moves[n][k] = v

\* What is left to replay, after d moves and up to place a of the next.
Rest(d, a) ==
  /\ replay \in Seq(Seq(Moves!Place)) /\ Len(replay) = Len(moves) - d
  /\ \A k \in 2 .. Len(replay) : replay[k] = moves[d + k]
  /\ replay # <<>> => /\ a <= Len(moves[d + 1])
                      /\ Len(replay[1]) = Len(moves[d + 1]) - a + 1
                      /\ \A k \in 1 .. Len(replay[1]) : replay[1][k] = moves[d + 1][a - 1 + k]

\* What was passed is where it belongs, and the rest where it was.
Slabs(d, a) ==
  /\ \A n \in 1 .. Len(moves) : \A k \in 1 .. Len(moves[n]) - 1 :
       /\ n <= d \/ (n = d + 1 /\ k < a - 1) => symbols[moves[n][k + 1]] = moves[n][k]
       /\ n > d + 1 \/ (n = d + 1 /\ k >= a) => symbols[moves[n][k]] = moves[n][k]
  /\ \A s \in Moves!Sources : dest[s] = s => symbols[s] = s

\* Replay has run the first d moves and is at place a of the next.
ReplayedTo(d, a) ==
  /\ d \in 0 .. Len(moves) /\ a \in Nat \ {0}
  /\ a # 1 => replay # <<>>
  /\ Rest(d, a)
  /\ scratch = IF a = 1 THEN None ELSE moves[d + 1][a - 1]
  /\ Slabs(d, a)

\* Until replay begins, nothing is moved.
Walking ==
  /\ phase = "planning" /\ scratch = None /\ replay = <<>>
  /\ symbols = [place \in Moves!Place |-> place]
\* From then on nothing is planned, and some of the moves are replayed.
Replaying ==
  /\ phase = "replaying" /\ walk = <<>> /\ Moves!Sources \subseteq visited
  /\ \E d, a : ReplayedTo(d, a)

\* Types, moves that are planned right, and symbols that are where planning or
\* replay have left them.
MovesInv ==
  /\ DestOk(dest) /\ symbols \in [Moves!Place -> Moves!Place]
  /\ MovesOk /\ WalkOk
  /\ Walking \/ Replaying

\* A plan begins with nothing moved, and destinations that are columns.
LEMMA MovesInit ==
  ASSUME Moves!MovesAssumption, Moves!Init PROVE MovesInv
<1>1. DestOk(dest)
  BY DirectOk, SquareOk, HybridOk DEF Moves!Init
<1>2. symbols = [place \in Moves!Place |-> place]
      /\ symbols \in [Moves!Place -> Moves!Place] /\ Walking
  BY DEF Moves!Init, Walking
<1>3. moves = <<>> /\ walk = <<>> /\ visited = {}  BY DEF Moves!Init
<1>4. MovesOk  BY <1>3 DEF MovesOk
<1>5. WalkOk  BY <1>3 DEF WalkOk, Follows
<1>. QED BY <1>1, <1>2, <1>4, <1>5 DEF MovesInv

\* What the destinations of places are.
LEMMA SourcePlaces ==
  ASSUME Moves!MovesAssumption, DestOk(dest)
  PROVE  /\ Moves!Sources \subseteq Moves!Place /\ Moves!Place \subseteq Nat
         /\ None \notin Moves!Place
         /\ \A s \in Moves!Sources : dest[s] \in Moves!Place
         /\ \A s, t \in Moves!Sources : dest[s] = dest[t] => s = t
BY DEF Moves!Sources, Moves!Place, Moves!MovesAssumption, DestOk

\* A new move begins at a place that no other takes a symbol from.
LEMMA StartKeeps == ASSUME Moves!MovesAssumption, MovesInv, Moves!StartMove PROVE MovesInv'
<1>. DEFINE R == Moves!Sources \ visited
            s == Moves!Min(R)
<1>1. Moves!Sources \subseteq Moves!Place /\ Moves!Place \subseteq Nat
  BY SourcePlaces DEF MovesInv
<1>2. s \in R
  <2>1. R \subseteq Nat /\ R # {}  BY <1>1 DEF Moves!StartMove
  <2>. HIDE DEF R
  <2>2. \E x \in R : \A y \in R : x <= y  BY <2>1, LeastNumber
  <2>. QED BY <2>2 DEF Moves!Min
<1>. HIDE DEF s
<1>3. /\ walk' = <<s>> /\ visited' = visited \cup {s}
      /\ Walking /\ walk = <<>>
      /\ UNCHANGED <<kind, dest, moves, phase, replay, scratch, symbols>>
  BY DEF Moves!StartMove, s, Moves!Planning, MovesInv, Walking, Replaying
<1>4. Moves!Sources' = Moves!Sources  BY <1>3 DEF Moves!Sources
<1>5. DestOk(dest)' /\ symbols' \in [Moves!Place -> Moves!Place]  BY <1>3 DEF MovesInv, DestOk
<1>6. MovesOk'
  <2>1. MovesOk /\ UNCHANGED <<dest, moves>> /\ visited \subseteq visited'
    BY <1>3 DEF MovesInv
  <2>2. (\A n \in 1 .. Len(moves) : \A k \in 1 .. Len(moves[n]) - 1 :
           moves[n][k] \in visited /\ dest[moves[n][k]] # moves[n][k])'
    BY <2>1 DEF MovesOk
  <2>3. (\A n \in 1 .. Len(moves) : Len(moves[n]) > 1 /\ Follows(moves[n]))'
    BY <2>1 DEF MovesOk, Follows
  <2>4. (/\ moves \in Seq(Seq(Moves!Place))
         /\ \A n, m \in 1 .. Len(moves) :
              \A k \in 1 .. Len(moves[n]) - 1, j \in 1 .. Len(moves[m]) - 1 :
                moves[n][k] = moves[m][j] => n = m /\ k = j)'
    BY <2>1 DEF MovesOk
  <2>. DEFINE Ends(list, sources) ==
                /\ \A n \in 1 .. Len(list) :
                     list[n][Len(list[n])] \in sources =>
                       \E m \in 1 .. n : \E k \in 1 .. Len(list[m]) - 1 :
                         list[m][k] = list[n][Len(list[n])]
                /\ sources = Moves!Place =>
                     \A n \in 1 .. Len(list) : list[n][Len(list[n])] = list[n][1]
  <2>5. Ends(moves, Moves!Sources)  BY <2>1 DEF MovesOk
  <2>6. moves' = moves  BY <2>1
  <2>. HIDE DEF Ends
  <2>7. Ends(moves', Moves!Sources')  BY ONLY <1>4, <2>5, <2>6
  <2>. QED BY <2>2, <2>3, <2>4, <2>7 DEF MovesOk, Ends
<1>7. WalkOk'
  <2>1. walk' \in Seq(Moves!Sources) /\ Len(walk') = 1 /\ walk'[1] = s  BY <1>2, <1>3
  <2>2. \A k \in 1 .. Len(walk') : k = 1  BY <2>1
  <2>3. Follows(walk)'  BY <2>1 DEF Follows
  <2>4. \A n \in 1 .. Len(moves) : \A j \in 1 .. Len(moves[n]) - 1 : moves[n][j] # s
    BY <1>2 DEF MovesInv, MovesOk
  <2>5. visited' \subseteq Moves!Sources  BY <1>2, <1>3 DEF MovesInv, WalkOk
  <2>6. \A v \in visited :
          \/ dest[v] = v
          \/ \E n \in 1 .. Len(moves) : \E k \in 1 .. Len(moves[n]) - 1 : moves[n][k] = v
    BY <1>3 DEF MovesInv, WalkOk
  <2>7. \E k \in 1 .. Len(walk') : walk'[k] = s  BY <2>1
  <2>. QED BY <1>3, <1>4, <2>1, <2>2, <2>3, <2>4, <2>5, <2>6, <2>7 DEF WalkOk
<1>8. Walking'  BY <1>3 DEF Walking
<1>. QED BY <1>5, <1>6, <1>7, <1>8 DEF MovesInv

\* The walk and the place it is at.
LEMMA WalkEnd ==
  ASSUME Moves!MovesAssumption, MovesInv, walk # <<>>
  PROVE  /\ Len(walk) \in Nat \ {0}
         /\ Moves!Reached = walk[Len(walk)] /\ Moves!Reached \in Moves!Sources
         /\ dest[Moves!Reached] \in Moves!Place /\ dest[Moves!Reached] # None
<1>1. walk \in Seq(Moves!Sources)  BY DEF MovesInv, WalkOk
<1>2. Len(walk) \in Nat \ {0} /\ walk[Len(walk)] \in Moves!Sources  BY <1>1
<1>. QED BY <1>2, SourcePlaces DEF Moves!Reached, MovesInv

\* The walk goes on to a place that has not been visited.
LEMMA FollowKeeps == ASSUME Moves!MovesAssumption, MovesInv, Moves!FollowMove PROVE MovesInv'
<1>. DEFINE x == dest[Moves!Reached]
<1>1. /\ walk # <<>> /\ walk' = Append(walk, x) /\ visited' = visited \cup {x}
      /\ dest[x] # None /\ x \notin visited
      /\ Walking
      /\ UNCHANGED <<kind, dest, moves, phase, replay, scratch, symbols>>
  BY DEF Moves!FollowMove, Moves!Planning, Moves!WalkEnds, MovesInv, Walking, Replaying
<1>2. /\ Len(walk) \in Nat \ {0} /\ x \in Moves!Place /\ x = dest[walk[Len(walk)]]
  BY <1>1, WalkEnd
<1>3. x \in Moves!Sources  BY <1>1, <1>2 DEF Moves!Sources
<1>. HIDE DEF x
<1>4. Moves!Sources' = Moves!Sources  BY <1>1 DEF Moves!Sources
<1>5. DestOk(dest)' /\ symbols' \in [Moves!Place -> Moves!Place]  BY <1>1 DEF MovesInv, DestOk
<1>6. MovesOk'  BY <1>1, <1>4 DEF MovesInv, MovesOk, Follows
<1>7. WalkOk'
  <2>1. /\ walk' \in Seq(Moves!Sources) /\ Len(walk') = Len(walk) + 1
        /\ \A k \in 1 .. Len(walk) : walk'[k] = walk[k]
        /\ walk'[Len(walk) + 1] = x
    BY <1>1, <1>3, AppendTo DEF MovesInv, WalkOk
  <2>2. \A k \in 1 .. Len(walk') : k \in 1 .. Len(walk) \/ k = Len(walk) + 1  BY <1>2, <2>1
  <2>3. Follows(walk)'
    <3>1. ASSUME NEW k \in 1 .. Len(walk') - 1 PROVE walk'[k + 1] = dest[walk'[k]]
      <4>1. k \in 1 .. Len(walk)  BY <1>2, <2>1
      <4>2. CASE k = Len(walk)  BY <1>2, <2>1, <4>1, <4>2
      <4>3. CASE k # Len(walk)
        <5>1. k \in 1 .. Len(walk) - 1 /\ k + 1 \in 1 .. Len(walk)  BY <1>2, <4>1, <4>3
        <5>. QED BY <2>1, <4>1, <5>1 DEF MovesInv, WalkOk, Follows
      <4>. QED BY <4>2, <4>3
    <3>. QED BY <1>1, <3>1 DEF Follows
  <2>4. \A n \in 1 .. Len(moves) : \A j \in 1 .. Len(moves[n]) - 1 : moves[n][j] # x
    <3>1. x \notin visited  BY <1>1
    <3>2. \A n \in 1 .. Len(moves) : \A j \in 1 .. Len(moves[n]) - 1 : moves[n][j] \in visited
      BY DEF MovesInv, MovesOk
    <3>. QED BY <3>1, <3>2
  <2>5. \A k \in 1 .. Len(walk) : walk[k] # x  BY <1>1 DEF MovesInv, WalkOk
  <2>6. \A k, j \in 1 .. Len(walk') : walk'[k] = walk'[j] => k = j
    BY <2>1, <2>2, <2>5 DEF MovesInv, WalkOk
  <2>7. \A k \in 1 .. Len(walk') :
          /\ walk'[k] \in visited'
          /\ \A n \in 1 .. Len(moves) : \A j \in 1 .. Len(moves[n]) - 1 : moves[n][j] # walk'[k]
    BY <1>1, <2>1, <2>2, <2>4 DEF MovesInv, WalkOk
  <2>8. visited' \subseteq Moves!Sources  BY <1>1, <1>3 DEF MovesInv, WalkOk
  <2>9. \A k \in 1 .. Len(walk) : k \in 1 .. Len(walk') /\ walk'[k] = walk[k]  BY <1>2, <2>1
  <2>10. Len(walk) + 1 \in 1 .. Len(walk')  BY <1>2, <2>1
  <2>11. ASSUME NEW v \in visited'
         PROVE  \/ dest[v] = v
                \/ \E k \in 1 .. Len(walk') : walk'[k] = v
                \/ \E n \in 1 .. Len(moves) : \E k \in 1 .. Len(moves[n]) - 1 : moves[n][k] = v
    <3>1. CASE v = x  BY <2>1, <2>10, <3>1
    <3>2. CASE v \in visited  BY <2>9, <3>2 DEF MovesInv, WalkOk
    <3>. QED BY <1>1, <3>1, <3>2
  <2>. QED BY <1>1, <1>4, <2>1, <2>3, <2>6, <2>7, <2>8, <2>11 DEF WalkOk
<1>8. Walking'  BY <1>1 DEF Walking
<1>. QED BY <1>5, <1>6, <1>7, <1>8 DEF MovesInv

\* The move that ends is added to the others, unless it would move nothing.
LEMMA EndKeeps == ASSUME Moves!MovesAssumption, MovesInv, Moves!EndMove PROVE MovesInv'
<1>. DEFINE x == dest[Moves!Reached]
            N == Len(walk)
            mv == Append(walk, x)
<1>1. /\ walk # <<>> /\ walk' = <<>>
      /\ dest[x] = None \/ x \in visited
      /\ moves' = IF Moves!Trivial(mv) THEN moves ELSE Append(moves, mv)
      /\ Walking
      /\ UNCHANGED <<kind, dest, visited, phase, replay, scratch, symbols>>
    BY DEF Moves!EndMove, Moves!Planning, Moves!WalkEnds, MovesInv, Walking, Replaying,
       Moves!Closed
<1>2. /\ N \in Nat \ {0} /\ x \in Moves!Place /\ x = dest[walk[N]] /\ walk[N] \in Moves!Sources
  BY <1>1, WalkEnd
<1>3. /\ walk \in Seq(Moves!Sources) /\ Follows(walk)
      /\ \A k, j \in 1 .. N : walk[k] = walk[j] => k = j
      /\ \A k \in 1 .. N :
           /\ walk[k] \in visited
           /\ \A n \in 1 .. Len(moves) : \A j \in 1 .. Len(moves[n]) - 1 : moves[n][j] # walk[k]
      /\ visited \subseteq Moves!Sources
      /\ \A v \in visited :
           \/ dest[v] = v
           \/ \E k \in 1 .. N : walk[k] = v
           \/ \E n \in 1 .. Len(moves) : \E k \in 1 .. Len(moves[n]) - 1 : moves[n][k] = v
  BY DEF MovesInv, WalkOk
<1>4. /\ Moves!Sources \subseteq Moves!Place /\ None \notin Moves!Place
      /\ \A s \in Moves!Sources : dest[s] \in Moves!Place
      /\ \A s, t \in Moves!Sources : dest[s] = dest[t] => s = t
  BY SourcePlaces DEF MovesInv
<1>5. /\ mv \in Seq(Moves!Place) /\ Len(mv) = N + 1 /\ mv[N + 1] = x
      /\ \A k \in 1 .. N : mv[k] = walk[k]
  <2>1. walk \in Seq(Moves!Place)  BY <1>3, <1>4
  <2>. QED BY <2>1, <1>2, AppendTo
<1>. HIDE DEF x, mv, N
<1>6. Moves!Sources' = Moves!Sources  BY <1>1 DEF Moves!Sources
<1>7. DestOk(dest)' /\ symbols' \in [Moves!Place -> Moves!Place] /\ Walking'
  BY <1>1 DEF MovesInv, DestOk, Walking
<1>8. Follows(mv)
  <2>1. ASSUME NEW k \in 1 .. Len(mv) - 1 PROVE mv[k + 1] = dest[mv[k]]
    <3>1. k \in 1 .. N  BY <1>2, <1>5
    <3>2. CASE k = N  BY <1>2, <1>5, <3>1, <3>2
    <3>3. CASE k # N
      <4>1. k \in 1 .. N - 1 /\ k + 1 \in 1 .. N  BY <1>2, <3>1, <3>3
      <4>. QED BY <1>3, <1>5, <3>1, <4>1 DEF Follows, N
    <3>. QED BY <3>2, <3>3
  <2>. QED BY <2>1 DEF Follows
\* A walk of more than one place does not pass what lies right.
<1>9. \A k \in 1 .. N : dest[walk[k]] = walk[k] => Moves!Trivial(mv)
  <2>1. SUFFICES ASSUME NEW k \in 1 .. N, dest[walk[k]] = walk[k] PROVE Moves!Trivial(mv)
    OBVIOUS
  <2>4. SUFFICES N = 1  BY <1>2, <1>5, <2>1 DEF Moves!Trivial
  <2>2. CASE k = N /\ N # 1
    <3>1. N - 1 \in 1 .. N - 1 /\ N - 1 \in 1 .. N /\ (N - 1) + 1 = N  BY <1>2, <2>2
    <3>2. dest[walk[N - 1]] = walk[N] /\ walk[N - 1] \in Moves!Sources
      BY <1>3, <3>1 DEF Follows, N
    <3>3. walk[N - 1] = walk[N]  BY <1>2, <1>4, <2>1, <2>2, <3>2
    <3>. QED BY <1>2, <1>3, <3>1, <3>3
  <2>3. CASE k # N
    <3>1. k \in 1 .. N - 1 /\ k + 1 \in 1 .. N  BY <1>2, <2>3
    <3>2. dest[walk[k]] = walk[k + 1]  BY <1>3, <3>1 DEF Follows, N
    <3>3. walk[k + 1] = walk[k]  BY <2>1, <3>2
    <3>4. k + 1 = k  BY <1>3, <3>1, <3>3
    <3>. QED BY <3>4
  <2>. QED BY <2>2, <2>3
<1>10. CASE Moves!Trivial(mv)
  <2>1. moves' = moves  BY <1>1, <1>10
  <2>2. N = 1 /\ walk[1] = x /\ dest[x] = x
    <3>0. Len(mv) = 2  BY <1>10 DEF Moves!Trivial
    <3>2. Len(mv) = N + 1  BY <1>5
    <3>3. N \in Nat  BY <1>2
    <3>1. N = 1  BY <3>0, <3>2, <3>3
    <3>. QED BY <1>2, <1>5, <1>10, <3>1 DEF Moves!Trivial
  <2>3. MovesOk'  BY <1>1, <1>6, <2>1 DEF MovesInv, MovesOk, Follows
  <2>4. WalkOk'
    <3>1. \A v \in visited :
             \/ dest[v] = v
             \/ \E n \in 1 .. Len(moves) : \E k \in 1 .. Len(moves[n]) - 1 : moves[n][k] = v
      BY <1>3, <2>2
    <3>. QED BY <1>1, <1>3, <1>6, <2>1, <3>1 DEF WalkOk, Follows
  <2>. QED BY <1>7, <2>3, <2>4 DEF MovesInv
<1>11. CASE ~Moves!Trivial(mv)
  <2>. DEFINE M == Len(moves)
  <2>1. /\ moves' \in Seq(Seq(Moves!Place)) /\ Len(moves') = M + 1 /\ M \in Nat
        /\ \A n \in 1 .. M : moves'[n] = moves[n]
        /\ moves'[M + 1] = mv
    <3>1. moves \in Seq(Seq(Moves!Place)) /\ moves' = Append(moves, mv)
      BY <1>1, <1>11 DEF MovesInv, MovesOk
    <3>. QED BY <1>5, <3>1, AppendTo
  <2>. HIDE DEF M
  <2>2. \A n \in 1 .. M + 1 : n \in 1 .. M \/ n = M + 1  BY <2>1
  <2>3. \A n \in 1 .. M : Len(moves[n]) > 1 /\ Follows(moves[n])  BY DEF MovesInv, MovesOk, M
  <2>4. \A k \in 1 .. Len(mv) - 1 : k \in 1 .. N /\ mv[k] = walk[k]  BY <1>2, <1>5
  <2>5. \A n, m \in 1 .. M : \A k \in 1 .. Len(moves[n]) - 1, j \in 1 .. Len(moves[m]) - 1 :
          moves[n][k] = moves[m][j] => n = m /\ k = j
    BY DEF MovesInv, MovesOk, M
  <2>6. \A n \in 1 .. M : \A k \in 1 .. Len(moves[n]) - 1 :
          moves[n][k] \in visited /\ dest[moves[n][k]] # moves[n][k]
    BY DEF MovesInv, MovesOk, M
  <2>7. \A n \in 1 .. M + 1 : Len(moves'[n]) > 1 /\ Follows(moves'[n])
    <3>1. \A n \in 1 .. M : Len(moves'[n]) > 1 /\ Follows(moves'[n])  BY <2>1, <2>3
    <3>2. Len(moves'[M + 1]) > 1 /\ Follows(moves'[M + 1])  BY <1>2, <1>5, <1>8, <2>1
    <3>. QED BY ONLY <2>2, <3>1, <3>2
  <2>8. \A n, m \in 1 .. M + 1 : \A k \in 1 .. Len(moves'[n]) - 1,
          j \in 1 .. Len(moves'[m]) - 1 :
          moves'[n][k] = moves'[m][j] => n = m /\ k = j
    <3>. TAKE n, m \in 1 .. M + 1
    <3>. TAKE k \in 1 .. Len(moves'[n]) - 1, j \in 1 .. Len(moves'[m]) - 1
    <3>1. CASE n \in 1 .. M /\ m \in 1 .. M
      <4>1. moves'[n] = moves[n] /\ moves'[m] = moves[m]  BY <2>1, <3>1
      <4>2. k \in 1 .. Len(moves[n]) - 1 /\ j \in 1 .. Len(moves[m]) - 1  BY <4>1
      <4>3. moves[n][k] = moves[m][j] => n = m /\ k = j  BY <2>5, <3>1, <4>2
      <4>. QED BY <4>1, <4>3
    <3>2. CASE n = M + 1 /\ m \in 1 .. M
      <4>1. k \in 1 .. N /\ moves'[n][k] = walk[k]  BY <2>1, <2>4, <3>2
      <4>2. moves'[m] = moves[m] /\ j \in 1 .. Len(moves[m]) - 1  BY <2>1, <3>2
      <4>3. moves[m][j] # walk[k]  BY <1>3, <3>2, <4>1, <4>2 DEF M
      <4>. QED BY <4>1, <4>2, <4>3
    <3>3. CASE n \in 1 .. M /\ m = M + 1
      <4>1. j \in 1 .. N /\ moves'[m][j] = walk[j]  BY <2>1, <2>4, <3>3
      <4>2. moves'[n] = moves[n] /\ k \in 1 .. Len(moves[n]) - 1  BY <2>1, <3>3
      <4>3. moves[n][k] # walk[j]  BY <1>3, <3>3, <4>1, <4>2 DEF M
      <4>. QED BY <4>1, <4>2, <4>3
    <3>4. CASE n = M + 1 /\ m = M + 1
      <4>1. k \in 1 .. N /\ moves'[n][k] = walk[k]  BY <2>1, <2>4, <3>4
      <4>2. j \in 1 .. N /\ moves'[m][j] = walk[j]  BY <2>1, <2>4, <3>4
      <4>. QED BY <1>3, <3>4, <4>1, <4>2
    <3>. QED BY <2>2, <3>1, <3>2, <3>3, <3>4
  <2>9. \A n \in 1 .. M + 1 : \A k \in 1 .. Len(moves'[n]) - 1 :
          moves'[n][k] \in visited /\ dest[moves'[n][k]] # moves'[n][k]
    <3>1. \A k \in 1 .. Len(mv) - 1 : mv[k] \in visited /\ dest[mv[k]] # mv[k]
      BY <1>3, <1>9, <1>11, <2>4
    <3>2. \A n \in 1 .. M : \A k \in 1 .. Len(moves'[n]) - 1 :
            moves'[n][k] \in visited /\ dest[moves'[n][k]] # moves'[n][k]
      <4>. TAKE n \in 1 .. M
      <4>1. moves'[n] = moves[n]  BY <2>1
      <4>. QED BY <2>6, <4>1
    <3>3. \A k \in 1 .. Len(moves'[M + 1]) - 1 :
            moves'[M + 1][k] \in visited /\ dest[moves'[M + 1][k]] # moves'[M + 1][k]
      BY <2>1, <3>1
    <3>. QED BY <2>2, <3>2, <3>3
  <2>10. dest[x] # x
    <3>1. SUFFICES ASSUME dest[x] = x PROVE FALSE  OBVIOUS
    <3>2. x \in Moves!Sources  BY <1>2, <1>4, <3>1 DEF Moves!Sources
    <3>3. x = walk[N]  BY <1>2, <1>4, <3>1, <3>2
    <3>. QED BY <1>2, <1>9, <1>11, <3>1, <3>3
  <2>11. x \in Moves!Sources => x \in visited
    <3>1. dest[x] = None => x \notin Moves!Sources  BY DEF Moves!Sources
    <3>. QED BY <1>1, <3>1
  <2>12. ASSUME x \in Moves!Sources
         PROVE  \E m \in 1 .. M + 1 : \E k \in 1 .. Len(moves'[m]) - 1 : moves'[m][k] = x
    <3>1. CASE \E k \in 1 .. N : walk[k] = x
      <4>1. PICK k \in 1 .. N : walk[k] = x  BY <3>1
      <4>2. k \in 1 .. Len(moves'[M + 1]) - 1 /\ moves'[M + 1][k] = x /\ M + 1 \in 1 .. M + 1
        BY <1>2, <1>5, <2>1, <4>1
      <4>. QED BY <4>2
    <3>2. CASE \E n \in 1 .. M : \E k \in 1 .. Len(moves[n]) - 1 : moves[n][k] = x
      <4>1. \A n \in 1 .. M : n \in 1 .. M + 1  BY <2>1
      <4>. QED BY <2>1, <3>2, <4>1
    <3>. QED BY <1>3, <2>10, <2>11, <2>12, <3>1, <3>2 DEF M
  <2>13. ASSUME NEW n \in 1 .. M + 1, moves'[n][Len(moves'[n])] \in Moves!Sources
         PROVE  \E m \in 1 .. n : \E k \in 1 .. Len(moves'[m]) - 1 :
                  moves'[m][k] = moves'[n][Len(moves'[n])]
    <3>1. CASE n = M + 1
      <4>1. moves'[n][Len(moves'[n])] = x  BY <1>2, <1>5, <2>1, <3>1
      <4>. QED BY <2>12, <2>13, <3>1, <4>1
    <3>2. CASE n \in 1 .. M
      <4>1. PICK m \in 1 .. n : \E k \in 1 .. Len(moves[m]) - 1 : moves[m][k] =
              moves[n][Len(moves[n])]
        BY <2>1, <2>13, <3>2 DEF MovesInv, MovesOk, M
      <4>2. m \in 1 .. M  BY <2>1, <3>2
      <4>. QED BY <2>1, <3>2, <4>1, <4>2
    <3>. QED BY <2>2, <3>1, <3>2
  <2>14. ASSUME Moves!Sources = Moves!Place
         PROVE \A n \in 1 .. M + 1 : moves'[n][Len(moves'[n])] = moves'[n][1]
    <3>1. \A n \in 1 .. M : moves[n][Len(moves[n])] = moves[n][1]
      BY <2>14 DEF MovesInv, MovesOk, M
    <3>2. x = walk[1]
      <4>1. x \in Moves!Sources /\ x \in visited  BY <1>2, <2>11, <2>14
      <4>2. CASE \E k \in 1 .. N : walk[k] = x
        <5>1. PICK k \in 1 .. N : walk[k] = x  BY <4>2
        <5>2. SUFFICES ASSUME k # 1 PROVE FALSE  BY <5>1
        <5>3. k - 1 \in 1 .. N - 1 /\ k - 1 \in 1 .. N /\ (k - 1) + 1 = k  BY <1>2, <5>2
        <5>4. dest[walk[k - 1]] = x /\ walk[k - 1] \in Moves!Sources
          BY <1>3, <5>1, <5>3 DEF Follows, N
        <5>5. walk[k - 1] = walk[N]  BY <1>2, <1>4, <5>4
        <5>6. k - 1 = N  BY <1>2, <1>3, <5>3, <5>5
        <5>. QED BY <1>2, <5>3, <5>6
      <4>3. CASE \E n \in 1 .. M : \E k \in 1 .. Len(moves[n]) - 1 : moves[n][k] = x
        <5>0. PICK n \in 1 .. M : \E k \in 1 .. Len(moves[n]) - 1 : moves[n][k] = x  BY <4>3
        <5>1. PICK k \in 1 .. Len(moves[n]) - 1 : moves[n][k] = x  BY <5>0
        <5>. DEFINE L == Len(moves[n])
                    p == IF k = 1 THEN L - 1 ELSE k - 1
        <5>2. L \in Nat /\ L > 1 /\ moves[n] \in Seq(Moves!Place) /\ Follows(moves[n])
          BY DEF MovesInv, MovesOk, M
        <5>3. p \in 1 .. L - 1 /\ moves[n][p + 1] = x
          <6>1. CASE k = 1
            <7>1. p = L - 1 /\ p + 1 = L  BY <5>2, <6>1
            <7>2. moves[n][L] = x  BY <3>1, <5>1, <6>1
            <7>. QED BY <5>2, <7>1, <7>2
          <6>2. CASE k # 1  BY <5>1, <5>2, <6>2
          <6>. QED BY <6>1, <6>2
        <5>. HIDE DEF p
        <5>4. dest[moves[n][p]] = x  BY <5>2, <5>3 DEF Follows
        <5>5. moves[n][p] \in visited  BY <2>6, <5>3
        <5>6. moves[n][p] = walk[N]  BY <1>2, <1>3, <1>4, <5>4, <5>5
        <5>. QED BY <1>2, <1>3, <5>3, <5>6 DEF M
      <4>. QED BY <1>3, <2>10, <4>1, <4>2, <4>3 DEF M
    <3>3. mv[Len(mv)] = x /\ mv[1] = walk[1]  BY <1>2, <1>5
    <3>. QED BY <2>1, <2>2, <3>1, <3>2, <3>3
  <2>15. MovesOk'
    <3>1. dest' = dest /\ visited' = visited /\ Moves!Sources' = Moves!Sources  BY <1>1, <1>6
    <3>2. Len(moves') = M + 1 /\ moves' \in Seq(Seq(Moves!Place))  BY <2>1
    <3>3. \A n \in 1 .. M + 1 : Len(moves'[n]) > 1 /\ Follows(moves[n])'
      BY <2>7, <3>1 DEF Follows
    <3>. DEFINE mvs == moves'
    <3>4. \A n \in 1 .. Len(mvs) : \A k \in 1 .. Len(mvs[n]) - 1 :
            mvs[n][k] \in visited' /\ dest'[mvs[n][k]] # mvs[n][k]
      BY <2>9, <3>1, <3>2
    <3>5. \A n \in 1 .. Len(mvs) :
            mvs[n][Len(mvs[n])] \in Moves!Sources' =>
              \E m \in 1 .. n : \E k \in 1 .. Len(mvs[m]) - 1 : mvs[m][k] = mvs[n][Len(mvs[n])]
      BY <2>13, <3>1, <3>2
    <3>6. Moves!Sources' = Moves!Place =>
            \A n \in 1 .. Len(mvs) : mvs[n][Len(mvs[n])] = mvs[n][1]
      BY <2>14, <3>1, <3>2
    <3>7. \A n, m \in 1 .. Len(mvs) :
            \A k \in 1 .. Len(mvs[n]) - 1, j \in 1 .. Len(mvs[m]) - 1 :
              mvs[n][k] = mvs[m][j] => n = m /\ k = j
      BY <2>8, <3>2
    <3>. QED BY <3>2, <3>3, <3>4, <3>5, <3>6, <3>7 DEF MovesOk
  <2>16. WalkOk'
    <3>1. walk' \in Seq(Moves!Sources) /\ Len(walk') = 0  BY <1>1
    <3>2. ASSUME NEW v \in visited
          PROVE  \/ dest[v] = v
                 \/ \E n \in 1 .. Len(moves') : \E k \in 1 .. Len(moves'[n]) - 1 :
                      moves'[n][k] = v
      <4>1. CASE \E k \in 1 .. N : walk[k] = v
        <5>1. PICK k \in 1 .. N : walk[k] = v  BY <4>1
        <5>2. k \in 1 .. Len(moves'[M + 1]) - 1 /\ moves'[M + 1][k] = v /\ M + 1 \in 1 .. M + 1
          BY <1>2, <1>5, <2>1, <5>1
        <5>. QED BY <2>1, <5>2
      <4>2. CASE \E n \in 1 .. M : \E k \in 1 .. Len(moves[n]) - 1 : moves[n][k] = v
        <5>1. \A n \in 1 .. M : n \in 1 .. M + 1  BY <2>1
        <5>. QED BY <2>1, <4>2, <5>1
      <4>. QED BY <1>3, <4>1, <4>2 DEF M
    <3>. QED BY <1>1, <1>3, <1>6, <3>1, <3>2 DEF WalkOk, Follows
  <2>. QED BY <1>7, <2>15, <2>16 DEF MovesInv
<1>. QED BY <1>10, <1>11

\* Replay begins with every symbol where it was.
LEMMA ReplayStarts == ASSUME Moves!MovesAssumption, MovesInv, Moves!StartReplay PROVE MovesInv'
<1>1. /\ phase' = "replaying" /\ replay' = moves /\ walk = <<>>
      /\ Moves!Sources \subseteq visited
      /\ Walking
      /\ UNCHANGED <<kind, dest, visited, walk, moves, scratch, symbols>>
  BY DEF Moves!StartReplay, Moves!Planning, MovesInv, Walking, Replaying
<1>2. Moves!Sources' = Moves!Sources  BY <1>1 DEF Moves!Sources
<1>3. DestOk(dest)' /\ symbols' \in [Moves!Place -> Moves!Place]  BY <1>1 DEF MovesInv, DestOk
<1>4. MovesOk'  BY <1>1, <1>2 DEF MovesInv, MovesOk, Follows
<1>5. WalkOk'  BY <1>1, <1>2 DEF MovesInv, WalkOk, Follows
<1>6. ReplayedTo(0, 1)'
  <2>1. moves \in Seq(Seq(Moves!Place)) /\ Len(moves) \in Nat  BY DEF MovesInv, MovesOk
  <2>2. ASSUME NEW n \in 1 .. Len(moves), NEW k \in 1 .. Len(moves[n]) - 1
        PROVE  symbols[moves[n][k]] = moves[n][k]
    <3>1. moves[n][k] \in visited  BY DEF MovesInv, MovesOk
    <3>2. moves[n][k] \in Moves!Place  BY <3>1, SourcePlaces DEF MovesInv, WalkOk
    <3>. QED BY <1>1, <3>2 DEF Walking
  <2>3. \A s \in Moves!Sources : symbols[s] = s  BY <1>1, SourcePlaces DEF Walking, MovesInv
  <2>4. scratch' = None /\ replay' = moves /\ moves' = moves /\ symbols' = symbols
        /\ dest' = dest
    BY <1>1 DEF Walking
  <2>5. ASSUME replay' # <<>> PROVE /\ 1 <= Len(moves[0 + 1])
                                    /\ Len(replay'[1]) = Len(moves[0 + 1]) - 1 + 1
                                    /\ \A k \in 1 .. Len(replay'[1]) : replay'[1][k] =
                                         moves[0 + 1][1 - 1 + k]
    <3>1. 1 \in 1 .. Len(moves)  BY <2>1, <2>4, <2>5
    <3>2. Len(moves[1]) > 1 /\ moves[1] \in Seq(Moves!Place)
      BY <2>1, <3>1 DEF MovesInv, MovesOk
    <3>. QED BY <2>4, <3>2
  <2>6. 0 \in 0 .. Len(moves) /\ Len(moves) - 0 = Len(moves)
        /\ \A k \in 2 .. Len(moves) : 0 + k = k
    BY <2>1
  <2>. QED BY <1>2, <2>1, <2>2, <2>3, <2>4, <2>5, <2>6 DEF ReplayedTo, Rest, Slabs
<1>. QED BY <1>1, <1>2, <1>3, <1>4, <1>5, <1>6 DEF MovesInv, Replaying

\* What a step of the replay begins with.
LEMMA AtReplay ==
  ASSUME Moves!MovesAssumption, MovesInv, ~Moves!Planning, replay # <<>>, NEW d, NEW a,
         ReplayedTo(d, a)
  PROVE  /\ Len(moves) \in Nat /\ d \in Nat /\ d + 1 \in 1 .. Len(moves)
         /\ moves[d + 1] \in Seq(Moves!Place) /\ Len(moves[d + 1]) \in Nat
         /\ Len(moves[d + 1]) > 1
         /\ a \in 1 .. Len(moves[d + 1])
         /\ replay[1] \in Seq(Moves!Place) /\ Len(replay[1]) = Len(moves[d + 1]) - a + 1
         /\ replay[1][1] = moves[d + 1][a] /\ moves[d + 1][a] \in Moves!Place
         /\ Head(replay) = replay[1] /\ Head(Head(replay)) = moves[d + 1][a]
         /\ Len(Head(replay)) = Len(moves[d + 1]) - a + 1
         /\ (scratch = None <=> a = 1)
<1>1. /\ Len(moves) \in Nat /\ moves \in Seq(Seq(Moves!Place))  BY DEF MovesInv, MovesOk
<1>2. /\ d \in 0 .. Len(moves) /\ replay \in Seq(Seq(Moves!Place))
      /\ Len(replay) = Len(moves) - d
      /\ a \in Nat \ {0}
      /\ a <= Len(moves[d + 1])
      /\ Len(replay[1]) = Len(moves[d + 1]) - a + 1
      /\ \A k \in 1 .. Len(replay[1]) : replay[1][k] = moves[d + 1][a - 1 + k]
      /\ scratch = IF a = 1 THEN None ELSE moves[d + 1][a - 1]
  BY DEF ReplayedTo, Rest, Slabs
<1>3. d + 1 \in 1 .. Len(moves) /\ 1 \in 1 .. Len(replay)  BY <1>1, <1>2
<1>4. moves[d + 1] \in Seq(Moves!Place) /\ Len(moves[d + 1]) \in Nat /\ Len(moves[d + 1]) > 1
  BY <1>1, <1>3 DEF MovesInv, MovesOk
<1>5. replay[1] \in Seq(Moves!Place) /\ 1 \in 1 .. Len(replay[1]) /\ a - 1 + 1 = a
  BY <1>2, <1>3, <1>4
<1>6. replay[1][1] = moves[d + 1][a]  BY <1>2, <1>5
<1>7. moves[d + 1][a] \in Moves!Place  BY <1>2, <1>4
<1>8. Head(replay) = replay[1] /\ Head(replay[1]) = replay[1][1]  BY <1>2, <1>5
<1>9. a # 1 => scratch \in Moves!Place  BY <1>2, <1>4
<1>10. None \notin Moves!Place  BY SourcePlaces DEF MovesInv
<1>11. a \in 1 .. Len(moves[d + 1]) /\ d \in Nat  BY <1>1, <1>2, <1>4
<1>12. Len(replay[1]) = Len(moves[d + 1]) - a + 1  BY <1>2
<1>13. scratch = None <=> a = 1
  <2>1. a = 1 => scratch = None  BY <1>2
  <2>. QED BY <2>1, <1>9, <1>10
<1>. QED BY <1>1, <1>3, <1>4, <1>5, <1>6, <1>7, <1>8, <1>11, <1>12, <1>13

\* Taking the first place of the running move off.
LEMMA ReplayTail ==
  ASSUME NEW r \in Seq(Seq(Moves!Place)), r # <<>>, r[1] # <<>>
  PROVE  LET q == <<Tail(Head(r))>> \o Tail(r) IN
         /\ q \in Seq(Seq(Moves!Place)) /\ Len(q) = Len(r) /\ q # <<>>
         /\ Len(q[1]) = Len(r[1]) - 1
         /\ \A k \in 1 .. Len(q[1]) : q[1][k] = r[1][k + 1]
         /\ \A k \in 2 .. Len(r) : q[k] = r[k]
<1>. DEFINE h == <<Tail(Head(r))>>
            t == Tail(r)
            q == h \o t
<1>1. Len(r) \in Nat \ {0} /\ Head(r) = r[1] /\ r[1] \in Seq(Moves!Place)  OBVIOUS
<1>2. Tail(r[1]) \in Seq(Moves!Place) /\ Len(Tail(r[1])) = Len(r[1]) - 1
      /\ \A k \in 1 .. Len(r[1]) - 1 : Tail(r[1])[k] = r[1][k + 1]
  BY <1>1
<1>3. h \in Seq(Seq(Moves!Place)) /\ Len(h) = 1 /\ h[1] = Tail(r[1])  BY <1>1, <1>2
<1>4. t \in Seq(Seq(Moves!Place)) /\ Len(t) = Len(r) - 1
      /\ \A k \in 1 .. Len(r) - 1 : t[k] = r[k + 1]
  BY <1>1
<1>. HIDE DEF h, t
<1>5. /\ q \in Seq(Seq(Moves!Place)) /\ Len(q) = Len(r) /\ q[1] = h[1]
      /\ \A k \in 2 .. Len(r) : q[k] = t[k - 1]
  <2>1. q \in Seq(Seq(Moves!Place)) /\ Len(q) = Len(h) + Len(t)  BY <1>3, <1>4, ConcatProperties
  <2>2. Len(q) = Len(r)  BY <1>1, <1>3, <1>4, <2>1
  <2>3. \A k \in 1 .. Len(h) + Len(t) : q[k] = IF k <= Len(h) THEN h[k] ELSE t[k - Len(h)]
    <3>1. h \in Seq(Seq(Moves!Place)) /\ t \in Seq(Seq(Moves!Place))  BY <1>3, <1>4
    <3>. QED BY <3>1
  <2>. HIDE DEF q
  <2>4. \A k \in 2 .. Len(r) : q[k] = t[k - 1]  BY <1>1, <1>3, <2>1, <2>2, <2>3
  <2>5. q[1] = h[1]
    <3>1. 1 \in 1 .. Len(h) + Len(t) /\ 1 <= Len(h)  BY <1>1, <1>3, <1>4
    <3>. QED BY <2>3, <3>1
  <2>. QED BY <2>1, <2>2, <2>4, <2>5
<1>6. \A k \in 2 .. Len(r) : k - 1 \in 1 .. Len(r) - 1 /\ (k - 1) + 1 = k  BY <1>1
<1>. HIDE DEF q
<1>7. \A k \in 2 .. Len(r) : q[k] = r[k]  BY <1>4, <1>5, <1>6
<1>8. q # <<>>  BY <1>1, <1>5
<1>. QED BY <1>1, <1>2, <1>3, <1>5, <1>7, <1>8 DEF q, h, t

\* While moves are replayed, what was planned stays.
LEMMA PlanStays ==
  ASSUME Moves!MovesAssumption, MovesInv, ~Moves!Planning,
         UNCHANGED <<kind, dest, visited, walk, moves, phase>>,
           symbols' \in [Moves!Place -> Moves!Place],
         NEW d, NEW a, ReplayedTo(d, a)'
  PROVE  MovesInv'
<1>1. Moves!Sources' = Moves!Sources  BY DEF Moves!Sources
<1>2. DestOk(dest)'  BY DEF MovesInv, DestOk
<1>3. MovesOk'  BY <1>1 DEF MovesInv, MovesOk, Follows
<1>4. WalkOk'  BY <1>1 DEF MovesInv, WalkOk, Follows
<1>5. walk = <<>> /\ Moves!Sources \subseteq visited /\ phase = "replaying"
  BY DEF MovesInv, Walking, Replaying, Moves!Planning
<1>6. Replaying'  BY <1>1, <1>5 DEF Replaying
<1>. QED BY <1>2, <1>3, <1>4, <1>6 DEF MovesInv

\* The places of the planned moves are sources, the last ones perhaps not.
LEMMA MovePlaces ==
  ASSUME Moves!MovesAssumption, MovesInv, NEW n \in 1 .. Len(moves),
         NEW k \in 1 .. Len(moves[n]) - 1
  PROVE  /\ moves[n][k] \in Moves!Sources /\ moves[n][k] \in Moves!Place
         /\ moves[n][k + 1] = dest[moves[n][k]] /\ moves[n][k + 1] \in Moves!Place
         /\ moves[n][k] # moves[n][k + 1]
         /\ Len(moves[n]) \in Nat /\ k + 1 \in 1 .. Len(moves[n])
<1>1. moves[n] \in Seq(Moves!Place) /\ Follows(moves[n])  BY DEF MovesInv, MovesOk
<1>2. moves[n][k] \in visited /\ dest[moves[n][k]] # moves[n][k]  BY DEF MovesInv, MovesOk
<1>3. moves[n][k] \in Moves!Sources  BY <1>2 DEF MovesInv, WalkOk
<1>4. moves[n][k + 1] = dest[moves[n][k]]  BY <1>1 DEF Follows
<1>5. k + 1 \in 1 .. Len(moves[n]) /\ Len(moves[n]) \in Nat  BY <1>1
<1>. QED BY <1>1, <1>2, <1>3, <1>4, <1>5, SourcePlaces DEF MovesInv

\* Reading on within a move.
LEMMA RestGoesOn ==
  ASSUME Moves!MovesAssumption, MovesInv, ~Moves!Planning, replay # <<>>, NEW d, NEW a,
         ReplayedTo(d, a),
         a < Len(moves[d + 1]), moves' = moves, replay' = <<Tail(Head(replay))>> \o Tail(replay)
  PROVE  Rest(d, a + 1)' /\ replay' # <<>>
<1>1. /\ d \in Nat /\ d + 1 \in 1 .. Len(moves) /\ Len(moves) \in Nat
      /\ a \in 1 .. Len(moves[d + 1]) /\ Len(moves[d + 1]) \in Nat
      /\ replay[1] \in Seq(Moves!Place) /\ Len(replay[1]) = Len(moves[d + 1]) - a + 1
  BY AtReplay
<1>2. replay \in Seq(Seq(Moves!Place)) /\ replay[1] # <<>>
  <2>1. replay \in Seq(Seq(Moves!Place))  BY DEF ReplayedTo, Rest
  <2>2. Len(replay[1]) # 0
    <3>. DEFINE L == Len(replay[1])
                N == Len(moves[d + 1])
    <3>1. L = N - a + 1 /\ a < N /\ N \in Nat /\ a \in 1 .. N  BY <1>1
    <3>. HIDE DEF L, N
    <3>2. L # 0  BY <3>1
    <3>. QED BY <3>2 DEF L
  <2>3. replay[1] # <<>>  BY ONLY <2>2
  <2>. QED BY ONLY <2>1, <2>3
<1>3. /\ replay' \in Seq(Seq(Moves!Place)) /\ Len(replay') = Len(replay) /\ replay' # <<>>
      /\ Len(replay'[1]) = Len(replay[1]) - 1
      /\ \A k \in 1 .. Len(replay'[1]) : replay'[1][k] = replay[1][k + 1]
      /\ \A k \in 2 .. Len(replay) : replay'[k] = replay[k]
  BY <1>2, ReplayTail
<1>4. Len(replay) = Len(moves) - d /\ \A k \in 2 .. Len(replay) : replay[k] = moves[d + k]
  BY DEF ReplayedTo, Rest, Slabs
<1>5. \A k \in 1 .. Len(replay[1]) : replay[1][k] = moves[d + 1][a - 1 + k]
  BY DEF ReplayedTo, Rest, Slabs
<1>6. ASSUME NEW k \in 1 .. Len(replay'[1])
      PROVE  replay'[1][k] = moves[d + 1][(a + 1) - 1 + k]
  <2>. DEFINE L == Len(replay[1])
  <2>0. Len(replay'[1]) = L - 1 /\ L \in Nat /\ a \in Nat  BY <1>1, <1>3
  <2>. HIDE DEF L
  <2>1. k + 1 \in 1 .. L /\ a - 1 + (k + 1) = (a + 1) - 1 + k  BY <2>0
  <2>. QED BY <1>3, <1>5, <2>1 DEF L
<1>7. a + 1 <= Len(moves[d + 1]) /\ Len(replay'[1]) = Len(moves[d + 1]) - (a + 1) + 1
  <2>. DEFINE N == Len(moves[d + 1])
  <2>1. N \in Nat /\ a \in Nat /\ a < N /\ Len(replay'[1]) = (N - a + 1) - 1  BY <1>1, <1>3
  <2>. HIDE DEF N
  <2>2. a + 1 <= N /\ (N - a + 1) - 1 = N - (a + 1) + 1  BY <2>1
  <2>. QED BY <2>1, <2>2 DEF N
<1>. QED BY <1>3, <1>4, <1>6, <1>7 DEF Rest

\* The symbol of the first place is in the scratch symbol then.
LEMMA LoadKeeps == ASSUME Moves!MovesAssumption, MovesInv, Moves!LoadScratch PROVE MovesInv'
<1>1. /\ ~Moves!Planning /\ replay # <<>> /\ scratch = None
      /\ scratch' = symbols[Head(Head(replay))]
      /\ replay' = <<Tail(Head(replay))>> \o Tail(replay)
      /\ UNCHANGED <<kind, dest, visited, walk, moves, phase, symbols>>
  BY DEF Moves!LoadScratch
<1>2. PICK d, a : ReplayedTo(d, a)  BY <1>1 DEF MovesInv, Walking, Replaying, Moves!Planning
<1>3. /\ d \in Nat /\ d + 1 \in 1 .. Len(moves) /\ Len(moves) \in Nat
      /\ Len(moves[d + 1]) \in Nat /\ Len(moves[d + 1]) > 1
      /\ Head(Head(replay)) = moves[d + 1][a] /\ a = 1
  BY <1>1, <1>2, AtReplay
<1>4. Rest(d, 2)' /\ replay' # <<>>
  <2>1. a < Len(moves[d + 1]) /\ a + 1 = 2  BY <1>3
  <2>. QED BY <1>1, <1>2, <2>1, RestGoesOn
<1>5. Slabs(d, 1)  BY <1>2, <1>3 DEF ReplayedTo, Slabs, Rest
<1>6. scratch' = moves[d + 1][2 - 1]
  <2>1. 1 \in 1 .. Len(moves[d + 1]) - 1 /\ 1 >= 1  BY <1>3
  <2>2. symbols[moves[d + 1][1]] = moves[d + 1][1]  BY <1>3, <1>5, <2>1 DEF Slabs
  <2>. QED BY <1>1, <1>3, <2>2
<1>7. Slabs(d, 2)'
  <2>1. Slabs(d, 2)
    <3>1. \A n \in 1 .. Len(moves) : \A k \in 1 .. Len(moves[n]) - 1 :
            /\ n <= d \/ (n = d + 1 /\ k < 2 - 1) => symbols[moves[n][k + 1]] = moves[n][k]
            /\ n > d + 1 \/ (n = d + 1 /\ k >= 2) => symbols[moves[n][k]] = moves[n][k]
      <4>. TAKE n \in 1 .. Len(moves)
      <4>. TAKE k \in 1 .. Len(moves[n]) - 1
      <4>1. /\ n <= d => symbols[moves[n][k + 1]] = moves[n][k]
            /\ n > d + 1 \/ (n = d + 1 /\ k >= 1) => symbols[moves[n][k]] = moves[n][k]
        BY <1>5 DEF Slabs
      <4>2. k \in Nat /\ k >= 1 /\ ~(k < 2 - 1)  OBVIOUS
      <4>. QED BY <4>1, <4>2
    <3>. QED BY <1>5, <3>1 DEF Slabs
  <2>2. Moves!Sources' = Moves!Sources  BY <1>1 DEF Moves!Sources
  <2>. QED BY <1>1, <2>1, <2>2 DEF Slabs
<1>8. ReplayedTo(d, 2)'
  <2>1. d \in 0 .. Len(moves)'  BY <1>1, <1>3
  <2>2. scratch' = IF 2 = 1 THEN None ELSE moves'[d + 1][2 - 1]  BY <1>1, <1>6
  <2>. QED BY <1>4, <1>7, <2>1, <2>2 DEF ReplayedTo
<1>9. symbols' \in [Moves!Place -> Moves!Place]  BY <1>1 DEF MovesInv
<1>. QED BY <1>1, <1>8, <1>9, PlanStays

\* A function with one value changed, argument by argument.
LEMMA Updated ==
  ASSUME NEW T, NEW f \in [T -> T], NEW g, NEW x \in T, NEW y \in T, g = [f EXCEPT ![y] = x]
  PROVE  g \in [T -> T] /\ g[y] = x /\ \A p \in T : p # y => g[p] = f[p]
OBVIOUS

\* A symbol is put where it belongs: what had been put already is elsewhere,
\* and so is what is to be moved later.
LEMMA PutThere ==
  ASSUME Moves!MovesAssumption, MovesInv, NEW d \in Nat, d + 1 \in 1 .. Len(moves),
         NEW q \in 1 .. Len(moves[d + 1]) - 1, Slabs(d, q + 1), UNCHANGED <<dest, moves>>,
         symbols' = [symbols EXCEPT ![moves[d + 1][q + 1]] = moves[d + 1][q]]
  PROVE  /\ Slabs(d, q + 2)' /\ symbols' \in [Moves!Place -> Moves!Place]
         /\ q + 1 = Len(moves[d + 1]) => Slabs(d + 1, 1)'
<1>. DEFINE x == moves[d + 1][q]
            y == moves[d + 1][q + 1]
            N == Len(moves[d + 1])
<1>1. /\ x \in Moves!Sources /\ y = dest[x] /\ y \in Moves!Place /\ x # y /\ x \in Moves!Place
      /\ N \in Nat /\ Len(moves) \in Nat
  BY MovePlaces DEF MovesInv, MovesOk
<1>2. \A s, t \in Moves!Sources : dest[s] = dest[t] => s = t  BY SourcePlaces DEF MovesInv
<1>3. \A n, m \in 1 .. Len(moves) : \A k \in 1 .. Len(moves[n]) - 1,
        j \in 1 .. Len(moves[m]) - 1 :
          moves[n][k] = moves[m][j] => n = m /\ k = j
  BY DEF MovesInv, MovesOk
<1>. HIDE DEF x, y, N
<1>4. /\ symbols' \in [Moves!Place -> Moves!Place] /\ symbols'[y] = x
      /\ \A p \in Moves!Place : p # y => symbols'[p] = symbols[p]
  <2>1. symbols' = [symbols EXCEPT ![y] = x] /\ symbols \in [Moves!Place -> Moves!Place]
    BY DEF x, y, MovesInv
  <2>. DEFINE f == symbols
              g == symbols'
  <2>2. f \in [Moves!Place -> Moves!Place] /\ x \in Moves!Place /\ y \in Moves!Place
        /\ g = [f EXCEPT ![y] = x]
    BY <1>1, <2>1
  <2>. HIDE DEF f, g
  <2>3. g \in [Moves!Place -> Moves!Place] /\ g[y] = x /\ \A p \in Moves!Place : p # y =>
          g[p] = f[p]
    BY ONLY <2>2, Updated
  <2>. QED BY <2>3 DEF f, g
<1>5. \A s \in Moves!Sources : dest[s] = s => symbols'[s] = s
  <2>. TAKE s \in Moves!Sources
  <2>. HAVE dest[s] = s
  <2>1. s # y  BY <1>1, <1>2
  <2>2. s \in Moves!Place  BY SourcePlaces DEF MovesInv
  <2>. QED BY <1>4, <2>1, <2>2 DEF Slabs
\* Symbols that lie where they belong.
<1>6. ASSUME NEW n \in 1 .. Len(moves), NEW k \in 1 .. Len(moves[n]) - 1,
             n <= d \/ (n = d + 1 /\ k <= q)
      PROVE  symbols'[moves[n][k + 1]] = moves[n][k]
  <2>1. CASE n = d + 1 /\ k = q  BY <1>4, <2>1 DEF x, y
  <2>2. CASE ~(n = d + 1 /\ k = q)
    <3>1. n <= d \/ (n = d + 1 /\ k < (q + 1) - 1)  BY <1>6, <2>2
    <3>2. symbols[moves[n][k + 1]] = moves[n][k]  BY <3>1 DEF Slabs
    <3>3. moves[n][k] # x
      <4>. DEFINE m == d + 1
      <4>1. /\ m \in 1 .. Len(moves) /\ q \in 1 .. Len(moves[m]) - 1
            /\ n \in 1 .. Len(moves) /\ k \in 1 .. Len(moves[n]) - 1
        OBVIOUS
      <4>. HIDE DEF m
      <4>2. moves[n][k] = moves[m][q] => n = m /\ k = q  BY ONLY <1>3, <4>1
      <4>. QED BY <2>2, <4>2 DEF x, m
    <3>4. moves[n][k] \in Moves!Sources /\ moves[n][k + 1] = dest[moves[n][k]]
          /\ moves[n][k + 1] \in Moves!Place
      BY MovePlaces
    <3>5. moves[n][k + 1] # y  BY <1>1, <1>2, <3>3, <3>4
    <3>. QED BY <1>4, <3>2, <3>4, <3>5
  <2>. QED BY <2>1, <2>2
\* Symbols that wait.
<1>7. ASSUME NEW n \in 1 .. Len(moves), NEW k \in 1 .. Len(moves[n]) - 1,
             n > d + 1 \/ (n = d + 1 /\ k >= q + 2)
      PROVE  symbols'[moves[n][k]] = moves[n][k]
  <2>1. n > d + 1 \/ (n = d + 1 /\ k >= q + 1)  BY <1>7
  <2>2. symbols[moves[n][k]] = moves[n][k]  BY <2>1 DEF Slabs
  <2>3. moves[n][k] \in Moves!Sources /\ moves[n][k] \in Moves!Place  BY MovePlaces
  <2>4. moves[n][k] # y
    <3>1. CASE q + 1 \in 1 .. N - 1
      <4>1. q + 1 # k \/ n # d + 1  BY <1>7
      <4>. QED BY <1>3, <3>1, <4>1 DEF y, N
    <3>2. CASE q + 1 \notin 1 .. N - 1
      <4>1. q + 1 = N  BY <1>1, <3>2 DEF N
      <4>2. n > d + 1
        <5>1. n = d + 1 => k \in 1 .. N - 1  BY DEF N
        <5>. QED BY <1>1, <1>7, <4>1, <5>1
      <4>3. SUFFICES ASSUME y \in Moves!Sources PROVE moves[n][k] # y  BY <2>3
      <4>4. PICK m \in 1 .. d + 1 : \E j \in 1 .. Len(moves[m]) - 1 : moves[m][j] = y
        <5>1. moves[d + 1][Len(moves[d + 1])] = y  BY <4>1 DEF y, N
        <5>2. \A c \in 1 .. Len(moves) :
                moves[c][Len(moves[c])] \in Moves!Sources =>
                  \E m \in 1 .. c : \E j \in 1 .. Len(moves[m]) - 1 : moves[m][j] =
                    moves[c][Len(moves[c])]
          BY DEF MovesInv, MovesOk
        <5>. QED BY <4>3, <5>1, <5>2
      <4>5. PICK j \in 1 .. Len(moves[m]) - 1 : moves[m][j] = y  BY <4>4
      <4>6. m \in 1 .. Len(moves) /\ m # n  BY <1>1, <4>2
      <4>. QED BY <1>3, <4>5, <4>6
    <3>. QED BY <3>1, <3>2
  <2>. QED BY <1>4, <2>2, <2>3, <2>4
<1>8. Moves!Sources' = Moves!Sources  BY DEF Moves!Sources
<1>9. Slabs(d, q + 2)'
  <2>0. moves' = moves /\ dest' = dest  OBVIOUS
  <2>1. \A n \in 1 .. Len(moves) : \A k \in 1 .. Len(moves[n]) - 1 :
          /\ n <= d \/ (n = d + 1 /\ k < (q + 2) - 1) => symbols'[moves[n][k + 1]] = moves[n][k]
          /\ n > d + 1 \/ (n = d + 1 /\ k >= q + 2) => symbols'[moves[n][k]] = moves[n][k]
    <3>. TAKE n \in 1 .. Len(moves)
    <3>. TAKE k \in 1 .. Len(moves[n]) - 1
    <3>1. k < (q + 2) - 1 => k <= q  OBVIOUS
    <3>. QED BY <1>6, <1>7, <3>1
  <2>. QED BY <1>5, <1>8, <2>0, <2>1 DEF Slabs
<1>10. ASSUME q + 1 = N PROVE Slabs(d + 1, 1)'
  <2>1. ASSUME NEW n \in 1 .. Len(moves), NEW k \in 1 .. Len(moves[n]) - 1
        PROVE  /\ n <= d + 1 \/ (n = (d + 1) + 1 /\ k < 1 - 1) =>
                    symbols'[moves[n][k + 1]] = moves[n][k]
               /\ n > (d + 1) + 1 \/ (n = (d + 1) + 1 /\ k >= 1) =>
                    symbols'[moves[n][k]] = moves[n][k]
    <3>1. n <= d + 1 \/ (n = (d + 1) + 1 /\ k < 1 - 1) => n <= d \/ (n = d + 1 /\ k <= q)
      BY <1>1, <1>10 DEF N
    <3>2. n > (d + 1) + 1 \/ (n = (d + 1) + 1 /\ k >= 1) => n > d + 1  OBVIOUS
    <3>. QED BY <1>6, <1>7, <3>1, <3>2
  <2>0. moves' = moves /\ dest' = dest  OBVIOUS
  <2>2. \A n \in 1 .. Len(moves) : \A k \in 1 .. Len(moves[n]) - 1 :
          /\ n <= d + 1 \/ (n = (d + 1) + 1 /\ k < 1 - 1) =>
               symbols'[moves[n][k + 1]] = moves[n][k]
          /\ n > (d + 1) + 1 \/ (n = (d + 1) + 1 /\ k >= 1) =>
               symbols'[moves[n][k]] = moves[n][k]
    BY <2>1
  <2>. QED BY <1>5, <1>8, <2>0, <2>2 DEF Slabs
<1>. QED BY <1>4, <1>9, <1>10 DEF N

\* A symbol is put where it belongs, and the one there is carried on.
LEMMA SwapKeeps == ASSUME Moves!MovesAssumption, MovesInv, Moves!SwapMiddle PROVE MovesInv'
<1>1. /\ ~Moves!Planning /\ replay # <<>> /\ scratch # None /\ Len(Head(replay)) > 1
      /\ scratch' = symbols[Head(Head(replay))]
      /\ symbols' = [symbols EXCEPT ![Head(Head(replay))] = scratch]
      /\ replay' = <<Tail(Head(replay))>> \o Tail(replay)
      /\ UNCHANGED <<kind, dest, visited, walk, moves, phase>>
  BY DEF Moves!SwapMiddle, Moves!Swapped
<1>2. PICK d, a : ReplayedTo(d, a)  BY <1>1 DEF MovesInv, Walking, Replaying, Moves!Planning
<1>. DEFINE N == Len(moves[d + 1])
            q == a - 1
<1>3. /\ d \in Nat /\ d + 1 \in 1 .. Len(moves) /\ Len(moves) \in Nat
      /\ N \in Nat /\ N > 1
      /\ Head(Head(replay)) = moves[d + 1][a] /\ a # 1 /\ a \in 1 .. N
      /\ Len(Head(replay)) = N - a + 1
  BY <1>1, <1>2, AtReplay
<1>. HIDE DEF N, q
<1>4. a < N /\ q \in 1 .. N - 1 /\ q + 1 = a /\ q + 2 = a + 1 /\ (a + 1) - 1 = a
      /\ a \in 1 .. N - 1
  <2>1. N - a + 1 > 1 /\ N \in Nat /\ a \in 1 .. N /\ a # 1  BY <1>1, <1>3
  <2>. QED BY <2>1 DEF q
<1>5. Rest(d, a + 1)' /\ replay' # <<>>  BY <1>1, <1>2, <1>4, RestGoesOn DEF N
<1>6. Slabs(d, a) /\ scratch = moves[d + 1][q]  BY <1>2, <1>3 DEF ReplayedTo, Slabs, q, Rest
<1>7. Slabs(d, a + 1)' /\ symbols' \in [Moves!Place -> Moves!Place]
  <2>1. symbols' = [symbols EXCEPT ![moves[d + 1][q + 1]] = moves[d + 1][q]]
    BY <1>1, <1>3, <1>4, <1>6
  <2>. QED BY <1>1, <1>3, <1>4, <1>6, <2>1, PutThere DEF N
<1>8. scratch' = moves[d + 1][(a + 1) - 1]
  <2>0. a \in 1 .. Len(moves[d + 1]) - 1  BY <1>4 DEF N
  <2>1. symbols[moves[d + 1][a]] = moves[d + 1][a]
    <3>. DEFINE n == d + 1
    <3>1. n \in 1 .. Len(moves) /\ a \in 1 .. Len(moves[n]) - 1 /\ Slabs(d, a) /\ n = d + 1
          /\ a >= a
      BY <1>3, <1>6, <2>0
    <3>. HIDE DEF n
    <3>2. symbols[moves[n][a]] = moves[n][a]  BY <3>1 DEF Slabs
    <3>. QED BY <3>2 DEF n
  <2>. QED BY <1>1, <1>3, <1>4, <2>1
<1>9. ReplayedTo(d, a + 1)'
  <2>1. d \in 0 .. Len(moves)
    <3>1. d \in Nat /\ Len(moves) \in Nat /\ d + 1 \in 1 .. Len(moves)  BY <1>3
    <3>. QED BY <3>1
  <2>2. a + 1 \in Nat \ {0} /\ a + 1 # 1
    <3>1. a \in 1 .. N /\ N \in Nat  BY <1>3
    <3>. QED BY <3>1
  <2>3. moves' = moves  BY <1>1
  <2>4. scratch' = IF a + 1 = 1 THEN None ELSE moves'[d + 1][(a + 1) - 1]  BY <1>8, <2>2, <2>3
  <2>. QED BY <1>5, <1>7, <2>1, <2>2, <2>3, <2>4 DEF ReplayedTo
<1>. QED BY <1>1, <1>7, <1>9, PlanStays

\* Going on with the next move.
LEMMA RestMovesOn ==
  ASSUME Moves!MovesAssumption, MovesInv, ~Moves!Planning, replay # <<>>, NEW d, NEW a,
         ReplayedTo(d, a),
         moves' = moves, replay' = Tail(replay)
  PROVE  Rest(d + 1, 1)'
<1>1. d \in Nat /\ d + 1 \in 1 .. Len(moves) /\ Len(moves) \in Nat
  BY AtReplay
<1>2. /\ replay \in Seq(Seq(Moves!Place)) /\ Len(replay) = Len(moves) - d
      /\ \A k \in 2 .. Len(replay) : replay[k] = moves[d + k]
  BY DEF ReplayedTo, Rest, Slabs
<1>3. /\ Tail(replay) \in Seq(Seq(Moves!Place)) /\ Len(Tail(replay)) = Len(replay) - 1
      /\ Len(replay) \in Nat \ {0}
      /\ \A k \in 1 .. Len(replay) - 1 : Tail(replay)[k] = replay[k + 1]
  BY <1>2
<1>. DEFINE t == Tail(replay)
<1>. HIDE DEF t
<1>4. Len(t) = Len(moves) - (d + 1)  BY <1>1, <1>2, <1>3 DEF t
<1>5. \A k \in 1 .. Len(t) : t[k] = moves[(d + 1) + k]
  <2>. TAKE k \in 1 .. Len(t)
  <2>1. k \in 1 .. Len(replay) - 1 /\ k + 1 \in 2 .. Len(replay) /\ d + (k + 1) = (d + 1) + k
    BY <1>1, <1>3 DEF t
  <2>. QED BY <1>2, <1>3, <2>1 DEF t
<1>6. ASSUME t # <<>>
      PROVE  /\ 1 <= Len(moves[(d + 1) + 1])
             /\ t[1] = moves[(d + 1) + 1]
             /\ Len(t[1]) = Len(moves[(d + 1) + 1]) - 1 + 1
             /\ \A k \in 1 .. Len(t[1]) : t[1][k] = moves[(d + 1) + 1][1 - 1 + k]
  <2>1. Len(t) \in Nat /\ Len(t) # 0
    <3>1. t \in Seq(Seq(Moves!Place))  BY <1>3 DEF t
    <3>. QED BY <1>6, <3>1
  <2>2. 1 \in 1 .. Len(t)  BY <2>1
  <2>3. t[1] = moves[(d + 1) + 1]  BY <1>5, <2>2
  <2>4. (d + 1) + 1 \in 1 .. Len(moves)  BY <1>1, <1>4, <2>1
  <2>. DEFINE m == moves[(d + 1) + 1]
  <2>5. m \in Seq(Moves!Place) /\ Len(m) > 1  BY <2>4 DEF MovesInv, MovesOk
  <2>. HIDE DEF m
  <2>6. Len(m) \in Nat /\ 1 <= Len(m) /\ Len(m) = Len(m) - 1 + 1  BY <2>5
  <2>7. \A k \in 1 .. Len(m) : m[k] = m[1 - 1 + k]
    <3>. TAKE k \in 1 .. Len(m)
    <3>1. 1 - 1 + k = k  OBVIOUS
    <3>. QED BY <3>1
  <2>. QED BY <2>3, <2>6, <2>7 DEF m
<1>7. replay' = t /\ moves' = moves  BY DEF t
<1>8. \A k \in 2 .. Len(t) : k \in 1 .. Len(t)  OBVIOUS
<1>. QED BY <1>3, <1>4, <1>5, <1>6, <1>7, <1>8 DEF Rest, t

\* The last symbol of a move is put where it belongs.
LEMMA StoreKeeps == ASSUME Moves!MovesAssumption, MovesInv, Moves!StoreLast PROVE MovesInv'
<1>1. /\ ~Moves!Planning /\ replay # <<>> /\ scratch # None /\ Len(Head(replay)) = 1
      /\ scratch' = None
      /\ symbols' = [symbols EXCEPT ![Head(Head(replay))] = scratch]
      /\ replay' = Tail(replay)
      /\ UNCHANGED <<kind, dest, visited, walk, moves, phase>>
  BY DEF Moves!StoreLast, Moves!Stored
<1>2. PICK d, a : ReplayedTo(d, a)  BY <1>1 DEF MovesInv, Walking, Replaying, Moves!Planning
<1>. DEFINE N == Len(moves[d + 1])
            q == a - 1
<1>3. /\ d \in Nat /\ d + 1 \in 1 .. Len(moves) /\ Len(moves) \in Nat
      /\ N \in Nat /\ N > 1
      /\ Head(Head(replay)) = moves[d + 1][a] /\ a # 1 /\ a \in 1 .. N
      /\ Len(Head(replay)) = N - a + 1
  BY <1>1, <1>2, AtReplay
<1>. HIDE DEF N, q
<1>4. a = N /\ q \in 1 .. N - 1 /\ q + 1 = a
  <2>1. 1 = N - a + 1  BY <1>1, <1>3
  <2>. QED BY <1>3, <2>1 DEF q
<1>5. Rest(d + 1, 1)'  BY <1>1, <1>2, RestMovesOn
<1>6. Slabs(d, a) /\ scratch = moves[d + 1][q]  BY <1>2, <1>3 DEF ReplayedTo, Slabs, q, Rest
<1>7. Slabs(d + 1, 1)' /\ symbols' \in [Moves!Place -> Moves!Place]
  <2>1. symbols' = [symbols EXCEPT ![moves[d + 1][q + 1]] = moves[d + 1][q]]
    BY <1>1, <1>3, <1>4, <1>6
  <2>2. q \in 1 .. Len(moves[d + 1]) - 1 /\ q + 1 = Len(moves[d + 1]) /\ Slabs(d, q + 1)
    BY <1>4, <1>6 DEF N
  <2>3. UNCHANGED <<dest, moves>>  BY <1>1
  <2>. QED BY <1>3, <2>1, <2>2, <2>3, PutThere
<1>8. ReplayedTo(d + 1, 1)'
  <2>1. d + 1 \in 0 .. Len(moves)' /\ 1 \in Nat \ {0}  BY <1>1, <1>3
  <2>. QED BY <1>1, <1>5, <1>7, <2>1 DEF ReplayedTo, Rest, Slabs
<1>. QED BY <1>1, <1>7, <1>8, PlanStays

\* The invariant depends on the variables alone.
LEMMA MovesStutter ==
  ASSUME Moves!MovesAssumption, MovesInv, UNCHANGED Moves!vars PROVE MovesInv'
<1>1. UNCHANGED <<kind, dest, visited, walk, moves, phase, replay, scratch, symbols>>
  BY DEF Moves!vars
<1>2. Moves!Sources' = Moves!Sources  BY <1>1 DEF Moves!Sources
<1>3. DestOk(dest)'  BY <1>1 DEF MovesInv, DestOk
<1>4. MovesOk'
  <2>1. MovesOk /\ UNCHANGED <<dest, moves, visited>>  BY <1>1 DEF MovesInv
  <2>. QED BY <1>2, <2>1 DEF MovesOk, Follows
<1>5. WalkOk'  BY <1>1, <1>2 DEF MovesInv, WalkOk, Follows
<1>6. symbols' \in [Moves!Place -> Moves!Place]  BY <1>1 DEF MovesInv
<1>7. CASE Walking  BY <1>1, <1>3, <1>4, <1>5, <1>6, <1>7 DEF Walking, MovesInv
<1>8. CASE Replaying
  <2>1. PICK d, a : ReplayedTo(d, a)  BY <1>8 DEF Replaying
  <2>2. ReplayedTo(d, a)'  BY <1>1, <1>2, <2>1 DEF ReplayedTo, Rest, Slabs
  <2>3. Replaying'  BY <1>1, <1>2, <1>8, <2>2 DEF Replaying
  <2>. QED BY <1>3, <1>4, <1>5, <1>6, <2>3 DEF MovesInv
<1>. QED BY <1>7, <1>8 DEF MovesInv

\* Every step keeps the invariant.
LEMMA MovesNext ==
  ASSUME Moves!MovesAssumption, MovesInv, [Moves!Next]_(Moves!vars) PROVE MovesInv'
<1>1. CASE Moves!StartMove  BY <1>1, StartKeeps
<1>2. CASE Moves!FollowMove  BY <1>2, FollowKeeps
<1>3. CASE Moves!EndMove  BY <1>3, EndKeeps
<1>4. CASE Moves!StartReplay  BY <1>4, ReplayStarts
<1>5. CASE Moves!LoadScratch  BY <1>5, LoadKeeps
<1>6. CASE Moves!SwapMiddle  BY <1>6, SwapKeeps
<1>7. CASE Moves!StoreLast  BY <1>7, StoreKeeps
<1>8. CASE Moves!Replayed  BY <1>8, MovesStutter DEF Moves!Replayed
<1>9. CASE UNCHANGED Moves!vars  BY <1>9, MovesStutter
<1>. QED BY <1>1, <1>2, <1>3, <1>4, <1>5, <1>6, <1>7, <1>8, <1>9 DEF Moves!Next

\* The invariant says what the types are.
LEMMA MovesTyped == ASSUME Moves!MovesAssumption, MovesInv PROVE Moves!TypeInv
<1>1. dest \in [Moves!Place -> Moves!Place \cup {None}]
      /\ symbols \in [Moves!Place -> Moves!Place]
      /\ visited \subseteq Moves!Sources
  BY DEF MovesInv, DestOk, WalkOk
<1>2. DOMAIN moves = 1 .. Len(moves)
      /\ \A n \in 1 .. Len(moves) : moves[n] \in Seq(Moves!Place) /\ Len(moves[n]) > 1
  BY DEF MovesInv, MovesOk
<1>3. scratch \in Moves!Place \cup {None}
  <2>1. CASE Walking  BY <2>1 DEF Walking
  <2>2. CASE Replaying
    <3>1. PICK d, a : ReplayedTo(d, a)  BY <2>2 DEF Replaying
    <3>2. CASE replay = <<>>
      <4>1. a = 1  BY <3>1, <3>2 DEF ReplayedTo, Rest, Slabs
      <4>. QED BY <3>1, <4>1 DEF ReplayedTo, Rest, Slabs
    <3>3. CASE replay # <<>>
      <4>1. ~Moves!Planning  BY <2>2 DEF Replaying, Moves!Planning
      <4>2. /\ a \in 1 .. Len(moves[d + 1]) /\ moves[d + 1] \in Seq(Moves!Place)
            /\ (scratch = None <=> a = 1)
        BY <3>1, <3>3, <4>1, AtReplay
      <4>3. a # 1 => moves[d + 1][a - 1] \in Moves!Place
        <5>1. a # 1 => a - 1 \in 1 .. Len(moves[d + 1])  BY <4>2
        <5>. QED BY <4>2, <5>1
      <4>4. a # 1 => scratch = moves[d + 1][a - 1]  BY <3>1 DEF ReplayedTo, Rest, Slabs
      <4>. QED BY <4>2, <4>3, <4>4
    <3>. QED BY <3>2, <3>3
  <2>. QED BY <2>1, <2>2 DEF MovesInv
<1>. QED BY <1>1, <1>2, <1>3 DEF Moves!TypeInv

\* A symbol that replay has not touched, carries, or has put in its place.
LEMMA AtHomeOrAway ==
  ASSUME Moves!MovesAssumption, MovesInv, Replaying, NEW d, NEW a, ReplayedTo(d, a),
         NEW s \in Moves!Sources
  PROVE  \/ dest[s] = s /\ symbols[s] = s
         \/ \E n \in 1 .. Len(moves) : \E k \in 1 .. Len(moves[n]) - 1 :
              /\ moves[n][k] = s
              /\ \/ n <= d /\ symbols[dest[s]] = s
                 \/ n = d + 1 /\ k < a - 1 /\ symbols[dest[s]] = s
                 \/ n = d + 1 /\ k = a - 1
                 \/ (n > d + 1 \/ (n = d + 1 /\ k >= a)) /\ symbols[s] = s
<1>1. CASE dest[s] = s  BY <1>1 DEF ReplayedTo, Rest, Slabs
<1>2. CASE dest[s] # s
  <2>1. walk = <<>> /\ s \in visited  BY DEF Replaying
  <2>2. \A k \in 1 .. Len(walk) : FALSE  BY <2>1
  <2>3. PICK n \in 1 .. Len(moves) : \E k \in 1 .. Len(moves[n]) - 1 : moves[n][k] = s
    BY <1>2, <2>1, <2>2 DEF MovesInv, WalkOk
  <2>4. PICK k \in 1 .. Len(moves[n]) - 1 : moves[n][k] = s  BY <2>3
  <2>5. moves[n][k + 1] = dest[s]  BY <2>4, MovePlaces
  <2>6. d \in Nat /\ a \in Nat  BY DEF ReplayedTo, Rest, Slabs
  <2>7. /\ n <= d \/ (n = d + 1 /\ k < a - 1) => symbols[moves[n][k + 1]] = moves[n][k]
        /\ n > d + 1 \/ (n = d + 1 /\ k >= a) => symbols[moves[n][k]] = moves[n][k]
    BY DEF ReplayedTo, Rest, Slabs
  <2>8. \/ n <= d \/ n > d + 1
        \/ n = d + 1 /\ (k < a - 1 \/ k = a - 1 \/ k >= a)
    BY <2>6
  <2>. QED BY <2>4, <2>5, <2>7, <2>8
<1>. QED BY <1>1, <1>2

\* The symbol of a pivot is where it was, where it belongs, or in between.
LEMMA NoneIsLost == ASSUME Moves!MovesAssumption, MovesInv PROVE Moves!NoSymbolLost
<1>. SUFFICES ASSUME NEW s \in Moves!Sources
              PROVE  scratch = s \/ \E place \in Moves!Place : symbols[place] = s
  BY DEF Moves!NoSymbolLost
<1>1. s \in Moves!Place /\ dest[s] \in Moves!Place  BY SourcePlaces DEF MovesInv
<1>2. CASE Walking  BY <1>1, <1>2 DEF Walking
<1>3. CASE Replaying
  <2>1. PICK d, a : ReplayedTo(d, a)  BY <1>3 DEF Replaying
  <2>2. CASE symbols[s] = s \/ symbols[dest[s]] = s  BY <1>1, <2>2
  <2>3. CASE ~(symbols[s] = s \/ symbols[dest[s]] = s)
    <3>1. PICK n \in 1 .. Len(moves) :
            \E k \in 1 .. Len(moves[n]) - 1 : moves[n][k] = s /\ n = d + 1 /\ k = a - 1
      BY <1>3, <2>1, <2>3, AtHomeOrAway
    <3>2. PICK k \in 1 .. Len(moves[n]) - 1 : moves[n][k] = s /\ n = d + 1 /\ k = a - 1
      BY <3>1
    <3>3. a # 1 /\ moves[d + 1][a - 1] = s  BY <3>2
    <3>. QED BY <2>1, <3>3 DEF ReplayedTo, Rest, Slabs
  <2>. QED BY <2>2, <2>3
<1>. QED BY <1>2, <1>3 DEF MovesInv

\* When all moves are replayed, symbols are where they belong.
LEMMA PivotsHome == ASSUME Moves!MovesAssumption, MovesInv PROVE Moves!PivotsInPlace
<1>. SUFFICES ASSUME Moves!Moved, NEW s \in Moves!Sources PROVE symbols[dest[s]] = s
  BY DEF Moves!PivotsInPlace
<1>1. Replaying /\ replay = <<>>  BY DEF Moves!Moved, Moves!Planning, Walking, MovesInv
<1>2. PICK d, a : ReplayedTo(d, a)  BY <1>1 DEF Replaying
<1>3. Len(moves) \in Nat  BY DEF MovesInv, MovesOk
<1>4. d = Len(moves)
  <2>1. Len(replay) = 0 /\ d \in Nat  BY <1>1, <1>2 DEF ReplayedTo, Rest, Slabs
  <2>. QED BY <1>2, <1>3, <2>1 DEF ReplayedTo, Rest, Slabs
<1>5. \A n \in 1 .. Len(moves) : n <= d /\ n # d + 1 /\ ~(n > d + 1)  BY <1>3, <1>4
<1>. QED BY <1>1, <1>2, <1>5, AtHomeOrAway

\* Moving back along one cycle.
LEMMA BackAlong ==
  ASSUME Moves!MovesAssumption, MovesInv, NEW n \in 1 .. Len(moves),
         NEW c \in [Moves!Place -> Moves!Place]
  PROVE  /\ Moves!MovedBack(c, moves[n]) \in [Moves!Place -> Moves!Place]
         /\ \A k \in 1 .. Len(moves[n]) - 1 :
              Moves!MovedBack(c, moves[n])[moves[n][k]] = c[dest[moves[n][k]]]
         /\ \A p \in Moves!Place : (\A k \in 1 .. Len(moves[n]) - 1 : moves[n][k] # p)
                               => Moves!MovedBack(c, moves[n])[p] = c[p]
<1>. DEFINE w == moves[n]
            R == 1 .. Len(w) - 1
            At(p) == CHOOSE k \in R : w[k] = p
            b == Moves!MovedBack(c, w)
<1>1. b = [p \in Moves!Place |-> IF \E k \in R : w[k] = p THEN c[w[At(p) + 1]] ELSE c[p]]
  BY DEF Moves!MovedBack
<1>2. \A k \in R : w[k] \in Moves!Sources /\ w[k] \in Moves!Place /\ w[k + 1] = dest[w[k]]
      /\ w[k + 1] \in Moves!Place
  BY MovePlaces
<1>. HIDE DEF b, w, R
<1>3. ASSUME NEW p \in Moves!Place, \E k \in R : w[k] = p PROVE At(p) \in R /\ w[At(p)] = p
  BY <1>3
<1>. HIDE DEF At
<1>4. \A p \in Moves!Place : b[p] = IF \E k \in R : w[k] = p THEN c[w[At(p) + 1]] ELSE c[p]
  BY <1>1
<1>5. ASSUME NEW p \in Moves!Place, \E k \in R : w[k] = p
      PROVE b[p] = c[dest[p]] /\ dest[p] \in Moves!Place
  <2>1. At(p) \in R /\ w[At(p)] = p  BY <1>3, <1>5
  <2>2. w[At(p) + 1] = dest[p] /\ dest[p] \in Moves!Place  BY <1>2, <2>1
  <2>3. b[p] = c[w[At(p) + 1]]  BY <1>4, <1>5
  <2>. QED BY <2>2, <2>3
<1>6. \A p \in Moves!Place : (\A k \in R : w[k] # p) => b[p] = c[p]  BY <1>4
<1>7. b \in [Moves!Place -> Moves!Place]
  <2>1. \A p \in Moves!Place : b[p] \in Moves!Place  BY <1>5, <1>6
  <2>2. \E g : b = [p \in Moves!Place |-> g[p]]
    <3>1. b = [p \in Moves!Place |-> b[p]]  BY <1>1
    <3>. QED BY <3>1
  <2>. QED BY <2>1, <2>2
<1>8. \A k \in R : b[w[k]] = c[dest[w[k]]]  BY <1>2, <1>5
<1>. QED BY <1>6, <1>7, <1>8 DEF b, w, R

\* Every coefficient is moved once, against the moves of the symbols.
LEMMA CoefficientsBack ==
  ASSUME Moves!MovesAssumption, MovesInv PROVE Moves!CoefficientsMoveBack
<1>. SUFFICES ASSUME Moves!Moved, Moves!Sources = Moves!Place
              PROVE  Moves!move_final_coefficients_to_pivot_rows([place \in Moves!Place |-> place], moves)
                       = dest
  BY DEF Moves!CoefficientsMoveBack
<1>. DEFINE X == [Moves!Place -> Moves!Place]
            id == [place \in Moves!Place |-> place]
            L == Len(moves)
            Eqn(f) == f = [n \in 0 .. L |-> IF n = 0 THEN id
              ELSE Moves!MovedBack(f[n - 1], moves[n])]
            u == CHOOSE f : Eqn(f)
            G == [y \in (1 .. L) \X X |-> Moves!MovedBack(y[2], moves[y[1]])]
<1>0. Moves!move_final_coefficients_to_pivot_rows(id, moves) = u[L]
  BY DEF Moves!move_final_coefficients_to_pivot_rows
<1>1. L \in Nat /\ id \in X  BY DEF MovesInv, MovesOk
<1>. HIDE DEF id
<1>2. \A n \in 1 .. L, c \in X : Moves!MovedBack(c, moves[n]) \in X  BY BackAlong
<1>3. G \in [(1 .. L) \X X -> X]
  <2>1. \A y \in (1 .. L) \X X : y = <<y[1], y[2]>> /\ y[1] \in 1 .. L /\ y[2] \in X  OBVIOUS
  <2>. HIDE DEF X
  <2>2. \A y \in (1 .. L) \X X : G[y] \in X  BY <1>2, <2>1
  <2>3. G = [y \in (1 .. L) \X X |-> G[y]]  OBVIOUS
  <2>. HIDE DEF G
  <2>. QED BY <2>2, <2>3
<1>. HIDE DEF X
<1>4. PICK f : Recurs(f, X, id, L, G)  BY <1>1, <1>3, Recursion
<1>5. \A n \in 1 .. L : f[n] = Moves!MovedBack(f[n - 1], moves[n])
  <2>. TAKE n \in 1 .. L
  <2>1. n - 1 \in 0 .. L  BY <1>1
  <2>2. f[n - 1] \in X  BY <1>4, <2>1 DEF Recurs
  <2>3. f[n] = G[<<n, f[n - 1]>>]  BY <1>4 DEF Recurs
  <2>. QED BY <2>2, <2>3
<1>6. Eqn(f)
  <2>1. f = [n \in 0 .. L |-> f[n]] /\ f[0] = id  BY <1>4 DEF Recurs
  <2>2. \A n \in 0 .. L : n # 0 => n \in 1 .. L  BY <1>1
  <2>. HIDE DEF L
  <2>. QED BY <2>1, <2>2, <1>5
<1>7. Eqn(u)  BY <1>6
<1>. HIDE DEF u
<1>8. u[0] = id /\ \A n \in 1 .. L : u[n] = Moves!MovedBack(u[n - 1], moves[n])
  <2>. DEFINE V(g, n) == IF n = 0 THEN id ELSE Moves!MovedBack(g[n - 1], moves[n])
  <2>1. \A n \in 0 .. L : u[n] = V(u, n)
    <3>1. u = [n \in 0 .. L |-> V(u, n)]  BY <1>7
    <3>. HIDE DEF V, L
    <3>. QED BY <3>1
  <2>2. 0 \in 0 .. L /\ \A n \in 1 .. L : n # 0 /\ n \in 0 .. L  BY <1>1
  <2>. QED BY <2>1, <2>2
<1>. HIDE DEF Eqn
\* p is a place that one of the first n cycles takes a symbol from.
<1>. DEFINE In(n, p) == \E m \in 1 .. n : \E k \in 1 .. Len(moves[m]) - 1 : moves[m][k] = p
            Good(n) == /\ u[n] \in X
                       /\ \A p \in Moves!Place : u[n][p] = IF In(n, p) THEN dest[p] ELSE p
            P == {n \in Nat : n <= L => Good(n)}
<1>9. 0 \in P
  <2>1. \A p \in Moves!Place : ~In(0, p) /\ id[p] = p  BY DEF id
  <2>. HIDE DEF In
  <2>. QED BY <1>1, <1>8, <2>1
<1>10. ASSUME NEW n \in Nat, n \in P PROVE n + 1 \in P
  <2>. SUFFICES ASSUME n + 1 <= L PROVE Good(n + 1)  OBVIOUS
  <2>1. n + 1 \in 1 .. L /\ (n + 1) - 1 = n /\ Good(n)  BY <1>1, <1>10
  <2>. DEFINE w == moves[n + 1]
              c == u[n]
  <2>2. u[n + 1] = Moves!MovedBack(c, w)  BY <1>8, <2>1
  <2>3. c \in [Moves!Place -> Moves!Place]  BY <2>1 DEF X
  <2>. HIDE DEF w, c, L
  <2>4. /\ u[n + 1] \in X
        /\ \A k \in 1 .. Len(w) - 1 : u[n + 1][w[k]] = c[dest[w[k]]]
        /\ \A p \in Moves!Place : (\A k \in 1 .. Len(w) - 1 : w[k] # p) => u[n + 1][p] = c[p]
    <3>1. n + 1 \in 1 .. Len(moves) /\ u[n + 1] = Moves!MovedBack(c, moves[n + 1])
          /\ w = moves[n + 1]
      BY <2>1, <2>2 DEF w, L
    <3>2. /\ Moves!MovedBack(c, moves[n + 1]) \in [Moves!Place -> Moves!Place]
          /\ \A k \in 1 .. Len(moves[n + 1]) - 1 :
               Moves!MovedBack(c, moves[n + 1])[moves[n + 1][k]] = c[dest[moves[n + 1][k]]]
          /\ \A p \in Moves!Place : (\A k \in 1 .. Len(moves[n + 1]) - 1 : moves[n + 1][k] # p)
                                => Moves!MovedBack(c, moves[n + 1])[p] = c[p]
      BY <2>3, <3>1, BackAlong
    <3>. QED BY <3>1, <3>2 DEF X
  <2>5. ASSUME NEW p \in Moves!Place PROVE u[n + 1][p] = IF In(n + 1, p) THEN dest[p] ELSE p
    <3>1. CASE \E k \in 1 .. Len(w) - 1 : w[k] = p
      <4>1. PICK k \in 1 .. Len(w) - 1 : w[k] = p  BY <3>1
      <4>2. n + 1 \in 1 .. n + 1  OBVIOUS
      <4>3. In(n + 1, p)  BY <4>1, <4>2 DEF w
      <4>4. u[n + 1][p] = c[dest[p]]  BY <2>4, <4>1
      <4>5. dest[p] = w[k + 1] /\ dest[p] \in Moves!Place
        BY <2>1, <4>1, MovePlaces DEF w, L
      <4>6. \E j \in 1 .. Len(w) - 1 : w[j] = dest[p]
        <5>1. w \in Seq(Moves!Place) /\ Len(w) > 1 /\ w[Len(w)] = w[1]
          BY <2>1 DEF MovesInv, MovesOk, w, L
        <5>. DEFINE N == Len(w)
        <5>2. N \in Nat /\ N > 1 /\ k \in 1 .. N - 1  BY <4>1, <5>1
        <5>. HIDE DEF N
        <5>3. 1 \in 1 .. N - 1 /\ (k + 1 = N \/ k + 1 \in 1 .. N - 1)  BY <5>2
        <5>. QED BY <4>5, <5>1, <5>3 DEF N
      <4>7. PICK j \in 1 .. Len(w) - 1 : w[j] = dest[p]  BY <4>6
      <4>8. ~In(n, dest[p])
        <5>. SUFFICES ASSUME NEW m \in 1 .. n, NEW e \in 1 .. Len(moves[m]) - 1,
                             moves[m][e] = dest[p]
                      PROVE FALSE
          OBVIOUS
        <5>1. m \in 1 .. Len(moves) /\ n + 1 \in 1 .. Len(moves) /\ m # n + 1
          BY <1>1, <2>1 DEF L
        <5>2. moves[n + 1][j] = moves[m][e] /\ j \in 1 .. Len(moves[n + 1]) - 1
          BY <4>7 DEF w
        <5>3. \A x, y \in 1 .. Len(moves) : \A k1 \in 1 .. Len(moves[x]) - 1,
                k2 \in 1 .. Len(moves[y]) - 1 :
                moves[x][k1] = moves[y][k2] => x = y /\ k1 = k2
          BY DEF MovesInv, MovesOk
        <5>. QED BY <5>1, <5>2, <5>3
      <4>9. c[dest[p]] = dest[p]
        <5>. HIDE DEF In
        <5>. QED BY <2>1, <4>5, <4>8 DEF c
      <4>. HIDE DEF In
      <4>. QED BY <4>3, <4>4, <4>9
    <3>2. CASE ~ \E k \in 1 .. Len(w) - 1 : w[k] = p
      <4>1. In(n + 1, p) <=> In(n, p)
        <5>1. ASSUME In(n + 1, p) PROVE In(n, p)
          <6>1. PICK m \in 1 .. n + 1 : \E k \in 1 .. Len(moves[m]) - 1 : moves[m][k] = p
            BY <5>1
          <6>2. m # n + 1  BY <3>2, <6>1 DEF w
          <6>3. m \in 1 .. n  BY <6>2
          <6>. QED BY <6>1, <6>3
        <5>2. \A m \in 1 .. n : m \in 1 .. n + 1  OBVIOUS
        <5>3. ASSUME In(n, p) PROVE In(n + 1, p)  BY <5>2, <5>3
        <5>. QED BY <5>1, <5>3
      <4>2. u[n + 1][p] = c[p]  BY <2>4, <3>2
      <4>. HIDE DEF In
      <4>. QED BY <2>1, <4>1, <4>2 DEF c
    <3>. QED BY <3>1, <3>2
  <2>. HIDE DEF In
  <2>. QED BY <2>4, <2>5
<1>. HIDE DEF P
<1>11. L \in P  BY <1>1, <1>9, <1>10, SetInduction
<1>12. Good(L)  BY <1>1, <1>11 DEF P
<1>13. ASSUME NEW p \in Moves!Place PROVE u[L][p] = dest[p]
  <2>1. CASE In(L, p)
    <3>. HIDE DEF In
    <3>. QED BY <1>12, <2>1
  <2>2. CASE ~In(L, p)
    <3>1. walk = <<>> /\ p \in visited
      BY DEF Moves!Moved, Moves!Planning, Walking, Replaying, MovesInv
    <3>2. \A k \in 1 .. Len(walk) : FALSE  BY <3>1
    <3>3. dest[p] = p  BY <2>2, <3>1, <3>2 DEF MovesInv, WalkOk
    <3>. HIDE DEF In
    <3>. QED BY <1>12, <2>2, <3>3
  <2>. QED BY <2>1, <2>2
<1>14. dest \in [Moves!Place -> Moves!Place \cup {None}]  BY DEF MovesInv, DestOk
<1>15. u[L] \in [Moves!Place -> Moves!Place \cup {None}]  BY <1>12 DEF X
<1>16. u[L] = dest  BY <1>13, <1>14, <1>15, SameFunction
<1>. QED BY <1>0, <1>16 DEF id

\* Members are counted alike.
LEMMA SameCount == ASSUME NEW T PROVE Moves!Cardinality(T) = Cardinality(T)
BY DEF Moves!Cardinality, Cardinality

\* A source has one place in one move, unless it lies right.
LEMMA MovedOnce == ASSUME Moves!MovesAssumption, MovesInv PROVE Moves!EachMovedOnce
<1>. SUFFICES ASSUME ~Moves!Planning
              PROVE  \A s \in Moves!Sources :
                       Moves!Cardinality({slot \in (1 .. Len(moves)) \X (1 .. MoveWidth + 1) :
                                      /\ slot[2] < Len(moves[slot[1]])
                                      /\ moves[slot[1]][slot[2]] = s})
                         = IF dest[s] = s THEN 0 ELSE 1
  BY DEF Moves!EachMovedOnce
<1>. TAKE s \in Moves!Sources
<1>. DEFINE T == {slot \in (1 .. Len(moves)) \X (1 .. MoveWidth + 1) :
                    /\ slot[2] < Len(moves[slot[1]])
                    /\ moves[slot[1]][slot[2]] = s}
<1>0. Len(moves) \in Nat /\ MoveWidth \in Nat
      /\ \A n \in 1 .. Len(moves) : moves[n] \in Seq(Moves!Place) /\ Len(moves[n]) \in Nat
  BY DEF MovesInv, MovesOk, Moves!MovesAssumption
<1>1. ASSUME NEW slot \in T
      PROVE  /\ slot = <<slot[1], slot[2]>> /\ slot[1] \in 1 .. Len(moves)
             /\ slot[2] \in 1 .. Len(moves[slot[1]]) - 1
             /\ moves[slot[1]][slot[2]] = s
  <2>1. slot = <<slot[1], slot[2]>> /\ slot[1] \in 1 .. Len(moves)
        /\ slot[2] \in 1 .. MoveWidth + 1
        /\ slot[2] < Len(moves[slot[1]]) /\ moves[slot[1]][slot[2]] = s
    OBVIOUS
  <2>2. Len(moves[slot[1]]) \in Nat  BY <1>0, <2>1
  <2>. QED BY <1>0, <2>1, <2>2
<1>2. \A x, y \in 1 .. Len(moves) : \A k1 \in 1 .. Len(moves[x]) - 1,
        k2 \in 1 .. Len(moves[y]) - 1 :
        moves[x][k1] = moves[y][k2] => x = y /\ k1 = k2
  BY DEF MovesInv, MovesOk
<1>3. CASE dest[s] = s
  <2>1. T = {}
    <3>. SUFFICES ASSUME NEW slot \in T PROVE FALSE  OBVIOUS
    <3>1. slot[1] \in 1 .. Len(moves) /\ slot[2] \in 1 .. Len(moves[slot[1]]) - 1
          /\ moves[slot[1]][slot[2]] = s
      BY <1>1
    <3>. HIDE DEF T
    <3>2. \A n \in 1 .. Len(moves) : \A k \in 1 .. Len(moves[n]) - 1 :
            dest[moves[n][k]] # moves[n][k]
      BY DEF MovesInv, MovesOk
    <3>. QED BY <1>3, <3>1, <3>2
  <2>. HIDE DEF T
  <2>2. Moves!Cardinality(T) = 0  BY <2>1, FS_EmptySet, SameCount
  <2>. QED BY <1>3, <2>2 DEF T
<1>4. CASE dest[s] # s
  <2>1. walk = <<>> /\ s \in visited  BY DEF Moves!Planning, Walking, Replaying, MovesInv
  <2>2. \A k \in 1 .. Len(walk) : FALSE  BY <2>1
  <2>3. PICK n \in 1 .. Len(moves) : \E k \in 1 .. Len(moves[n]) - 1 : moves[n][k] = s
    BY <1>4, <2>1, <2>2 DEF MovesInv, WalkOk
  <2>4. PICK k \in 1 .. Len(moves[n]) - 1 : moves[n][k] = s  BY <2>3
  <2>5. Len(moves[n]) - 1 <= MoveWidth
    <3>. DEFINE N == Len(moves[n]) - 1
                f == [j \in 1 .. N |-> moves[n][j]]
    <3>1. N \in Int  BY <1>0
    <3>2. \A j \in 1 .. N : moves[n][j] \in Moves!Place  BY MovePlaces
    <3>3. f \in Injection(1 .. N, Moves!Place)  BY <1>2, <3>2 DEF Injection, IsInjective
    <3>4. IsFiniteSet(Moves!Place) /\ Cardinality(Moves!Place) = MoveWidth
      <4>1. 0 \in Int /\ MoveWidth - 1 \in Int /\ 0 <= MoveWidth - 1
            /\ (MoveWidth - 1) - 0 + 1 = MoveWidth
        BY DEF Moves!MovesAssumption
      <4>2. ~(0 > MoveWidth - 1)  BY <4>1
      <4>. QED BY <4>1, <4>2, FS_Interval DEF Moves!Place
    <3>5. k \in 1 .. N  OBVIOUS
    <3>. HIDE DEF f, N
    <3>6. Cardinality(1 .. N) <= MoveWidth  BY <3>3, <3>4, FS_Injection
    <3>7. Cardinality(1 .. N) = N
      <4>1. 1 <= N /\ ~(1 > N) /\ N - 1 + 1 = N  BY <3>1, <3>5
      <4>. QED BY <3>1, <4>1, FS_Interval
    <3>. QED BY <3>6, <3>7 DEF N
  <2>6. k \in 1 .. MoveWidth + 1 /\ k < Len(moves[n])  BY <1>0, <2>5
  <2>7. <<n, k>> \in T  BY <2>4, <2>6
  <2>8. \A slot \in T : slot = <<n, k>>
    <3>. TAKE slot \in T
    <3>1. /\ slot = <<slot[1], slot[2]>> /\ slot[1] \in 1 .. Len(moves)
          /\ slot[2] \in 1 .. Len(moves[slot[1]]) - 1 /\ moves[slot[1]][slot[2]] = s
      BY <1>1
    <3>. DEFINE x == slot[1]
                j == slot[2]
    <3>. HIDE DEF x, j, T
    <3>2. x \in 1 .. Len(moves) /\ j \in 1 .. Len(moves[x]) - 1 /\ moves[x][j] = moves[n][k]
      BY <2>4, <3>1 DEF x, j
    <3>3. x = n /\ j = k  BY <1>2, <3>2
    <3>. QED BY <3>1, <3>3 DEF x, j
  <2>. HIDE DEF T
  <2>9. T = {<<n, k>>}  BY <2>7, <2>8
  <2>10. Moves!Cardinality(T) = 1  BY <2>9, FS_Singleton, SameCount
  <2>. QED BY <1>4, <2>10 DEF T
<1>. QED BY <1>3, <1>4

-----------------------------------------------------------------------------
(* Additions of rows.                                                      *)

\* Elements and sums of the field.
LEMMA FieldFacts ==
  /\ \A a, b \in Merges!F : Merges!FPlus(a, b) \in Merges!F /\ Merges!FTimes(a, b) \in Merges!F
  /\ \A a \in Merges!F : Merges!FPlus(a, 0) = a /\ Merges!FPlus(0, a) = a /\ Merges!FPlus(a, a) = 0
  /\ \A a \in Merges!F : Merges!FTimes(a, 0) = 0 /\ Merges!FTimes(a, 1) = a
            /\ Merges!FTimes(1, a) = a
  /\ \A a, b \in Merges!F : a # 0 /\ b # 0 => Merges!FTimes(a, b) # 0
<1>1. Merges!F = {0, 1, 2, 3}  BY DEF Merges!F
<1>2. \A a, b \in Merges!F : Merges!FPlus(a, b) \in Merges!F  BY <1>1 DEF Merges!FPlus
<1>3. \A a \in Merges!F : Merges!FPlus(a, 0) = a /\ Merges!FPlus(0, a) = a /\ Merges!FPlus(a, a) = 0
  BY DEF Merges!FPlus
<1>4. \A a, b \in Merges!F : a # 0 /\ b # 0 => Merges!FTimes(a, b) \in Merges!F \ {0}
  <2>1. \A n \in 0 .. 4 : n % 3 \in 0 .. 2  OBVIOUS
  <2>2. \A a, b \in Merges!F : a # 0 /\ b # 0 => (a - 1) + (b - 1) \in 0 .. 4  BY <1>1
  <2>. QED BY <2>1, <2>2 DEF Merges!FTimes, Merges!F
<1>5. \A a \in Merges!F : Merges!FTimes(a, 0) = 0 /\ Merges!FTimes(0, a) = 0
  BY DEF Merges!FTimes
<1>6. \A a \in Merges!F : Merges!FTimes(a, 1) = a /\ Merges!FTimes(1, a) = a
  <2>1. \A n \in 0 .. 2 : n % 3 = n  OBVIOUS
  <2>. QED BY <2>1, <1>1 DEF Merges!FTimes
<1>7. \A a, b \in Merges!F : Merges!FTimes(a, b) \in Merges!F  BY <1>4, <1>5, <1>1
<1>. QED BY <1>2, <1>3, <1>4, <1>5, <1>6, <1>7

Entries == [col : Merges!Col, value : Merges!F \ {Merges!Zero}]
Vectors == [Merges!Col -> Merges!F]

\* The entries of r are those of v, in order.
Denotes(r, v) ==
  /\ r \in Seq(Entries) /\ v \in Vectors
  /\ \A k, j \in 1 .. Len(r) : k < j => r[k].col < r[j].col
  /\ \A k \in 1 .. Len(r) : r[k].value = v[r[k].col]
  /\ \A c \in Merges!Col : v[c] # Merges!Zero => \E k \in 1 .. Len(r) : r[k].col = c

\* An entry that is not zero.
LEMMA EntryTyped ==
  ASSUME NEW c \in Merges!Col, NEW x \in Merges!F \ {Merges!Zero}
  PROVE  Merges!Entry(c, x) \in Entries /\ Merges!Entry(c, x).col = c
            /\ Merges!Entry(c, x).value = x
BY DEF Merges!Entry, Entries

\* What is appended behind all others is the entry of its column.
LEMMA AppendEntry ==
  ASSUME NEW r, NEW v, Denotes(r, v), NEW c \in Merges!Col, NEW x \in Merges!F \ {Merges!Zero},
         \A k \in 1 .. Len(r) : r[k].col < c
  PROVE  Denotes(Append(r, Merges!Entry(c, x)), [v EXCEPT ![c] = x])
<1>. DEFINE s == Append(r, Merges!Entry(c, x))
            w == [v EXCEPT ![c] = x]
<1>1. /\ s \in Seq(Entries) /\ Len(s) = Len(r) + 1 /\ Len(r) \in Nat
      /\ \A k \in 1 .. Len(r) : s[k] = r[k]
      /\ s[Len(r) + 1] = Merges!Entry(c, x)
  <2>1. r \in Seq(Entries)  BY DEF Denotes
  <2>. QED BY <2>1, EntryTyped, AppendTo
<1>2. /\ w \in Vectors /\ w[c] = x
      /\ \A d \in Merges!Col : d # c => w[d] = v[d]
  BY DEF Denotes, Vectors
<1>3. \A k \in 1 .. Len(r) : r[k].col \in Merges!Col /\ r[k].col # c /\ Merges!Col \subseteq Int
  <2>1. \A k \in 1 .. Len(r) : r[k] \in Entries  BY DEF Denotes
  <2>2. Merges!Col \subseteq Int  BY DEF Merges!Col
  <2>. QED BY <2>1, <2>2 DEF Entries
<1>4. s[Len(r) + 1].col = c /\ s[Len(r) + 1].value = x  BY <1>1, EntryTyped
<1>. HIDE DEF s, w
<1>5. \A k \in 1 .. Len(s) : k \in 1 .. Len(r) \/ k = Len(r) + 1  BY <1>1
<1>6. \A k, j \in 1 .. Len(s) : k < j => s[k].col < s[j].col
  <2>. TAKE k, j \in 1 .. Len(s)
  <2>. HAVE k < j
  <2>1. k \in 1 .. Len(r) /\ s[k] = r[k]  BY <1>1
  <2>2. CASE j \in 1 .. Len(r)  BY <1>1, <2>1, <2>2 DEF Denotes
  <2>3. CASE j = Len(r) + 1  BY <1>4, <2>1, <2>3
  <2>. QED BY <1>5, <2>2, <2>3
<1>7. \A k \in 1 .. Len(s) : s[k].value = w[s[k].col]
  <2>. TAKE k \in 1 .. Len(s)
  <2>1. CASE k \in 1 .. Len(r)
    <3>1. s[k] = r[k] /\ r[k].value = v[r[k].col]  BY <1>1, <2>1 DEF Denotes
    <3>2. w[r[k].col] = v[r[k].col]  BY <1>2, <1>3, <2>1
    <3>. QED BY <3>1, <3>2
  <2>2. CASE k = Len(r) + 1  BY <1>2, <1>4, <2>2
  <2>. QED BY <1>5, <2>1, <2>2
<1>8. \A d \in Merges!Col : w[d] # Merges!Zero => \E k \in 1 .. Len(s) : s[k].col = d
  <2>. TAKE d \in Merges!Col
  <2>. HAVE w[d] # Merges!Zero
  <2>1. CASE d = c
    <3>1. Len(r) + 1 \in 1 .. Len(s)  BY <1>1
    <3>. QED BY <1>4, <2>1, <3>1
  <2>2. CASE d # c
    <3>1. PICK k \in 1 .. Len(r) : r[k].col = d  BY <1>2, <2>2 DEF Denotes
    <3>2. k \in 1 .. Len(s) /\ s[k].col = d  BY <1>1, <3>1
    <3>. QED BY <3>2
  <2>. QED BY <2>1, <2>2
<1>9. Denotes(s, w)  BY <1>1, <1>2, <1>6, <1>7, <1>8 DEF Denotes
<1>. QED BY <1>9 DEF s, w

\* An entry may be changed, but not to zero.
LEMMA ReplaceEntry ==
  ASSUME NEW r, NEW v, Denotes(r, v), NEW k \in 1 .. Len(r), NEW x \in Merges!F \ {Merges!Zero}
  PROVE  LET s == [r EXCEPT ![k].value = x] IN
         /\ Denotes(s, [v EXCEPT ![r[k].col] = x])
         /\ Len(s) = Len(r) /\ \A j \in 1 .. Len(r) : s[j].col = r[j].col
<1>. DEFINE c == r[k].col
            s == [r EXCEPT ![k].value = x]
            w == [v EXCEPT ![c] = x]
<1>1. r \in Seq(Entries) /\ v \in Vectors /\ Len(r) \in Nat  BY DEF Denotes
<1>2. \A j \in 1 .. Len(r) : r[j] \in Entries /\ r[j].col \in Merges!Col
  <2>1. \A j \in 1 .. Len(r) : r[j] \in Entries  BY <1>1
  <2>2. \A x1 \in Entries : x1.col \in Merges!Col  BY DEF Entries
  <2>. QED BY <2>1, <2>2
<1>3. [r[k] EXCEPT !.value = x] = Merges!Entry(c, x)  BY <1>2 DEF Entries, Merges!Entry
<1>4. s = [r EXCEPT ![k] = Merges!Entry(c, x)]  BY <1>3
<1>5. /\ s \in Seq(Entries) /\ Len(s) = Len(r)
      /\ s[k] = Merges!Entry(c, x)
      /\ \A j \in 1 .. Len(r) : j # k => s[j] = r[j]
  BY <1>1, <1>2, <1>4, EntryTyped
<1>6. s[k].col = c /\ s[k].value = x /\ c \in Merges!Col  BY <1>2, <1>5, EntryTyped
<1>7. /\ w \in Vectors /\ w[c] = x
      /\ \A d \in Merges!Col : d # c => w[d] = v[d]
  BY <1>1, <1>6 DEF Vectors
<1>8. \A j \in 1 .. Len(r) : s[j].col = r[j].col /\ (j # k => r[j].col # c)
  <2>1. \A j \in 1 .. Len(r) : s[j].col = r[j].col  BY <1>5, <1>6
  <2>2. \A j \in 1 .. Len(r) : j < k \/ k < j \/ j = k  BY <1>1
  <2>3. \A d \in Merges!Col : d \in Int  BY DEF Merges!Col
  <2>4. \A j \in 1 .. Len(r) : j # k => r[j].col < c \/ c < r[j].col
    BY <2>2 DEF Denotes
  <2>. QED BY <2>1, <2>4, <2>3, <1>2
<1>. HIDE DEF s, w, c
<1>9. \A j, m \in 1 .. Len(s) : j < m => s[j].col < s[m].col
  BY <1>5, <1>8 DEF Denotes
<1>10. \A j \in 1 .. Len(s) : s[j].value = w[s[j].col]
  <2>. TAKE j \in 1 .. Len(s)
  <2>1. CASE j = k  BY <1>6, <1>7, <2>1
  <2>2. CASE j # k
    <3>1. s[j] = r[j] /\ r[j].value = v[r[j].col]  BY <1>5, <2>2 DEF Denotes
    <3>2. r[j].col \in Merges!Col /\ r[j].col # c  BY <1>2, <1>5, <1>8, <2>2
    <3>. QED BY <1>7, <3>1, <3>2
  <2>. QED BY <2>1, <2>2
<1>11. \A d \in Merges!Col : w[d] # Merges!Zero => \E j \in 1 .. Len(s) : s[j].col = d
  <2>. TAKE d \in Merges!Col
  <2>. HAVE w[d] # Merges!Zero
  <2>1. CASE d = c  BY <1>5, <1>6, <2>1
  <2>2. CASE d # c
    <3>1. PICK j \in 1 .. Len(r) : r[j].col = d  BY <1>7, <2>2 DEF Denotes
    <3>. QED BY <1>5, <1>8, <3>1
  <2>. QED BY <2>1, <2>2
<1>12. Denotes(s, w)  BY <1>5, <1>7, <1>9, <1>10, <1>11 DEF Denotes
<1>. QED BY <1>5, <1>8, <1>12 DEF s, w, c

\* Two sequences, one behind the other.
LEMMA Joined ==
  ASSUME NEW T, NEW a \in Seq(T), NEW b \in Seq(T)
  PROVE  /\ a \o b \in Seq(T) /\ Len(a \o b) = Len(a) + Len(b)
         /\ Len(a) \in Nat /\ Len(b) \in Nat
         /\ \A j \in 1 .. Len(a) + Len(b) :
              (a \o b)[j] = IF j <= Len(a) THEN a[j] ELSE b[j - Len(a)]
OBVIOUS

\* A part of a sequence.
LEMMA Part ==
  ASSUME NEW T, NEW a \in Seq(T), NEW m \in 1 .. Len(a) + 1, NEW n \in 0 .. Len(a), m <= n + 1
  PROVE  /\ SubSeq(a, m, n) \in Seq(T) /\ Len(SubSeq(a, m, n)) = n - m + 1
         /\ \A j \in 1 .. n - m + 1 : SubSeq(a, m, n)[j] = a[m + j - 1]
OBVIOUS

\* An entry taken out leaves a zero.
LEMMA RemoveEntry ==
  ASSUME NEW r, NEW v, Denotes(r, v), NEW k \in 1 .. Len(r)
  PROVE  LET s == Merges!remove_matrix_row_entry_at(r, k) IN
         /\ Denotes(s, [v EXCEPT ![r[k].col] = Merges!Zero])
         /\ Len(s) = Len(r) - 1
         /\ \A j \in 1 .. Len(r) - 1 : s[j] = IF j < k THEN r[j] ELSE r[j + 1]
<1>. DEFINE c == r[k].col
            s == Merges!remove_matrix_row_entry_at(r, k)
            w == [v EXCEPT ![c] = Merges!Zero]
            N == Len(r)
<1>1. r \in Seq(Entries) /\ v \in Vectors /\ N \in Nat /\ k \in Nat  BY DEF Denotes
<1>2. \A j \in 1 .. N : r[j] \in Entries /\ r[j].col \in Merges!Col
  <2>1. \A j \in 1 .. N : r[j] \in Entries  BY <1>1
  <2>2. \A x \in Entries : x.col \in Merges!Col  BY DEF Entries
  <2>. QED BY <2>1, <2>2
<1>3. /\ s \in Seq(Entries) /\ Len(s) = N - 1
      /\ \A j \in 1 .. N - 1 : s[j] = IF j < k THEN r[j] ELSE r[j + 1]
  <2>. DEFINE a == SubSeq(r, 1, k - 1)
              b == SubSeq(r, k + 1, N)
  <2>1. a \in Seq(Entries) /\ Len(a) = k - 1 /\ \A j \in 1 .. k - 1 : a[j] = r[j]
    <3>1. k - 1 \in 0 .. N /\ 1 \in 1 .. N + 1 /\ 1 <= k - 1 + 1  BY <1>1
    <3>2. /\ a \in Seq(Entries) /\ Len(a) = k - 1 - 1 + 1
          /\ \A j \in 1 .. k - 1 - 1 + 1 : a[j] = r[1 + j - 1]
      BY <1>1, <3>1, Part
    <3>. QED BY <1>1, <3>2
  <2>2. b \in Seq(Entries) /\ Len(b) = N - k /\ \A j \in 1 .. N - k : b[j] = r[k + j]
    <3>1. k + 1 \in 1 .. N + 1 /\ N \in 0 .. N /\ k + 1 <= N + 1  BY <1>1
    <3>2. /\ b \in Seq(Entries) /\ Len(b) = N - (k + 1) + 1
          /\ \A j \in 1 .. N - (k + 1) + 1 : b[j] = r[k + 1 + j - 1]
      BY <1>1, <3>1, Part
    <3>. QED BY <1>1, <3>2
  <2>3. s = a \o b  BY DEF Merges!remove_matrix_row_entry_at
  <2>. HIDE DEF a, b, s
  <2>4. /\ a \o b \in Seq(Entries) /\ Len(a \o b) = N - 1
        /\ \A j \in 1 .. N - 1 : (a \o b)[j] = IF j < k THEN a[j] ELSE b[j - k + 1]
    <3>1. /\ a \o b \in Seq(Entries) /\ Len(a \o b) = Len(a) + Len(b)
          /\ \A j \in 1 .. Len(a) + Len(b) :
               (a \o b)[j] = IF j <= Len(a) THEN a[j] ELSE b[j - Len(a)]
      BY <2>1, <2>2, Joined
    <3>2. Len(a) + Len(b) = N - 1  BY <1>1, <2>1, <2>2
    <3>3. \A j \in 1 .. N - 1 : (j <= Len(a) <=> j < k) /\ j - Len(a) = j - k + 1
      BY <1>1, <2>1
    <3>. QED BY <3>1, <3>2, <3>3
  <2>6. \A j \in 1 .. N - 1 : ~(j < k) => b[j - k + 1] = r[j + 1]
    <3>. TAKE j \in 1 .. N - 1
    <3>. HAVE ~(j < k)
    <3>1. j - k + 1 \in 1 .. N - k /\ k + (j - k + 1) = j + 1  BY <1>1
    <3>2. b[j - k + 1] = r[k + (j - k + 1)]  BY <2>2, <3>1
    <3>. QED BY <3>1, <3>2
  <2>7. \A j \in 1 .. N - 1 : j < k => a[j] = r[j]  BY <1>1, <2>1
  <2>. QED BY <2>3, <2>4, <2>6, <2>7
<1>. HIDE DEF s
<1>4. /\ w \in Vectors /\ w[c] = Merges!Zero
      /\ \A d \in Merges!Col : d # c => w[d] = v[d]
  BY <1>1, <1>2 DEF Vectors, Merges!Zero, Merges!F
<1>5. \A j \in 1 .. N : j # k => r[j].col # c
  <2>1. \A j \in 1 .. N : j < k \/ k < j \/ j = k  BY <1>1
  <2>2. \A d \in Merges!Col : d \in Int  BY DEF Merges!Col
  <2>3. \A j \in 1 .. N : j # k => r[j].col < c \/ c < r[j].col  BY <2>1 DEF Denotes
  <2>. QED BY <2>3, <2>2, <1>2
<1>. DEFINE At(j) == IF j < k THEN j ELSE j + 1
<1>6. \A j \in 1 .. N - 1 : /\ At(j) \in 1 .. N /\ At(j) # k /\ s[j] = r[At(j)]
                            /\ \A m \in 1 .. N - 1 : j < m => At(j) < At(m)
  BY <1>1, <1>3
<1>7. \A j \in 1 .. N : j # k => \E m \in 1 .. N - 1 : At(m) = j
  <2>. TAKE j \in 1 .. N
  <2>. HAVE j # k
  <2>1. CASE j < k  BY <1>1, <2>1
  <2>2. CASE j > k
    <3>1. j - 1 \in 1 .. N - 1 /\ At(j - 1) = j  BY <1>1, <2>2
    <3>. QED BY <3>1
  <2>. QED BY <1>1, <2>1, <2>2
<1>. HIDE DEF At, w, c
<1>8. \A j, m \in 1 .. Len(s) : j < m => s[j].col < s[m].col
  <2>. TAKE j, m \in 1 .. Len(s)
  <2>. HAVE j < m
  <2>1. At(j) \in 1 .. N /\ At(m) \in 1 .. N /\ At(j) < At(m) /\ s[j] = r[At(j)] /\ s[m] = r[At(m)]
    BY <1>3, <1>6
  <2>. QED BY <2>1 DEF Denotes
<1>9. \A j \in 1 .. Len(s) : s[j].value = w[s[j].col]
  <2>. TAKE j \in 1 .. Len(s)
  <2>1. At(j) \in 1 .. N /\ At(j) # k /\ s[j] = r[At(j)]  BY <1>3, <1>6
  <2>2. r[At(j)].value = v[r[At(j)].col] /\ r[At(j)].col \in Merges!Col /\ r[At(j)].col # c
    BY <1>2, <1>5, <2>1 DEF Denotes
  <2>. QED BY <1>4, <2>1, <2>2
<1>10. \A d \in Merges!Col : w[d] # Merges!Zero => \E j \in 1 .. Len(s) : s[j].col = d
  <2>. TAKE d \in Merges!Col
  <2>. HAVE w[d] # Merges!Zero
  <2>1. d # c /\ v[d] # Merges!Zero  BY <1>4
  <2>2. PICK j \in 1 .. N : r[j].col = d  BY <2>1 DEF Denotes
  <2>3. j # k  BY <2>1, <2>2 DEF c
  <2>4. PICK m \in 1 .. N - 1 : At(m) = j  BY <1>7, <2>3
  <2>5. s[m] = r[j]  BY <1>6, <2>4
  <2>. QED BY <1>3, <2>2, <2>5
<1>11. Denotes(s, w)  BY <1>3, <1>4, <1>8, <1>9, <1>10 DEF Denotes
<1>. QED BY <1>3, <1>11 DEF s, w, c

\* The first entry taken off leaves a zero.
LEMMA TailEntries ==
  ASSUME NEW r, NEW v, Denotes(r, v), r # <<>>
  PROVE  /\ Denotes(Tail(r), [v EXCEPT ![r[1].col] = Merges!Zero])
         /\ Tail(r) \in Seq(Entries) /\ Len(Tail(r)) = Len(r) - 1 /\ Len(r) \in Nat \ {0}
         /\ \A k \in 1 .. Len(r) - 1 : Tail(r)[k] = r[k + 1]
<1>1. r \in Seq(Entries) /\ Len(r) \in Nat \ {0}  BY DEF Denotes
<1>2. /\ Tail(r) \in Seq(Entries) /\ Len(Tail(r)) = Len(r) - 1
      /\ \A k \in 1 .. Len(r) - 1 : Tail(r)[k] = r[k + 1]
  BY <1>1
<1>3. Merges!remove_matrix_row_entry_at(r, 1) = Tail(r)
  <2>. DEFINE b == SubSeq(r, 2, Len(r))
  <2>1. b \in Seq(Entries) /\ Len(b) = Len(r) - 1 /\ \A k \in 1 .. Len(r) - 1 : b[k] = r[k + 1]
    <3>1. 2 \in 1 .. Len(r) + 1 /\ Len(r) \in 0 .. Len(r) /\ 2 <= Len(r) + 1  BY <1>1
    <3>2. /\ b \in Seq(Entries) /\ Len(b) = Len(r) - 2 + 1
          /\ \A k \in 1 .. Len(r) - 2 + 1 : b[k] = r[2 + k - 1]
      BY <1>1, <3>1, Part
    <3>. QED BY <1>1, <3>2
  <2>2. SubSeq(r, 1, 0) = <<>>  BY <1>1
  <2>3. Merges!remove_matrix_row_entry_at(r, 1) = <<>> \o b
    BY <2>2 DEF Merges!remove_matrix_row_entry_at
  <2>. HIDE DEF b
  <2>4. <<>> \o b = b  BY <2>1
  <2>5. b = Tail(r)  BY <1>2, <2>1, SeqEqual
  <2>. QED BY <2>3, <2>4, <2>5
<1>4. 1 \in 1 .. Len(r)  BY <1>1
<1>5. Denotes(Tail(r), [v EXCEPT ![r[1].col] = Merges!Zero])
  <2>1. Denotes(Merges!remove_matrix_row_entry_at(r, 1), [v EXCEPT ![r[1].col] = Merges!Zero])
    BY <1>4, RemoveEntry
  <2>. QED BY <1>3, <2>1
<1>. QED BY <1>1, <1>2, <1>5

\* What is put between smaller and larger columns is the entry of its column.
LEMMA InsertEntry ==
  ASSUME NEW r, NEW v, Denotes(r, v), NEW c \in Merges!Col, NEW x \in Merges!F \ {Merges!Zero},
         NEW k \in 1 .. Len(r) + 1,
         \A j \in 1 .. k - 1 : r[j].col < c,
         \A j \in k .. Len(r) : c < r[j].col
  PROVE  LET s == Merges!insert_matrix_row_entry_at(r, k, Merges!Entry(c, x)) IN
         /\ Denotes(s, [v EXCEPT ![c] = x])
         /\ Len(s) = Len(r) + 1
         /\ \A j \in 1 .. Len(r) + 1 :
              s[j] = IF j < k THEN r[j] ELSE IF j = k THEN Merges!Entry(c, x) ELSE r[j - 1]
<1>. DEFINE e == Merges!Entry(c, x)
            s == Merges!insert_matrix_row_entry_at(r, k, e)
            w == [v EXCEPT ![c] = x]
            N == Len(r)
<1>1. r \in Seq(Entries) /\ v \in Vectors /\ N \in Nat /\ k \in Nat  BY DEF Denotes
<1>2. \A j \in 1 .. N : r[j] \in Entries /\ r[j].col \in Merges!Col
  <2>1. \A j \in 1 .. N : r[j] \in Entries  BY <1>1
  <2>2. \A y \in Entries : y.col \in Merges!Col  BY DEF Entries
  <2>. QED BY <2>1, <2>2
<1>3. e \in Entries /\ e.col = c /\ e.value = x  BY EntryTyped
<1>. HIDE DEF e
<1>4. /\ s \in Seq(Entries) /\ Len(s) = N + 1
      /\ \A j \in 1 .. N + 1 : s[j] = IF j < k THEN r[j] ELSE IF j = k THEN e ELSE r[j - 1]
  <2>. DEFINE a == SubSeq(r, 1, k - 1)
              b == SubSeq(r, k, N)
  <2>1. a \in Seq(Entries) /\ Len(a) = k - 1 /\ \A j \in 1 .. k - 1 : a[j] = r[j]
    <3>1. k - 1 \in 0 .. N /\ 1 \in 1 .. N + 1 /\ 1 <= k - 1 + 1  BY <1>1
    <3>2. /\ a \in Seq(Entries) /\ Len(a) = k - 1 - 1 + 1
          /\ \A j \in 1 .. k - 1 - 1 + 1 : a[j] = r[1 + j - 1]
      BY <1>1, <3>1, Part
    <3>. QED BY <1>1, <3>2
  <2>2. b \in Seq(Entries) /\ Len(b) = N - k + 1 /\ \A j \in 1 .. N - k + 1 : b[j] = r[k + j - 1]
    <3>1. k \in 1 .. N + 1 /\ N \in 0 .. N /\ k <= N + 1  BY <1>1
    <3>. QED BY <1>1, <3>1, Part
  <2>3. s = (a \o <<e>>) \o b  BY DEF Merges!insert_matrix_row_entry_at
  <2>. HIDE DEF a, b, s
  <2>. DEFINE f == Append(a, e)
  <2>4. a \o <<e>> = f  BY <1>3, <2>1
  <2>5. /\ f \in Seq(Entries) /\ Len(f) = k
        /\ \A j \in 1 .. k - 1 : f[j] = r[j]
        /\ f[k] = e
    BY <1>1, <1>3, <2>1, AppendTo
  <2>. HIDE DEF f
  <2>6. /\ f \o b \in Seq(Entries) /\ Len(f \o b) = N + 1
        /\ \A j \in 1 .. N + 1 : (f \o b)[j] = IF j <= k THEN f[j] ELSE b[j - k]
    <3>1. /\ f \o b \in Seq(Entries) /\ Len(f \o b) = Len(f) + Len(b)
          /\ \A j \in 1 .. Len(f) + Len(b) :
               (f \o b)[j] = IF j <= Len(f) THEN f[j] ELSE b[j - Len(f)]
      BY <2>2, <2>5, Joined
    <3>2. Len(f) + Len(b) = N + 1  BY <1>1, <2>2, <2>5
    <3>. QED BY <2>5, <3>1, <3>2
  <2>7. \A j \in 1 .. N + 1 : ~(j <= k) => b[j - k] = r[j - 1]
    <3>. TAKE j \in 1 .. N + 1
    <3>. HAVE ~(j <= k)
    <3>1. j - k \in 1 .. N - k + 1 /\ k + (j - k) - 1 = j - 1  BY <1>1
    <3>. QED BY <2>2, <3>1
  <2>8. \A j \in 1 .. N + 1 : j <= k => f[j] = IF j < k THEN r[j] ELSE e
    <3>. TAKE j \in 1 .. N + 1
    <3>. HAVE j <= k
    <3>1. (j < k /\ j \in 1 .. k - 1) \/ (j = k /\ ~(j < k))  BY <1>1
    <3>. QED BY <2>5, <3>1
  <2>9. s = f \o b  BY <2>3, <2>4
  <2>10. \A j \in 1 .. N + 1 :
           (f \o b)[j] = IF j < k THEN r[j] ELSE IF j = k THEN e ELSE r[j - 1]
    <3>. TAKE j \in 1 .. N + 1
    <3>1. CASE j <= k
      <4>1. (f \o b)[j] = IF j < k THEN r[j] ELSE e  BY <2>6, <2>8, <3>1
      <4>2. j < k \/ j = k  BY <1>1, <3>1
      <4>. QED BY <4>1, <4>2
    <3>2. CASE ~(j <= k)
      <4>1. (f \o b)[j] = r[j - 1]  BY <2>6, <2>7, <3>2
      <4>2. ~(j < k) /\ j # k  BY <1>1, <3>2
      <4>. QED BY <4>1, <4>2
    <3>. QED BY <3>1, <3>2
  <2>. QED BY <2>6, <2>9, <2>10
<1>. HIDE DEF s
<1>5. /\ w \in Vectors /\ w[c] = x
      /\ \A d \in Merges!Col : d # c => w[d] = v[d]
  BY <1>1 DEF Vectors
<1>6. \A d \in Merges!Col : d \in Int  BY DEF Merges!Col
<1>7. \A j \in 1 .. N : r[j].col # c
  <2>1. \A j \in 1 .. N : j \in 1 .. k - 1 \/ j \in k .. N  BY <1>1
  <2>. QED BY <2>1, <1>2, <1>6
<1>. HIDE DEF w
<1>8. \A j \in 1 .. N + 1 : j < k \/ j = k \/ k < j  BY <1>1
<1>9. \A j, m \in 1 .. Len(s) : j < m => s[j].col < s[m].col
  <2>. TAKE j, m \in 1 .. Len(s)
  <2>. HAVE j < m
  <2>0. j \in 1 .. N + 1 /\ m \in 1 .. N + 1  BY <1>4
  <2>1. CASE m < k
    <3>1. j \in 1 .. N /\ m \in 1 .. N /\ s[j] = r[j] /\ s[m] = r[m]  BY <1>1, <1>4, <2>0, <2>1
    <3>. QED BY <3>1 DEF Denotes
  <2>2. CASE m = k
    <3>1. j \in 1 .. k - 1 /\ s[j] = r[j] /\ s[m] = e  BY <1>1, <1>4, <2>0, <2>2
    <3>. QED BY <1>3, <3>1
  <2>3. CASE k < m /\ j < k
    <3>1. /\ j \in 1 .. k - 1 /\ j \in 1 .. N /\ m - 1 \in k .. N /\ m - 1 \in 1 .. N
          /\ j < m - 1 /\ s[j] = r[j] /\ s[m] = r[m - 1]
      BY <1>1, <1>4, <2>0, <2>3
    <3>. QED BY <3>1 DEF Denotes
  <2>4. CASE k < m /\ j = k
    <3>1. m - 1 \in k .. N /\ s[j] = e /\ s[m] = r[m - 1]  BY <1>1, <1>4, <2>0, <2>4
    <3>. QED BY <1>3, <3>1
  <2>5. CASE k < j
    <3>1. /\ j - 1 \in 1 .. N /\ m - 1 \in 1 .. N /\ j - 1 < m - 1
          /\ s[j] = r[j - 1] /\ s[m] = r[m - 1]
      BY <1>1, <1>4, <2>0, <2>5
    <3>. QED BY <3>1 DEF Denotes
  <2>. QED BY <1>8, <2>0, <2>1, <2>2, <2>3, <2>4, <2>5
<1>10. \A j \in 1 .. Len(s) : s[j].value = w[s[j].col]
  <2>. TAKE j \in 1 .. Len(s)
  <2>1. CASE j = k  BY <1>3, <1>4, <1>5, <2>1
  <2>2. CASE j # k
    <3>1. PICK m \in 1 .. N : s[j] = r[m]
      <4>1. CASE j < k  BY <1>1, <1>4, <4>1
      <4>2. CASE k < j
        <5>1. j - 1 \in 1 .. N /\ s[j] = r[j - 1]  BY <1>1, <1>4, <4>2
        <5>. QED BY <5>1
      <4>. QED BY <1>4, <1>8, <2>2, <4>1, <4>2
    <3>2. r[m].value = v[r[m].col] /\ r[m].col \in Merges!Col /\ r[m].col # c
      BY <1>2, <1>7, <3>1 DEF Denotes
    <3>. QED BY <1>5, <3>1, <3>2
  <2>. QED BY <2>1, <2>2
<1>11. \A d \in Merges!Col : w[d] # Merges!Zero => \E j \in 1 .. Len(s) : s[j].col = d
  <2>. TAKE d \in Merges!Col
  <2>. HAVE w[d] # Merges!Zero
  <2>1. CASE d = c  BY <1>1, <1>3, <1>4, <2>1
  <2>2. CASE d # c
    <3>1. PICK m \in 1 .. N : r[m].col = d  BY <1>5, <2>2 DEF Denotes
    <3>2. CASE m < k
      <4>1. m \in 1 .. N + 1 /\ s[m] = r[m]  BY <1>1, <1>4, <3>2
      <4>. QED BY <1>4, <3>1, <4>1
    <3>3. CASE ~(m < k)
      <4>1. m + 1 \in 1 .. N + 1 /\ s[m + 1] = r[m]  BY <1>1, <1>4, <3>3
      <4>. QED BY <1>4, <3>1, <4>1
    <3>. QED BY <3>2, <3>3
  <2>. QED BY <2>1, <2>2
<1>12. Denotes(s, w)  BY <1>4, <1>5, <1>9, <1>10, <1>11 DEF Denotes
<1>. QED BY <1>4, <1>12 DEF s, w, e

\* A sorted row has a place for every column.
LEMMA PartitionPoint ==
  ASSUME NEW r, NEW v, Denotes(r, v), NEW c \in Merges!Col, NEW from \in 1 .. Len(r) + 1,
         \A j \in 1 .. from - 1 : r[j].col < c
  PROVE  LET k == Merges!partition_point(r, from, c) IN
         /\ k \in from .. Len(r) + 1
         /\ \A j \in 1 .. k - 1 : r[j].col < c
         /\ \A j \in k .. Len(r) : r[j].col >= c
<1>. DEFINE N == Len(r)
            T == {k \in from .. N + 1 : k <= N => r[k].col >= c}
            Good(k) == /\ \A j \in from .. k - 1 : r[j].col < c
                       /\ k <= N => r[k].col >= c
            p == Merges!partition_point(r, from, c)
<1>1. N \in Nat /\ from \in Nat  BY DEF Denotes
<1>2. \A j \in 1 .. N : r[j].col \in Int
  <2>1. \A j \in 1 .. N : r[j] \in Entries  BY DEF Denotes
  <2>2. \A x \in Entries : x.col \in Int  BY DEF Entries, Merges!Col
  <2>. QED BY <2>1, <2>2
<1>3. c \in Int  BY DEF Merges!Col
<1>4. PICK k \in T : \A m \in T : k <= m
  <2>1. N + 1 \in T /\ T \subseteq Nat  BY <1>1
  <2>. HIDE DEF T
  <2>. QED BY <2>1, LeastNumber
<1>5. k \in from .. N + 1 /\ Good(k)
  <2>1. \A j \in from .. k - 1 : j \notin T /\ j \in from .. N + 1 /\ j <= N  BY <1>1, <1>4
  <2>2. \A j \in from .. k - 1 : r[j].col < c
    <3>1. \A j \in from .. k - 1 : j \in 1 .. N /\ ~(r[j].col >= c)  BY <1>1, <2>1
    <3>. QED BY <3>1, <1>2, <1>3
  <2>. QED BY <1>4, <2>2
<1>6. p \in from .. N + 1 /\ Good(p)
  <2>1. p = CHOOSE m \in from .. N + 1 : Good(m)  BY DEF Merges!partition_point
  <2>. HIDE DEF Good, p
  <2>. QED BY <1>5, <2>1
<1>. HIDE DEF p
<1>7. \A j \in 1 .. p - 1 : r[j].col < c
  <2>1. \A j \in 1 .. p - 1 : j \in 1 .. from - 1 \/ j \in from .. p - 1  BY <1>1, <1>6
  <2>. QED BY <1>6, <2>1
<1>8. \A j \in p .. N : r[j].col >= c
  <2>. TAKE j \in p .. N
  <2>1. p <= N /\ r[p].col >= c /\ p \in 1 .. N /\ j \in 1 .. N  BY <1>1, <1>6
  <2>2. j = p \/ r[p].col < r[j].col  BY <1>1, <1>6, <2>1 DEF Denotes
  <2>. QED BY <1>2, <1>3, <2>1, <2>2
<1>. QED BY <1>6, <1>7, <1>8 DEF p

\* The entries of a vector are its entries.
LEMMA EntriesDenote ==
  ASSUME Merges!MergeAssumption, NEW v \in Vectors
  PROVE  Denotes(Merges!EntriesOf(v), v)
<1>. DEFINE Eqn(f) == f = [c \in 0 .. MergeWidth |-> IF c = 0 THEN <<>>
                             ELSE f[c - 1] \o Merges!SumEntry(c - 1, v[c - 1])]
            X == Seq(Entries)
            G == [z \in (1 .. MergeWidth) \X X |-> z[2] \o Merges!SumEntry(z[1] - 1, v[z[1] - 1])]
<1>0. MergeWidth \in Nat \ {0}  BY DEF Merges!MergeAssumption
<1>1. \A c \in 1 .. MergeWidth : c - 1 \in Merges!Col /\ v[c - 1] \in Merges!F
  BY <1>0 DEF Merges!Col, Vectors
<1>2. \A c \in 1 .. MergeWidth : Merges!SumEntry(c - 1, v[c - 1]) \in X
  <2>. TAKE c \in 1 .. MergeWidth
  <2>1. CASE v[c - 1] = Merges!Zero  BY <2>1 DEF Merges!SumEntry
  <2>2. CASE v[c - 1] # Merges!Zero  BY <1>1, <2>2, EntryTyped DEF Merges!SumEntry
  <2>. QED BY <2>1, <2>2
<1>3. G \in [(1 .. MergeWidth) \X X -> X]
  <2>1. \A z \in (1 .. MergeWidth) \X X : z[2] \in X /\ Merges!SumEntry(z[1] - 1, v[z[1] - 1]) \in X
    BY <1>2
  <2>2. \A a, b \in X : a \o b \in X  OBVIOUS
  <2>. HIDE DEF X
  <2>. QED BY <2>1, <2>2
<1>4. PICK f : Recurs(f, X, <<>>, MergeWidth, G)
  <2>1. <<>> \in X  OBVIOUS
  <2>. HIDE DEF X, G
  <2>. QED BY <1>0, <1>3, <2>1, Recursion
<1>5. /\ f \in [0 .. MergeWidth -> X] /\ f[0] = <<>>
      /\ \A c \in 1 .. MergeWidth : f[c] = f[c - 1] \o Merges!SumEntry(c - 1, v[c - 1])
  <2>1. /\ f \in [0 .. MergeWidth -> X] /\ f[0] = <<>>
        /\ \A c \in 1 .. MergeWidth : f[c] = G[<<c, f[c - 1]>>]
    BY <1>4 DEF Recurs
  <2>2. \A c \in 1 .. MergeWidth : <<c, f[c - 1]>> \in (1 .. MergeWidth) \X X  BY <1>0, <2>1
  <2>3. \A c \in 1 .. MergeWidth : G[<<c, f[c - 1]>>] = f[c - 1] \o Merges!SumEntry(c - 1, v[c - 1])
    BY <2>2
  <2>. QED BY <2>1, <2>3
<1>6. Eqn(f)
  <2>1. \A c \in 0 .. MergeWidth : f[c] = IF c = 0 THEN <<>>
                                     ELSE f[c - 1] \o Merges!SumEntry(c - 1, v[c - 1])
    <3>1. \A c \in 0 .. MergeWidth : c = 0 \/ c \in 1 .. MergeWidth  BY <1>0
    <3>2. \A c \in 1 .. MergeWidth : c # 0  OBVIOUS
    <3>. QED BY <1>5, <3>1, <3>2
  <2>. QED BY <1>5, <2>1
<1>7. \E g : Eqn(g)  BY <1>6
<1>. DEFINE h == CHOOSE g : Eqn(g)
<1>8. Eqn(h)  BY <1>7
<1>9. Merges!EntriesOf(v) = h[MergeWidth]  BY DEF Merges!EntriesOf
<1>. DEFINE Below(c) == [d \in Merges!Col |-> IF d < c THEN v[d] ELSE Merges!Zero]
            P == {c \in Nat : c <= MergeWidth => Denotes(h[c], Below(c))}
<1>. HIDE DEF h
<1>10. h[0] = <<>> /\ \A c \in 1 .. MergeWidth : h[c] = h[c - 1] \o Merges!SumEntry(c - 1, v[c - 1])
  <2>1. \A c \in 0 .. MergeWidth : h[c] = IF c = 0 THEN <<>>
                                     ELSE h[c - 1] \o Merges!SumEntry(c - 1, v[c - 1])
    BY <1>8
  <2>2. 0 \in 0 .. MergeWidth /\ \A c \in 1 .. MergeWidth : c \in 0 .. MergeWidth /\ c # 0
    BY <1>0
  <2>. QED BY <2>1, <2>2
<1>. HIDE DEF Eqn, X, G
<1>11. \A c \in Nat : Below(c) \in Vectors  BY DEF Vectors, Merges!F, Merges!Zero
<1>12. 0 \in P
  <2>1. \A d \in Merges!Col : Below(0)[d] = Merges!Zero  BY DEF Merges!Col
  <2>2. h[0] \in Seq(Entries) /\ Len(h[0]) = 0  BY <1>10
  <2>3. Below(0) \in Vectors  BY <1>11
  <2>. HIDE DEF Below
  <2>. QED BY <2>1, <2>2, <2>3 DEF Denotes
<1>13. ASSUME NEW c \in Nat, c \in P PROVE c + 1 \in P
  <2>. SUFFICES ASSUME c + 1 <= MergeWidth PROVE Denotes(h[c + 1], Below(c + 1))  OBVIOUS
  <2>1. Denotes(h[c], Below(c))  BY <1>0, <1>13
  <2>2. c \in Merges!Col /\ h[c + 1] = h[c] \o Merges!SumEntry(c, v[c]) /\ v[c] \in Merges!F
    <3>1. c + 1 \in 1 .. MergeWidth /\ (c + 1) - 1 = c  BY <1>0
    <3>2. /\ h[c + 1] = h[(c + 1) - 1] \o Merges!SumEntry((c + 1) - 1, v[(c + 1) - 1])
          /\ (c + 1) - 1 \in Merges!Col /\ v[(c + 1) - 1] \in Merges!F
      BY <1>1, <1>10, <3>1
    <3>. QED BY <3>1, <3>2
  <2>3. \A d \in Merges!Col : d \in Int  BY DEF Merges!Col
  <2>4. CASE v[c] = Merges!Zero
    <3>1. h[c] \in Seq(Entries)  BY <2>1 DEF Denotes
    <3>2. h[c + 1] = h[c]  BY <2>2, <2>4, <3>1 DEF Merges!SumEntry
    <3>3. Below(c + 1) = Below(c)
      <4>1. \A d \in Merges!Col : d < c + 1 <=> (d < c \/ d = c)  BY <2>2, <2>3
      <4>. QED BY <2>4, <4>1
    <3>. QED BY <2>1, <3>2, <3>3
  <2>5. CASE v[c] # Merges!Zero
    <3>1. h[c] \in Seq(Entries)  BY <2>1 DEF Denotes
    <3>2. h[c + 1] = Append(h[c], Merges!Entry(c, v[c]))
      <4>1. Merges!Entry(c, v[c]) \in Entries  BY <2>2, <2>5, EntryTyped
      <4>. QED BY <2>2, <2>5, <3>1, <4>1 DEF Merges!SumEntry
    <3>3. Below(c + 1) = [Below(c) EXCEPT ![c] = v[c]]
      <4>1. \A d \in Merges!Col : d < c + 1 <=> (d < c \/ d = c)  BY <2>2, <2>3
      <4>. QED BY <2>2, <4>1
    <3>4. \A k \in 1 .. Len(h[c]) : h[c][k].col < c
      <4>. TAKE k \in 1 .. Len(h[c])
      <4>1. h[c][k] \in Entries  BY <3>1
      <4>2. h[c][k].col \in Merges!Col /\ h[c][k].value # Merges!Zero  BY <4>1 DEF Entries
      <4>3. h[c][k].value = Below(c)[h[c][k].col]  BY <2>1 DEF Denotes
      <4>. QED BY <4>2, <4>3
    <3>. HIDE DEF Below
    <3>. QED BY <2>1, <2>2, <2>5, <3>2, <3>3, <3>4, AppendEntry
  <2>. QED BY <2>4, <2>5
<1>. HIDE DEF P
<1>14. MergeWidth \in P  BY <1>0, <1>12, <1>13, SetInduction
<1>15. Below(MergeWidth) = v
  <2>1. \A d \in Merges!Col : d < MergeWidth  BY <1>0 DEF Merges!Col
  <2>. QED BY <2>1 DEF Vectors
<1>16. Denotes(h[MergeWidth], Below(MergeWidth))  BY <1>0, <1>14 DEF P
<1>. QED BY <1>9, <1>15, <1>16

\* The value at a column is that of the vector.
LEMMA ValueDenoted ==
  ASSUME NEW r, NEW v, Denotes(r, v), NEW c \in Merges!Col
  PROVE  Merges!ValueAt(r, c) = v[c]
<1>1. DOMAIN r = 1 .. Len(r)  BY DEF Denotes
<1>2. CASE \E k \in 1 .. Len(r) : r[k].col = c
  <2>. DEFINE k0 == CHOOSE k \in DOMAIN r : r[k].col = c
  <2>1. k0 \in DOMAIN r /\ r[k0].col = c  BY <1>1, <1>2
  <2>2. Merges!ValueAt(r, c) = r[k0].value  BY <1>1, <1>2 DEF Merges!ValueAt
  <2>. HIDE DEF k0
  <2>. QED BY <1>1, <2>1, <2>2 DEF Denotes
<1>3. CASE ~\E k \in 1 .. Len(r) : r[k].col = c
  <2>1. Merges!ValueAt(r, c) = Merges!Zero  BY <1>1, <1>3 DEF Merges!ValueAt
  <2>2. v[c] = Merges!Zero  BY <1>3 DEF Denotes
  <2>. QED BY <2>1, <2>2
<1>. QED BY <1>2, <1>3

\* The first entry is that of the leading column.
LEMMA LeadingFirst ==
  ASSUME NEW r, NEW v, Denotes(r, v), Merges!Support(v) # {}
  PROVE  /\ Len(r) \in Nat \ {0} /\ r[1].col = Merges!LeadingColumn(v)
         /\ Merges!LeadingColumn(v) \in Merges!Col /\ v[Merges!LeadingColumn(v)] # Merges!Zero
<1>1. /\ r \in Seq(Entries) /\ v \in Vectors /\ DOMAIN v = Merges!Col /\ Len(r) \in Nat
  BY DEF Denotes, Vectors
<1>2. PICK c \in Merges!Col : v[c] # Merges!Zero  BY <1>1 DEF Merges!Support
<1>3. PICK k \in 1 .. Len(r) : r[k].col = c  BY <1>2 DEF Denotes
<1>4. 1 \in 1 .. Len(r)  BY <1>1, <1>3
<1>5. r[1] \in Entries  BY <1>1, <1>4
<1>6. r[1].col \in Merges!Col /\ r[1].value # Merges!Zero  BY <1>5 DEF Entries
<1>7. r[1].col \in Merges!Support(v)
  <2>1. v[r[1].col] # Merges!Zero  BY <1>4, <1>6 DEF Denotes
  <2>. QED BY <1>1, <1>6, <2>1 DEF Merges!Support
<1>8. \A d \in Merges!Support(v) : r[1].col <= d
  <2>. TAKE d \in Merges!Support(v)
  <2>1. d \in Merges!Col /\ v[d] # Merges!Zero  BY <1>1 DEF Merges!Support
  <2>2. PICK m \in 1 .. Len(r) : r[m].col = d  BY <2>1 DEF Denotes
  <2>3. m = 1 \/ 1 < m  BY <1>1
  <2>4. \A x \in Merges!Col : x \in Int  BY DEF Merges!Col
  <2>. QED BY <1>4, <1>6, <2>1, <2>2, <2>3, <2>4 DEF Denotes
<1>9. Merges!LeadingColumn(v) \in Merges!Support(v)
          /\ \A d \in Merges!Support(v) : Merges!LeadingColumn(v) <= d
  BY <1>7, <1>8 DEF Merges!LeadingColumn
<1>10. Merges!LeadingColumn(v) \in Merges!Col /\ v[Merges!LeadingColumn(v)] # Merges!Zero
  BY <1>1, <1>9 DEF Merges!Support
<1>11. r[1].col = Merges!LeadingColumn(v)
  <2>1. \A x \in Merges!Col : x \in Int  BY DEF Merges!Col
  <2>2. Merges!LeadingColumn(v) <= r[1].col /\ r[1].col <= Merges!LeadingColumn(v)
    BY <1>7, <1>8, <1>9
  <2>. QED BY <1>6, <1>10, <2>1, <2>2
<1>. QED BY <1>1, <1>4, <1>10, <1>11

\* What is to come out, from what was given.
SumOf(d, a, v) == Merges!VPlus(d, Merges!VTimes(a, v))

\* The columns of the first n entries.
ColumnsOf(r, n) == {r[k].col : k \in 1 .. n}

\* The columns of P are those of w, the others still those of v.
Mixed(P, w, v) == [c \in Merges!Col |-> IF c \in P THEN w[c] ELSE v[c]]

\* The sum, column by column.
LEMMA SumValues ==
  ASSUME NEW a \in Merges!F, NEW d \in Vectors, NEW v \in Vectors
  PROVE  /\ SumOf(d, a, v) \in Vectors
         /\ \A c \in Merges!Col : SumOf(d, a, v)[c] = Merges!FPlus(d[c], Merges!FTimes(a, v[c]))
         /\ \A c \in Merges!Col : v[c] = Merges!Zero => SumOf(d, a, v)[c] = d[c]
<1>1. DOMAIN d = Merges!Col /\ DOMAIN v = Merges!Col
          /\ \A c \in Merges!Col : d[c] \in Merges!F /\ v[c] \in Merges!F
  BY DEF Vectors
<1>2. SumOf(d, a, v) = [c \in Merges!Col |-> Merges!FPlus(d[c], Merges!FTimes(a, v[c]))]
  BY <1>1 DEF SumOf, Merges!VPlus, Merges!VTimes
<1>3. \A c \in Merges!Col : Merges!FPlus(d[c], Merges!FTimes(a, v[c])) \in Merges!F
  BY <1>1, FieldFacts
<1>4. SumOf(d, a, v) \in Vectors  BY <1>2, <1>3 DEF Vectors
<1>5. \A c \in Merges!Col : v[c] = Merges!Zero => Merges!FPlus(d[c], Merges!FTimes(a, v[c])) = d[c]
  BY <1>1, FieldFacts DEF Merges!Zero
<1>. QED BY <1>2, <1>4, <1>5

\* One more column of the sum.
LEMMA OneColumnMore ==
  ASSUME NEW P, NEW w \in Vectors, NEW v \in Vectors, NEW c \in Merges!Col
  PROVE  /\ Mixed(P, w, v) \in Vectors
         /\ Mixed(P \cup {c}, w, v) = [Mixed(P, w, v) EXCEPT ![c] = w[c]]
         /\ Mixed({}, w, v) = v
<1>1. Mixed(P, w, v) \in Vectors  BY DEF Vectors, Mixed
<1>2. Mixed({}, w, v) = v  BY DEF Vectors, Mixed
<1>3. Mixed(P \cup {c}, w, v) = [Mixed(P, w, v) EXCEPT ![c] = w[c]]
  BY DEF Mixed
<1>. QED BY <1>1, <1>2, <1>3

\* The first n entries and the next.
LEMMA NextColumn ==
  ASSUME NEW r, NEW v, Denotes(r, v), NEW n \in 1 .. Len(r)
  PROVE  /\ ColumnsOf(r, n) = ColumnsOf(r, n - 1) \cup {r[n].col}
         /\ r[n].col \notin ColumnsOf(r, n - 1)
         /\ r[n] \in Entries /\ r[n].col \in Merges!Col /\ r[n].value \in Merges!F \ {Merges!Zero}
         /\ r[n].value = v[r[n].col]
         /\ \A m \in 1 .. Len(r) : m > n => r[n].col < r[m].col
<1>1. Len(r) \in Nat /\ r[n] \in Entries  BY DEF Denotes
<1>2. r[n].col \in Merges!Col /\ r[n].value \in Merges!F \ {Merges!Zero}  BY <1>1 DEF Entries
<1>3. 1 .. n = (1 .. n - 1) \cup {n}  BY <1>1
<1>4. ColumnsOf(r, n) = ColumnsOf(r, n - 1) \cup {r[n].col}  BY <1>3 DEF ColumnsOf
<1>5. r[n].col \notin ColumnsOf(r, n - 1)
  <2>1. \A k \in 1 .. n - 1 : k \in 1 .. Len(r) /\ k < n  BY <1>1
  <2>2. \A k \in 1 .. n - 1 : r[k].col < r[n].col  BY <2>1 DEF Denotes
  <2>3. r[n].col \in Int  BY <1>2 DEF Merges!Col
  <2>. QED BY <2>2, <2>3 DEF ColumnsOf
<1>6. \A m \in 1 .. Len(r) : m > n => r[n].col < r[m].col  BY <1>1 DEF Denotes
<1>7. r[n].value = v[r[n].col]  BY DEF Denotes
<1>. QED BY <1>1, <1>2, <1>4, <1>5, <1>6, <1>7

\* When all entries of the source are in, the sum is complete.
LEMMA AllColumns ==
  ASSUME NEW a \in Merges!F, NEW d \in Vectors, NEW s, NEW v, Denotes(s, v),
         NEW P, ColumnsOf(s, Len(s)) \subseteq P
  PROVE  Mixed(P, SumOf(d, a, v), d) = SumOf(d, a, v)
<1>1. v \in Vectors  BY DEF Denotes
<1>2. \A c \in Merges!Col : c \notin P => v[c] = Merges!Zero  BY DEF Denotes, ColumnsOf
<1>3. \A c \in Merges!Col : c \notin P => SumOf(d, a, v)[c] = d[c]  BY <1>1, <1>2, SumValues
<1>4. SumOf(d, a, v) \in Vectors  BY <1>1, SumValues
<1>. QED BY <1>3, <1>4 DEF Mixed, Vectors

\* An entry of the source is added to r at place k: q comes out, and the next
\* lookup begins at e.
AddsAt(r, k, c, x, q, e) ==
  IF k <= Len(r) /\ r[k].col = c
  THEN IF Merges!FPlus(r[k].value, x) = Merges!Zero
       THEN q = Merges!remove_matrix_row_entry_at(r, k) /\ e = k
       ELSE q = [r EXCEPT ![k].value = Merges!FPlus(r[k].value, x)] /\ e = k + 1
  ELSE q = Merges!insert_matrix_row_entry_at(r, k, Merges!Entry(c, x)) /\ e = k + 1

\* It is added to the vector at its column.
LEMMA AddAt ==
  ASSUME NEW r, NEW v, Denotes(r, v), NEW c \in Merges!Col, NEW x \in Merges!F \ {Merges!Zero},
         NEW k \in 1 .. Len(r) + 1,
         \A j \in 1 .. k - 1 : r[j].col < c,
         \A j \in k .. Len(r) : r[j].col >= c,
         NEW q, NEW e, AddsAt(r, k, c, x, q, e)
  PROVE  /\ Denotes(q, [v EXCEPT ![c] = Merges!FPlus(v[c], x)])
         /\ e \in 1 .. Len(q) + 1
         /\ \A j \in 1 .. e - 1 : q[j].col <= c
<1>1. Len(r) \in Nat /\ k \in Nat /\ c \in Int /\ v \in Vectors  BY DEF Denotes, Merges!Col
<1>2. \A j \in 1 .. Len(r) : r[j].col \in Int
  <2>1. \A j \in 1 .. Len(r) : r[j] \in Entries  BY DEF Denotes
  <2>2. \A y \in Entries : y.col \in Int  BY DEF Entries, Merges!Col
  <2>. QED BY <2>1, <2>2
<1>3. \A j \in 1 .. k - 1 : j \in 1 .. Len(r) /\ r[j].col < c /\ r[j].col \in Int
  <2>1. \A j \in 1 .. k - 1 : j \in 1 .. Len(r)  BY <1>1
  <2>. QED BY <2>1, <1>2
<1>4. CASE k <= Len(r) /\ r[k].col = c
  <2>0. k \in 1 .. Len(r)  BY <1>1, <1>4
  <2>1. v[c] = r[k].value /\ r[k].value \in Merges!F  BY <1>4, <2>0, NextColumn
  <2>2. CASE Merges!FPlus(r[k].value, x) = Merges!Zero
    <3>1. q = Merges!remove_matrix_row_entry_at(r, k) /\ e = k  BY <1>4, <2>2 DEF AddsAt
    <3>2. /\ Denotes(q, [v EXCEPT ![r[k].col] = Merges!Zero])
          /\ Len(q) = Len(r) - 1
          /\ \A j \in 1 .. Len(r) - 1 : q[j] = IF j < k THEN r[j] ELSE r[j + 1]
      BY <2>0, <3>1, RemoveEntry
    <3>3. \A j \in 1 .. e - 1 : j \in 1 .. Len(r) - 1 /\ j < k  BY <1>1, <2>0, <3>1
    <3>4. \A j \in 1 .. e - 1 : q[j] = r[j] /\ j \in 1 .. k - 1  BY <3>1, <3>2, <3>3
    <3>5. \A j \in 1 .. e - 1 : q[j].col <= c  BY <1>1, <1>3, <3>4
    <3>6. e \in 1 .. Len(q) + 1  BY <1>1, <2>0, <3>1, <3>2
    <3>. QED BY <1>4, <2>1, <2>2, <3>2, <3>5, <3>6
  <2>3. CASE Merges!FPlus(r[k].value, x) # Merges!Zero
    <3>. DEFINE y == Merges!FPlus(r[k].value, x)
    <3>1. q = [r EXCEPT ![k].value = y] /\ e = k + 1  BY <1>4, <2>3 DEF AddsAt
    <3>2. y \in Merges!F \ {Merges!Zero}  BY <2>1, <2>3, FieldFacts
    <3>. HIDE DEF y
    <3>. DEFINE z == [r EXCEPT ![k].value = y]
    <3>0. /\ Denotes(z, [v EXCEPT ![r[k].col] = y])
          /\ Len(z) = Len(r) /\ \A j \in 1 .. Len(r) : z[j].col = r[j].col
      BY ONLY Denotes(r, v), <2>0, <3>2, ReplaceEntry
    <3>8. q = z  BY <3>1
    <3>. HIDE DEF z
    <3>3. /\ Denotes(q, [v EXCEPT ![r[k].col] = y])
          /\ Len(q) = Len(r) /\ \A j \in 1 .. Len(r) : q[j].col = r[j].col
      BY <3>0, <3>8
    <3>4. \A j \in 1 .. e - 1 : (j \in 1 .. k - 1 \/ j = k) /\ j \in 1 .. Len(r)
      BY <1>1, <2>0, <3>1
    <3>5. \A j \in 1 .. e - 1 : r[j].col <= c  BY <1>1, <1>3, <1>4, <3>4
    <3>6. \A j \in 1 .. e - 1 : q[j].col <= c  BY <3>3, <3>4, <3>5
    <3>7. e \in 1 .. Len(q) + 1  BY <1>1, <2>0, <3>1, <3>3
    <3>. QED BY <1>4, <2>1, <3>3, <3>6, <3>7 DEF y
  <2>. QED BY <2>2, <2>3
<1>5. CASE ~(k <= Len(r) /\ r[k].col = c)
  <2>1. q = Merges!insert_matrix_row_entry_at(r, k, Merges!Entry(c, x)) /\ e = k + 1
    BY <1>5 DEF AddsAt
  <2>2. \A j \in k .. Len(r) : c < r[j].col
    <3>. TAKE j \in k .. Len(r)
    <3>1. k \in 1 .. Len(r) /\ j \in 1 .. Len(r) /\ k <= j  BY <1>1
    <3>2. k \in k .. Len(r)  BY <1>1, <3>1
    <3>3. r[k].col > c  BY <1>1, <1>2, <1>5, <3>1, <3>2
    <3>4. j = k \/ r[k].col < r[j].col  BY <3>1, NextColumn
    <3>. QED BY <1>1, <1>2, <3>1, <3>3, <3>4
  <2>3. /\ Denotes(q, [v EXCEPT ![c] = x])
        /\ Len(q) = Len(r) + 1
        /\ \A j \in 1 .. Len(r) + 1 :
             q[j] = IF j < k THEN r[j] ELSE IF j = k THEN Merges!Entry(c, x) ELSE r[j - 1]
    BY <2>1, <2>2, InsertEntry
  <2>4. v[c] = Merges!Zero
    <3>1. \A j \in 1 .. Len(r) : j \in 1 .. k - 1 \/ j \in k .. Len(r)  BY <1>1
    <3>2. \A j \in 1 .. Len(r) : r[j].col # c  BY <1>1, <1>2, <2>2, <3>1
    <3>. QED BY <3>2 DEF Denotes
  <2>5. Merges!FPlus(v[c], x) = x  BY <2>4, FieldFacts DEF Merges!Zero
  <2>6. \A j \in 1 .. e - 1 : j \in 1 .. Len(r) + 1 /\ (j < k \/ j = k) /\ (j < k
            => j \in 1 .. k - 1)
    BY <1>1, <2>1
  <2>7. \A j \in 1 .. e - 1 : q[j].col <= c
    <3>. TAKE j \in 1 .. e - 1
    <3>1. CASE j < k
      <4>1. q[j] = r[j]  BY <2>3, <2>6, <3>1
      <4>2. r[j].col < c /\ r[j].col \in Int  BY <1>3, <2>6, <3>1
      <4>. QED BY <1>1, <4>1, <4>2
    <3>2. CASE j = k
      <4>1. q[j] = Merges!Entry(c, x)  BY <1>1, <2>3, <2>6, <3>2
      <4>2. q[j].col = c  BY <4>1, EntryTyped
      <4>. QED BY <1>1, <4>2
    <3>. QED BY <2>6, <3>1, <3>2
  <2>8. e \in 1 .. Len(q) + 1  BY <1>1, <2>1, <2>3
  <2>. QED BY <2>3, <2>5, <2>7, <2>8
<1>. QED BY <1>4, <1>5

\* The next entry of the source at its place.
LEMMA AddNext ==
  ASSUME NEW a \in Merges!F \ {Merges!Zero}, NEW d \in Vectors, NEW s, NEW v, Denotes(s, v),
         NEW n \in 1 .. Len(s),
         NEW r, Denotes(r, Mixed(ColumnsOf(s, n - 1), SumOf(d, a, v), d)),
         NEW k \in 1 .. Len(r) + 1,
         \A j \in 1 .. k - 1 : r[j].col < s[n].col,
         \A j \in k .. Len(r) : r[j].col >= s[n].col,
         NEW q, NEW e, AddsAt(r, k, s[n].col, Merges!FTimes(a, s[n].value), q, e)
  PROVE  /\ Denotes(q, Mixed(ColumnsOf(s, n), SumOf(d, a, v), d))
         /\ e \in 1 .. Len(q) + 1
         /\ n + 1 <= Len(s) => \A j \in 1 .. e - 1 : q[j].col < s[n + 1].col
<1>. DEFINE c == s[n].col
            x == Merges!FTimes(a, s[n].value)
            w == SumOf(d, a, v)
            P == ColumnsOf(s, n - 1)
            m == Mixed(P, w, d)
<1>1. /\ ColumnsOf(s, n) = P \cup {c} /\ c \notin P
      /\ c \in Merges!Col /\ s[n].value \in Merges!F \ {Merges!Zero} /\ s[n].value = v[c]
  BY NextColumn
<1>2. x \in Merges!F \ {Merges!Zero}  BY <1>1, FieldFacts DEF Merges!Zero
<1>3. v \in Vectors /\ Len(s) \in Nat  BY DEF Denotes
<1>4. w \in Vectors /\ w[c] = Merges!FPlus(d[c], x)  BY <1>1, <1>3, SumValues
<1>5. m[c] = d[c]  BY <1>1 DEF Mixed
<1>6. Mixed(ColumnsOf(s, n), w, d) = [m EXCEPT ![c] = Merges!FPlus(m[c], x)]
  <2>1. Mixed(P \cup {c}, w, d) = [m EXCEPT ![c] = w[c]]
    <3>1. c \in Merges!Col /\ w \in Vectors  BY <1>1, <1>4
    <3>. HIDE DEF P, w, c
    <3>. QED BY <3>1 DEF Mixed, m
  <2>2. w[c] = Merges!FPlus(m[c], x)  BY <1>4, <1>5
  <2>. QED BY <1>1, <2>1, <2>2
<1>7. \A j \in k .. Len(r) : r[j].col >= c  OBVIOUS
<1>8. \A j \in 1 .. k - 1 : r[j].col < c  OBVIOUS
<1>. HIDE DEF x, c, w, m
<1>9. AddsAt(r, k, c, x, q, e)  BY DEF x, c
<1>10. Denotes(r, m)  BY DEF m, w
<1>11. /\ Denotes(q, [m EXCEPT ![c] = Merges!FPlus(m[c], x)])
       /\ e \in 1 .. Len(q) + 1
       /\ \A j \in 1 .. e - 1 : q[j].col <= c
  BY <1>1, <1>2, <1>7, <1>8, <1>9, <1>10, AddAt
<1>12. n + 1 <= Len(s) => \A j \in 1 .. e - 1 : q[j].col < s[n + 1].col
  <2>. HAVE n + 1 <= Len(s)
  <2>. TAKE j \in 1 .. e - 1
  <2>1. n + 1 \in 1 .. Len(s) /\ n + 1 > n /\ n \in 1 .. Len(s)  BY <1>3
  <2>2. c < s[n + 1].col  BY <2>1, NextColumn DEF c
  <2>3. s[n + 1].col \in Merges!Col /\ c \in Int  BY <1>1, <2>1, NextColumn DEF Merges!Col
  <2>4. s[n + 1].col \in Int  BY <2>3 DEF Merges!Col
  <2>5. Len(q) \in Nat  BY <1>11 DEF Denotes
  <2>6. j \in 1 .. Len(q)  BY <1>11, <2>5
  <2>7. q[j].col \in Merges!Col  BY <1>11, <2>6, NextColumn
  <2>8. q[j].col \in Int  BY <2>7 DEF Merges!Col
  <2>9. q[j].col <= c  BY <1>11
  <2>. QED BY <2>2, <2>3, <2>4, <2>8, <2>9
<1>. QED BY <1>6, <1>11, <1>12 DEF w

\* Both ways of looking a place up find it.
LEMMA LookedUp ==
  ASSUME NEW v, Denotes(dest, v), NEW c \in Merges!Col, search_start \in 1 .. Len(dest) + 1,
         \A j \in 1 .. search_start - 1 : dest[j].col < c
  PROVE  /\ Merges!Lookup(c) \in 1 .. Len(dest) + 1
         /\ \A j \in 1 .. Merges!Lookup(c) - 1 : dest[j].col < c
         /\ \A j \in Merges!Lookup(c) .. Len(dest) : dest[j].col >= c
<1>1. dest \in Seq(Entries) /\ Len(dest) \in Nat  BY DEF Denotes
<1>2. CASE dest = <<>> \/ dest[Len(dest)].col < c
  <2>1. Merges!Lookup(c) = Len(dest) + 1  BY <1>2 DEF Merges!Lookup
  <2>2. \A j \in 1 .. Len(dest) : dest[j].col < c
    <3>. TAKE j \in 1 .. Len(dest)
    <3>1. Len(dest) \in 1 .. Len(dest) /\ dest # <<>>  BY <1>1
    <3>2. j = Len(dest) \/ dest[j].col < dest[Len(dest)].col  BY <1>1, <3>1 DEF Denotes
    <3>3. dest[j].col \in Merges!Col /\ dest[Len(dest)].col \in Merges!Col  BY <3>1, NextColumn
    <3>4. Merges!Col \subseteq Int  BY DEF Merges!Col
    <3>5. dest[Len(dest)].col < c  BY <1>2, <3>1
    <3>6. dest[j].col \in Int /\ dest[Len(dest)].col \in Int /\ c \in Int  BY <3>3, <3>4
    <3>. QED BY <3>2, <3>5, <3>6
  <2>. QED BY <1>1, <2>1, <2>2
<1>3. CASE ~(dest = <<>> \/ dest[Len(dest)].col < c)
  <2>1. Merges!Lookup(c) = Merges!partition_point(dest, search_start, c)
    BY <1>3 DEF Merges!Lookup
  <2>. DEFINE k == Merges!partition_point(dest, search_start, c)
  <2>2. /\ k \in search_start .. Len(dest) + 1
        /\ \A j \in 1 .. k - 1 : dest[j].col < c
        /\ \A j \in k .. Len(dest) : dest[j].col >= c
    BY PartitionPoint
  <2>. HIDE DEF k
  <2>3. k \in 1 .. Len(dest) + 1  BY <1>1, <2>2
  <2>. QED BY <2>1, <2>2, <2>3 DEF k
<1>. QED BY <1>2, <1>3

Sum == SumOf(dest_row, scalar, src_row)

\* What was given stays as it was.
Given ==
  /\ kind \in Merges!Kinds /\ scalar \in Merges!F \ {Merges!Zero}
  /\ dest_row \in Vectors /\ src_row \in Vectors
  /\ Merges!Support(src_row) # {} /\ Denotes(src, src_row)
  /\ kind \in {"short", "binary_short"} =>
       /\ Merges!Support(dest_row) # {}
       /\ Merges!LeadingColumn(dest_row) = Merges!LeadingColumn(src_row)
       /\ src_row[Merges!LeadingColumn(src_row)] = Merges!One
       /\ dest_row[Merges!LeadingColumn(src_row)] = scalar
  /\ kind = "binary_short" => scalar = Merges!One /\ Merges!Binary(src_row)
            /\ Merges!Binary(dest_row)
  /\ i \in 1 .. Len(src) + 1 /\ phase \in {"adding", "added"}

\* Entry by entry: the first i - 1 entries of the source are in, and the next
\* one belongs at search_start or after it.
ByEntry ==
  /\ scratch = <<>>
  /\ Denotes(dest, Mixed(ColumnsOf(src, i - 1), Sum, dest_row))
  /\ search_start \in 1 .. Len(dest) + 1
  /\ i <= Len(src) => \A k \in 1 .. search_start - 1 : dest[k].col < src[i].col

\* Side by side: scratch is the sum on the columns that both rows have passed,
\* and these come before the ones they have not.
Passed == ColumnsOf(src, i - 1) \cup ColumnsOf(dest, search_start - 1)
BySide ==
  /\ Denotes(dest, dest_row)
  /\ Denotes(scratch, Mixed(Passed, Sum, Merges!VZero(Merges!Col)))
  /\ search_start \in 1 .. Len(dest) + 1
  /\ i <= Len(src) => \A c \in Passed : c < src[i].col
  /\ search_start <= Len(dest) => \A c \in Passed : c < dest[search_start].col

MergeInv ==
  /\ Given
  /\ phase = "adding" /\ kind # "merge" => ByEntry
  /\ phase = "adding" /\ kind = "merge" => BySide
  /\ phase = "added" => Denotes(dest, Sum) /\ scratch = <<>>

\* At the start nothing has been added.
LEMMA MergeStarts ==
  ASSUME Merges!MergeAssumption, Merges!Init
  PROVE  MergeInv
<1>1. dest_row \in Vectors /\ src_row \in Vectors /\ scalar \in Merges!F \ {Merges!Zero}
  BY DEF Merges!MergeAssumption, Merges!Init, Vectors, Merges!Col
<1>2. Denotes(dest, dest_row) /\ Denotes(src, src_row)
  BY <1>1, EntriesDenote DEF Merges!Init
<1>3. /\ Len(src) \in Nat \ {0} /\ src[1].col = Merges!LeadingColumn(src_row)
      /\ src[1].col \in Merges!Col /\ Len(dest) \in Nat
  <2>1. Merges!Support(src_row) # {}  BY DEF Merges!Init
  <2>2. Len(dest) \in Nat  BY <1>2 DEF Denotes
  <2>. QED BY <1>2, <2>1, <2>2, LeadingFirst
<1>4. i = 1 /\ phase = "adding" /\ scratch = <<>>  BY DEF Merges!Init
<1>5. Given
  <2>1. i \in 1 .. Len(src) + 1  BY <1>3, <1>4
  <2>. QED BY <1>1, <1>2, <1>4, <2>1 DEF Merges!Init, Given
<1>6. ColumnsOf(src, i - 1) = {}
  <2>1. 1 .. i - 1 = {}  BY <1>4
  <2>. QED BY <2>1 DEF ColumnsOf
<1>7. Sum \in Vectors  BY <1>1, SumValues DEF Sum
<1>8. CASE kind = "sparse"
  <2>. DEFINE p == Merges!partition_point(dest, 1, src[1].col)
  <2>1. search_start = p  BY <1>3, <1>8 DEF Merges!Init
  <2>2. \A j \in 1 .. 1 - 1 : dest[j].col < src[1].col  OBVIOUS
  <2>3. 1 \in 1 .. Len(dest) + 1  BY <1>3
  <2>4. p \in 1 .. Len(dest) + 1 /\ \A j \in 1 .. p - 1 : dest[j].col < src[1].col
    BY <1>2, <1>3, <2>2, <2>3, PartitionPoint
  <2>. HIDE DEF p
  <2>5. Mixed({}, Sum, dest_row) = dest_row  BY <1>1, <1>3, <1>7, OneColumnMore
  <2>6. ByEntry  BY <1>2, <1>4, <1>6, <2>1, <2>4, <2>5 DEF ByEntry
  <2>. QED BY <1>4, <1>5, <1>8, <2>6 DEF MergeInv
<1>9. CASE kind \in {"short", "binary_short"}
  <2>1. search_start = 1  BY <1>9 DEF Merges!Init
  <2>2. search_start \in 1 .. Len(dest) + 1 /\ 1 .. search_start - 1 = {}  BY <1>3, <2>1
  <2>3. Mixed({}, Sum, dest_row) = dest_row  BY <1>1, <1>3, <1>7, OneColumnMore
  <2>4. ByEntry  BY <1>2, <1>4, <1>6, <2>2, <2>3 DEF ByEntry
  <2>. QED BY <1>4, <1>5, <1>9, <2>4 DEF MergeInv
<1>10. CASE kind = "merge"
  <2>1. search_start = 1  BY <1>10 DEF Merges!Init
  <2>2. search_start \in 1 .. Len(dest) + 1 /\ 1 .. search_start - 1 = {}  BY <1>3, <2>1
  <2>3. Passed = {}  BY <1>6, <2>2 DEF Passed, ColumnsOf
  <2>4. Merges!VZero(Merges!Col) \in Vectors
    BY DEF Merges!VZero, Vectors, Merges!F, Merges!Zero
  <2>5. Mixed({}, Sum, Merges!VZero(Merges!Col)) = Merges!VZero(Merges!Col)
    BY <1>3, <1>7, <2>4, OneColumnMore
  <2>6. Denotes(scratch, Merges!VZero(Merges!Col))
    <3>1. scratch \in Seq(Entries) /\ Len(scratch) = 0  BY <1>4
    <3>2. \A c \in Merges!Col : Merges!VZero(Merges!Col)[c] = Merges!Zero  BY DEF Merges!VZero
    <3>. QED BY <2>4, <3>1, <3>2 DEF Denotes
  <2>7. BySide  BY <1>2, <2>2, <2>3, <2>5, <2>6 DEF BySide
  <2>. QED BY <1>4, <1>5, <1>10, <2>7 DEF MergeInv
<1>. QED BY <1>5, <1>8, <1>9, <1>10 DEF Given, Merges!Kinds

\* What is given by a step that leaves the rows alone.
LEMMA GivenKept ==
  ASSUME Given, UNCHANGED Merges!given, i' \in 1 .. Len(src) + 1, phase' \in {"adding", "added"}
  PROVE  Given' /\ Sum' = Sum
<1>1. Given'  BY DEF Given, Merges!given
<1>2. Sum' = Sum  BY DEF Sum, Merges!given
<1>. QED BY <1>1, <1>2

\* An entry of the source goes in at its place.
LEMMA EntryGoesIn ==
  ASSUME Given, ByEntry, phase = "adding", kind # "merge", i <= Len(src),
         NEW k \in 1 .. Len(dest) + 1,
         \A j \in 1 .. k - 1 : dest[j].col < src[i].col,
         \A j \in k .. Len(dest) : dest[j].col >= src[i].col,
         AddsAt(dest, k, src[i].col, Merges!Scaled(i), dest', search_start'),
         i' = i + 1, UNCHANGED <<Merges!given, scratch, phase>>
  PROVE  MergeInv'
<1>1. i \in 1 .. Len(src) /\ Len(src) \in Nat /\ i' \in 1 .. Len(src) + 1
      /\ i' - 1 = i /\ Denotes(src, src_row)
  BY DEF Given, Denotes
<1>2. Given' /\ Sum' = Sum /\ src' = src /\ dest_row' = dest_row /\ phase' = "adding"
      /\ kind' = kind /\ scratch' = <<>>
  BY <1>1, GivenKept DEF Merges!given, ByEntry
<1>3. AddsAt(dest, k, src[i].col, Merges!FTimes(scalar, src[i].value), dest', search_start')
  BY DEF Merges!Scaled
<1>4. Denotes(dest, Mixed(ColumnsOf(src, i - 1), Sum, dest_row))  BY DEF ByEntry
<1>5. scalar \in Merges!F \ {Merges!Zero} /\ dest_row \in Vectors  BY DEF Given
<1>6. /\ Denotes(dest', Mixed(ColumnsOf(src, i), Sum, dest_row))
      /\ search_start' \in 1 .. Len(dest') + 1
      /\ i + 1 <= Len(src) => \A j \in 1 .. search_start' - 1 : dest'[j].col < src[i + 1].col
  BY <1>1, <1>3, <1>4, <1>5, AddNext DEF Sum
<1>7. ByEntry'
  BY <1>1, <1>2, <1>6 DEF ByEntry
<1>. QED BY <1>2, <1>7 DEF MergeInv

\* When all are in, the row is the sum.
LEMMA EntriesComplete ==
  ASSUME Given, ByEntry, i > Len(src)
  PROVE  Denotes(dest, Sum)
<1>1. i - 1 = Len(src) /\ scalar \in Merges!F /\ dest_row \in Vectors /\ Denotes(src, src_row)
  BY DEF Given, Denotes
<1>2. Mixed(ColumnsOf(src, i - 1), Sum, dest_row) = Sum  BY <1>1, AllColumns DEF Sum
<1>. QED BY <1>2 DEF ByEntry

\* The first column of a short merge cancels.
LEMMA PivotCancels ==
  ASSUME Given, ByEntry, kind \in {"short", "binary_short"}, i = 1
  PROVE  /\ Len(dest) \in Nat \ {0} /\ Len(src) \in Nat \ {0}
         /\ dest[1].col = src[1].col
         /\ Denotes(dest, dest_row)
         /\ Denotes(Tail(dest), Mixed(ColumnsOf(src, 1), Sum, dest_row))
         /\ Sum[src[1].col] = Merges!Zero
<1>1. /\ Merges!Support(dest_row) # {} /\ Merges!Support(src_row) # {}
      /\ Merges!LeadingColumn(dest_row) = Merges!LeadingColumn(src_row)
      /\ src_row[Merges!LeadingColumn(src_row)] = Merges!One
      /\ dest_row[Merges!LeadingColumn(src_row)] = scalar
      /\ scalar \in Merges!F \ {Merges!Zero} /\ dest_row \in Vectors /\ src_row \in Vectors
      /\ Denotes(src, src_row)
  BY DEF Given
<1>. DEFINE c == src[1].col
<1>2. Len(src) \in Nat \ {0} /\ c = Merges!LeadingColumn(src_row) /\ c \in Merges!Col
  BY <1>1, LeadingFirst
<1>3. ColumnsOf(src, i - 1) = {} /\ ColumnsOf(src, 1) = {c}
  <2>1. 1 .. i - 1 = {} /\ 1 .. 1 = {1}  OBVIOUS
  <2>. QED BY <2>1 DEF ColumnsOf
<1>4. Sum \in Vectors /\ Sum[c] = Merges!FPlus(dest_row[c], Merges!FTimes(scalar, src_row[c]))
  BY <1>1, <1>2, SumValues DEF Sum
<1>5. Mixed({}, Sum, dest_row) = dest_row  BY <1>1 DEF Mixed, Vectors
<1>6. Denotes(dest, dest_row)  BY <1>3, <1>5 DEF ByEntry
<1>7. Len(dest) \in Nat \ {0} /\ dest[1].col = c  BY <1>1, <1>2, <1>6, LeadingFirst
<1>8. Sum[c] = Merges!Zero
  <2>1. Sum[c] = Merges!FPlus(scalar, Merges!FTimes(scalar, 1))
    BY <1>1, <1>2, <1>4 DEF Merges!One
  <2>. QED BY <1>1, <2>1, FieldFacts DEF Merges!Zero
<1>9. Denotes(Tail(dest), [dest_row EXCEPT ![dest[1].col] = Merges!Zero])
  <2>1. dest # <<>>  BY <1>7
  <2>. QED BY <1>6, <2>1, TailEntries
<1>. HIDE DEF c
<1>10. Mixed({c}, Sum, dest_row) = [dest_row EXCEPT ![c] = Merges!Zero]
  <2>. DEFINE z == [dest_row EXCEPT ![c] = Merges!Zero]
              y == Mixed({c}, Sum, dest_row)
  <2>1. z \in Vectors /\ y \in Vectors
    BY <1>1, <1>2, <1>4 DEF Vectors, Mixed, Merges!Zero, Merges!F
  <2>2. \A d \in Merges!Col : z[d] = y[d]  BY <1>1, <1>8 DEF Mixed, Vectors
  <2>. HIDE DEF z, y
  <2>3. y = z  BY <2>1, <2>2, SameFunction DEF Vectors
  <2>. QED BY <2>3 DEF z, y
<1>11. Denotes(Tail(dest), Mixed(ColumnsOf(src, 1), Sum, dest_row))
  BY <1>3, <1>7, <1>9, <1>10
<1>. QED BY <1>2, <1>6, <1>7, <1>8, <1>11 DEF c

\* A column that both rows come to next, or one of them: its sum is appended.
LEMMA ColumnPassed ==
  ASSUME NEW r, NEW P, NEW w \in Vectors, Denotes(r, Mixed(P, w, Merges!VZero(Merges!Col))),
         NEW c \in Merges!Col, \A d \in P : d < c
  PROVE  Denotes(r \o Merges!SumEntry(c, w[c]), Mixed(P \cup {c}, w, Merges!VZero(Merges!Col)))
<1>. DEFINE m == Mixed(P, w, Merges!VZero(Merges!Col))
            m1 == Mixed(P \cup {c}, w, Merges!VZero(Merges!Col))
<1>1. r \in Seq(Entries) /\ w[c] \in Merges!F  BY DEF Denotes, Vectors
<1>2. Merges!VZero(Merges!Col) \in Vectors
          /\ \A d \in Merges!Col : Merges!VZero(Merges!Col)[d] = Merges!Zero
  BY DEF Merges!VZero, Vectors, Merges!F, Merges!Zero
<1>3. m \in Vectors /\ m1 \in Vectors  BY <1>2 DEF Mixed, Vectors
<1>4. CASE w[c] = Merges!Zero
  <2>1. \A d \in Merges!Col : m1[d] = m[d]  BY <1>2, <1>4 DEF Mixed
  <2>. HIDE DEF m, m1
  <2>2. m1 = m  BY <1>3, <2>1 DEF Vectors
  <2>3. r \o Merges!SumEntry(c, w[c]) = r  BY <1>1, <1>4 DEF Merges!SumEntry
  <2>. QED BY <2>2, <2>3 DEF m, m1
<1>5. CASE w[c] # Merges!Zero
  <2>. DEFINE z == [m EXCEPT ![c] = w[c]]
  <2>0. Denotes(r, m)  OBVIOUS
  <2>1. \A d \in Merges!Col : z[d] = m1[d]  BY <1>3 DEF Mixed, Vectors
  <2>2. z \in Vectors  BY <1>1, <1>3 DEF Vectors
  <2>3. \A k \in 1 .. Len(r) : r[k].col < c
    <3>. TAKE k \in 1 .. Len(r)
    <3>1. r[k].col \in Merges!Col /\ r[k].value # Merges!Zero /\ r[k].value = m[r[k].col]
      BY <2>0, NextColumn
    <3>2. r[k].col \in P  BY <1>2, <3>1 DEF Mixed
    <3>. QED BY <3>2
  <2>. HIDE DEF m, m1
  <2>4. Denotes(Append(r, Merges!Entry(c, w[c])), z)  BY <1>1, <1>5, <2>0, <2>3, AppendEntry
  <2>. HIDE DEF z
  <2>5. m1 = z  BY <1>3, <2>1, <2>2, SameFunction DEF Vectors
  <2>6. r \o Merges!SumEntry(c, w[c]) = Append(r, Merges!Entry(c, w[c]))
    <3>1. Merges!Entry(c, w[c]) \in Entries  BY <1>1, <1>5, EntryTyped
    <3>. QED BY <1>1, <1>5, <3>1 DEF Merges!SumEntry
  <2>. QED BY <2>4, <2>5, <2>6 DEF m1
<1>. QED BY <1>4, <1>5

\* What follows from passing column c, if i and search_start move on to
\* entries behind it.
LEMMA SideStep ==
  ASSUME Given, BySide, phase = "adding", kind = "merge",
         NEW c \in Merges!Col, \A d \in Passed : d < c,
         scratch' = scratch \o Merges!SumEntry(c, Sum[c]),
         UNCHANGED <<Merges!given, dest, phase>>,
         i' \in 1 .. Len(src) + 1, search_start' \in 1 .. Len(dest) + 1,
         ColumnsOf(src, i' - 1) \cup ColumnsOf(dest, search_start' - 1) = Passed \cup {c},
         i' <= Len(src) => c < src[i'].col,
         search_start' <= Len(dest) => c < dest[search_start'].col
  PROVE  MergeInv'
<1>. DEFINE Q == Passed \cup {c}
<1>1. Given' /\ Sum' = Sum /\ src' = src /\ dest' = dest /\ dest_row' = dest_row
      /\ phase' = "adding" /\ kind' = kind
  BY GivenKept DEF Merges!given, Given
<1>2. Sum \in Vectors  BY SumValues DEF Sum, Given
<1>3. Denotes(scratch', Mixed(Q, Sum, Merges!VZero(Merges!Col)))
  BY <1>2, ColumnPassed DEF BySide
<1>4. Passed' = Q  BY <1>1 DEF Passed
<1>5. Merges!Col \subseteq Int /\ Passed \subseteq Merges!Col
  <2>1. Denotes(src, src_row) /\ Denotes(dest, dest_row)  BY DEF Given, BySide
  <2>2. Len(src) \in Nat /\ Len(dest) \in Nat  BY <2>1 DEF Denotes
  <2>3. i \in 1 .. Len(src) + 1 /\ search_start \in 1 .. Len(dest) + 1  BY DEF Given, BySide
  <2>4. (1 .. i - 1) \subseteq 1 .. Len(src) /\ (1 .. search_start - 1) \subseteq 1 .. Len(dest)
    BY <2>2, <2>3
  <2>5. \A k \in 1 .. Len(src) : src[k].col \in Merges!Col  BY <2>1, NextColumn
  <2>6. \A k \in 1 .. Len(dest) : dest[k].col \in Merges!Col  BY <2>1, NextColumn
  <2>7. ColumnsOf(src, i - 1) \subseteq Merges!Col  BY <2>4, <2>5 DEF ColumnsOf
  <2>8. ColumnsOf(dest, search_start - 1) \subseteq Merges!Col  BY <2>4, <2>6 DEF ColumnsOf
  <2>9. Merges!Col \subseteq Int  BY DEF Merges!Col
  <2>. QED BY <2>7, <2>8, <2>9 DEF Passed
<1>6. i' <= Len(src) => \A d \in Q : d < src[i'].col
  <2>. HAVE i' <= Len(src)
  <2>1. i' \in 1 .. Len(src) /\ Denotes(src, src_row)  BY DEF Given, Denotes
  <2>. DEFINE h == src[i'].col
  <2>2. h \in Int /\ c \in Int  BY <1>5, <2>1, NextColumn
  <2>3. c < h  OBVIOUS
  <2>. HIDE DEF h
  <2>4. \A d \in Passed : d \in Int /\ d < c  BY <1>5
  <2>5. \A d \in Q : d < h  BY <2>2, <2>3, <2>4
  <2>. QED BY <2>5 DEF h
<1>7. search_start' <= Len(dest) => \A d \in Q : d < dest[search_start'].col
  <2>. HAVE search_start' <= Len(dest)
  <2>0. Denotes(dest, dest_row)  BY DEF BySide
  <2>1. search_start' \in 1 .. Len(dest) /\ Denotes(dest, dest_row)
    <3>1. Len(dest) \in Nat  BY <2>0 DEF Denotes
    <3>. QED BY <2>0, <3>1
  <2>. DEFINE h == dest[search_start'].col
  <2>2. h \in Int /\ c \in Int  BY <1>5, <2>1, NextColumn
  <2>3. c < h  OBVIOUS
  <2>. HIDE DEF h
  <2>4. \A d \in Passed : d \in Int /\ d < c  BY <1>5
  <2>5. \A d \in Q : d < h  BY <2>2, <2>3, <2>4
  <2>. QED BY <2>5 DEF h
<1>. HIDE DEF Q
<1>8. BySide'  BY <1>1, <1>3, <1>4, <1>6, <1>7 DEF BySide
<1>. QED BY <1>1, <1>8 DEF MergeInv

\* The bounds of the two indices.
LEMMA SideBounds ==
  ASSUME Given, BySide
  PROVE  /\ Len(src) \in Nat /\ i \in 1 .. Len(src) + 1
         /\ Len(dest) \in Nat /\ search_start \in 1 .. Len(dest) + 1
         /\ Denotes(src, src_row) /\ Denotes(dest, dest_row)
         /\ scalar \in Merges!F \ {Merges!Zero} /\ dest_row \in Vectors /\ src_row \in Vectors
BY DEF Given, BySide, Denotes

\* A column that a row has neither passed nor has next is not in it.
LEMMA NotThere ==
  ASSUME NEW r, NEW v, Denotes(r, v), NEW n \in 1 .. Len(r) + 1, NEW c \in Merges!Col,
         \A d \in ColumnsOf(r, n - 1) : d < c, n <= Len(r) => c < r[n].col
  PROVE  v[c] = Merges!Zero
<1>1. Len(r) \in Nat /\ c \in Int  BY DEF Denotes, Merges!Col
<1>2. \A k \in 1 .. Len(r) : r[k].col \in Int
  <2>1. \A k \in 1 .. Len(r) : r[k].col \in Merges!Col  BY NextColumn
  <2>. QED BY <2>1 DEF Merges!Col
<1>3. \A k \in 1 .. Len(r) : r[k].col # c
  <2>. TAKE k \in 1 .. Len(r)
  <2>1. CASE k < n
    <3>1. k \in 1 .. n - 1  BY <1>1, <2>1
    <3>2. r[k].col < c  BY <3>1 DEF ColumnsOf
    <3>. QED BY <1>1, <1>2, <3>2
  <2>2. CASE k >= n
    <3>1. n \in 1 .. Len(r) /\ c < r[n].col  BY <1>1, <2>2
    <3>2. k = n \/ r[n].col < r[k].col  BY <1>1, <2>2, <3>1, NextColumn
    <3>. QED BY <1>1, <1>2, <3>1, <3>2
  <2>. QED BY <1>1, <2>1, <2>2
<1>. QED BY <1>3 DEF Denotes

\* The entry of the destination comes first.
LEMMA MergeDestKeeps ==
  ASSUME Given, BySide, Merges!MergeDest
  PROVE  MergeInv'
<1>0. /\ Len(src) \in Nat /\ i \in 1 .. Len(src) + 1
      /\ Len(dest) \in Nat /\ search_start \in 1 .. Len(dest) + 1
      /\ Denotes(src, src_row) /\ Denotes(dest, dest_row)
      /\ scalar \in Merges!F \ {Merges!Zero} /\ dest_row \in Vectors /\ src_row \in Vectors
  BY SideBounds
<1>1. /\ search_start \in 1 .. Len(dest) /\ phase = "adding" /\ kind = "merge"
      /\ search_start' = search_start + 1 /\ i' = i
      /\ scratch' = Append(scratch, dest[search_start])
      /\ UNCHANGED <<Merges!given, dest, phase>>
      /\ i <= Len(src) => dest[search_start].col < src[i].col
  BY <1>0 DEF Merges!MergeDest, Merges!TakeDest, Merges!DestLeft
<1>. DEFINE c == dest[search_start].col
<1>2. /\ ColumnsOf(dest, search_start) = ColumnsOf(dest, search_start - 1) \cup {c}
      /\ c \in Merges!Col /\ dest[search_start] \in Entries
      /\ dest[search_start].value \in Merges!F \ {Merges!Zero}
      /\ dest[search_start].value = dest_row[c]
      /\ \A m \in 1 .. Len(dest) : m > search_start => c < dest[m].col
  BY <1>0, <1>1, NextColumn
<1>3. \A d \in Passed : d < c  BY <1>0, <1>1 DEF BySide
<1>4. src_row[c] = Merges!Zero
  <2>1. \A d \in ColumnsOf(src, i - 1) : d < c  BY <1>3 DEF Passed
  <2>. QED BY <1>0, <1>1, <1>2, <2>1, NotThere
<1>5. Sum[c] = dest_row[c]  BY <1>0, <1>2, <1>4, SumValues DEF Sum
<1>6. scratch' = scratch \o Merges!SumEntry(c, Sum[c])
  <2>1. dest[search_start] = Merges!Entry(c, Sum[c])  BY <1>2, <1>5 DEF Merges!Entry, Entries
  <2>2. Sum[c] # Merges!Zero  BY <1>2, <1>5
  <2>3. Merges!SumEntry(c, Sum[c]) = <<dest[search_start]>>  BY <2>1, <2>2 DEF Merges!SumEntry
  <2>4. scratch \in Seq(Entries)  BY DEF BySide, Denotes
  <2>5. scratch \o <<dest[search_start]>> = Append(scratch, dest[search_start])
    BY <1>2, <2>4
  <2>. QED BY <1>1, <2>3, <2>5
<1>7. search_start' - 1 = search_start /\ search_start' \in 1 .. Len(dest) + 1  BY <1>0, <1>1
<1>8. ColumnsOf(src, i' - 1) \cup ColumnsOf(dest, search_start' - 1) = Passed \cup {c}
  BY <1>1, <1>2, <1>7 DEF Passed
<1>9. search_start' <= Len(dest) => c < dest[search_start'].col
  <2>. HAVE search_start' <= Len(dest)
  <2>1. search_start' \in 1 .. Len(dest) /\ search_start' > search_start  BY <1>0, <1>1
  <2>. QED BY <1>2, <2>1
<1>10. i' \in 1 .. Len(src) + 1 /\ (i' <= Len(src) => c < src[i'].col)  BY <1>0, <1>1
<1>. HIDE DEF c
<1>. QED BY <1>1, <1>2, <1>3, <1>6, <1>7, <1>8, <1>9, <1>10, SideStep

\* The entry of the source comes first.
LEMMA MergeSrcKeeps ==
  ASSUME Given, BySide, Merges!MergeSrc
  PROVE  MergeInv'
<1>0. /\ Len(src) \in Nat /\ i \in 1 .. Len(src) + 1
      /\ Len(dest) \in Nat /\ search_start \in 1 .. Len(dest) + 1
      /\ Denotes(src, src_row) /\ Denotes(dest, dest_row)
      /\ scalar \in Merges!F \ {Merges!Zero} /\ dest_row \in Vectors /\ src_row \in Vectors
  BY SideBounds
<1>1. /\ i \in 1 .. Len(src) /\ phase = "adding" /\ kind = "merge"
      /\ search_start' = search_start /\ i' = i + 1
      /\ scratch' = Append(scratch, Merges!Entry(src[i].col, Merges!Scaled(i)))
      /\ UNCHANGED <<Merges!given, dest, phase>>
      /\ search_start <= Len(dest) => src[i].col < dest[search_start].col
  BY <1>0 DEF Merges!MergeSrc, Merges!TakeSrc, Merges!DestLeft, Merges!Adding
<1>. DEFINE c == src[i].col
<1>2. /\ ColumnsOf(src, i) = ColumnsOf(src, i - 1) \cup {c}
      /\ c \in Merges!Col /\ src[i].value \in Merges!F \ {Merges!Zero}
      /\ src[i].value = src_row[c]
      /\ \A m \in 1 .. Len(src) : m > i => c < src[m].col
  BY <1>0, <1>1, NextColumn
<1>3. \A d \in Passed : d < c  BY <1>0, <1>1 DEF BySide
<1>4. dest_row[c] = Merges!Zero
  <2>1. \A d \in ColumnsOf(dest, search_start - 1) : d < c  BY <1>3 DEF Passed
  <2>. QED BY <1>0, <1>1, <1>2, <2>1, NotThere
<1>5. Sum[c] = Merges!Scaled(i) /\ Merges!Scaled(i) \in Merges!F \ {Merges!Zero}
  <2>1. Sum[c] = Merges!FPlus(0, Merges!FTimes(scalar, src_row[c]))
    BY <1>0, <1>2, <1>4, SumValues DEF Sum, Merges!Zero
  <2>2. Merges!FTimes(scalar, src_row[c]) \in Merges!F \ {0}
    BY <1>0, <1>2, FieldFacts DEF Merges!Zero
  <2>3. Sum[c] = Merges!FTimes(scalar, src_row[c])  BY <2>1, <2>2, FieldFacts
  <2>. QED BY <1>2, <2>2, <2>3 DEF Merges!Scaled, Merges!Zero
<1>6. scratch' = scratch \o Merges!SumEntry(c, Sum[c])
  <2>1. Merges!Entry(c, Sum[c]) \in Entries  BY <1>2, <1>5, EntryTyped
  <2>3. Merges!SumEntry(c, Sum[c]) = <<Merges!Entry(c, Sum[c])>>  BY <1>5 DEF Merges!SumEntry
  <2>4. scratch \in Seq(Entries)  BY DEF BySide, Denotes
  <2>5. scratch \o <<Merges!Entry(c, Sum[c])>> = Append(scratch, Merges!Entry(c, Sum[c]))
    BY <2>1, <2>4
  <2>. QED BY <1>1, <1>5, <2>3, <2>5
<1>7. i' - 1 = i /\ i' \in 1 .. Len(src) + 1  BY <1>0, <1>1
<1>8. ColumnsOf(src, i' - 1) \cup ColumnsOf(dest, search_start' - 1) = Passed \cup {c}
  BY <1>1, <1>2, <1>7 DEF Passed
<1>9. i' <= Len(src) => c < src[i'].col
  <2>. HAVE i' <= Len(src)
  <2>1. i' \in 1 .. Len(src) /\ i' > i  BY <1>0, <1>1
  <2>. QED BY <1>2, <2>1
<1>10. search_start' \in 1 .. Len(dest) + 1 /\ (search_start' <= Len(dest)
          => c < dest[search_start'].col)
  BY <1>0, <1>1
<1>. HIDE DEF c
<1>. QED BY <1>1, <1>2, <1>3, <1>6, <1>7, <1>8, <1>9, <1>10, SideStep

\* Both rows have an entry at the column.
LEMMA MergeSumKeeps ==
  ASSUME Given, BySide, Merges!MergeSum
  PROVE  MergeInv'
<1>0. /\ Len(src) \in Nat /\ i \in 1 .. Len(src) + 1
      /\ Len(dest) \in Nat /\ search_start \in 1 .. Len(dest) + 1
      /\ Denotes(src, src_row) /\ Denotes(dest, dest_row)
      /\ scalar \in Merges!F \ {Merges!Zero} /\ dest_row \in Vectors /\ src_row \in Vectors
  BY SideBounds
<1>1. /\ i \in 1 .. Len(src) /\ search_start \in 1 .. Len(dest)
      /\ phase = "adding" /\ kind = "merge"
      /\ search_start' = search_start + 1 /\ i' = i + 1
      /\ scratch' = scratch \o Merges!SumEntry(src[i].col,
          Merges!FPlus(dest[search_start].value, Merges!Scaled(i)))
      /\ UNCHANGED <<Merges!given, dest, phase>>
      /\ dest[search_start].col = src[i].col
  BY <1>0 DEF Merges!MergeSum, Merges!DestLeft, Merges!Adding
<1>. DEFINE c == src[i].col
<1>2. /\ ColumnsOf(src, i) = ColumnsOf(src, i - 1) \cup {c}
      /\ c \in Merges!Col /\ src[i].value = src_row[c]
      /\ \A m \in 1 .. Len(src) : m > i => c < src[m].col
  BY <1>0, <1>1, NextColumn
<1>3. /\ ColumnsOf(dest, search_start) = ColumnsOf(dest, search_start - 1) \cup {c}
      /\ dest[search_start].value = dest_row[c]
      /\ \A m \in 1 .. Len(dest) : m > search_start => c < dest[m].col
  BY <1>0, <1>1, NextColumn
<1>4. \A d \in Passed : d < c  BY <1>0, <1>1 DEF BySide
<1>5. Sum[c] = Merges!FPlus(dest[search_start].value, Merges!Scaled(i))
  BY <1>0, <1>2, <1>3, SumValues DEF Sum, Merges!Scaled
<1>6. scratch' = scratch \o Merges!SumEntry(c, Sum[c])  BY <1>1, <1>5
<1>7. /\ i' - 1 = i /\ i' \in 1 .. Len(src) + 1
      /\ search_start' - 1 = search_start /\ search_start' \in 1 .. Len(dest) + 1
  BY <1>0, <1>1
<1>8. ColumnsOf(src, i' - 1) \cup ColumnsOf(dest, search_start' - 1) = Passed \cup {c}
  BY <1>1, <1>2, <1>3, <1>7 DEF Passed
<1>9. i' <= Len(src) => c < src[i'].col
  <2>. HAVE i' <= Len(src)
  <2>1. i' \in 1 .. Len(src) /\ i' > i  BY <1>0, <1>1
  <2>. QED BY <1>2, <2>1
<1>10. search_start' <= Len(dest) => c < dest[search_start'].col
  <2>. HAVE search_start' <= Len(dest)
  <2>1. search_start' \in 1 .. Len(dest) /\ search_start' > search_start  BY <1>0, <1>1
  <2>. QED BY <1>3, <2>1
<1>. HIDE DEF c
<1>. QED BY <1>1, <1>2, <1>4, <1>6, <1>7, <1>8, <1>9, <1>10, SideStep

\* When both rows have been passed, scratch is the sum.
LEMMA MergeDoneKeeps ==
  ASSUME Given, BySide, Merges!MergeDone
  PROVE  MergeInv'
<1>0. /\ Len(src) \in Nat /\ i \in 1 .. Len(src) + 1
      /\ Len(dest) \in Nat /\ search_start \in 1 .. Len(dest) + 1
      /\ Denotes(src, src_row) /\ Denotes(dest, dest_row)
      /\ scalar \in Merges!F \ {Merges!Zero} /\ dest_row \in Vectors /\ src_row \in Vectors
  BY SideBounds
<1>1. /\ i - 1 = Len(src) /\ search_start - 1 = Len(dest) /\ i' = i
      /\ dest' = scratch /\ scratch' = <<>> /\ phase' = "added" /\ UNCHANGED Merges!given
  BY <1>0 DEF Merges!MergeDone, Merges!DestLeft
<1>2. Given' /\ Sum' = Sum  BY <1>0, <1>1, GivenKept
<1>3. Sum \in Vectors  BY <1>0, SumValues DEF Sum
<1>4. Mixed(Passed, Sum, Merges!VZero(Merges!Col)) = Sum
  <2>1. \A c \in Merges!Col : c \notin Passed => dest_row[c] = Merges!Zero /\ src_row[c]
            = Merges!Zero
    BY <1>0, <1>1 DEF Passed, ColumnsOf, Denotes
  <2>2. \A c \in Merges!Col : c \notin Passed => Sum[c] = Merges!Zero
    BY <1>0, <2>1, SumValues DEF Sum
  <2>3. \A c \in Merges!Col : Merges!VZero(Merges!Col)[c] = Merges!Zero  BY DEF Merges!VZero
  <2>. QED BY <1>3, <2>2, <2>3 DEF Mixed, Vectors
<1>5. Denotes(dest', Sum')  BY <1>1, <1>2, <1>4 DEF BySide
<1>. QED BY <1>1, <1>2, <1>5 DEF MergeInv

\* An entry whose place is looked up goes in there.
LEMMA LookedUpGoesIn ==
  ASSUME Given, ByEntry, phase = "adding", kind # "merge", i <= Len(src),
         AddsAt(dest, Merges!Lookup(src[i].col), src[i].col, Merges!Scaled(i),
             dest', search_start'),
         i' = i + 1, UNCHANGED <<Merges!given, scratch, phase>>
  PROVE  MergeInv'
<1>1. i \in 1 .. Len(src) /\ Denotes(src, src_row)  BY DEF Given, Denotes
<1>2. src[i].col \in Merges!Col  BY <1>1, NextColumn
<1>3. \A j \in 1 .. search_start - 1 : dest[j].col < src[i].col  BY DEF ByEntry
<1>4. search_start \in 1 .. Len(dest) + 1
      /\ Denotes(dest, Mixed(ColumnsOf(src, i - 1), Sum, dest_row))
  BY DEF ByEntry
<1>. DEFINE k == Merges!Lookup(src[i].col)
<1>5. /\ k \in 1 .. Len(dest) + 1
      /\ \A j \in 1 .. k - 1 : dest[j].col < src[i].col
      /\ \A j \in k .. Len(dest) : dest[j].col >= src[i].col
  BY <1>2, <1>3, <1>4, LookedUp
<1>6. AddsAt(dest, k, src[i].col, Merges!Scaled(i), dest', search_start')  OBVIOUS
<1>. HIDE DEF k
<1>. QED BY <1>5, <1>6, EntryGoesIn

\* An entry of a sparse source, of a short one, and a one of a binary one.
LEMMA SparseKeeps ==
  ASSUME Given, ByEntry, Merges!add_sparse_source_matrix_row_entry
  PROVE  MergeInv'
<1>1. AddsAt(dest, Merges!Lookup(src[i].col), src[i].col, Merges!Scaled(i), dest', search_start')

    BY DEF Merges!add_sparse_source_matrix_row_entry, Merges!AddEntryAt, AddsAt,
       Merges!AfterRemoval
<1>2. /\ phase = "adding" /\ kind # "merge" /\ i <= Len(src)
      /\ i' = i + 1 /\ UNCHANGED <<Merges!given, scratch, phase>>
  BY DEF Merges!add_sparse_source_matrix_row_entry, Merges!Adding
<1>. QED BY <1>1, <1>2, LookedUpGoesIn

\* The same in a short merge, behind the pivot.
LEMMA ShortKeeps ==
  ASSUME Given, ByEntry, Merges!add_short_matrix_row_entry
  PROVE  MergeInv'
<1>1. AddsAt(dest, Merges!Lookup(src[i].col), src[i].col, Merges!Scaled(i), dest', search_start')
  BY DEF Merges!add_short_matrix_row_entry, Merges!AddEntryAt, AddsAt, Merges!AfterRemoval
<1>2. /\ phase = "adding" /\ kind # "merge" /\ i <= Len(src)
      /\ i' = i + 1 /\ UNCHANGED <<Merges!given, scratch, phase>>
  BY DEF Merges!add_short_matrix_row_entry, Merges!Adding
<1>. QED BY <1>1, <1>2, LookedUpGoesIn

\* In a merge of binary rows every entry is one.
LEMMA BinaryEntries ==
  ASSUME Given, kind = "binary_short", NEW n \in 1 .. Len(src),
         NEW r, Denotes(r, Mixed(ColumnsOf(src, n - 1), Sum, dest_row))
  PROVE  /\ Merges!FTimes(scalar, src[n].value) = Merges!One
         /\ \A k \in 1 .. Len(r) : r[k].col = src[n].col
                   => Merges!FPlus(r[k].value, Merges!One) = Merges!Zero
         /\ Merges!Zero # Merges!One
<1>. DEFINE c == src[n].col
<1>0. Denotes(src, src_row) /\ scalar = 1 /\ Merges!Binary(src_row) /\ Merges!Binary(dest_row)
  BY DEF Given, Merges!One
<1>1. /\ c \notin ColumnsOf(src, n - 1) /\ c \in Merges!Col
      /\ src[n].value # Merges!Zero /\ src[n].value \in Merges!F /\ src[n].value = src_row[c]
  BY <1>0, NextColumn
<1>2. src[n].value = 1  BY <1>0, <1>1 DEF Merges!Binary, Merges!One
<1>3. Merges!FTimes(scalar, src[n].value) = Merges!One
  BY <1>0, <1>2, FieldFacts DEF Merges!One, Merges!F
<1>4. \A k \in 1 .. Len(r) : r[k].col = c => r[k].value = 1
  <2>. TAKE k \in 1 .. Len(r)
  <2>. HAVE r[k].col = c
  <2>1. r[k].value # Merges!Zero /\ r[k].value = Mixed(ColumnsOf(src, n - 1), Sum, dest_row)[c]
    BY NextColumn
  <2>2. r[k].value = dest_row[c]  BY <1>1, <2>1 DEF Mixed
  <2>. QED BY <1>0, <1>1, <2>1, <2>2 DEF Merges!Binary, Merges!One
<1>5. Merges!FPlus(1, Merges!One) = Merges!Zero  BY DEF Merges!FPlus, Merges!One, Merges!Zero
<1>. QED BY <1>3, <1>4, <1>5 DEF Merges!One, Merges!Zero

\* The same with ones, of which two cancel.
LEMMA BinaryKeeps ==
  ASSUME Given, ByEntry, Merges!add_binary_short_matrix_row_entry_from
  PROVE  MergeInv'
<1>1. /\ phase = "adding" /\ kind = "binary_short" /\ i <= Len(src)
      /\ i' = i + 1 /\ UNCHANGED <<Merges!given, scratch, phase>>
  BY DEF Merges!add_binary_short_matrix_row_entry_from, Merges!Adding
<1>2. i \in 1 .. Len(src) /\ Denotes(src, src_row)  BY <1>1 DEF Given, Denotes
<1>. DEFINE k == Merges!Lookup(src[i].col)
            c == src[i].col
<1>3. /\ Merges!Scaled(i) = Merges!One
      /\ \A j \in 1 .. Len(dest) : dest[j].col = c
                => Merges!FPlus(dest[j].value, Merges!One) = Merges!Zero
  BY <1>1, <1>2, BinaryEntries DEF ByEntry, Merges!Scaled
<1>4. k \in Nat \ {0} /\ Len(dest) \in Nat
  <2>1. src[i].col \in Merges!Col  BY <1>2, NextColumn
  <2>2. \A j \in 1 .. search_start - 1 : dest[j].col < src[i].col  BY <1>1 DEF ByEntry
  <2>3. k \in 1 .. Len(dest) + 1  BY <2>1, <2>2, LookedUp DEF ByEntry
  <2>4. Len(dest) \in Nat  BY DEF ByEntry, Denotes
  <2>. QED BY <2>3, <2>4
<1>5. IF k <= Len(dest) /\ dest[k].col = c
      THEN dest' = Merges!remove_matrix_row_entry_at(dest, k) /\ search_start' = k
      ELSE dest' = Merges!insert_matrix_row_entry_at(dest, k, Merges!Entry(c, Merges!One))
                /\ search_start' = k + 1
  BY DEF Merges!add_binary_short_matrix_row_entry_from, Merges!Cancels, Merges!AfterRemoval
<1>. HIDE DEF k, c
<1>6. k <= Len(dest) /\ dest[k].col = c => Merges!FPlus(dest[k].value, Merges!One) = Merges!Zero
  BY <1>3, <1>4
<1>7. AddsAt(dest, k, c, Merges!One, dest', search_start')  BY <1>5, <1>6 DEF AddsAt
<1>8. AddsAt(dest, Merges!Lookup(src[i].col), src[i].col, Merges!Scaled(i), dest', search_start')
  BY <1>3, <1>7 DEF k, c
<1>. QED BY <1>1, <1>8, LookedUpGoesIn

\* A lone pivot cancels.
LEMMA PivotAloneKeeps ==
  ASSUME Given, ByEntry, Merges!ShortPivotAlone
  PROVE  MergeInv'
<1>1. /\ phase = "adding" /\ kind \in {"short", "binary_short"} /\ i = 1 /\ Len(src) = 1
      /\ dest' = Tail(dest) /\ i' = 2 /\ UNCHANGED <<Merges!given, search_start, scratch, phase>>
  BY DEF Merges!ShortPivotAlone
<1>2. /\ Len(dest) \in Nat \ {0} /\ dest[1].col = src[1].col
      /\ Denotes(dest, dest_row)
      /\ Denotes(Tail(dest), Mixed(ColumnsOf(src, 1), Sum, dest_row))
  BY <1>1, PivotCancels
<1>3. search_start = 1
  <2>1. \A k \in 1 .. search_start - 1 : dest[k].col < src[1].col  BY <1>1 DEF ByEntry
  <2>2. src[1].col \in Int
    <3>1. 1 \in 1 .. Len(src) /\ Denotes(src, src_row)  BY <1>1 DEF Given
    <3>2. src[1].col \in Merges!Col  BY <3>1, NextColumn
    <3>. QED BY <3>2 DEF Merges!Col
  <2>3. 1 \notin 1 .. search_start - 1  BY <1>2, <2>1, <2>2
  <2>4. search_start \in 1 .. Len(dest) + 1  BY DEF ByEntry
  <2>. QED BY <1>2, <2>3, <2>4
<1>4. Given' /\ Sum' = Sum  BY <1>1, GivenKept
<1>5. src' = src /\ dest_row' = dest_row /\ kind' = kind  BY <1>1 DEF Merges!given
<1>6. Len(Tail(dest)) \in Nat  BY <1>2 DEF Denotes
<1>. DEFINE t == Tail(dest)
<1>. HIDE DEF t
<1>7. 1 \in 1 .. Len(t) + 1  BY <1>6 DEF t
<1>8. dest' = t /\ Denotes(t, Mixed(ColumnsOf(src, 1), Sum, dest_row))  BY <1>1, <1>2 DEF t
<1>9. i' - 1 = 1 /\ search_start' = 1 /\ scratch' = <<>> /\ ~(i' <= Len(src))
  BY <1>1, <1>3 DEF ByEntry
<1>10. ByEntry'  BY <1>4, <1>5, <1>7, <1>8, <1>9 DEF ByEntry
<1>. QED BY <1>1, <1>4, <1>5, <1>10 DEF MergeInv

\* The place of the second entry in the row without its first one.
LEMMA SecondPlace ==
  ASSUME Given, ByEntry, kind \in {"short", "binary_short"}, i = 1, Len(src) > 1
  PROVE  LET t == Tail(dest) IN
         /\ Denotes(t, Mixed(ColumnsOf(src, 1), Sum, dest_row))
         /\ Merges!PlaceAfterPivot \in 1 .. Len(t) + 1
         /\ \A j \in 1 .. Merges!PlaceAfterPivot - 1 : t[j].col < src[2].col
         /\ \A j \in Merges!PlaceAfterPivot .. Len(t) : t[j].col >= src[2].col
         /\ Len(t) = Len(dest) - 1 /\ Len(dest) \in Nat
         /\ \A j \in 1 .. Len(t) : t[j] = dest[j + 1]
<1>1. /\ Len(dest) \in Nat \ {0} /\ Len(src) \in Nat /\ dest[1].col = src[1].col
      /\ Denotes(dest, dest_row) /\ Denotes(src, src_row)
      /\ Denotes(Tail(dest), Mixed(ColumnsOf(src, 1), Sum, dest_row))
  BY PivotCancels DEF Given
<1>2. src[2].col \in Merges!Col /\ src[1].col < src[2].col
  <2>1. 1 \in 1 .. Len(src) /\ 2 \in 1 .. Len(src) /\ 2 > 1  BY <1>1
  <2>. QED BY <1>1, <2>1, NextColumn
<1>. DEFINE p == Merges!partition_point(dest, 2, src[2].col)
            t == Tail(dest)
<1>3. /\ p \in 2 .. Len(dest) + 1
      /\ \A j \in 1 .. p - 1 : dest[j].col < src[2].col
      /\ \A j \in p .. Len(dest) : dest[j].col >= src[2].col
  <2>1. 2 \in 1 .. Len(dest) + 1  BY <1>1
  <2>2. \A j \in 1 .. 2 - 1 : dest[j].col < src[2].col
    <3>1. \A j \in 1 .. 2 - 1 : j = 1  OBVIOUS
    <3>. QED BY <1>1, <1>2, <3>1
  <2>. QED BY <1>1, <1>2, <2>1, <2>2, PartitionPoint
<1>4. Merges!PlaceAfterPivot = p - 1  BY DEF Merges!PlaceAfterPivot
<1>5. Len(t) = Len(dest) - 1 /\ \A j \in 1 .. Len(dest) - 1 : t[j] = dest[j + 1]
  <2>1. dest # <<>>  BY <1>1
  <2>. QED BY <1>1, <2>1, TailEntries
<1>. HIDE DEF p, t
<1>6. p - 1 \in 1 .. Len(t) + 1  BY <1>1, <1>3, <1>5
<1>7. \A j \in 1 .. p - 1 - 1 : t[j].col < src[2].col
  <2>1. \A j \in 1 .. p - 1 - 1 : j + 1 \in 1 .. p - 1 /\ j \in 1 .. Len(dest) - 1
    BY <1>1, <1>3
  <2>. QED BY <1>3, <1>5, <2>1
<1>8. \A j \in p - 1 .. Len(t) : t[j].col >= src[2].col
  <2>1. \A j \in p - 1 .. Len(t) : j + 1 \in p .. Len(dest) /\ j \in 1 .. Len(dest) - 1
    BY <1>1, <1>3, <1>5
  <2>. QED BY <1>3, <1>5, <2>1
<1>9. \A j \in 1 .. Len(t) : t[j] = dest[j + 1]  BY <1>5
<1>10. Denotes(t, Mixed(ColumnsOf(src, 1), Sum, dest_row))  BY <1>1 DEF t
<1>. QED BY <1>1, <1>4, <1>5, <1>6, <1>7, <1>8, <1>9, <1>10 DEF t

\* The pivot goes and the second entry comes.
LEMMA SecondGoesIn ==
  ASSUME Given, ByEntry, phase = "adding", kind \in {"short", "binary_short"},
         i = 1, Len(src) > 1,
         AddsAt(Tail(dest), Merges!PlaceAfterPivot, src[2].col, Merges!Scaled(2),
             dest', search_start'),
         i' = 3, UNCHANGED <<Merges!given, scratch, phase>>
  PROVE  MergeInv'
<1>. DEFINE t == Tail(dest)
            k == Merges!PlaceAfterPivot
<1>1. /\ Denotes(t, Mixed(ColumnsOf(src, 1), Sum, dest_row))
      /\ k \in 1 .. Len(t) + 1
      /\ \A j \in 1 .. k - 1 : t[j].col < src[2].col
      /\ \A j \in k .. Len(t) : t[j].col >= src[2].col
  BY SecondPlace
<1>2. AddsAt(t, k, src[2].col, Merges!FTimes(scalar, src[2].value), dest', search_start')
  BY DEF Merges!Scaled
<1>. HIDE DEF t, k
<1>3. 2 \in 1 .. Len(src) /\ Len(src) \in Nat /\ Denotes(src, src_row)  BY DEF Given, Denotes
<1>4. i' \in 1 .. Len(src) + 1 /\ phase' \in {"adding", "added"}  BY <1>3
<1>5. Given' /\ Sum' = Sum /\ src' = src /\ dest_row' = dest_row /\ phase' = "adding"
      /\ kind' = kind /\ scratch' = <<>>
  BY <1>4, GivenKept DEF Merges!given, ByEntry
<1>6. scalar \in Merges!F \ {Merges!Zero} /\ dest_row \in Vectors  BY DEF Given
<1>7. Denotes(t, Mixed(ColumnsOf(src, 2 - 1), Sum, dest_row))  BY <1>1
<1>8. /\ Denotes(dest', Mixed(ColumnsOf(src, 2), Sum, dest_row))
      /\ search_start' \in 1 .. Len(dest') + 1
      /\ 2 + 1 <= Len(src) => \A j \in 1 .. search_start' - 1 : dest'[j].col < src[2 + 1].col
  BY <1>1, <1>2, <1>3, <1>6, <1>7, AddNext DEF Sum
<1>9. i' - 1 = 2 /\ 2 + 1 = i'  OBVIOUS
<1>10. ByEntry'  BY <1>5, <1>8, <1>9 DEF ByEntry
<1>. QED BY <1>5, <1>10 DEF MergeInv

\* The first move of a short merge.
LEMMA ShortPivotKeeps ==
  ASSUME Given, ByEntry, Merges!add_short_matrix_row_entry_and_remove_pivot
  PROVE  MergeInv'
<1>1. /\ phase = "adding" /\ kind = "short" /\ i = 1 /\ Len(src) > 1
      /\ i' = 3 /\ UNCHANGED <<Merges!given, scratch, phase>>
  BY DEF Merges!add_short_matrix_row_entry_and_remove_pivot, Merges!Adding
<1>2. AddsAt(Tail(dest), Merges!PlaceAfterPivot, src[2].col, Merges!Scaled(2), dest', search_start')
  BY DEF Merges!add_short_matrix_row_entry_and_remove_pivot, AddsAt
<1>. QED BY <1>1, <1>2, SecondGoesIn

\* The first move of a binary one.
LEMMA BinaryPivotKeeps ==
  ASSUME Given, ByEntry, Merges!add_binary_short_matrix_row_entry_and_remove_pivot
  PROVE  MergeInv'
<1>1. /\ phase = "adding" /\ kind = "binary_short" /\ i = 1 /\ Len(src) > 1
      /\ i' = 3 /\ UNCHANGED <<Merges!given, scratch, phase>>
  BY DEF Merges!add_binary_short_matrix_row_entry_and_remove_pivot, Merges!Adding
<1>. DEFINE k == Merges!PlaceAfterPivot
            t == Tail(dest)
            c == src[2].col
<1>2. IF k + 1 <= Len(dest) /\ dest[k + 1].col = c
      THEN dest' = Merges!remove_matrix_row_entry_at(t, k) /\ search_start' = k
      ELSE dest' = Merges!insert_matrix_row_entry_at(t, k, Merges!Entry(c, Merges!One))
                /\ search_start' = k + 1
  BY DEF Merges!add_binary_short_matrix_row_entry_and_remove_pivot, Merges!Cancels
<1>3. /\ Denotes(t, Mixed(ColumnsOf(src, 1), Sum, dest_row))
      /\ k \in 1 .. Len(t) + 1
      /\ Len(t) = Len(dest) - 1 /\ Len(dest) \in Nat
      /\ \A j \in 1 .. Len(t) : t[j] = dest[j + 1]
  BY <1>1, SecondPlace
<1>4. 2 \in 1 .. Len(src) /\ Len(src) \in Nat /\ Denotes(src, src_row)
  BY <1>1 DEF Given, Denotes
<1>. HIDE DEF t, k
<1>5. /\ Merges!Scaled(2) = Merges!One
      /\ \A j \in 1 .. Len(t) : t[j].col = c => Merges!FPlus(t[j].value, Merges!One) = Merges!Zero
  <2>1. Denotes(t, Mixed(ColumnsOf(src, 2 - 1), Sum, dest_row))  BY <1>3
  <2>. QED BY <1>1, <1>4, <2>1, BinaryEntries DEF Merges!Scaled
<1>. HIDE DEF c
<1>6. k <= Len(t) /\ t[k].col = c <=> k + 1 <= Len(dest) /\ dest[k + 1].col = c
  <2>1. k <= Len(t) <=> k + 1 <= Len(dest)  BY <1>3
  <2>2. k <= Len(t) => t[k] = dest[k + 1]  BY <1>3
  <2>. QED BY <2>1, <2>2
<1>7. k <= Len(t) /\ t[k].col = c => Merges!FPlus(t[k].value, Merges!One) = Merges!Zero
  <2>1. k <= Len(t) => k \in 1 .. Len(t)  BY <1>3
  <2>. QED BY <1>5, <2>1
<1>8. AddsAt(t, k, c, Merges!One, dest', search_start')  BY <1>2, <1>6, <1>7 DEF AddsAt
<1>9. AddsAt(Tail(dest), Merges!PlaceAfterPivot, src[2].col, Merges!Scaled(2), dest', search_start')
  BY <1>5, <1>8 DEF t, k, c
<1>. QED BY <1>1, <1>9, SecondGoesIn

\* A row of the pivot alone becomes the rest of the source.
LEMMA TakenTailKeeps ==
  ASSUME Given, ByEntry, Merges!BinaryTakesTail
  PROVE  MergeInv'
<1>1. /\ phase = "adding" /\ kind = "binary_short" /\ i = 1 /\ Len(src) > 1 /\ Len(dest) = 1
      /\ dest' = Tail(src) /\ i' = Len(src) + 1
      /\ UNCHANGED <<Merges!given, search_start, scratch, phase>>
  BY DEF Merges!BinaryTakesTail, Merges!Adding
<1>2. /\ dest[1].col = src[1].col /\ Len(src) \in Nat
      /\ Denotes(dest, dest_row) /\ Denotes(src, src_row)
      /\ Sum[src[1].col] = Merges!Zero
      /\ scalar \in Merges!F \ {Merges!Zero} /\ scalar = 1 /\ dest_row \in Vectors
                /\ src_row \in Vectors
  BY <1>1, PivotCancels DEF Given, Denotes, Merges!One
<1>. DEFINE c == src[1].col
            t == Tail(src)
            z == [src_row EXCEPT ![c] = Merges!Zero]
<1>3. c \in Merges!Col
  <2>1. 1 \in 1 .. Len(src)  BY <1>1, <1>2
  <2>. QED BY <1>2, <2>1, NextColumn
<1>4. Denotes(t, z)
  <2>1. src # <<>>  BY <1>1, <1>2
  <2>. QED BY <1>2, <2>1, TailEntries
<1>5. \A d \in Merges!Col : d # c => dest_row[d] = Merges!Zero
  <2>1. \A k \in 1 .. Len(dest) : k = 1  BY <1>1
  <2>. QED BY <1>2, <2>1 DEF Denotes
<1>6. Sum \in Vectors  BY <1>2, SumValues DEF Sum
<1>7. \A d \in Merges!Col : Sum[d] = z[d]
  <2>. TAKE d \in Merges!Col
  <2>1. CASE d = c  BY <1>2, <1>3, <2>1 DEF Vectors
  <2>2. CASE d # c
    <3>1. src_row[d] \in Merges!F  BY <1>2 DEF Vectors
    <3>2. Sum[d] = Merges!FPlus(0, Merges!FTimes(1, src_row[d]))
      BY <1>2, <1>5, <2>2, SumValues DEF Sum, Merges!Zero
    <3>3. Sum[d] = src_row[d]  BY <3>1, <3>2, FieldFacts
    <3>. QED BY <1>2, <2>2, <3>3 DEF Vectors
  <2>. QED BY <2>1, <2>2
<1>8. z \in Vectors  BY <1>2, <1>3 DEF Vectors, Merges!Zero, Merges!F
<1>. HIDE DEF z, t, c
<1>9. z = Sum  BY <1>6, <1>7, <1>8 DEF Vectors
<1>10. i' - 1 = Len(src) /\ i' \in 1 .. Len(src) + 1 /\ ~(i' <= Len(src))  BY <1>1, <1>2
<1>11. Given' /\ Sum' = Sum  BY <1>1, <1>10, GivenKept DEF Given
<1>12. src' = src /\ dest_row' = dest_row /\ kind' = kind  BY <1>1 DEF Merges!given
<1>13. Mixed(ColumnsOf(src, Len(src)), Sum, dest_row) = Sum  BY <1>2, AllColumns DEF Sum
<1>14. Denotes(t, Sum) /\ dest' = t /\ Len(t) \in Nat /\ Len(t) = Len(src) - 1
  <2>1. Denotes(t, Sum)  BY <1>4, <1>9
  <2>2. src # <<>>  BY <1>1, <1>2
  <2>3. Len(t) = Len(src) - 1  BY <1>2, <2>2, TailEntries DEF t
  <2>. QED BY <1>1, <2>1, <2>3 DEF t, Denotes
<1>15. search_start \in 1 .. Len(t) + 1
  <2>1. search_start \in 1 .. 2  BY <1>1 DEF ByEntry
  <2>. QED BY <1>1, <1>2, <1>14, <2>1
<1>16. ByEntry'
  <2>1. scratch' = <<>> /\ search_start' = search_start  BY <1>1 DEF ByEntry
  <2>2. ColumnsOf(src', i' - 1) = ColumnsOf(src, Len(src))  BY <1>10, <1>12
  <2>. QED BY <1>10, <1>11, <1>12, <1>13, <1>14, <1>15, <2>1, <2>2 DEF ByEntry
<1>. QED BY <1>1, <1>11, <1>12, <1>16 DEF MergeInv

\* The invariant is kept.
LEMMA MergeKept ==
  ASSUME MergeInv, [Merges!Next]_(Merges!vars)
  PROVE  MergeInv'
<1>0. Given  BY DEF MergeInv
<1>1. ASSUME phase = "adding", kind # "merge" PROVE ByEntry  BY <1>1 DEF MergeInv
<1>2. ASSUME phase = "adding", kind = "merge" PROVE BySide  BY <1>2 DEF MergeInv
<1>3. CASE Merges!MergeDest  BY <1>0, <1>2, <1>3, MergeDestKeeps DEF Merges!MergeDest
<1>4. CASE Merges!MergeSrc
  BY <1>0, <1>2, <1>4, MergeSrcKeeps DEF Merges!MergeSrc, Merges!Adding
<1>5. CASE Merges!MergeSum
  BY <1>0, <1>2, <1>5, MergeSumKeeps DEF Merges!MergeSum, Merges!Adding
<1>6. CASE Merges!MergeDone  BY <1>0, <1>2, <1>6, MergeDoneKeeps DEF Merges!MergeDone
<1>7. CASE Merges!add_sparse_source_matrix_row_entry
  <2>1. phase = "adding" /\ kind # "merge"
    BY <1>7 DEF Merges!add_sparse_source_matrix_row_entry, Merges!Adding
  <2>. QED BY <1>0, <1>1, <1>7, <2>1, SparseKeeps
<1>8. CASE Merges!ShortPivotAlone
  <2>1. phase = "adding" /\ kind # "merge"  BY <1>8 DEF Merges!ShortPivotAlone
  <2>. QED BY <1>0, <1>1, <1>8, <2>1, PivotAloneKeeps
<1>9. CASE Merges!add_short_matrix_row_entry_and_remove_pivot
  <2>1. phase = "adding" /\ kind # "merge"
    BY <1>9 DEF Merges!add_short_matrix_row_entry_and_remove_pivot, Merges!Adding
  <2>. QED BY <1>0, <1>1, <1>9, <2>1, ShortPivotKeeps
<1>10. CASE Merges!add_short_matrix_row_entry
  <2>1. phase = "adding" /\ kind # "merge"
    BY <1>10 DEF Merges!add_short_matrix_row_entry, Merges!Adding
  <2>. QED BY <1>0, <1>1, <1>10, <2>1, ShortKeeps
<1>11. CASE Merges!BinaryTakesTail
  <2>1. phase = "adding" /\ kind # "merge"  BY <1>11 DEF Merges!BinaryTakesTail, Merges!Adding
  <2>. QED BY <1>0, <1>1, <1>11, <2>1, TakenTailKeeps
<1>12. CASE Merges!add_binary_short_matrix_row_entry_and_remove_pivot
  <2>1. phase = "adding" /\ kind # "merge"
    BY <1>12 DEF Merges!add_binary_short_matrix_row_entry_and_remove_pivot, Merges!Adding
  <2>. QED BY <1>0, <1>1, <1>12, <2>1, BinaryPivotKeeps
<1>13. CASE Merges!add_binary_short_matrix_row_entry_from
  <2>1. phase = "adding" /\ kind # "merge"
    BY <1>13 DEF Merges!add_binary_short_matrix_row_entry_from, Merges!Adding
  <2>. QED BY <1>0, <1>1, <1>13, <2>1, BinaryKeeps
<1>14. CASE Merges!EntriesDone
  <2>1. phase = "adding" /\ kind # "merge" /\ i > Len(src) /\ phase' = "added"
        /\ UNCHANGED <<Merges!given, dest, i, scratch>>
    BY <1>14 DEF Merges!EntriesDone
  <2>2. ByEntry  BY <1>1, <2>1
  <2>3. Denotes(dest, Sum)  BY <1>0, <2>1, <2>2, EntriesComplete
  <2>4. i' \in 1 .. Len(src) + 1  BY <1>0, <2>1 DEF Given
  <2>5. Given' /\ Sum' = Sum  BY <1>0, <2>1, <2>4, GivenKept
  <2>6. scratch' = <<>> /\ dest' = dest  BY <2>1, <2>2 DEF ByEntry
  <2>. QED BY <2>1, <2>3, <2>5, <2>6 DEF MergeInv
<1>15. CASE UNCHANGED Merges!vars
  <2>1. i' \in 1 .. Len(src) + 1 /\ phase' \in {"adding", "added"} /\ UNCHANGED Merges!given
    BY <1>0, <1>15 DEF Given, Merges!vars, Merges!given
  <2>2. Given' /\ Sum' = Sum  BY <1>0, <2>1, GivenKept
  <2>3. /\ phase' = phase /\ kind' = kind /\ scratch' = scratch /\ dest' = dest
        /\ search_start' = search_start /\ src' = src /\ i' = i /\ dest_row' = dest_row
    BY <1>15 DEF Merges!vars
  <2>4. ByEntry => ByEntry'  BY <2>2, <2>3 DEF ByEntry
  <2>5. Passed' = Passed  BY <2>3 DEF Passed
  <2>6. BySide => BySide'  BY <2>2, <2>3, <2>5 DEF BySide
  <2>. QED BY <2>2, <2>3, <2>4, <2>6 DEF MergeInv
<1>16. CASE Merges!Added  BY <1>15, <1>16 DEF Merges!Added
<1>. QED BY <1>3, <1>4, <1>5, <1>6, <1>7, <1>8, <1>9, <1>10, <1>11, <1>12, <1>13, <1>14,
            <1>15, <1>16 DEF Merges!Next

\* What the invariant says about the properties.
LEMMA MergeImplies ==
  ASSUME MergeInv
  PROVE  Merges!TypeInv /\ Merges!SearchStartsBeforePlace /\ Merges!RowIsSum
<1>0. Given  BY DEF MergeInv
<1>1. ASSUME NEW r, NEW v, Denotes(r, v)
      PROVE  Merges!Sorted(r) /\ \A k \in DOMAIN r : r[k].col \in Merges!Col
                /\ r[k].value \in Merges!F \ {Merges!Zero}
  <2>1. Len(r) \in Nat /\ DOMAIN r = 1 .. Len(r)  BY <1>1 DEF Denotes
  <2>2. \A j \in 1 .. Len(r) - 1 : j \in 1 .. Len(r) /\ j + 1 \in 1 .. Len(r) /\ j + 1 > j
    BY <2>1
  <2>3. Merges!Sorted(r)  BY <1>1, <2>2, NextColumn DEF Merges!Sorted
  <2>. QED BY <1>1, <2>1, <2>3, NextColumn
<1>2. \E v : Denotes(dest, v)
  <2>1. CASE phase = "adding" /\ kind # "merge"  BY <2>1 DEF MergeInv, ByEntry
  <2>2. CASE phase = "adding" /\ kind = "merge"  BY <2>2 DEF MergeInv, BySide
  <2>3. CASE phase = "added"  BY <2>3 DEF MergeInv
  <2>. QED BY <1>0, <2>1, <2>2, <2>3 DEF Given
<1>3. scratch = <<>> \/ \E v : Denotes(scratch, v)
  <2>1. CASE phase = "adding" /\ kind # "merge"  BY <2>1 DEF MergeInv, ByEntry
  <2>2. CASE phase = "adding" /\ kind = "merge"  BY <2>2 DEF MergeInv, BySide
  <2>3. CASE phase = "added"  BY <2>3 DEF MergeInv
  <2>. QED BY <1>0, <2>1, <2>2, <2>3 DEF Given
<1>4. scratch = <<>> => Merges!Sorted(scratch) /\ DOMAIN scratch = {}
  <2>. HAVE scratch = <<>>
  <2>1. 1 .. Len(scratch) - 1 = {} /\ DOMAIN scratch = {}  OBVIOUS
  <2>. QED BY <2>1 DEF Merges!Sorted
<1>5. Merges!TypeInv
  <2>1. \A row \in {dest, scratch} :
          Merges!Sorted(row) /\ \A k \in DOMAIN row : row[k].col \in Merges!Col
                    /\ row[k].value \in Merges!F \ {Merges!Zero}
    BY <1>1, <1>2, <1>3, <1>4
  <2>2. phase \in {"adding", "added"} /\ i \in 1 .. Len(src) + 1  BY <1>0 DEF Given
  <2>. QED BY <2>1, <2>2 DEF Merges!TypeInv
<1>6. Merges!SearchStartsBeforePlace
  <2>. SUFFICES ASSUME phase = "adding" /\ i <= Len(src) /\ kind # "merge"
                PROVE  search_start <= Len(dest) + 1
                       /\ \A k \in 1 .. search_start - 1 : dest[k].col < src[i].col
    BY DEF Merges!SearchStartsBeforePlace
  <2>1. ByEntry  BY DEF MergeInv
  <2>2. Len(dest) \in Nat  BY <2>1 DEF ByEntry, Denotes
  <2>. QED BY <2>1, <2>2 DEF ByEntry
<1>7. Merges!RowIsSum
  <2>. SUFFICES ASSUME phase = "added"
                PROVE  [c \in Merges!Col |-> Merges!ValueAt(dest, c)]
                          = Merges!VPlus(dest_row, Merges!VTimes(scalar, src_row))
    BY DEF Merges!RowIsSum
  <2>1. Denotes(dest, Sum)  BY DEF MergeInv
  <2>2. \A c \in Merges!Col : Merges!ValueAt(dest, c) = Sum[c]  BY <2>1, ValueDenoted
  <2>3. Sum \in Vectors  BY <2>1 DEF Denotes
  <2>4. [c \in Merges!Col |-> Merges!ValueAt(dest, c)] = Sum  BY <2>2, <2>3 DEF Vectors
  <2>. QED BY <2>4 DEF Sum, SumOf
<1>. QED BY <1>5, <1>6, <1>7

-----------------------------------------------------------------------------
(* Lists of rows.                                                          *)

\* What is used of the sizes of sets.
LEMMA PlainSizes ==
  ASSUME Buckets!BucketAssumption
  PROVE  /\ \A n \in Nat : Cardinality(1 .. n) = n
         /\ \A S \in SUBSET Buckets!Row : Cardinality(S) \in 0 .. Height
         /\ \A S \in SUBSET Buckets!Row : \A y \in Buckets!Row \ S : Cardinality(S \cup {y})
            = Cardinality(S) + 1
         /\ \A S \in SUBSET Buckets!Row : \A y \in S : Cardinality(S \ {y}) = Cardinality(S) - 1
         /\ \A S \in SUBSET Buckets!Col : Cardinality(S) \in Nat
            /\ (Cardinality(S) = 0 <=> S = {})
         /\ \A S, T \in SUBSET Buckets!Col :
              Cardinality((S \ T) \cup (T \ S))
                = Cardinality(S) + Cardinality(T \ S) - Cardinality(T \cap S)
         /\ Cardinality({}) = 0
<1>0. Height \in Nat /\ Width \in Nat  BY DEF Buckets!BucketAssumption
<1>1. \A n \in Nat : Cardinality(1 .. n) = n
  <2>. TAKE n \in Nat
  <2>1. Cardinality(1 .. n) = IF 1 > n THEN 0 ELSE n - 1 + 1  BY FS_Interval
  <2>. QED BY <2>1
<1>2. IsFiniteSet(Buckets!Row) /\ Cardinality(Buckets!Row) = Height
  <2>1. 0 \in Int /\ Height - 1 \in Int  BY <1>0
  <2>2. /\ IsFiniteSet(0 .. Height - 1)
        /\ Cardinality(0 .. Height - 1) = IF 0 > Height - 1 THEN 0 ELSE Height - 1 - 0 + 1
    BY <2>1, FS_Interval
  <2>. QED BY <1>0, <2>2 DEF Buckets!Row
<1>3. IsFiniteSet(Buckets!Col)
  <2>1. 0 \in Int /\ Width - 1 \in Int  BY <1>0
  <2>. QED BY <2>1, FS_Interval DEF Buckets!Col
<1>4. ASSUME NEW S \in SUBSET Buckets!Row
      PROVE  /\ Cardinality(S) \in 0 .. Height
             /\ \A y \in Buckets!Row \ S : Cardinality(S \cup {y}) = Cardinality(S) + 1
             /\ \A y \in S : Cardinality(S \ {y}) = Cardinality(S) - 1
  <2>1. IsFiniteSet(S) /\ Cardinality(S) <= Height  BY <1>2, FS_Subset
  <2>2. Cardinality(S) \in Nat  BY <2>1, FS_CardinalityType
  <2>3. \A y \in Buckets!Row \ S : Cardinality(S \cup {y}) = Cardinality(S) + 1
    BY <2>1, FS_AddElement
  <2>4. \A y \in S : Cardinality(S \ {y}) = Cardinality(S) - 1  BY <2>1, FS_RemoveElement
  <2>. QED BY <1>0, <2>1, <2>2, <2>3, <2>4
<1>5. ASSUME NEW S \in SUBSET Buckets!Col
      PROVE  IsFiniteSet(S) /\ Cardinality(S) \in Nat /\ (Cardinality(S) = 0 <=> S = {})
  <2>1. IsFiniteSet(S)  BY <1>3, FS_Subset
  <2>. QED BY <2>1, FS_CardinalityType, FS_EmptySet
<1>6. ASSUME NEW S \in SUBSET Buckets!Col, NEW T \in SUBSET Buckets!Col
      PROVE  Cardinality((S \ T) \cup (T \ S))
               = Cardinality(S) + Cardinality(T \ S) - Cardinality(T \cap S)
  <2>. DEFINE A == S \ T
              B == T \ S
              C == T \cap S
  <2>1. IsFiniteSet(S) /\ IsFiniteSet(A) /\ IsFiniteSet(B) /\ IsFiniteSet(C)
        /\ Cardinality(A) \in Nat /\ Cardinality(B) \in Nat /\ Cardinality(C) \in Nat
    BY <1>5
  <2>2. Cardinality(A \cup B) = Cardinality(A) + Cardinality(B) - Cardinality(A \cap B)
    BY <2>1, FS_Union
  <2>3. Cardinality(A \cap B) = 0
    <3>1. A \cap B = {}  OBVIOUS
    <3>. QED BY <3>1, FS_EmptySet
  <2>4. Cardinality(A) = Cardinality(S) - Cardinality(S \cap T)  BY <2>1, FS_Difference
  <2>5. Cardinality(S \cap T) = Cardinality(C) /\ Cardinality(S) \in Nat
    <3>1. S \cap T = C  OBVIOUS
    <3>. QED BY <1>5, <3>1
  <2>. HIDE DEF A, B, C
  <2>6. Cardinality(A \cup B) = Cardinality(S) + Cardinality(B) - Cardinality(C)
    BY <2>1, <2>2, <2>3, <2>4, <2>5
  <2>. QED BY <2>6 DEF A, B, C
<1>. QED BY <1>1, <1>4, <1>5, <1>6, FS_EmptySet

\* The same of the lists' own sizes.
LEMMA Sizes ==
  ASSUME Buckets!BucketAssumption
  PROVE  /\ \A n \in Nat : Buckets!Cardinality(1 .. n) = n
         /\ \A S \in SUBSET Buckets!Row : Buckets!Cardinality(S) \in 0 .. Height
         /\ \A S \in SUBSET Buckets!Row : \A y \in Buckets!Row \ S :
            Buckets!Cardinality(S \cup {y}) = Buckets!Cardinality(S) + 1
         /\ \A S \in SUBSET Buckets!Row : \A y \in S : Buckets!Cardinality(S \ {y})
            = Buckets!Cardinality(S) - 1
         /\ \A S \in SUBSET Buckets!Col : Buckets!Cardinality(S) \in Nat
            /\ (Buckets!Cardinality(S) = 0 <=> S = {})
         /\ \A S, T \in SUBSET Buckets!Col :
              Buckets!Cardinality((S \ T) \cup (T \ S))
                = Buckets!Cardinality(S) + Buckets!Cardinality(T \ S)
                    - Buckets!Cardinality(T \cap S)
         /\ Buckets!Cardinality({}) = 0
<1>1. \A T : Buckets!Cardinality(T) = Cardinality(T)  BY DEF Buckets!Cardinality, Cardinality
<1>. QED BY <1>1, PlainSizes

\* A function on 1 .. n is a sequence.
LEMMA IsSequence ==
  ASSUME NEW T, NEW n \in Nat, NEW f \in [1 .. n -> T]
  PROVE  f \in Seq(T) /\ Len(f) = n
OBVIOUS

\* A row of the list, or none behind its end.
At(q, k) == IF k <= Len(q) THEN q[k] ELSE Buckets!NO_BUCKET_ROW
RowsOf(q) == {q[k] : k \in 1 .. Len(q)}

\* q lists rows, each once, from head h on by the links of nx.
Linked(q, h, nx) ==
  /\ q \in Seq(Buckets!Row) /\ \A j, k \in 1 .. Len(q) : q[j] = q[k] => j = k
  /\ h = At(q, 1) /\ \A k \in 1 .. Len(q) : nx[q[k]] = At(q, k + 1)

\* The list that begins with h has the rows of S.
Holds(h, nx, S) == \E q \in Seq(Buckets!Row) : Linked(q, h, nx) /\ RowsOf(q) = S

\* Links of other rows do not matter.
LEMMA OtherLinks ==
  ASSUME NEW h, NEW nx, NEW S, Holds(h, nx, S), NEW my, \A y \in S : my[y] = nx[y]
  PROVE  Holds(h, my, S)
<1>1. PICK q \in Seq(Buckets!Row) : Linked(q, h, nx) /\ RowsOf(q) = S  BY DEF Holds
<1>2. \A k \in 1 .. Len(q) : my[q[k]] = nx[q[k]]  BY <1>1 DEF RowsOf
<1>3. Linked(q, h, my)  BY <1>1, <1>2 DEF Linked
<1>. QED BY <1>1, <1>3 DEF Holds

\* An empty list.
LEMMA NoRows ==
  ASSUME NEW nx
  PROVE  /\ Holds(Buckets!NO_BUCKET_ROW, nx, {})
         /\ \A h, S : Holds(h, nx, S) => (h = Buckets!NO_BUCKET_ROW <=> S = {})
            /\ (S # {} => h \in S)
<1>1. <<>> \in Seq(Buckets!Row) /\ Len(<<>>) = 0  OBVIOUS
<1>2. Linked(<<>>, Buckets!NO_BUCKET_ROW, nx) /\ RowsOf(<<>>) = {}
  BY <1>1 DEF Linked, RowsOf, At
<1>3. ASSUME NEW h, NEW S, Holds(h, nx, S)
      PROVE  (h = Buckets!NO_BUCKET_ROW <=> S = {}) /\ (S # {} => h \in S)
  <2>1. PICK q \in Seq(Buckets!Row) : Linked(q, h, nx) /\ RowsOf(q) = S  BY <1>3 DEF Holds
  <2>2. CASE Len(q) = 0
    <3>1. 1 .. Len(q) = {}  BY <2>2
    <3>2. S = {}  BY <2>1, <3>1 DEF RowsOf
    <3>3. h = Buckets!NO_BUCKET_ROW  BY <2>1, <2>2 DEF Linked, At
    <3>. QED BY <3>2, <3>3
  <2>3. CASE Len(q) # 0
    <3>1. 1 \in 1 .. Len(q) /\ 1 <= Len(q)  BY <2>3
    <3>2. h = q[1] /\ q[1] \in Buckets!Row  BY <2>1, <3>1 DEF Linked, At
    <3>3. h \in S  BY <2>1, <3>1, <3>2 DEF RowsOf
    <3>4. h # Buckets!NO_BUCKET_ROW  BY <3>2 DEF Buckets!Row, Buckets!NO_BUCKET_ROW
    <3>. QED BY <3>3, <3>4
  <2>. QED BY <2>2, <2>3
<1>. QED BY <1>1, <1>2, <1>3 DEF Holds

\* A row is put in front.
LEMMA PutInFront ==
  ASSUME NEW h, NEW nx, NEW S, Holds(h, nx, S), NEW y \in Buckets!Row, y \notin S,
         NEW my, my[y] = h, \A j \in S : my[j] = nx[j]
  PROVE  Holds(y, my, S \cup {y})
<1>1. PICK q \in Seq(Buckets!Row) : Linked(q, h, nx) /\ RowsOf(q) = S  BY DEF Holds
<1>. DEFINE N == Len(q)
            r == [k \in 1 .. N + 1 |-> IF k = 1 THEN y ELSE q[k - 1]]
<1>2. N \in Nat /\ \A k \in 1 .. N : q[k] \in Buckets!Row /\ q[k] \in S /\ q[k] # y
  BY <1>1 DEF RowsOf
<1>3. r \in Seq(Buckets!Row) /\ Len(r) = N + 1 /\ r[1] = y
  <2>1. \A k \in 1 .. N + 1 : k = 1 \/ k - 1 \in 1 .. N  BY <1>2
  <2>2. r \in [1 .. N + 1 -> Buckets!Row]  BY <1>2, <2>1
  <2>. QED BY <1>2, <2>2
<1>4. \A k \in 1 .. N : r[k + 1] = q[k]
  <2>. TAKE k \in 1 .. N
  <2>1. k + 1 \in 1 .. N + 1 /\ k + 1 # 1 /\ (k + 1) - 1 = k  BY <1>2
  <2>2. r[k + 1] = q[(k + 1) - 1]  BY <2>1
  <2>. QED BY <2>1, <2>2
<1>5. \A k \in 1 .. N + 1 : k = 1 \/ \E m \in 1 .. N : k = m + 1
  <2>. TAKE k \in 1 .. N + 1
  <2>1. k = 1 \/ (k - 1 \in 1 .. N /\ k = (k - 1) + 1)  BY <1>2
  <2>. QED BY <2>1
<1>. HIDE DEF r
<1>6. \A j, k \in 1 .. Len(r) : r[j] = r[k] => j = k
  <2>. TAKE j, k \in 1 .. Len(r)
  <2>. HAVE r[j] = r[k]
  <2>0. j \in 1 .. N + 1 /\ k \in 1 .. N + 1  BY <1>3
  <2>1. CASE j = 1 /\ k = 1  BY <2>1
  <2>2. CASE j = 1 /\ k # 1
    <3>1. PICK m \in 1 .. N : k = m + 1  BY <1>5, <2>0, <2>2
    <3>. QED BY <1>2, <1>3, <1>4, <2>2, <3>1
  <2>3. CASE j # 1 /\ k = 1
    <3>1. PICK m \in 1 .. N : j = m + 1  BY <1>5, <2>0, <2>3
    <3>. QED BY <1>2, <1>3, <1>4, <2>3, <3>1
  <2>4. CASE j # 1 /\ k # 1
    <3>1. PICK m \in 1 .. N : j = m + 1  BY <1>5, <2>0, <2>4
    <3>2. PICK n \in 1 .. N : k = n + 1  BY <1>5, <2>0, <2>4
    <3>3. q[m] = q[n]  BY <1>4, <3>1, <3>2
    <3>. QED BY <1>1, <3>1, <3>2, <3>3 DEF Linked
  <2>. QED BY <2>1, <2>2, <2>3, <2>4
<1>7. \A k \in 1 .. Len(r) : my[r[k]] = At(r, k + 1)
  <2>. TAKE k \in 1 .. Len(r)
  <2>1. CASE k = 1
    <3>1. my[r[k]] = h /\ h = At(q, 1)  BY <1>1, <1>3, <2>1 DEF Linked
    <3>2. At(r, 1 + 1) = At(q, 1)
      <4>1. CASE N = 0  BY <1>3, <4>1 DEF At
      <4>2. CASE N # 0
        <5>1. 1 \in 1 .. N /\ 1 <= N /\ 1 + 1 <= Len(r)  BY <1>2, <1>3, <4>2
        <5>2. r[1 + 1] = q[1]  BY <1>4, <5>1
        <5>. QED BY <5>1, <5>2 DEF At
      <4>. QED BY <4>1, <4>2
    <3>. QED BY <2>1, <3>1, <3>2
  <2>2. CASE k # 1
    <3>1. PICK m \in 1 .. N : k = m + 1  BY <1>3, <1>5, <2>2
    <3>2. my[r[k]] = At(q, m + 1)  BY <1>1, <1>2, <1>4, <3>1 DEF Linked
    <3>3. At(r, (m + 1) + 1) = At(q, m + 1)
      <4>1. CASE m + 1 <= N
        <5>1. m + 1 \in 1 .. N /\ (m + 1) + 1 <= Len(r)  BY <1>2, <1>3, <4>1
        <5>2. r[(m + 1) + 1] = q[m + 1]  BY <1>4, <5>1
        <5>. QED BY <4>1, <5>1, <5>2 DEF At
      <4>2. CASE ~(m + 1 <= N)
        <5>1. ~((m + 1) + 1 <= Len(r))  BY <1>2, <1>3, <4>2
        <5>. QED BY <4>2, <5>1 DEF At
      <4>. QED BY <4>1, <4>2
    <3>. QED BY <3>1, <3>2, <3>3
  <2>. QED BY <2>1, <2>2
<1>8. Linked(r, y, my)
  <2>1. y = At(r, 1)
    <3>1. 1 <= Len(r)  BY <1>2, <1>3
    <3>. QED BY <1>3, <3>1 DEF At
  <2>. QED BY <1>3, <1>6, <1>7, <2>1 DEF Linked
<1>9. RowsOf(r) = S \cup {y}
  <2>1. \A k \in 1 .. Len(r) : r[k] \in S \cup {y}
    <3>. TAKE k \in 1 .. Len(r)
    <3>1. CASE k = 1  BY <1>3, <3>1
    <3>2. CASE k # 1
      <4>1. PICK m \in 1 .. N : k = m + 1  BY <1>3, <1>5, <3>2
      <4>. QED BY <1>2, <1>4, <4>1
    <3>. QED BY <3>1, <3>2
  <2>2. y \in RowsOf(r)
    <3>1. 1 \in 1 .. Len(r)  BY <1>2, <1>3
    <3>. QED BY <1>3, <3>1 DEF RowsOf
  <2>3. \A x \in S : x \in RowsOf(r)
    <3>. TAKE x \in S
    <3>1. PICK k \in 1 .. N : q[k] = x  BY <1>1 DEF RowsOf
    <3>2. k + 1 \in 1 .. Len(r) /\ r[k + 1] = x  BY <1>2, <1>3, <1>4, <3>1
    <3>. QED BY <3>2 DEF RowsOf
  <2>. QED BY <2>1, <2>2, <2>3 DEF RowsOf
<1>. QED BY <1>3, <1>8, <1>9 DEF Holds

\* A row is taken out, and the row before it, if there is one, links to the
\* row behind it.
LEMMA TakenOut ==
  ASSUME NEW q, NEW h, NEW nx, Linked(q, h, nx), NEW k \in 1 .. Len(q),
         NEW my, NEW g,
         \A j \in 1 .. Len(q) : j # k /\ j # k - 1 => my[q[j]] = nx[q[j]],
         k > 1 => my[q[k - 1]] = nx[q[k]] /\ g = h,
         k = 1 => g = nx[q[k]]
  PROVE  Holds(g, my, RowsOf(q) \ {q[k]})
<1>. DEFINE N == Len(q)
            r == [j \in 1 .. N - 1 |-> IF j < k THEN q[j] ELSE q[j + 1]]
            A(j) == IF j < k THEN j ELSE j + 1
<1>1. q \in Seq(Buckets!Row) /\ N \in Nat /\ k \in Nat /\ 1 <= k /\ k <= N
      /\ \A j \in 1 .. N : q[j] \in Buckets!Row
  BY DEF Linked
<1>2. \A j \in 1 .. N - 1 : A(j) \in 1 .. N /\ A(j) # k /\ r[j] = q[A(j)]
  BY <1>1
<1>3. \A j, m \in 1 .. N - 1 : A(j) = A(m) => j = m  BY <1>1
<1>4. \A j \in 1 .. N : j # k => \E m \in 1 .. N - 1 : A(m) = j
  <2>. TAKE j \in 1 .. N
  <2>. HAVE j # k
  <2>1. CASE j < k  BY <1>1, <2>1
  <2>2. CASE j > k
    <3>1. j - 1 \in 1 .. N - 1 /\ A(j - 1) = j  BY <1>1, <2>2
    <3>. QED BY <3>1
  <2>. QED BY <1>1, <2>1, <2>2
<1>5. r \in Seq(Buckets!Row) /\ Len(r) = N - 1
  <2>1. N - 1 \in Nat  BY <1>1
  <2>2. r \in [1 .. N - 1 -> Buckets!Row]  BY <1>1, <1>2
  <2>. HIDE DEF r
  <2>. QED BY <2>1, <2>2, IsSequence
<1>6. (\A j \in 1 .. N - 1 : At(r, j + 1) = At(q, A(j + 1))) /\ At(r, 1) = At(q, A(1))
  <2>1. \A j \in Nat \ {0} : At(r, j) = At(q, A(j))
    <3>. TAKE j \in Nat \ {0}
    <3>1. CASE j <= N - 1
      <4>1. j \in 1 .. N - 1  BY <1>1, <3>1
      <4>2. r[j] = q[A(j)] /\ A(j) <= N  BY <1>1, <1>2, <4>1
      <4>. QED BY <1>5, <3>1, <4>2 DEF At
    <3>2. CASE ~(j <= N - 1)
      <4>1. ~(A(j) <= N)  BY <1>1, <3>2
      <4>. QED BY <1>5, <3>2, <4>1 DEF At
    <3>. QED BY <3>1, <3>2
  <2>2. \A j \in 1 .. N - 1 : j + 1 \in Nat \ {0}  OBVIOUS
  <2>3. 1 \in Nat \ {0}  OBVIOUS
  <2>. HIDE DEF A, r
  <2>. QED BY <2>1, <2>2, <2>3
<1>. HIDE DEF r
<1>7. \A j, m \in 1 .. Len(r) : r[j] = r[m] => j = m
  <2>. TAKE j, m \in 1 .. Len(r)
  <2>. HAVE r[j] = r[m]
  <2>1. j \in 1 .. N - 1 /\ m \in 1 .. N - 1  BY <1>5
  <2>2. A(j) \in 1 .. N /\ A(m) \in 1 .. N /\ q[A(j)] = q[A(m)]  BY <1>2, <2>1
  <2>. HIDE DEF A
  <2>3. A(j) = A(m)  BY <2>2 DEF Linked
  <2>. QED BY <1>3, <2>1, <2>3
<1>8. \A j \in 1 .. Len(r) : my[r[j]] = At(r, j + 1)
  <2>. TAKE j \in 1 .. Len(r)
  <2>0. j \in 1 .. N - 1 /\ r[j] = q[A(j)] /\ A(j) \in 1 .. N /\ A(j) # k  BY <1>2, <1>5
  <2>1. CASE j = k - 1
    <3>1. A(j) = k - 1 /\ A(j + 1) = k + 1 /\ k > 1  BY <1>1, <2>0, <2>1
    <3>2. my[r[j]] = nx[q[k]]  BY <2>0, <3>1
    <3>3. nx[q[k]] = At(q, k + 1)  BY DEF Linked
    <3>4. At(r, j + 1) = At(q, k + 1)  BY <1>6, <2>0, <3>1
    <3>. QED BY <3>2, <3>3, <3>4
  <2>2. CASE j # k - 1
    <3>1. A(j) # k - 1 /\ A(j + 1) = A(j) + 1  BY <1>1, <2>0, <2>2
    <3>2. my[r[j]] = nx[q[A(j)]]  BY <2>0, <3>1
    <3>3. nx[q[A(j)]] = At(q, A(j) + 1)  BY <2>0 DEF Linked
    <3>. QED BY <1>6, <2>0, <3>1, <3>2, <3>3
  <2>. QED BY <2>1, <2>2
<1>9. g = At(r, 1)
  <2>1. CASE k = 1
    <3>1. A(1) = 2  BY <2>1
    <3>2. nx[q[1]] = At(q, 1 + 1)  BY <2>1 DEF Linked
    <3>. QED BY <1>6, <2>1, <3>1, <3>2
  <2>2. CASE k > 1
    <3>1. A(1) = 1  BY <2>2
    <3>2. g = At(q, 1)  BY <2>2 DEF Linked
    <3>. QED BY <1>6, <3>1, <3>2
  <2>. QED BY <1>1, <2>1, <2>2
<1>10. RowsOf(r) = RowsOf(q) \ {q[k]}
  <2>1. \A j \in 1 .. N - 1 : r[j] \in RowsOf(q) /\ r[j] # q[k]
    <3>. TAKE j \in 1 .. N - 1
    <3>1. r[j] = q[A(j)] /\ A(j) \in 1 .. N /\ A(j) # k  BY <1>2
    <3>2. q[A(j)] # q[k]  BY <3>1 DEF Linked
    <3>. QED BY <3>1, <3>2 DEF RowsOf
  <2>2. \A x \in RowsOf(q) : x # q[k] => x \in RowsOf(r)
    <3>. TAKE x \in RowsOf(q)
    <3>. HAVE x # q[k]
    <3>1. PICK j \in 1 .. N : q[j] = x  BY DEF RowsOf
    <3>2. PICK m \in 1 .. N - 1 : A(m) = j  BY <1>4, <3>1
    <3>3. r[m] = x  BY <1>2, <3>1, <3>2
    <3>. QED BY <1>5, <3>3 DEF RowsOf
  <2>3. RowsOf(r) \subseteq RowsOf(q) \ {q[k]}  BY <1>5, <2>1 DEF RowsOf
  <2>4. RowsOf(q) \ {q[k]} \subseteq RowsOf(r)  BY <2>2
  <2>. QED BY <2>3, <2>4
<1>11. Linked(r, g, my)  BY <1>5, <1>7, <1>8, <1>9 DEF Linked
<1>. QED BY <1>5, <1>10, <1>11 DEF Holds

\* What is read along the links is the list.
LEMMA ChainIsList ==
  ASSUME Buckets!BucketAssumption, NEW l, NEW c, NEW q, Linked(q, heads[l][c], next_in_bucket)
  PROVE  /\ Buckets!Chain(l, c) = q /\ Len(q) \in 0 .. Height
         /\ Buckets!Following(heads[l][c])[Height + 1] = Buckets!NO_BUCKET_ROW
<1>0. Height \in Nat  BY DEF Buckets!BucketAssumption
<1>. DEFINE N == Len(q)
            h == heads[l][c]
            D == 1 .. Height + 1
            Eqn(f) == f = [k \in D |-> IF k = 1 THEN h
                             ELSE IF f[k - 1] = Buckets!NO_BUCKET_ROW THEN Buckets!NO_BUCKET_ROW
                             ELSE next_in_bucket[f[k - 1]]]
            g == [k \in D |-> At(q, k)]
<1>1. q \in Seq(Buckets!Row) /\ N \in Nat /\ \A k \in 1 .. N : q[k] \in Buckets!Row
        /\ q[k] # Buckets!NO_BUCKET_ROW
  <2>1. \A k \in 1 .. Len(q) : q[k] \in Buckets!Row  BY DEF Linked
  <2>. QED BY <2>1 DEF Linked, Buckets!Row, Buckets!NO_BUCKET_ROW
<1>2. N <= Height
  <2>. DEFINE b == [k \in 1 .. N |-> q[k]]
  <2>1. b \in Injection(1 .. N, Buckets!Row)  BY <1>1 DEF Linked, Injection, IsInjective
  <2>. HIDE DEF b
  <2>2. IsFiniteSet(Buckets!Row) /\ Cardinality(Buckets!Row) = Height
    <3>1. 0 \in Int /\ Height - 1 \in Int  BY <1>0
    <3>2. /\ IsFiniteSet(0 .. Height - 1)
          /\ Cardinality(0 .. Height - 1) = IF 0 > Height - 1 THEN 0 ELSE Height - 1 - 0 + 1
      BY <3>1, FS_Interval
    <3>. QED BY <1>0, <3>2 DEF Buckets!Row
  <2>3. Cardinality(1 .. N) <= Cardinality(Buckets!Row)  BY <2>1, <2>2, FS_Injection
  <2>4. Cardinality(1 .. N) = N  BY <1>1, PlainSizes
  <2>. QED BY <2>2, <2>3, <2>4
<1>3. Eqn(g)
  <2>. DEFINE E(k) == IF k = 1 THEN h
                      ELSE IF g[k - 1] = Buckets!NO_BUCKET_ROW THEN Buckets!NO_BUCKET_ROW
                      ELSE next_in_bucket[g[k - 1]]
  <2>1. ASSUME NEW k \in D PROVE g[k] = E(k)
    <3>1. CASE k = 1  BY <3>1 DEF Linked
    <3>2. CASE k # 1
      <4>1. k - 1 \in D /\ (k - 1) + 1 = k /\ g[k - 1] = At(q, k - 1) /\ g[k] = At(q, k)
        BY <1>0, <3>2
      <4>2. CASE k - 1 <= N
        <5>1. k - 1 \in 1 .. N  BY <1>0, <1>1, <3>2, <4>2
        <5>2. g[k - 1] = q[k - 1] /\ q[k - 1] # Buckets!NO_BUCKET_ROW
          BY <1>1, <4>1, <5>1 DEF At
        <5>3. next_in_bucket[q[k - 1]] = At(q, (k - 1) + 1)  BY <5>1 DEF Linked
        <5>. QED BY <3>2, <4>1, <5>2, <5>3
      <4>3. CASE ~(k - 1 <= N)
        <5>1. ~(k <= N)  BY <1>0, <1>1, <4>3
        <5>2. g[k - 1] = Buckets!NO_BUCKET_ROW /\ g[k] = Buckets!NO_BUCKET_ROW
          BY <4>1, <4>3, <5>1 DEF At
        <5>. QED BY <3>2, <5>2
      <4>. QED BY <4>2, <4>3
    <3>. QED BY <3>1, <3>2
  <2>2. g = [k \in D |-> E(k)]
    <3>. HIDE DEF E
    <3>. QED BY <2>1
  <2>. QED BY <2>2
<1>. DEFINE at == CHOOSE f : Eqn(f)
<1>4. Eqn(at)
  <2>. HIDE DEF g
  <2>. QED BY <1>3
<1>5. Buckets!Following(h) = at  BY DEF Buckets!Following
<1>. HIDE DEF at
<1>. DEFINE P == {n \in Nat : n + 1 \in D => at[n + 1] = At(q, n + 1)}
<1>6. /\ at[1] = h
      /\ \A n \in Nat : (n + 1) + 1 \in D =>
           n + 1 \in D /\ at[(n + 1) + 1] = IF at[n + 1]
               = Buckets!NO_BUCKET_ROW THEN Buckets!NO_BUCKET_ROW
                                            ELSE next_in_bucket[at[n + 1]]
  <2>. DEFINE E(k) == IF k = 1 THEN h
                      ELSE IF at[k - 1] = Buckets!NO_BUCKET_ROW THEN Buckets!NO_BUCKET_ROW
                      ELSE next_in_bucket[at[k - 1]]
  <2>1. \A k \in D : at[k] = E(k)
    <3>1. at = [k \in D |-> E(k)]  BY <1>4
    <3>. HIDE DEF E
    <3>. QED BY <3>1
  <2>2. 1 \in D  BY <1>0
  <2>3. at[1] = h  BY <2>1, <2>2
  <2>4. ASSUME NEW n \in Nat, (n + 1) + 1 \in D
        PROVE  n + 1 \in D /\ at[(n + 1) + 1] = IF at[n + 1]
                 = Buckets!NO_BUCKET_ROW THEN Buckets!NO_BUCKET_ROW
                                                ELSE next_in_bucket[at[n + 1]]
    <3>1. n + 1 \in D /\ (n + 1) + 1 # 1 /\ ((n + 1) + 1) - 1 = n + 1  BY <1>0, <2>4
    <3>2. at[(n + 1) + 1] = E((n + 1) + 1)  BY <2>1, <2>4
    <3>3. E((n + 1) + 1) = IF at[((n + 1) + 1) - 1]
            = Buckets!NO_BUCKET_ROW THEN Buckets!NO_BUCKET_ROW
                           ELSE next_in_bucket[at[((n + 1) + 1) - 1]]
      BY <3>1
    <3>. QED BY <3>1, <3>2, <3>3
  <2>. QED BY <2>3, <2>4
<1>7. 0 \in P
  <2>1. at[0 + 1] = At(q, 0 + 1)  BY <1>6 DEF Linked
  <2>. QED BY <2>1
<1>8. ASSUME NEW n \in Nat, n \in P PROVE n + 1 \in P
  <2>. SUFFICES ASSUME (n + 1) + 1 \in D PROVE at[(n + 1) + 1] = At(q, (n + 1) + 1)  OBVIOUS
  <2>1. n + 1 \in D /\ at[n + 1] = At(q, n + 1)  BY <1>6, <1>8
  <2>2. CASE n + 1 <= N
    <3>1. n + 1 \in 1 .. N /\ at[n + 1] = q[n + 1] /\ q[n + 1] # Buckets!NO_BUCKET_ROW
      BY <1>1, <2>1, <2>2 DEF At
    <3>2. next_in_bucket[q[n + 1]] = At(q, (n + 1) + 1)  BY <3>1 DEF Linked
    <3>. QED BY <1>6, <3>1, <3>2
  <2>3. CASE ~(n + 1 <= N)
    <3>1. ~((n + 1) + 1 <= N) /\ at[n + 1] = Buckets!NO_BUCKET_ROW  BY <1>1, <2>1, <2>3 DEF At
    <3>. QED BY <1>6, <3>1 DEF At
  <2>. QED BY <2>2, <2>3
<1>. HIDE DEF P
<1>9. \A n \in Nat : n \in P  BY <1>7, <1>8, SetInduction
<1>10. ASSUME NEW k \in D PROVE at[k] = At(q, k)
  <2>1. k - 1 \in Nat /\ (k - 1) + 1 = k  BY <1>0
  <2>2. k - 1 \in P  BY <1>9, <2>1
  <2>3. (k - 1) + 1 \in D => at[(k - 1) + 1] = At(q, (k - 1) + 1)  BY <2>2 DEF P
  <2>. QED BY <2>1, <2>3
<1>11. DOMAIN at = D  BY <1>4
<1>. HIDE DEF Eqn, h
<1>12. {k \in DOMAIN at : at[k] # Buckets!NO_BUCKET_ROW} = 1 .. N
  <2>1. \A k \in D : at[k] # Buckets!NO_BUCKET_ROW <=> k <= N
    <3>. TAKE k \in D
    <3>1. k <= N => k \in 1 .. N  BY <1>0, <1>1
    <3>. QED BY <1>1, <1>10, <3>1 DEF At
  <2>2. \A k \in 1 .. N : k \in D  BY <1>0, <1>1, <1>2
  <2>3. \A k \in D : k <= N <=> k \in 1 .. N  BY <1>0, <1>1
  <2>. HIDE DEF D
  <2>. QED BY <1>11, <2>1, <2>2, <2>3
<1>13. Buckets!Cardinality(1 .. N) = N  BY <1>1, Sizes
<1>14. Buckets!Chain(l, c) = [k \in 1 .. N |-> at[k]]
  BY <1>5, <1>12, <1>13 DEF Buckets!Chain, h
<1>15. \A k \in 1 .. N : at[k] = q[k]
  <2>1. \A k \in 1 .. N : k \in D /\ k <= N  BY <1>0, <1>1, <1>2
  <2>. QED BY <1>10, <2>1 DEF At
<1>16. Buckets!Chain(l, c) = q
  <2>1. q = [k \in 1 .. N |-> q[k]]  BY <1>1
  <2>. QED BY <1>14, <1>15, <2>1
<1>17. at[Height + 1] = Buckets!NO_BUCKET_ROW
  <2>1. Height + 1 \in D /\ ~(Height + 1 <= N)  BY <1>0, <1>1, <1>2
  <2>. QED BY <1>10, <2>1 DEF At
<1>. QED BY <1>1, <1>2, <1>5, <1>16, <1>17 DEF h

\* Elements and sums of the field.
LEMMA BucketField ==
  /\ \A a, b \in Buckets!F : Buckets!FPlus(a, b) \in Buckets!F
     /\ Buckets!FTimes(a, b) \in Buckets!F
  /\ \A a \in Buckets!F : Buckets!FPlus(a, 0) = a /\ Buckets!FPlus(0, a) = a
     /\ Buckets!FPlus(a, a) = 0
  /\ \A a \in Buckets!F : Buckets!FTimes(a, 0) = 0 /\ Buckets!FTimes(a, 1) = a
     /\ Buckets!FTimes(1, a) = a
  /\ \A a, b \in Buckets!F : a # 0 /\ b # 0 => Buckets!FTimes(a, b) # 0
  /\ \A a \in Buckets!F : a # 0 => /\ Buckets!FInverse(a) \in Buckets!F \ {0}
                                      /\ Buckets!FTimes(Buckets!FInverse(a), a) = 1
                                   /\ (a = 1 => Buckets!FInverse(a) = 1)
<1>1. Buckets!F = {0, 1, 2, 3}  BY DEF Buckets!F
<1>2. \A a, b \in Buckets!F : Buckets!FPlus(a, b) \in Buckets!F  BY <1>1 DEF Buckets!FPlus
<1>3. \A a \in Buckets!F : Buckets!FPlus(a, 0) = a /\ Buckets!FPlus(0, a) = a
        /\ Buckets!FPlus(a, a) = 0
  BY DEF Buckets!FPlus
<1>4. \A a, b \in Buckets!F : a # 0 /\ b # 0 => Buckets!FTimes(a, b) \in Buckets!F \ {0}
  <2>1. \A n \in 0 .. 4 : n % 3 \in 0 .. 2  OBVIOUS
  <2>2. \A a, b \in Buckets!F : a # 0 /\ b # 0 => (a - 1) + (b - 1) \in 0 .. 4  BY <1>1
  <2>. QED BY <2>1, <2>2 DEF Buckets!FTimes, Buckets!F
<1>5. \A a \in Buckets!F : Buckets!FTimes(a, 0) = 0 /\ Buckets!FTimes(0, a) = 0
  BY DEF Buckets!FTimes
<1>6. \A a \in Buckets!F : Buckets!FTimes(a, 1) = a /\ Buckets!FTimes(1, a) = a
  <2>1. \A n \in 0 .. 2 : n % 3 = n  OBVIOUS
  <2>. QED BY <2>1, <1>1 DEF Buckets!FTimes
<1>7. \A a, b \in Buckets!F : Buckets!FTimes(a, b) \in Buckets!F  BY <1>4, <1>5, <1>1
<1>8. Buckets!FTimes(2, 3) = 1 /\ Buckets!FTimes(3, 2) = 1
  <2>1. 3 % 3 = 0  OBVIOUS
  <2>. QED BY <2>1 DEF Buckets!FTimes
<1>9. \A a, b \in Buckets!F : Buckets!FTimes(a, b) = Buckets!FTimes(b, a)
  <2>1. \A a, b \in Buckets!F : (a - 1) + (b - 1) = (b - 1) + (a - 1)  BY <1>1
  <2>. QED BY <2>1 DEF Buckets!FTimes
<1>10. ASSUME NEW a \in Buckets!F, a # 0
       PROVE  /\ Buckets!FInverse(a) \in Buckets!F \ {0}
                 /\ Buckets!FTimes(Buckets!FInverse(a), a) = 1
              /\ (a = 1 => Buckets!FInverse(a) = 1)
  <2>1. \E b \in Buckets!F : Buckets!FTimes(a, b) = 1  BY <1>1, <1>6, <1>8, <1>10
  <2>2. Buckets!FInverse(a) = CHOOSE b \in Buckets!F : Buckets!FTimes(a, b) = 1
    BY DEF Buckets!FInverse, Buckets!One
  <2>3. Buckets!FInverse(a) \in Buckets!F /\ Buckets!FTimes(a, Buckets!FInverse(a)) = 1
    BY <2>1, <2>2
  <2>4. Buckets!FInverse(a) # 0  BY <1>5, <2>3
  <2>5. a = 1 => Buckets!FInverse(a) = 1  BY <1>6, <2>3
  <2>. QED BY <1>9, <2>3, <2>4, <2>5
<1>. QED BY <1>2, <1>3, <1>4, <1>5, <1>6, <1>7, <1>10

Vector == [Buckets!Col -> Buckets!F]
Ones(v) == \A c \in Buckets!Col : v[c] = Buckets!Zero \/ v[c] = Buckets!One

\* The first column of a row that is not zero.
LEMMA Leading ==
  ASSUME NEW v \in Vector
  PROVE  /\ Buckets!Support(v) = {c \in Buckets!Col : v[c] # Buckets!Zero}
         /\ Buckets!Support(v) # {} =>
              /\ Buckets!LeadingColumn(v) \in Buckets!Col
                 /\ v[Buckets!LeadingColumn(v)] # Buckets!Zero
              /\ \A c \in Buckets!Col : c < Buckets!LeadingColumn(v) => v[c] = Buckets!Zero
         /\ \A c \in Buckets!Col : v[c] # Buckets!Zero
            /\ (\A d \in Buckets!Col : d < c => v[d] = Buckets!Zero) =>
              Buckets!Support(v) # {} /\ Buckets!LeadingColumn(v) = c
<1>1. Buckets!Support(v) = {c \in Buckets!Col : v[c] # Buckets!Zero}
  BY DEF Buckets!Support, Vector
<1>2. Buckets!Col \subseteq Nat  BY DEF Buckets!Col
<1>3. ASSUME Buckets!Support(v) # {}
      PROVE  Buckets!LeadingColumn(v) \in Buckets!Support(v)
               /\ \A c \in Buckets!Support(v) : Buckets!LeadingColumn(v) <= c
  <2>1. \E p \in Buckets!Support(v) : \A c \in Buckets!Support(v) : p <= c
    BY <1>1, <1>2, <1>3, LeastNumber
  <2>. QED BY <2>1 DEF Buckets!LeadingColumn
<1>4. Buckets!Support(v) # {} =>
        /\ Buckets!LeadingColumn(v) \in Buckets!Col
           /\ v[Buckets!LeadingColumn(v)] # Buckets!Zero
        /\ \A c \in Buckets!Col : c < Buckets!LeadingColumn(v) => v[c] = Buckets!Zero
  <2>. HAVE Buckets!Support(v) # {}
  <2>1. Buckets!LeadingColumn(v) \in Buckets!Col /\ v[Buckets!LeadingColumn(v)] # Buckets!Zero
    BY <1>1, <1>3
  <2>2. ASSUME NEW c \in Buckets!Col, c < Buckets!LeadingColumn(v) PROVE v[c] = Buckets!Zero
    <3>1. c \in Int /\ Buckets!LeadingColumn(v) \in Int  BY <2>1 DEF Buckets!Col
    <3>2. c \notin Buckets!Support(v)  BY <1>3, <2>2, <3>1
    <3>. QED BY <1>1, <3>2
  <2>. QED BY <2>1, <2>2
<1>5. \A c \in Buckets!Col : v[c] # Buckets!Zero
        /\ (\A d \in Buckets!Col : d < c => v[d] = Buckets!Zero) =>
        Buckets!Support(v) # {} /\ Buckets!LeadingColumn(v) = c
  <2>. TAKE c \in Buckets!Col
  <2>. HAVE v[c] # Buckets!Zero /\ \A d \in Buckets!Col : d < c => v[d] = Buckets!Zero
  <2>1. c \in Buckets!Support(v)  BY <1>1
  <2>2. Buckets!LeadingColumn(v) \in Buckets!Col /\ Buckets!LeadingColumn(v) <= c
          /\ v[Buckets!LeadingColumn(v)] # Buckets!Zero
    BY <1>1, <1>3, <2>1
  <2>3. c \in Int /\ Buckets!LeadingColumn(v) \in Int  BY <2>2 DEF Buckets!Col
  <2>4. ~(Buckets!LeadingColumn(v) < c)  BY <2>2
  <2>. QED BY <2>1, <2>2, <2>3, <2>4
<1>. QED BY <1>1, <1>4, <1>5

\* A row scaled to begin with one.
LEMMA ScaledRow ==
  ASSUME NEW v \in Vector, NEW c \in Buckets!Col, v[c] # Buckets!Zero
  PROVE  LET w == Buckets!VTimes(Buckets!FInverse(v[c]), v) IN
         /\ w \in Vector /\ w[c] = Buckets!One
         /\ \A d \in Buckets!Col : w[d] = Buckets!Zero <=> v[d] = Buckets!Zero
         /\ Ones(v) => Ones(w)
<1>. DEFINE a == Buckets!FInverse(v[c])
            w == Buckets!VTimes(a, v)
<1>1. v[c] \in Buckets!F \ {0} /\ \A d \in Buckets!Col : v[d] \in Buckets!F
  BY DEF Vector, Buckets!Zero
<1>2. a \in Buckets!F \ {0} /\ Buckets!FTimes(a, v[c]) = 1 /\ (v[c] = 1 => a = 1)
  BY <1>1, BucketField
<1>. HIDE DEF a
<1>3. w = [d \in Buckets!Col |-> Buckets!FTimes(a, v[d])]  BY DEF Buckets!VTimes, Vector
<1>4. w \in Vector /\ \A d \in Buckets!Col : w[d] = Buckets!FTimes(a, v[d])
  <2>1. \A d \in Buckets!Col : Buckets!FTimes(a, v[d]) \in Buckets!F  BY <1>1, <1>2, BucketField
  <2>. QED BY <1>3, <2>1 DEF Vector
<1>. HIDE DEF w
<1>5. w[c] = Buckets!One  BY <1>2, <1>4 DEF Buckets!One
<1>6. \A d \in Buckets!Col : w[d] = Buckets!Zero <=> v[d] = Buckets!Zero
  <2>. TAKE d \in Buckets!Col
  <2>1. v[d] = 0 => w[d] = 0  BY <1>2, <1>4, BucketField
  <2>2. v[d] # 0 => w[d] # 0
    <3>. HAVE v[d] # 0
    <3>1. a \in Buckets!F /\ a # 0 /\ v[d] \in Buckets!F  BY <1>1, <1>2
    <3>2. Buckets!FTimes(a, v[d]) # 0  BY <3>1, BucketField
    <3>. QED BY <1>4, <3>2
  <2>. QED BY <2>1, <2>2 DEF Buckets!Zero
<1>7. Ones(v) => Ones(w)
  <2>. HAVE Ones(v)
  <2>1. a = 1  BY <1>1, <1>2 DEF Ones, Buckets!Zero, Buckets!One
  <2>2. \A d \in Buckets!Col : w[d] = v[d]  BY <1>1, <1>4, <2>1, BucketField
  <2>. QED BY <2>2 DEF Ones
<1>. QED BY <1>4, <1>5, <1>6, <1>7 DEF w, a

\* A row cleared at column c with a row that begins there with one.
LEMMA ClearedRow ==
  ASSUME NEW u \in Vector, NEW w \in Vector, NEW c \in Buckets!Col, w[c] = Buckets!One,
         \A d \in Buckets!Col : d < c => u[d] = Buckets!Zero /\ w[d] = Buckets!Zero
  PROVE  LET s == Buckets!VPlus(u, Buckets!VTimes(u[c], w)) IN
         /\ s \in Vector
         /\ \A d \in Buckets!Col : d <= c => s[d] = Buckets!Zero
         /\ Buckets!Support(s) # {} => Buckets!LeadingColumn(s) \in Buckets!Col
            /\ Buckets!LeadingColumn(s) > c
         /\ Ones(u) /\ Ones(w) => Ones(s)
         /\ Ones(u) /\ Ones(w) /\ u[c] # Buckets!Zero =>
              Buckets!Support(s) = (Buckets!Support(u) \ Buckets!Support(w))
                  \cup (Buckets!Support(w) \ Buckets!Support(u))
<1>. DEFINE a == u[c]
            s == Buckets!VPlus(u, Buckets!VTimes(a, w))
<1>1. a \in Buckets!F /\ \A d \in Buckets!Col : u[d] \in Buckets!F /\ w[d] \in Buckets!F
  BY DEF Vector
<1>2. s = [d \in Buckets!Col |-> Buckets!FPlus(u[d], Buckets!FTimes(a, w[d]))]
  BY DEF Buckets!VPlus, Buckets!VTimes, Vector
<1>3. s \in Vector /\ \A d \in Buckets!Col : s[d] = Buckets!FPlus(u[d], Buckets!FTimes(a, w[d]))
  <2>1. \A d \in Buckets!Col : Buckets!FPlus(u[d], Buckets!FTimes(a, w[d])) \in Buckets!F
    BY <1>1, BucketField
  <2>. QED BY <1>2, <2>1 DEF Vector
<1>. HIDE DEF s
<1>4. \A d \in Buckets!Col : d <= c => s[d] = Buckets!Zero
  <2>. TAKE d \in Buckets!Col
  <2>. HAVE d <= c
  <2>1. CASE d = c
    <3>1. s[d] = Buckets!FPlus(a, Buckets!FTimes(a, 1))  BY <1>3, <2>1 DEF Buckets!One
    <3>. QED BY <1>1, <3>1, BucketField DEF Buckets!Zero
  <2>2. CASE d # c
    <3>1. d < c  BY <2>2 DEF Buckets!Col
    <3>2. s[d] = Buckets!FPlus(0, Buckets!FTimes(a, 0))  BY <1>3, <3>1 DEF Buckets!Zero
    <3>3. 0 \in Buckets!F  BY DEF Buckets!F
    <3>. QED BY <1>1, <3>2, <3>3, BucketField DEF Buckets!Zero
  <2>. QED BY <2>1, <2>2
<1>5. Buckets!Support(s) # {} => Buckets!LeadingColumn(s) \in Buckets!Col
        /\ Buckets!LeadingColumn(s) > c
  <2>. HAVE Buckets!Support(s) # {}
  <2>1. Buckets!LeadingColumn(s) \in Buckets!Col /\ s[Buckets!LeadingColumn(s)] # Buckets!Zero
    BY <1>3, Leading
  <2>2. ~(Buckets!LeadingColumn(s) <= c)  BY <1>4, <2>1
  <2>3. Buckets!LeadingColumn(s) \in Int /\ c \in Int  BY <2>1 DEF Buckets!Col
  <2>. QED BY <2>1, <2>2, <2>3
<1>6. Buckets!FPlus(0, 0) = 0 /\ Buckets!FPlus(0, 1) = 1 /\ Buckets!FPlus(1, 0) = 1
        /\ Buckets!FPlus(1, 1) = 0
      /\ Buckets!FTimes(1, 0) = 0 /\ Buckets!FTimes(1, 1) = 1 /\ Buckets!FTimes(0, 0) = 0
         /\ Buckets!FTimes(0, 1) = 0
  <2>1. 0 \in Buckets!F /\ 1 \in Buckets!F  BY DEF Buckets!F
  <2>. QED BY <2>1, BucketField
<1>7. Ones(u) /\ Ones(w) => Ones(s)
  BY <1>3, <1>6 DEF Ones, Buckets!Zero, Buckets!One
<1>8. Ones(u) /\ Ones(w) /\ u[c] # Buckets!Zero =>
        Buckets!Support(s) = (Buckets!Support(u) \ Buckets!Support(w))
            \cup (Buckets!Support(w) \ Buckets!Support(u))
  <2>. HAVE Ones(u) /\ Ones(w) /\ u[c] # Buckets!Zero
  <2>1. a = 1  BY DEF Ones, Buckets!Zero, Buckets!One
  <2>2. \A d \in Buckets!Col : s[d] # Buckets!Zero
          <=> ~(u[d] # Buckets!Zero <=> w[d] # Buckets!Zero)
    BY <1>3, <1>6, <2>1 DEF Ones, Buckets!Zero, Buckets!One
  <2>3. /\ Buckets!Support(s) = {d \in Buckets!Col : s[d] # Buckets!Zero}
           /\ Buckets!Support(u) = {d \in Buckets!Col : u[d] # Buckets!Zero}
        /\ Buckets!Support(w) = {d \in Buckets!Col : w[d] # Buckets!Zero}
    BY <1>3, Leading
  <2>. QED BY <2>2, <2>3
<1>. QED BY <1>3, <1>4, <1>5, <1>7, <1>8 DEF s

Members(l, c) == {y \in Buckets!Waiting : Buckets!LeadingColumn(rows[y]) = c
    /\ Buckets!ListOf(y) = l}
Here == {y \in Buckets!Waiting : Buckets!LeadingColumn(rows[y]) = col}

BucketTypes ==
  /\ kind \in {"plain", "counted"} \cup Buckets!BinaryKinds
  /\ rows \in [Buckets!Row -> Vector]
  /\ kind \in Buckets!BinaryKinds => \A y \in Buckets!Row : Ones(rows[y])
  /\ filed \in 0 .. Height /\ col \in 0 .. Width
  /\ heads \in [Buckets!List -> [Buckets!Col -> Buckets!Row \cup {Buckets!NO_BUCKET_ROW}]]
  /\ next_in_bucket \in [Buckets!Row -> Buckets!Row \cup {Buckets!NO_BUCKET_ROW}]
  /\ nonempty_masks \in [Buckets!Col -> SUBSET (1 .. SmallMax)]
  /\ bucket_counts \in [Buckets!Col -> Int] /\ row_weights \in [Buckets!Row -> Int]
  /\ entries \in [Buckets!Row -> {Buckets!NotCached} \cup SUBSET Buckets!Col]
  /\ pivot \in Buckets!Row \cup {Buckets!NO_BUCKET_ROW}
  /\ pivot_for_col \in [Buckets!Col -> Buckets!Row \cup {Buckets!NO_BUCKET_ROW}]

\* Where elimination is: the pivot begins with one in the column, and columns
\* behind have no pivot yet.
BucketControl ==
  /\ filed < Height =>
       col = 0 /\ pivot = Buckets!NO_BUCKET_ROW
           /\ \A y \in Buckets!Row : row_weights[y] = Buckets!Weight(y)
  /\ pivot # Buckets!NO_BUCKET_ROW =>
       /\ filed = Height /\ col \in Buckets!Col /\ pivot_for_col[col] = pivot
       /\ rows[pivot][col] = Buckets!One /\ \A d \in Buckets!Col : d < col
          => rows[pivot][d] = Buckets!Zero
  /\ \A c \in Buckets!Col : c > col \/ (c = col /\ pivot = Buckets!NO_BUCKET_ROW) =>
       pivot_for_col[c] = Buckets!NO_BUCKET_ROW

\* No row waits for a column that is passed.
WaitingBegin == \A y \in Buckets!Waiting, d \in Buckets!Col : d < col
    => rows[y][d] = Buckets!Zero

ListsLinked ==
  /\ \A l \in Buckets!List, c \in Buckets!Col :
     Holds(heads[l][c], next_in_bucket, Members(l, c))
  /\ \A y \in Buckets!Row \ Buckets!Waiting : next_in_bucket[y] = Buckets!NO_BUCKET_ROW

CountsFit ==
  /\ Buckets!MasksAndCountsFit
  /\ kind # "counted" => \A c \in Buckets!Col : bucket_counts[c] = 0

CachesCurrent ==
  /\ Buckets!CachedStateIsCurrent
  /\ \A y \in Buckets!Row : entries[y] # Buckets!NotCached =>
       kind \in Buckets!Cached /\ entries[y] \subseteq Buckets!Col
           /\ Buckets!Cardinality(entries[y]) <= SmallMax

BucketsInv ==
  /\ BucketTypes /\ BucketControl /\ WaitingBegin /\ ListsLinked /\ CountsFit /\ CachesCurrent

\* The head of a list is none only of an empty one.
LEMMA HeadOfList ==
  ASSUME NEW h, NEW nx, NEW S, Holds(h, nx, S)
  PROVE  (h = Buckets!NO_BUCKET_ROW <=> S = {}) /\ (S # {} => h \in S)
BY NoRows

\* Weights of rows and their lists.
LEMMA WeightAndList ==
  ASSUME Buckets!BucketAssumption, BucketTypes
  PROVE  /\ \A y \in Buckets!Row : /\ rows[y] \in Vector
                                      /\ Buckets!Support(rows[y]) \subseteq Buckets!Col
                                   /\ Buckets!Weight(y) \in Nat
                                      /\ (Buckets!Weight(y) = 0 <=> Buckets!Support(rows[y])
                                         = {})
         /\ \A w \in Nat :
              /\ Buckets!small_weight_binary_bucket_index(w) \in Buckets!List
              /\ Buckets!small_weight_binary_bucket_index(w) > 0 =>
                   Buckets!small_weight_binary_bucket_index(w) = w
              /\ kind \in Buckets!Cached /\ Buckets!small_weight_binary_bucket_index(w) = 0
                 /\ w > 0 =>
                   w >= SmallMax + 1
              /\ kind = "counted" /\ Buckets!small_weight_binary_bucket_index(w) = 0 /\ w > 0
                 => w >= 2
              /\ kind \notin Buckets!Cached /\ kind # "counted"
                 => Buckets!small_weight_binary_bucket_index(w) = 0
              /\ kind = "counted" => Buckets!small_weight_binary_bucket_index(w) \in {0, 1}
         /\ \A y \in Buckets!Waiting : y \in Buckets!Row
            /\ Buckets!LeadingColumn(rows[y]) \in Buckets!Col
<1>0. SmallMax \in Nat \ {0}  BY DEF Buckets!BucketAssumption
<1>1. ASSUME NEW y \in Buckets!Row
      PROVE  /\ rows[y] \in Vector /\ Buckets!Support(rows[y]) \subseteq Buckets!Col
             /\ Buckets!Weight(y) \in Nat
                /\ (Buckets!Weight(y) = 0 <=> Buckets!Support(rows[y]) = {})
  <2>1. rows[y] \in Vector  BY DEF BucketTypes
  <2>2. Buckets!Support(rows[y]) \subseteq Buckets!Col  BY <2>1, Leading
  <2>. QED BY <2>1, <2>2, Sizes DEF Buckets!Weight
<1>2. ASSUME NEW w \in Nat
      PROVE  /\ Buckets!small_weight_binary_bucket_index(w) \in Buckets!List
             /\ Buckets!small_weight_binary_bucket_index(w) > 0 =>
                  Buckets!small_weight_binary_bucket_index(w) = w
             /\ kind \in Buckets!Cached /\ Buckets!small_weight_binary_bucket_index(w) = 0
                /\ w > 0 =>
                  w >= SmallMax + 1
             /\ kind = "counted" /\ Buckets!small_weight_binary_bucket_index(w) = 0 /\ w > 0
                => w >= 2
             /\ kind \notin Buckets!Cached /\ kind # "counted"
                => Buckets!small_weight_binary_bucket_index(w) = 0
             /\ kind = "counted" => Buckets!small_weight_binary_bucket_index(w) \in {0, 1}
  <2>1. CASE kind \in Buckets!Cached
    <3>1. kind # "counted"  BY <2>1 DEF Buckets!Cached
    <3>2. Buckets!small_weight_binary_bucket_index(w) = IF w \in 1 .. SmallMax THEN w ELSE 0
      BY <2>1, <3>1 DEF Buckets!small_weight_binary_bucket_index
    <3>. QED BY <1>0, <2>1, <3>1, <3>2 DEF Buckets!List
  <2>2. CASE kind = "counted"
    <3>1. kind \notin Buckets!Cached  BY <2>2 DEF Buckets!Cached
    <3>2. Buckets!small_weight_binary_bucket_index(w) = IF w = 1 THEN 1 ELSE 0
      BY <2>2, <3>1 DEF Buckets!small_weight_binary_bucket_index
    <3>. QED BY <1>0, <2>2, <3>1, <3>2 DEF Buckets!List
  <2>3. CASE kind \notin Buckets!Cached /\ kind # "counted"
    <3>1. Buckets!small_weight_binary_bucket_index(w) = 0
      BY <2>3 DEF Buckets!small_weight_binary_bucket_index
    <3>. QED BY <1>0, <2>3, <3>1 DEF Buckets!List
  <2>. QED BY <2>1, <2>2, <2>3
<1>3. \A y \in Buckets!Waiting : y \in Buckets!Row
        /\ Buckets!LeadingColumn(rows[y]) \in Buckets!Col
  <2>. TAKE y \in Buckets!Waiting
  <2>1. y \in Buckets!Row /\ Buckets!Support(rows[y]) # {}  BY DEF Buckets!Waiting
  <2>. QED BY <1>1, <2>1, Leading
<1>. QED BY <1>1, <1>2, <1>3

\* The list that a row is taken from: it is empty only if no row is left in
\* the column, its rows are those of a weight, and there are none lighter.
LEMMA TakenFrom ==
  ASSUME Buckets!BucketAssumption, BucketsInv, col \in Buckets!Col
  PROVE  /\ Buckets!ListToTake \in Buckets!List
         /\ \E q \in Seq(Buckets!Row) :
              /\ Linked(q, heads[Buckets!ListToTake][col], next_in_bucket)
              /\ RowsOf(q) = Members(Buckets!ListToTake, col)
                 /\ Buckets!Chain(Buckets!ListToTake, col) = q
         /\ Buckets!Anything <=> Here # {}
         /\ Buckets!ListToTake > 0 => \A y \in Here, p \in Members(Buckets!ListToTake, col) :
            Buckets!Weight(p) <= Buckets!Weight(y)
         /\ Buckets!ListToTake = 0 => /\ Here = Members(0, col)
                                      /\ \A y \in Here : Buckets!Weight(y) >= Buckets!LeastWeight
<1>. USE Buckets!BucketAssumption
<1>. DEFINE l == Buckets!ListToTake
<1>0. SmallMax \in Nat \ {0}  BY DEF Buckets!BucketAssumption
<1>1. BucketTypes /\ ListsLinked /\ Buckets!MasksAndCountsFit  BY DEF BucketsInv, CountsFit
<1>2. \A y \in Here : /\ y \in Buckets!Waiting /\ y \in Buckets!Row /\ Buckets!Weight(y) \in Nat
                         /\ Buckets!Weight(y) > 0
                      /\ Buckets!ListOf(y) \in Buckets!List
                         /\ y \in Members(Buckets!ListOf(y), col)
  <2>. TAKE y \in Here
  <2>1. y \in Buckets!Waiting /\ y \in Buckets!Row /\ Buckets!Support(rows[y]) # {}
    BY DEF Here, Buckets!Waiting
  <2>2. Buckets!Weight(y) \in Nat /\ Buckets!Weight(y) # 0  BY <1>1, <2>1, WeightAndList
  <2>3. Buckets!ListOf(y) \in Buckets!List  BY <1>1, <2>2, WeightAndList DEF Buckets!ListOf
  <2>. QED BY <2>1, <2>2, <2>3 DEF Members, Here
<1>3. \A m \in Buckets!List : Members(m, col) \subseteq Here  BY DEF Members, Here
<1>4. \A m \in Buckets!List : heads[m][col] # Buckets!NO_BUCKET_ROW <=> Members(m, col) # {}
  <2>. TAKE m \in Buckets!List
  <2>1. Holds(heads[m][col], next_in_bucket, Members(m, col))  BY <1>1 DEF ListsLinked
  <2>2. heads[m][col] = Buckets!NO_BUCKET_ROW <=> Members(m, col) = {}  BY ONLY <2>1, HeadOfList
  <2>. QED BY <2>2
<1>5. /\ l \in Buckets!List
      /\ l > 0 => Members(l, col) # {} /\ \A y \in Here : Buckets!Weight(y) >= l
      /\ l = 0 => \A y \in Here : Buckets!ListOf(y) = 0
  <2>1. CASE kind \in Buckets!Cached /\ nonempty_masks[col] # {}
    <3>0. kind # "counted"  BY <2>1 DEF Buckets!Cached
    <3>1. l = Buckets!Min(nonempty_masks[col])  BY <2>1, <3>0 DEF Buckets!ListToTake
    <3>2. nonempty_masks[col] = {m \in 1 .. SmallMax : heads[m][col] # Buckets!NO_BUCKET_ROW}
      BY <1>1, <2>1 DEF Buckets!MasksAndCountsFit
    <3>3. \E p \in nonempty_masks[col] : \A m \in nonempty_masks[col] : p <= m
      <4>1. nonempty_masks[col] \subseteq Nat  BY <3>2
      <4>. QED BY <2>1, <4>1, LeastNumber
    <3>4. l \in nonempty_masks[col] /\ \A m \in nonempty_masks[col] : l <= m
      BY <3>1, <3>3 DEF Buckets!Min
    <3>5. l \in Buckets!List /\ l > 0 /\ heads[l][col] # Buckets!NO_BUCKET_ROW
      BY <1>0, <3>2, <3>4 DEF Buckets!List
    <3>6. ASSUME NEW y \in Here PROVE Buckets!Weight(y) >= l
      <4>1. CASE Buckets!ListOf(y) > 0
        <5>1. Buckets!ListOf(y) \in 1 .. SmallMax  BY <1>0, <1>2, <4>1 DEF Buckets!List
        <5>2. heads[Buckets!ListOf(y)][col] # Buckets!NO_BUCKET_ROW  BY <1>2, <1>4
        <5>3. l <= Buckets!ListOf(y)  BY <3>2, <3>4, <5>1, <5>2
        <5>4. Buckets!ListOf(y) = Buckets!Weight(y)
          BY <1>1, <1>2, <4>1, WeightAndList DEF Buckets!ListOf
        <5>. QED BY <1>2, <3>5, <5>3, <5>4 DEF Buckets!List
      <4>2. CASE Buckets!ListOf(y) = 0
        <5>1. Buckets!Weight(y) >= SmallMax + 1
          BY <1>1, <1>2, <2>1, <4>2, WeightAndList DEF Buckets!ListOf
        <5>2. l <= SmallMax  BY <3>2, <3>4
        <5>. QED BY <1>0, <1>2, <3>5, <5>1, <5>2 DEF Buckets!List
      <4>. QED BY <1>2, <4>1, <4>2 DEF Buckets!List
    <3>. QED BY <1>4, <3>5, <3>6
  <2>2. CASE ~(kind \in Buckets!Cached /\ nonempty_masks[col] # {}) /\ kind = "counted"
             /\ heads[1][col] # Buckets!NO_BUCKET_ROW
    <3>1. l = 1  BY <2>2 DEF Buckets!ListToTake
    <3>2. 1 \in Buckets!List  BY <1>0 DEF Buckets!List
    <3>3. \A y \in Here : Buckets!Weight(y) >= 1  BY <1>2
    <3>. QED BY <1>4, <2>2, <3>1, <3>2, <3>3
  <2>3. CASE /\ ~(kind \in Buckets!Cached /\ nonempty_masks[col] # {})
             /\ ~(kind = "counted" /\ heads[1][col] # Buckets!NO_BUCKET_ROW)
    <3>1. l = 0  BY <2>3 DEF Buckets!ListToTake
    <3>2. 0 \in Buckets!List  BY <1>0 DEF Buckets!List
    <3>3. ASSUME NEW y \in Here, Buckets!ListOf(y) # 0 PROVE FALSE
      <4>1. heads[Buckets!ListOf(y)][col] # Buckets!NO_BUCKET_ROW  BY <1>2, <1>4
      <4>2. CASE kind \in Buckets!Cached
        <5>1. Buckets!ListOf(y) \in 1 .. SmallMax  BY <1>0, <1>2, <3>3 DEF Buckets!List
        <5>2. Buckets!ListOf(y) \in nonempty_masks[col]
          BY <1>1, <4>1, <4>2, <5>1 DEF Buckets!MasksAndCountsFit
        <5>. QED BY <2>3, <4>2, <5>2
      <4>3. CASE kind \notin Buckets!Cached
        <5>1. kind = "counted" /\ Buckets!ListOf(y) = 1
          BY <1>1, <1>2, <3>3, <4>3, WeightAndList DEF Buckets!ListOf
        <5>. QED BY <2>3, <4>1, <5>1
      <4>. QED BY <4>2, <4>3
    <3>. QED BY <3>1, <3>2, <3>3
  <2>. QED BY <2>1, <2>2, <2>3
<1>6. PICK q \in Seq(Buckets!Row) : Linked(q, heads[l][col], next_in_bucket)
        /\ RowsOf(q) = Members(l, col)
  BY <1>1, <1>5 DEF ListsLinked, Holds
<1>7. Buckets!Chain(l, col) = q  BY <1>6, ChainIsList
<1>8. q # <<>> <=> Members(l, col) # {}
  <2>1. Len(q) \in Nat /\ (q = <<>> <=> Len(q) = 0)  BY <1>6
  <2>2. Len(q) = 0 => 1 .. Len(q) = {}  BY <2>1
  <2>3. Len(q) # 0 => 1 \in 1 .. Len(q)  BY <2>1
  <2>. QED BY <1>6, <2>1, <2>2, <2>3 DEF RowsOf
<1>. HIDE DEF l
<1>9. Buckets!Anything <=> Here # {}
  <2>1. Buckets!Anything <=> Members(l, col) # {}  BY <1>7, <1>8 DEF Buckets!Anything, l
  <2>2. l = 0 => Here = Members(l, col)  BY <1>2, <1>3, <1>5
  <2>3. l # 0 => Members(l, col) # {} /\ Members(l, col) \subseteq Here
    BY <1>0, <1>3, <1>5 DEF Buckets!List
  <2>. QED BY <2>1, <2>2, <2>3
<1>10. l > 0 => \A y \in Here, p \in Members(l, col) : Buckets!Weight(p) <= Buckets!Weight(y)
  <2>. HAVE l > 0
  <2>. TAKE y \in Here, p \in Members(l, col)
  <2>1. p \in Here /\ Buckets!ListOf(p) = l  BY <1>3, <1>5 DEF Members
  <2>2. Buckets!Weight(p) = l  BY <1>1, <1>2, <2>1, WeightAndList DEF Buckets!ListOf
  <2>. QED BY <1>2, <1>5, <2>1, <2>2
<1>11. l = 0 => Here = Members(0, col)
         /\ \A y \in Here : Buckets!Weight(y) >= Buckets!LeastWeight
  <2>. HAVE l = 0
  <2>1. Here = Members(0, col)  BY <1>2, <1>3, <1>5
  <2>2. ASSUME NEW y \in Here PROVE Buckets!Weight(y) >= Buckets!LeastWeight
    <3>1. Buckets!Weight(y) \in Nat /\ Buckets!Weight(y) > 0 /\ Buckets!ListOf(y) = 0
      BY <1>2, <1>5
    <3>2. kind \in Buckets!Cached => Buckets!Weight(y) >= SmallMax + 1
      BY <1>1, <3>1, WeightAndList DEF Buckets!ListOf
    <3>3. kind = "counted" => Buckets!Weight(y) >= 2
      BY <1>1, <3>1, WeightAndList DEF Buckets!ListOf
    <3>. QED BY <1>0, <3>1, <3>2, <3>3 DEF Buckets!LeastWeight
  <2>. QED BY <2>1, <2>2
<1>. QED BY <1>5, <1>6, <1>7, <1>9, <1>10, <1>11 DEF l

\* Weights that the lists are kept by are those of the rows.
LEMMA WeightsCurrent ==
  ASSUME BucketsInv, NEW y \in Buckets!Row
  PROVE  Buckets!WeightInList(y) = Buckets!Weight(y)
BY DEF BucketsInv, CachesCurrent, Buckets!CachedStateIsCurrent, Buckets!WeightInList

\* The search in list 0 ends at a row of the least weight.
LEMMA LightestFound ==
  ASSUME Buckets!BucketAssumption, BucketsInv, col \in Buckets!Col, Buckets!ListToTake = 0,
           Here # {}
  PROVE  /\ Buckets!PlaceOfLightest \in 1 .. Len(Buckets!Chain(0, col))
         /\ \A y \in Here : Buckets!Weight(Buckets!Chain(0,
            col)[Buckets!PlaceOfLightest]) <= Buckets!Weight(y)
<1>. DEFINE chain == Buckets!Chain(0, col)
            N == Len(chain)
            X == 1 .. N
            Step(b, k) == IF Buckets!StopsAt(chain[b])
                \/ ~Buckets!Better(chain[k], chain[b]) THEN b ELSE k
            G == [z \in (1 .. N - 1) \X X |-> Step(z[2], z[1] + 1)]
            Eqn(f) == f = [k \in 1 .. N |-> IF k = 1 THEN 1 ELSE Step(f[k - 1], k)]
<1>1. PICK q \in Seq(Buckets!Row) : RowsOf(q) = Members(0, col) /\ chain = q
  BY TakenFrom
<1>2. Here = {chain[k] : k \in 1 .. N}
  <2>1. Here = Members(0, col)  BY TakenFrom
  <2>. QED BY <1>1, <2>1 DEF RowsOf
<1>3. N \in Nat \ {0}
  <2>1. N \in Nat  BY <1>1
  <2>2. N = 0 => 1 .. N = {}  BY <2>1
  <2>. QED BY <1>2, <2>1, <2>2
<1>4. \A k \in 1 .. N : chain[k] \in Buckets!Row /\ Buckets!Weight(chain[k]) \in Nat
                        /\ Buckets!WeightInList(chain[k]) = Buckets!Weight(chain[k])
                        /\ Buckets!Weight(chain[k]) >= Buckets!LeastWeight
  <2>. TAKE k \in 1 .. N
  <2>1. chain[k] \in Buckets!Row  BY <1>1
  <2>2. chain[k] \in Here  BY <1>2
  <2>3. Buckets!Weight(chain[k]) \in Nat  BY <2>1, WeightAndList DEF BucketsInv
  <2>4. Buckets!Weight(chain[k]) >= Buckets!LeastWeight  BY <2>2, TakenFrom
  <2>5. Buckets!WeightInList(chain[k]) = Buckets!Weight(chain[k])  BY <2>1, WeightsCurrent
  <2>. QED BY <2>1, <2>3, <2>4, <2>5
<1>. HIDE DEF chain
<1>5. \A b, k \in X : Step(b, k) \in {b, k}  OBVIOUS
<1>6. G \in [(1 .. N - 1) \X X -> X]
  <2>1. \A z \in (1 .. N - 1) \X X : z[1] + 1 \in X /\ z[2] \in X  BY <1>3
  <2>2. \A z \in (1 .. N - 1) \X X : Step(z[2], z[1] + 1) \in X  BY <1>5, <2>1
  <2>. HIDE DEF Step
  <2>. QED BY <2>2
<1>. HIDE DEF Step
<1>7. PICK h : Recurs(h, X, 1, N - 1, G)
  <2>1. 1 \in X /\ N - 1 \in Nat  BY <1>3
  <2>. HIDE DEF G
  <2>. QED BY <1>6, <2>1, Recursion
<1>. DEFINE g == [k \in 1 .. N |-> h[k - 1]]
<1>8. Eqn(g)
  <2>1. ASSUME NEW k \in 1 .. N PROVE g[k] = IF k = 1 THEN 1 ELSE Step(g[k - 1], k)
    <3>1. CASE k = 1
      <4>1. g[k] = h[0]  BY <3>1
      <4>. QED BY <1>7, <3>1, <4>1 DEF Recurs
    <3>2. CASE k # 1
      <4>1. k - 1 \in 1 .. N - 1 /\ k - 1 \in 1 .. N /\ (k - 1) - 1 \in 0 .. N - 1
            /\ (k - 1) + 1 = k
        BY <1>3, <3>2
      <4>2. h[k - 1] = G[<<k - 1, h[(k - 1) - 1]>>] /\ h[(k - 1) - 1] \in X
        BY <1>7, <4>1 DEF Recurs
      <4>3. G[<<k - 1, h[(k - 1) - 1]>>] = Step(h[(k - 1) - 1], (k - 1) + 1)
        BY <4>1, <4>2
      <4>4. g[k] = h[k - 1] /\ g[k - 1] = h[(k - 1) - 1]  BY <4>1
      <4>. QED BY <3>2, <4>1, <4>2, <4>3, <4>4
    <3>. QED BY <3>1, <3>2
  <2>. DEFINE E(k) == IF k = 1 THEN 1 ELSE Step(g[k - 1], k)
  <2>2. g = [k \in 1 .. N |-> E(k)]
    <3>1. \A k \in 1 .. N : g[k] = E(k)  BY <2>1
    <3>. HIDE DEF E
    <3>. QED BY <3>1
  <2>. QED BY <2>2
<1>. DEFINE best == CHOOSE f : Eqn(f)
<1>9. Eqn(best)
  <2>. HIDE DEF g
  <2>. QED BY <1>8
<1>10. Buckets!PlaceOfLightest = best[N]  BY DEF Buckets!PlaceOfLightest, Step, chain
<1>. HIDE DEF best, g, G
<1>11. \A k \in 1 .. N : best[k] = IF k = 1 THEN 1 ELSE Step(best[k - 1], k)
  <2>. DEFINE E(k) == IF k = 1 THEN 1 ELSE Step(best[k - 1], k)
  <2>1. best = [k \in 1 .. N |-> E(k)]  BY <1>9
  <2>. HIDE DEF E
  <2>2. \A k \in 1 .. N : best[k] = E(k)  BY <2>1
  <2>. QED BY <2>2 DEF E
<1>. HIDE DEF Eqn
<1>. DEFINE Good(k) == best[k] \in 1 .. k
                       /\ \A j \in 1 .. k :
                           Buckets!Weight(chain[best[k]]) <= Buckets!Weight(chain[j])
            P == {m \in Nat : m + 1 <= N => Good(m + 1)}
<1>12. 0 \in P
  <2>1. best[1] = 1  BY <1>3, <1>11
  <2>2. 1 \in 1 .. N  BY <1>3
  <2>3. Buckets!Weight(chain[1]) \in Nat  BY <1>4, <2>2
  <2>. QED BY <2>1, <2>3
<1>13. ASSUME NEW m \in Nat, m \in P PROVE m + 1 \in P
  <2>. SUFFICES ASSUME (m + 1) + 1 <= N PROVE Good((m + 1) + 1)  OBVIOUS
  <2>. DEFINE k == (m + 1) + 1
              b == best[m + 1]
  <2>1. k \in 1 .. N /\ k # 1 /\ k - 1 = m + 1 /\ m + 1 \in 1 .. N  BY <1>3
  <2>2. Good(m + 1)  BY <1>3, <1>13
  <2>3. b \in 1 .. N /\ b \in 1 .. k
          /\ \A j \in 1 .. m + 1 : Buckets!Weight(chain[b]) <= Buckets!Weight(chain[j])
    BY <1>3, <2>1, <2>2
  <2>4. best[k] = Step(b, k)  BY <1>11, <2>1
  <2>5. \A j \in 1 .. k : j \in 1 .. m + 1 \/ j = k  BY <2>1
  <2>. HIDE DEF k, b
  <2>6. \A j \in 1 .. k : j \in 1 .. N  BY <1>3, <2>1
  <2>7. CASE Buckets!StopsAt(chain[b])
    <3>1. best[k] = b  BY <2>4, <2>7 DEF Step
    <3>2. Buckets!Weight(chain[b]) = Buckets!LeastWeight
      BY <1>4, <2>3, <2>7 DEF Buckets!StopsAt
    <3>3. \A j \in 1 .. k : Buckets!Weight(chain[b]) <= Buckets!Weight(chain[j])
      BY <1>4, <2>6, <3>2
    <3>. QED BY <2>3, <3>1, <3>3 DEF k
  <2>8. CASE ~Buckets!StopsAt(chain[b]) /\ ~Buckets!Better(chain[k], chain[b])
    <3>1. best[k] = b  BY <2>4, <2>8 DEF Step
    <3>2. ~(Buckets!Weight(chain[k]) < Buckets!Weight(chain[b]))
      BY <1>4, <2>1, <2>3, <2>8 DEF Buckets!Better
    <3>3. Buckets!Weight(chain[b]) <= Buckets!Weight(chain[k])  BY <1>4, <2>1, <2>3, <3>2
    <3>4. \A j \in 1 .. k : Buckets!Weight(chain[b]) <= Buckets!Weight(chain[j])
      BY <2>3, <2>5, <3>3
    <3>. QED BY <2>3, <3>1, <3>4 DEF k
  <2>9. CASE ~Buckets!StopsAt(chain[b]) /\ Buckets!Better(chain[k], chain[b])
    <3>1. best[k] = k  BY <2>4, <2>9 DEF Step
    <3>2. Buckets!Weight(chain[k]) <= Buckets!Weight(chain[b])
      BY <1>4, <2>1, <2>3, <2>9 DEF Buckets!Better
    <3>3. ASSUME NEW j \in 1 .. k PROVE Buckets!Weight(chain[k]) <= Buckets!Weight(chain[j])
      <4>1. Buckets!Weight(chain[k]) \in Nat /\ Buckets!Weight(chain[b]) \in Nat
              /\ Buckets!Weight(chain[j]) \in Nat
        BY <1>4, <2>1, <2>3, <2>6
      <4>2. CASE j = k  BY <4>1, <4>2
      <4>3. CASE j # k
        <5>1. Buckets!Weight(chain[b]) <= Buckets!Weight(chain[j])  BY <2>3, <2>5, <4>3
        <5>. QED BY <3>2, <4>1, <5>1
      <4>. QED BY <4>2, <4>3
    <3>4. k \in 1 .. k  BY <2>1
    <3>. QED BY <3>1, <3>3, <3>4 DEF k
  <2>. QED BY <2>7, <2>8, <2>9
<1>. HIDE DEF P, Good
<1>14. Good(N)
  <2>1. N - 1 \in Nat /\ (N - 1) + 1 = N  BY <1>3
  <2>2. N - 1 \in P  BY <1>12, <1>13, <2>1, SetInduction
  <2>3. (N - 1) + 1 <= N => Good((N - 1) + 1)  BY <2>2 DEF P
  <2>. QED BY <1>3, <2>1, <2>3
<1>15. best[N] \in 1 .. N /\ \A j \in 1 .. N :
         Buckets!Weight(chain[best[N]]) <= Buckets!Weight(chain[j])
  BY <1>14 DEF Good
<1>16. \A y \in Here : Buckets!Weight(chain[best[N]]) <= Buckets!Weight(y)  BY <1>2, <1>15
<1>. QED BY <1>10, <1>15, <1>16 DEF chain

\* Heads of lists that differ at one list and column.
HeadSet(H2, H, k, c, g) ==
  /\ \A m \in Buckets!List, d \in Buckets!Col : m # k \/ d # c => H2[m][d] = H[m][d]
  /\ H2[k][c] = g

\* All lists at once, of disjoint sets of rows.
ListSets == [Buckets!List -> [Buckets!Col -> SUBSET Buckets!Row]]
Apart(S) ==
  \A m, n \in Buckets!List, c, d \in Buckets!Col : m # n \/ c # d => S[m][c] \cap S[n][d] = {}
AllHold(H, nx, S) == \A m \in Buckets!List, d \in Buckets!Col : Holds(H[m][d], nx, S[m][d])
HoldWithout(H, nx, S, x) == \A m \in Buckets!List, d \in Buckets!Col :
    Holds(H[m][d], nx, S[m][d] \ {x})
OthersHold(H, nx, S, k, c) ==
  \A m \in Buckets!List, d \in Buckets!Col : m # k \/ d # c => Holds(H[m][d], nx, S[m][d])
LinksAre(my, nx, q, k) ==
  \A x \in Buckets!Row : my[x] = IF x = q[k] THEN Buckets!NO_BUCKET_ROW
                         ELSE IF k > 1 /\ x = q[k - 1] THEN nx[q[k]] ELSE nx[x]

\* A row is taken out of one of them.
LEMMA ListTaken ==
  ASSUME NEW S \in ListSets, Apart(S), NEW H, NEW nx, AllHold(H, nx, S),
         NEW l \in Buckets!List, NEW c \in Buckets!Col, NEW q, Linked(q, H[l][c], nx),
         RowsOf(q) = S[l][c],
         NEW k \in 1 .. Len(q), NEW g, g = IF k = 1 THEN nx[q[k]] ELSE H[l][c],
         NEW H2, HeadSet(H2, H, l, c, g), NEW my,
         LinksAre(my, nx, q, k)
  PROVE  HoldWithout(H2, my, S, q[k])
<1>1. /\ q \in Seq(Buckets!Row) /\ \A j \in 1 .. Len(q) : q[j] \in Buckets!Row
         /\ q[j] \in S[l][c]
      /\ \A j, m \in 1 .. Len(q) : q[j] = q[m] => j = m
  <2>1. q \in Seq(Buckets!Row) /\ \A j, m \in 1 .. Len(q) : q[j] = q[m] => j = m  BY DEF Linked
  <2>2. \A j \in 1 .. Len(q) : q[j] \in Buckets!Row  BY ONLY <2>1
  <2>3. \A j \in 1 .. Len(q) : q[j] \in S[l][c]  BY DEF RowsOf
  <2>. QED BY <2>1, <2>2, <2>3
<1>2. k \in Nat /\ 1 <= k /\ (k > 1 => k - 1 \in 1 .. Len(q) /\ k - 1 # k)  BY <1>1
<1>3. \A j \in 1 .. Len(q) : j # k /\ j # k - 1 => my[q[j]] = nx[q[j]]
  <2>. TAKE j \in 1 .. Len(q)
  <2>. HAVE j # k /\ j # k - 1
  <2>1. q[j] \in Buckets!Row /\ q[j] # q[k]  BY <1>1
  <2>2. k > 1 => q[j] # q[k - 1]  BY <1>1, <1>2
  <2>. QED BY <2>1, <2>2 DEF LinksAre
<1>4. k > 1 => my[q[k - 1]] = nx[q[k]] /\ g = H[l][c]
  <2>. HAVE k > 1
  <2>1. q[k - 1] \in Buckets!Row /\ q[k - 1] # q[k]  BY <1>1, <1>2
  <2>. QED BY <2>1 DEF LinksAre
<1>5. k = 1 => g = nx[q[k]]  OBVIOUS
<1>. DEFINE h == H[l][c]
<1>6. Holds(g, my, RowsOf(q) \ {q[k]})
  <2>1. Linked(q, h, nx) /\ k \in 1 .. Len(q)  OBVIOUS
  <2>2. k > 1 => my[q[k - 1]] = nx[q[k]] /\ g = h  BY <1>4
  <2>. HIDE DEF h
  <2>. QED BY ONLY <1>3, <1>5, <2>1, <2>2, TakenOut
<1>7. ASSUME NEW m \in Buckets!List, NEW d \in Buckets!Col, m # l \/ d # c
      PROVE  Holds(H2[m][d], my, S[m][d] \ {q[k]})
  <2>1. Holds(H[m][d], nx, S[m][d])  BY DEF AllHold
  <2>2. S[m][d] \in SUBSET Buckets!Row  BY DEF ListSets
  <2>3. S[m][d] \cap S[l][c] = {}  BY <1>7 DEF Apart
  <2>4. q[k] \notin S[m][d] /\ (k > 1 => q[k - 1] \notin S[m][d])  BY <1>1, <1>2, <2>3
  <2>5. \A x \in S[m][d] : my[x] = nx[x]  BY <2>2, <2>4 DEF LinksAre
  <2>6. Holds(H[m][d], my, S[m][d])  BY <2>1, <2>5, OtherLinks
  <2>7. S[m][d] \ {q[k]} = S[m][d] /\ H2[m][d] = H[m][d]  BY <1>7, <2>4 DEF HeadSet
  <2>. QED BY <2>6, <2>7
<1>8. Holds(H2[l][c], my, S[l][c] \ {q[k]})  BY <1>6 DEF HeadSet
<1>. QED BY <1>7, <1>8 DEF HoldWithout

\* Only the link of a row changes, and a row is in none of the lists.
LinkSet(my, nx, y, g) == my[y] = g /\ \A x \in Buckets!Row : x # y => my[x] = nx[x]
Unlisted(y, S) == \A m \in Buckets!List, d \in Buckets!Col : y \notin S[m][d]

\* A row that is in none is put in front of one.
LEMMA ListPut ==
  ASSUME NEW S \in ListSets, NEW H, NEW nx, AllHold(H, nx, S),
         NEW y \in Buckets!Row, Unlisted(y, S),
         NEW k \in Buckets!List, NEW c \in Buckets!Col, NEW H2, HeadSet(H2, H, k, c, y),
         NEW my, LinkSet(my, nx, y, H[k][c])
  PROVE  /\ Holds(H2[k][c], my, S[k][c] \cup {y})
         /\ OthersHold(H2, my, S, k, c)
<1>1. ASSUME NEW m \in Buckets!List, NEW d \in Buckets!Col
      PROVE  Holds(H[m][d], nx, S[m][d]) /\ y \notin S[m][d] /\ \A x \in S[m][d] : my[x] = nx[x]
  <2>1. S[m][d] \in SUBSET Buckets!Row /\ y \notin S[m][d]  BY DEF ListSets, Unlisted
  <2>. QED BY <2>1 DEF AllHold, LinkSet
<1>2. Holds(y, my, S[k][c] \cup {y})
  <2>1. Holds(H[k][c], nx, S[k][c]) /\ (\A x \in S[k][c] : my[x] = nx[x]) /\ y \notin S[k][c]
    BY <1>1
  <2>2. my[y] = H[k][c]  BY DEF LinkSet
  <2>. QED BY <2>1, <2>2, PutInFront
<1>3. ASSUME NEW m \in Buckets!List, NEW d \in Buckets!Col, m # k
        \/ d # c PROVE Holds(H2[m][d], my, S[m][d])
  <2>1. Holds(H[m][d], my, S[m][d])  BY <1>1, OtherLinks
  <2>2. H2[m][d] = H[m][d]  BY <1>3 DEF HeadSet
  <2>. QED BY <2>1, <2>2
<1>. QED BY <1>2, <1>3 DEF HeadSet, OthersHold

\* Masks name the lists that are not empty.
Masks == [Buckets!Col -> SUBSET (1 .. SmallMax)]
MaskFits(mask, H) ==
  \A c \in Buckets!Col : mask[c] = {m \in 1 .. SmallMax : H[m][c] # Buckets!NO_BUCKET_ROW}

\* Only the mask of a column changes.
MaskSet(mask2, mask, c, new) ==
  /\ \A d \in Buckets!Col : d # c => mask2[d] = mask[d]
  /\ mask2[c] = new

\* Masks go on fitting when the head of a list changes, and the mask of its
\* column with it if the list is empty before or after.
LEMMA MaskChanges ==
  ASSUME Buckets!BucketAssumption, NEW mask, NEW H, MaskFits(mask, H),
         NEW k \in Buckets!List, NEW c \in Buckets!Col, NEW g, NEW H2, HeadSet(H2, H, k, c, g),
         NEW mask2,
         \/ mask2 = mask /\ (k = 0 \/ (g # Buckets!NO_BUCKET_ROW
            /\ H[k][c] # Buckets!NO_BUCKET_ROW))
         \/ MaskSet(mask2, mask, c, mask[c] \cup {k}) /\ k > 0 /\ g # Buckets!NO_BUCKET_ROW
         \/ MaskSet(mask2, mask, c, mask[c] \ {k}) /\ k > 0 /\ g = Buckets!NO_BUCKET_ROW
  PROVE  MaskFits(mask2, H2)
<1>0. SmallMax \in Nat \ {0}  BY DEF Buckets!BucketAssumption
<1>1. \A m \in 1 .. SmallMax : m \in Buckets!List /\ m # 0  BY <1>0 DEF Buckets!List
<1>2. k > 0 => k \in 1 .. SmallMax  BY <1>0 DEF Buckets!List
<1>3. \A d \in Buckets!Col : d # c => {m \in 1 .. SmallMax : H2[m][d] # Buckets!NO_BUCKET_ROW}
                              = {m \in 1 .. SmallMax : H[m][d] # Buckets!NO_BUCKET_ROW}
  BY <1>1 DEF HeadSet
<1>4. \A m \in 1 .. SmallMax : m # k => H2[m][c] = H[m][c]  BY <1>1 DEF HeadSet
<1>5. H2[k][c] = g  BY DEF HeadSet
<1>6. mask[c] = {m \in 1 .. SmallMax : H[m][c] # Buckets!NO_BUCKET_ROW}  BY DEF MaskFits
<1>7. \A d \in Buckets!Col : d # c
        => mask2[d] = {m \in 1 .. SmallMax : H2[m][d] # Buckets!NO_BUCKET_ROW}
  BY <1>3 DEF MaskFits, MaskSet
<1>8. CASE mask2 = mask /\ (k = 0
        \/ (g # Buckets!NO_BUCKET_ROW /\ H[k][c] # Buckets!NO_BUCKET_ROW))
  <2>1. mask2[c] = {m \in 1 .. SmallMax : H2[m][c] # Buckets!NO_BUCKET_ROW}
    BY <1>1, <1>4, <1>5, <1>6, <1>8
  <2>. QED BY <1>7, <2>1 DEF MaskFits
<1>9. CASE MaskSet(mask2, mask, c, mask[c] \cup {k}) /\ k > 0 /\ g # Buckets!NO_BUCKET_ROW
  <2>1. mask2[c] = {m \in 1 .. SmallMax : H2[m][c] # Buckets!NO_BUCKET_ROW}
    BY <1>2, <1>4, <1>5, <1>6, <1>9 DEF MaskSet
  <2>. QED BY <1>7, <2>1 DEF MaskFits
<1>10. CASE MaskSet(mask2, mask, c, mask[c] \ {k}) /\ k > 0 /\ g = Buckets!NO_BUCKET_ROW
  <2>1. mask2[c] = {m \in 1 .. SmallMax : H2[m][c] # Buckets!NO_BUCKET_ROW}
    BY <1>4, <1>5, <1>6, <1>10 DEF MaskSet
  <2>. QED BY <1>7, <2>1 DEF MaskFits
<1>. QED BY <1>8, <1>9, <1>10

\* A mask stays if the list is empty neither before nor after, or has no bit.
LEMMA MaskStays ==
  ASSUME Buckets!BucketAssumption, NEW mask, NEW H, MaskFits(mask, H),
         NEW k \in Buckets!List, NEW c \in Buckets!Col, NEW g, NEW H2, HeadSet(H2, H, k, c, g),
         k = 0 \/ (g # Buckets!NO_BUCKET_ROW /\ H[k][c] # Buckets!NO_BUCKET_ROW)
  PROVE  MaskFits(mask, H2)
<1>0. SmallMax \in Nat \ {0}  BY DEF Buckets!BucketAssumption
<1>1. \A m \in 1 .. SmallMax : m \in Buckets!List /\ m # 0  BY <1>0 DEF Buckets!List
<1>2. \A m \in 1 .. SmallMax, d \in Buckets!Col : H2[m][d] # Buckets!NO_BUCKET_ROW
        <=> H[m][d] # Buckets!NO_BUCKET_ROW
  BY <1>1 DEF HeadSet
<1>. QED BY <1>2 DEF MaskFits

\* Rows that begin in a column.
Begin(c) == {y \in Buckets!Waiting : Buckets!LeadingColumn(rows[y]) = c}

\* What waits where, when only one row changes.
LEMMA AllButOne ==
  ASSUME kind' = kind, NEW y \in Buckets!Row,
         \A j \in Buckets!Row : j # y => rows'[j] = rows[j]
             /\ (j \in Buckets!Waiting' <=> j \in Buckets!Waiting)
  PROVE  /\ \A m, c : Members(m, c)' \ {y} = Members(m, c) \ {y}
         /\ \A m, c : y \in Members(m, c)' <=>
              y \in Buckets!Waiting' /\ Buckets!LeadingColumn(rows'[y]) = c
                  /\ Buckets!ListOf(y)' = m
         /\ \A c : Begin(c)' \ {y} = Begin(c) \ {y}
         /\ \A c : y \in Begin(c)' <=> y \in Buckets!Waiting'
            /\ Buckets!LeadingColumn(rows'[y]) = c
<1>1. Buckets!Waiting \subseteq Buckets!Row /\ Buckets!Waiting' \subseteq Buckets!Row
  BY DEF Buckets!Waiting
<1>2. \A j \in Buckets!Row : j # y => Buckets!ListOf(j)' = Buckets!ListOf(j)
  BY DEF Buckets!ListOf, Buckets!Weight, Buckets!small_weight_binary_bucket_index
<1>3. \A m, c : Members(m, c)' \ {y} = Members(m, c) \ {y}
  BY <1>1, <1>2 DEF Members
<1>4. \A m, c : y \in Members(m, c)' <=>
        y \in Buckets!Waiting' /\ Buckets!LeadingColumn(rows'[y]) = c /\ Buckets!ListOf(y)' = m
  BY DEF Members
<1>5. \A c : Begin(c)' \ {y} = Begin(c) \ {y}  BY <1>1 DEF Begin
<1>6. \A c : y \in Begin(c)' <=> y \in Buckets!Waiting' /\ Buckets!LeadingColumn(rows'[y]) = c
  BY DEF Begin
<1>. QED BY <1>3, <1>4, <1>5, <1>6

\* The rows of all lists.
ListRows == [m \in Buckets!List |-> [d \in Buckets!Col |-> Members(m, d)]]

\* The rows of all lists, no row in two.
LEMMA RowsOfLists ==
  ASSUME BucketsInv
  PROVE  /\ ListRows \in ListSets /\ Apart(ListRows)
         /\ AllHold(heads, next_in_bucket, ListRows)
         /\ \A m \in Buckets!List, d \in Buckets!Col : ListRows[m][d] = Members(m, d)
<1>1. \A m \in Buckets!List, d \in Buckets!Col : ListRows[m][d] = Members(m, d)  BY DEF ListRows
<1>2. \A m, d : Members(m, d) \in SUBSET Buckets!Row  BY DEF Members, Buckets!Waiting
<1>3. ListRows \in ListSets  BY <1>2 DEF ListRows, ListSets
<1>4. \A m, n, c, d : m # n \/ c # d => Members(m, c) \cap Members(n, d) = {}
  BY DEF Members
<1>5. Apart(ListRows)  BY <1>1, <1>4 DEF Apart
<1>6. AllHold(heads, next_in_bucket, ListRows)
  BY <1>1 DEF AllHold, BucketsInv, ListsLinked
<1>. QED BY <1>1, <1>3, <1>5, <1>6

\* At the start nothing is filed, and no row waits.
LEMMA BucketsStart ==
  ASSUME Buckets!BucketAssumption, Buckets!Init
  PROVE  BucketsInv
<1>0. Height \in Nat \ {0} /\ Width \in Nat \ {0} /\ SmallMax \in Nat \ {0}
  BY DEF Buckets!BucketAssumption
<1>1. rows \in [Buckets!Row -> Vector]
        /\ (kind \in Buckets!BinaryKinds => \A y \in Buckets!Row : Ones(rows[y]))
  <2>1. CASE kind \in Buckets!BinaryKinds
    <3>1. rows \in [Buckets!Row -> [Buckets!Col -> {Buckets!Zero, Buckets!One}]]
      BY <2>1 DEF Buckets!Init
    <3>2. \A v \in [Buckets!Col -> {Buckets!Zero, Buckets!One}] : v \in Vector /\ Ones(v)
      BY DEF Vector, Ones, Buckets!F, Buckets!Zero, Buckets!One
    <3>. QED BY <3>1, <3>2
  <2>2. CASE kind \notin Buckets!BinaryKinds
    <3>1. rows \in [Buckets!Row -> CoefficientRows]  BY <2>2 DEF Buckets!Init
    <3>2. CoefficientRows \subseteq Vector  BY DEF Buckets!BucketAssumption, Vector, Buckets!Col
    <3>. QED BY <2>2, <3>1, <3>2
  <2>. QED BY <2>1, <2>2
<1>2. \A y \in Buckets!Row : Buckets!Weight(y) \in Nat
  <2>. TAKE y \in Buckets!Row
  <2>1. Buckets!Support(rows[y]) \subseteq Buckets!Col  BY <1>1, Leading
  <2>. QED BY <2>1, Sizes DEF Buckets!Weight
<1>3. BucketTypes
  BY <1>0, <1>1, <1>2 DEF BucketTypes, Buckets!Init
<1>4. Buckets!Waiting = {}  BY <1>0 DEF Buckets!Init, Buckets!Waiting, Buckets!Row
<1>5. BucketControl
  <2>1. \A y \in Buckets!Row : row_weights[y] = Buckets!Weight(y)  BY DEF Buckets!Init
  <2>. QED BY <2>1 DEF BucketControl, Buckets!Init
<1>6. WaitingBegin  BY <1>4 DEF WaitingBegin
<1>7. ListsLinked
  <2>1. \A m, d : Members(m, d) = {}  BY <1>4 DEF Members
  <2>2. \A m \in Buckets!List, d \in Buckets!Col : heads[m][d] = Buckets!NO_BUCKET_ROW
    BY DEF Buckets!Init
  <2>3. \A y \in Buckets!Row : next_in_bucket[y] = Buckets!NO_BUCKET_ROW  BY DEF Buckets!Init
  <2>4. Holds(Buckets!NO_BUCKET_ROW, next_in_bucket, {})  BY NoRows
  <2>. QED BY <2>1, <2>2, <2>3, <2>4 DEF ListsLinked
<1>8. CountsFit
  <2>1. \A m \in 1 .. SmallMax, d \in Buckets!Col : heads[m][d] = Buckets!NO_BUCKET_ROW
    BY <1>0 DEF Buckets!Init, Buckets!List
  <2>2. \A d \in Buckets!Col : nonempty_masks[d] = {} /\ bucket_counts[d] = 0
    BY DEF Buckets!Init
  <2>3. \A d : {y \in Buckets!Waiting : Buckets!LeadingColumn(rows[y]) = d} = {}  BY <1>4
  <2>4. Buckets!Cardinality({}) = 0  BY Sizes
  <2>. QED BY <2>1, <2>2, <2>3, <2>4 DEF CountsFit, Buckets!MasksAndCountsFit
<1>9. CachesCurrent
  <2>1. \A y \in Buckets!Row : row_weights[y] = Buckets!Weight(y)
          /\ entries[y] = Buckets!NotCached
    BY DEF Buckets!Init
  <2>. QED BY <2>1 DEF CachesCurrent, Buckets!CachedStateIsCurrent
<1>. QED BY <1>3, <1>5, <1>6, <1>7, <1>8, <1>9 DEF BucketsInv

\* Without a change of rows or lists only the control matters.
LEMMA ListsStay ==
  ASSUME BucketsInv, kind' = kind, rows' = rows, UNCHANGED Buckets!lists, UNCHANGED <<entries,
           row_weights>>,
         Buckets!Waiting' = Buckets!Waiting
  PROVE  ListsLinked' /\ CountsFit' /\ CachesCurrent'
<1>0. ListsLinked /\ CountsFit /\ CachesCurrent  BY DEF BucketsInv
<1>1. \A y : Buckets!Weight(y)' = Buckets!Weight(y) /\ Buckets!ListOf(y)' = Buckets!ListOf(y)
  BY DEF Buckets!Weight, Buckets!ListOf, Buckets!small_weight_binary_bucket_index
<1>2. \A m, c : Members(m, c)' = Members(m, c)  BY <1>1 DEF Members
<1>3. ListsLinked'  BY <1>0, <1>2 DEF ListsLinked, Buckets!lists
<1>4. CountsFit'  BY <1>0 DEF CountsFit, Buckets!MasksAndCountsFit, Buckets!lists
<1>5. CachesCurrent'  BY <1>0, <1>1 DEF CachesCurrent, Buckets!CachedStateIsCurrent
<1>. QED BY <1>3, <1>4, <1>5

\* A step that changes nothing.
LEMMA OverKeeps ==
  ASSUME BucketsInv, UNCHANGED Buckets!vars
  PROVE  BucketsInv'
<1>1. UNCHANGED <<kind, rows, filed, Buckets!lists, row_weights, entries, col, pivot,
        pivot_for_col>>
  BY DEF Buckets!vars, Buckets!lists
<1>2. Buckets!Waiting' = Buckets!Waiting  BY <1>1 DEF Buckets!Waiting, Buckets!Pivoted
<1>3. ListsLinked' /\ CountsFit' /\ CachesCurrent'  BY <1>1, <1>2, ListsStay
<1>4. BucketTypes'  BY <1>1 DEF BucketsInv, BucketTypes, Buckets!lists
<1>5. BucketControl'  BY <1>1 DEF BucketsInv, BucketControl, Buckets!Weight
<1>6. WaitingBegin'  BY <1>1, <1>2 DEF BucketsInv, WaitingBegin
<1>. QED BY <1>3, <1>4, <1>5, <1>6 DEF BucketsInv

\* If no row is left in the column, all begin behind it.
LEMMA ColumnDone ==
  ASSUME Buckets!BucketAssumption, BucketsInv, col \in Buckets!Col, ~Buckets!Anything
  PROVE  Here = {} /\ \A y \in Buckets!Waiting, d \in Buckets!Col : d < col + 1
           => rows[y][d] = Buckets!Zero
<1>1. Here = {}  BY TakenFrom
<1>2. ASSUME NEW y \in Buckets!Waiting, NEW d \in Buckets!Col,
        d < col + 1 PROVE rows[y][d] = Buckets!Zero
  <2>0. y \in Buckets!Row /\ rows[y] \in Vector /\ d \in Int /\ col \in Int
    BY DEF Buckets!Waiting, BucketsInv, BucketTypes, Buckets!Col
  <2>1. CASE d < col  BY <2>1 DEF BucketsInv, WaitingBegin
  <2>2. CASE d = col
    <3>1. \A e \in Buckets!Col : e < col => rows[y][e] = Buckets!Zero
      BY DEF BucketsInv, WaitingBegin
    <3>2. Buckets!LeadingColumn(rows[y]) # col  BY <1>1 DEF Here
    <3>3. rows[y][col] # Buckets!Zero => Buckets!LeadingColumn(rows[y]) = col
      BY <2>0, <3>1, Leading
    <3>. QED BY <2>2, <3>2, <3>3
  <2>. QED BY <1>2, <2>0, <2>1, <2>2
<1>. QED BY <1>1, <1>2

\* A column that no row begins in is passed over.
LEMMA PassOverKeeps ==
  ASSUME Buckets!BucketAssumption, BucketsInv, Buckets!PassOver
  PROVE  BucketsInv'
<1>0. Width \in Nat  BY DEF Buckets!BucketAssumption
<1>1. UNCHANGED <<kind, rows, filed, Buckets!lists, row_weights, entries, pivot, pivot_for_col>>
      /\ col' = col + 1 /\ filed = Height /\ col < Width /\ pivot = Buckets!NO_BUCKET_ROW
         /\ ~Buckets!Anything
  BY DEF Buckets!PassOver
<1>2. Buckets!Waiting' = Buckets!Waiting  BY <1>1 DEF Buckets!Waiting, Buckets!Pivoted
<1>3. col \in Buckets!Col /\ col \in Int  BY <1>0, <1>1 DEF Buckets!Col, BucketsInv, BucketTypes
<1>4. ListsLinked' /\ CountsFit' /\ CachesCurrent'  BY <1>1, <1>2, ListsStay
<1>5. BucketTypes'
  <2>1. col' \in 0 .. Width  BY <1>0, <1>1, <1>3 DEF Buckets!Col
  <2>. QED BY <1>1, <2>1 DEF BucketsInv, BucketTypes, Buckets!lists
<1>6. BucketControl'
  <2>1. \A c \in Buckets!Col : c > col' \/ c = col' => c > col  BY <1>1, <1>3 DEF Buckets!Col
  <2>2. ~(filed' < Height)  BY <1>1 DEF Buckets!BucketAssumption
  <2>. QED BY <1>1, <2>1, <2>2 DEF BucketsInv, BucketControl
<1>7. WaitingBegin'  BY <1>1, <1>2, <1>3, ColumnDone DEF WaitingBegin
<1>. QED BY <1>4, <1>5, <1>6, <1>7 DEF BucketsInv

\* When its rows are used up, a column is done.
LEMMA NextColumnKeeps ==
  ASSUME Buckets!BucketAssumption, BucketsInv, Buckets!NextColumn
  PROVE  BucketsInv'
<1>0. Width \in Nat  BY DEF Buckets!BucketAssumption
<1>1. UNCHANGED <<kind, rows, filed, Buckets!lists, row_weights, entries, pivot_for_col>>
      /\ col' = col + 1 /\ pivot # Buckets!NO_BUCKET_ROW /\ pivot' = Buckets!NO_BUCKET_ROW
         /\ ~Buckets!Anything
  BY DEF Buckets!NextColumn
<1>2. Buckets!Waiting' = Buckets!Waiting  BY <1>1 DEF Buckets!Waiting, Buckets!Pivoted
<1>3. col \in Buckets!Col /\ col \in Int /\ filed = Height
  BY <1>1 DEF Buckets!Col, BucketsInv, BucketControl
<1>4. ListsLinked' /\ CountsFit' /\ CachesCurrent'  BY <1>1, <1>2, ListsStay
<1>5. BucketTypes'
  <2>1. col' \in 0 .. Width  BY <1>0, <1>1, <1>3 DEF Buckets!Col
  <2>. QED BY <1>1, <2>1 DEF BucketsInv, BucketTypes, Buckets!lists
<1>6. BucketControl'
  <2>1. \A c \in Buckets!Col : c > col' \/ c = col' => c > col  BY <1>1, <1>3 DEF Buckets!Col
  <2>2. ~(filed' < Height)  BY <1>1, <1>3 DEF Buckets!BucketAssumption
  <2>. QED BY <1>1, <2>1, <2>2 DEF BucketsInv, BucketControl
<1>7. WaitingBegin'  BY <1>1, <1>2, <1>3, ColumnDone DEF WaitingBegin
<1>. QED BY <1>4, <1>5, <1>6, <1>7 DEF BucketsInv

\* A row that does not wait is in no list.
LEMMA NotListed ==
  ASSUME NEW y, y \notin Buckets!Waiting
  PROVE  (\A m, d : y \notin Members(m, d)) /\ \A d : y \notin Begin(d)
BY DEF Members, Begin

\* The first rows to be filed, one after the other.
LEMMA FileRowKeeps ==
  ASSUME Buckets!BucketAssumption, BucketsInv, Buckets!FileRow
  PROVE  BucketsInv'
<1>. PICK r : r = filed  OBVIOUS
<1>. DEFINE v == rows[r]
<1>0. Height \in Nat /\ Width \in Nat /\ SmallMax \in Nat \ {0}  BY DEF Buckets!BucketAssumption
<1>1. UNCHANGED <<kind, rows, row_weights, entries, col, pivot, pivot_for_col>>
      /\ filed < Height /\ filed' = filed + 1
  BY DEF Buckets!FileRow
<1>2. BucketTypes /\ BucketControl /\ ListsLinked /\ CountsFit /\ CachesCurrent
  BY DEF BucketsInv
<1>3. col = 0 /\ pivot = Buckets!NO_BUCKET_ROW /\ r \in Buckets!Row /\ filed \in Int
  BY <1>0, <1>1, <1>2 DEF BucketControl, BucketTypes, Buckets!Row
<1>4. Buckets!Pivoted = {} /\ Buckets!Pivoted' = {}
  <2>1. \A c \in Buckets!Col : c > col \/ c = col  BY <1>0, <1>3 DEF Buckets!Col
  <2>2. \A c \in Buckets!Col : pivot_for_col[c] = Buckets!NO_BUCKET_ROW
    BY <1>2, <1>3, <2>1 DEF BucketControl
  <2>. QED BY <1>1, <2>2 DEF Buckets!Pivoted
<1>5. /\ r \notin Buckets!Waiting /\ (r \in Buckets!Waiting' <=> Buckets!Support(v) # {})
      /\ \A j \in Buckets!Row : j # r => (j \in Buckets!Waiting' <=> j \in Buckets!Waiting)
  <2>1. \A j \in Buckets!Row : j < filed + 1 <=> j < filed \/ j = filed  BY <1>3 DEF Buckets!Row
  <2>2. ~(filed < filed) /\ filed < filed + 1  BY <1>3
  <2>. QED BY <1>1, <1>3, <1>4, <2>1, <2>2 DEF Buckets!Waiting
<1>6. /\ v \in Vector /\ Buckets!Weight(r) \in Nat /\ row_weights[r] = Buckets!Weight(r)
      /\ Buckets!ListOf(r)' = Buckets!ListOf(r) /\ Buckets!ListOf(r) \in Buckets!List
  <2>1. v \in Vector /\ Buckets!Weight(r) \in Nat  BY <1>2, <1>3, WeightAndList
  <2>2. Buckets!ListOf(r) \in Buckets!List  BY <1>2, <2>1, WeightAndList DEF Buckets!ListOf
  <2>3. row_weights[r] = Buckets!Weight(r)  BY <1>1, <1>2, <1>3 DEF BucketControl
  <2>4. Buckets!ListOf(r)' = Buckets!ListOf(r)
    BY <1>1 DEF Buckets!ListOf, Buckets!Weight, Buckets!small_weight_binary_bucket_index
  <2>. QED BY <2>1, <2>2, <2>3, <2>4
<1>7. /\ \A m, c : Members(m, c)' \ {r} = Members(m, c)
      /\ \A m, c : r \in Members(m, c)' <=> Buckets!Support(v) # {}
         /\ Buckets!LeadingColumn(v) = c /\ Buckets!ListOf(r) = m
      /\ \A c : Begin(c)' \ {r} = Begin(c)
      /\ \A c : r \in Begin(c)' <=> Buckets!Support(v) # {} /\ Buckets!LeadingColumn(v) = c
      /\ \A m, c : r \notin Members(m, c) /\ r \notin Begin(c)
  <2>1. (\A m, c : r \notin Members(m, c)) /\ \A c : r \notin Begin(c)  BY <1>5, NotListed
  <2>2. \A m, c : Members(m, c) \ {r} = Members(m, c) /\ Begin(c) \ {r} = Begin(c)  BY <2>1
  <2>3. /\ \A m, c : Members(m, c)' \ {r} = Members(m, c) \ {r}
        /\ \A m, c : r \in Members(m, c)' <=>
             r \in Buckets!Waiting' /\ Buckets!LeadingColumn(rows'[r]) = c
                 /\ Buckets!ListOf(r)' = m
        /\ \A c : Begin(c)' \ {r} = Begin(c) \ {r}
        /\ \A c : r \in Begin(c)' <=> r \in Buckets!Waiting'
           /\ Buckets!LeadingColumn(rows'[r]) = c
    <3>1. kind' = kind /\ \A j \in Buckets!Row : j # r => rows'[j] = rows[j]
            /\ (j \in Buckets!Waiting' <=> j \in Buckets!Waiting)
      BY <1>1, <1>5
    <3>. QED BY <1>3, <3>1, AllButOne
  <2>. QED BY <1>1, <1>5, <1>6, <2>1, <2>2, <2>3
<1>8. BucketControl' /\ WaitingBegin'
  <2>1. BucketControl'
    <3>1. \A j \in Buckets!Row : Buckets!Weight(j)' = Buckets!Weight(j)
      BY <1>1 DEF Buckets!Weight
    <3>. QED BY <1>1, <1>2, <1>3, <3>1 DEF BucketControl
  <2>2. \A d \in Buckets!Col : ~(d < col')  BY <1>0, <1>1, <1>3 DEF Buckets!Col
  <2>. QED BY <2>1, <2>2 DEF WaitingBegin
<1>9. CachesCurrent'
  <2>1. \A j \in Buckets!Row : Buckets!Weight(j)' = Buckets!Weight(j)
    BY <1>1 DEF Buckets!Weight
  <2>. QED BY <1>1, <1>2, <2>1 DEF CachesCurrent, Buckets!CachedStateIsCurrent
<1>10. filed' \in 0 .. Height  BY <1>0, <1>1, <1>3 DEF Buckets!Row
<1>11. CASE Buckets!Support(v) = {}
  <2>1. UNCHANGED Buckets!lists  BY <1>11 DEF Buckets!FileRow
  <2>2. \A m, c : Members(m, c)' = Members(m, c) /\ Begin(c)' = Begin(c)  BY <1>7, <1>11
  <2>3. Buckets!Row \ Buckets!Waiting' = Buckets!Row \ Buckets!Waiting  BY <1>5, <1>11
  <2>4. ListsLinked'  BY <1>2, <2>1, <2>2, <2>3 DEF ListsLinked, Buckets!lists
  <2>5. CountsFit'
    BY <1>1, <1>2, <2>1, <2>2 DEF CountsFit, Buckets!MasksAndCountsFit, Buckets!lists, Begin
  <2>6. BucketTypes'  BY <1>1, <1>2, <1>10, <2>1 DEF BucketTypes, Buckets!lists
  <2>. QED BY <1>8, <1>9, <2>4, <2>5, <2>6 DEF BucketsInv
<1>12. CASE Buckets!Support(v) # {}
  <2>0. PICK l, c : l = Buckets!ListOf(r) /\ c = Buckets!LeadingColumn(v)  OBVIOUS
  <2>1. c \in Buckets!Col /\ l \in Buckets!List  BY <1>6, <1>12, <2>0, Leading
  <2>2. Buckets!push_row_bucket(r, c, row_weights[r])  BY <1>12, <2>0 DEF Buckets!FileRow
  <2>3. Buckets!small_weight_binary_bucket_index(row_weights[r]) = l
    BY <1>6, <2>0 DEF Buckets!ListOf
  <2>4. /\ next_in_bucket' = [next_in_bucket EXCEPT ![r] = heads[l][c]]
        /\ heads' = [heads EXCEPT ![l][c] = r]
        /\ nonempty_masks' = IF kind \in Buckets!Cached /\ l > 0
                             THEN [nonempty_masks EXCEPT ![c] = @ \cup {l}] ELSE nonempty_masks
        /\ bucket_counts' = IF kind = "counted"
                            THEN [bucket_counts EXCEPT ![c] = @ + 1] ELSE bucket_counts
    BY <2>2, <2>3 DEF Buckets!push_row_bucket
  <2>5. HeadSet(heads', heads, l, c, r)
          /\ heads' \in [Buckets!List -> [Buckets!Col -> Buckets!Row
             \cup {Buckets!NO_BUCKET_ROW}]]
    BY <1>2, <1>3, <2>1, <2>4 DEF HeadSet, BucketTypes
  <2>6. /\ LinkSet(next_in_bucket', next_in_bucket, r, heads[l][c])
        /\ next_in_bucket' \in [Buckets!Row -> Buckets!Row \cup {Buckets!NO_BUCKET_ROW}]
    BY <1>2, <1>3, <2>1, <2>4 DEF BucketTypes, LinkSet
  <2>7. /\ Holds(heads'[l][c], next_in_bucket', Members(l, c) \cup {r})
        /\ \A m \in Buckets!List, d \in Buckets!Col : m # l \/ d # c
           => Holds(heads'[m][d], next_in_bucket', Members(m, d))
    <3>1. ListRows \in ListSets /\ AllHold(heads, next_in_bucket, ListRows)
          /\ \A m \in Buckets!List, d \in Buckets!Col : ListRows[m][d] = Members(m, d)
      BY RowsOfLists
    <3>2. Unlisted(r, ListRows)  BY <1>7, <3>1 DEF Unlisted
    <3>3. /\ Holds(heads'[l][c], next_in_bucket', ListRows[l][c] \cup {r})
          /\ \A m \in Buckets!List, d \in Buckets!Col : m # l \/ d # c
             => Holds(heads'[m][d], next_in_bucket', ListRows[m][d])
      <4>1. r \in Buckets!Row  BY <1>3
      <4>2. HeadSet(heads', heads, l, c, r)  BY <2>5
      <4>3. LinkSet(next_in_bucket', next_in_bucket, r, heads[l][c])  BY <2>6
      <4>4. l \in Buckets!List /\ c \in Buckets!Col  BY <2>1
      <4>5. ListRows \in ListSets /\ AllHold(heads, next_in_bucket, ListRows)  BY <3>1
      <4>6. Holds(heads'[l][c], next_in_bucket', ListRows[l][c] \cup {r})
            /\ OthersHold(heads', next_in_bucket', ListRows, l, c)
        BY ONLY <3>2, <4>1, <4>2, <4>3, <4>4, <4>5, ListPut
      <4>. QED BY <4>6 DEF OthersHold
    <3>. QED BY <2>1, <3>1, <3>3
  <2>8. /\ Members(l, c)' = Members(l, c) \cup {r} /\ Begin(c)' = Begin(c) \cup {r}
        /\ \A m, d : m # l \/ d # c => Members(m, d)' = Members(m, d)
        /\ \A d : d # c => Begin(d)' = Begin(d)
    BY <1>7, <1>12, <2>0
  <2>9. ListsLinked'
    <3>1. \A m \in Buckets!List, d \in Buckets!Col :
            Holds(heads'[m][d], next_in_bucket', Members(m, d)')
      <4>. TAKE m \in Buckets!List, d \in Buckets!Col
      <4>1. CASE m = l /\ d = c  BY <2>7, <2>8, <4>1
      <4>2. CASE m # l \/ d # c  BY <2>7, <2>8, <4>2
      <4>. QED BY <4>1, <4>2
    <3>2. \A x \in Buckets!Row \ Buckets!Waiting' : next_in_bucket'[x] = Buckets!NO_BUCKET_ROW
      <4>. TAKE x \in Buckets!Row \ Buckets!Waiting'
      <4>1. x # r /\ x \in Buckets!Row \ Buckets!Waiting  BY <1>5, <1>12
      <4>. QED BY <1>2, <2>6, <4>1 DEF ListsLinked, LinkSet
    <3>. QED BY <3>1, <3>2 DEF ListsLinked
  <2>10. nonempty_masks' \in Masks
           /\ (kind \in Buckets!Cached => MaskFits(nonempty_masks', heads'))
    <3>1. r # Buckets!NO_BUCKET_ROW  BY <1>0, <1>3 DEF Buckets!NO_BUCKET_ROW, Buckets!Row
    <3>2. nonempty_masks \in Masks
            /\ (kind \in Buckets!Cached => MaskFits(nonempty_masks, heads))
      BY <1>2 DEF CountsFit, Buckets!MasksAndCountsFit, BucketTypes, Masks, MaskFits
    <3>3. CASE kind \in Buckets!Cached /\ l > 0
      <4>1. nonempty_masks' = [nonempty_masks EXCEPT ![c] = @ \cup {l}]  BY <2>4, <3>3
      <4>2. l \in 1 .. SmallMax  BY <1>0, <2>1, <3>3 DEF Buckets!List
      <4>3. nonempty_masks' \in Masks
            /\ MaskSet(nonempty_masks', nonempty_masks, c, nonempty_masks[c] \cup {l})
        BY <2>1, <3>2, <4>1, <4>2 DEF Masks, MaskSet
      <4>4. MaskFits(nonempty_masks', heads')
        BY <2>1, <2>5, <3>1, <3>2, <3>3, <4>3, MaskChanges
      <4>. QED BY <4>3, <4>4
    <3>4. CASE ~(kind \in Buckets!Cached /\ l > 0)
      <4>1. nonempty_masks' = nonempty_masks  BY <2>4, <3>4
      <4>2. kind \in Buckets!Cached => l = 0  BY <1>0, <2>1, <3>4 DEF Buckets!List
      <4>. QED BY <2>1, <2>5, <3>2, <4>1, <4>2, MaskChanges
    <3>. QED BY <3>3, <3>4
  <2>11. bucket_counts' \in [Buckets!Col -> Int]
         /\ IF kind = "counted" THEN \A d \in Buckets!Col : bucket_counts'[d]
            = Buckets!Cardinality(Begin(d)')
            ELSE \A d \in Buckets!Col : bucket_counts'[d] = 0
    <3>1. CASE kind = "counted"
      <4>1. bucket_counts' = [bucket_counts EXCEPT ![c] = @ + 1]  BY <2>4, <3>1
      <4>2. \A d \in Buckets!Col : bucket_counts[d] = Buckets!Cardinality(Begin(d))
        BY <1>2, <3>1 DEF CountsFit, Buckets!MasksAndCountsFit, Begin
      <4>3. bucket_counts \in [Buckets!Col -> Int]  BY <1>2 DEF BucketTypes
      <4>4. Begin(c) \in SUBSET Buckets!Row  BY DEF Begin, Buckets!Waiting
      <4>5. r \in Buckets!Row \ Begin(c)  BY <1>3, <1>7
      <4>6. Buckets!Cardinality(Begin(c) \cup {r}) = Buckets!Cardinality(Begin(c)) + 1
        BY <4>4, <4>5, Sizes
      <4>7. \A d \in Buckets!Col : bucket_counts'[d] = Buckets!Cardinality(Begin(d)')
        <5>. TAKE d \in Buckets!Col
        <5>1. CASE d = c
          <6>1. bucket_counts'[c] = bucket_counts[c] + 1  BY <2>1, <4>1, <4>3
          <6>. QED BY <2>1, <2>8, <4>2, <4>6, <5>1, <6>1
        <5>2. CASE d # c
          <6>1. bucket_counts'[d] = bucket_counts[d]  BY <4>1, <4>3, <5>2
          <6>. QED BY <2>8, <4>2, <5>2, <6>1
        <5>. QED BY <5>1, <5>2
      <4>8. bucket_counts' \in [Buckets!Col -> Int]  BY <2>1, <4>1, <4>3
      <4>. QED BY <3>1, <4>7, <4>8
    <3>2. CASE kind # "counted"
      BY <1>2, <2>4, <3>2 DEF CountsFit, BucketTypes
    <3>. QED BY <3>1, <3>2
  <2>12. CountsFit'
    BY <1>1, <2>10, <2>11 DEF CountsFit, Buckets!MasksAndCountsFit, MaskFits, Begin
  <2>13. BucketTypes'
    BY <1>1, <1>2, <1>10, <2>5, <2>6, <2>10, <2>11 DEF BucketTypes, Masks
  <2>. QED BY <1>8, <1>9, <2>9, <2>12, <2>13 DEF BucketsInv
<1>. QED BY <1>11, <1>12

\* Links end in rows, and those of rows that do not wait and of p nowhere.
LinksEnd(nx, p) ==
  /\ \A x \in Buckets!Row : nx[x] \in Buckets!Row \cup {Buckets!NO_BUCKET_ROW}
  /\ nx[p] = Buckets!NO_BUCKET_ROW
     /\ \A x \in Buckets!Row \ Buckets!Waiting : nx[x] = Buckets!NO_BUCKET_ROW

\* A row is taken out of a list of the column: the other lists hold what they
\* held, and the mask is that of the new heads.
LEMMA Taken ==
  ASSUME Buckets!BucketAssumption, BucketsInv, col \in Buckets!Col, NEW l \in Buckets!List,
           NEW q,
         Linked(q, heads[l][col], next_in_bucket), RowsOf(q) = Members(l, col),
         NEW k \in 1 .. Len(q), NEW g,
         g = IF k = 1 THEN next_in_bucket[q[k]] ELSE heads[l][col],
         NEW H1, HeadSet(H1, heads, l, col, g), NEW nx1, LinksAre(nx1, next_in_bucket, q, k)
  PROVE  /\ HoldWithout(H1, nx1, ListRows, q[k])
         /\ q[k] \in Buckets!Row /\ q[k] \in Here /\ Buckets!ListOf(q[k]) = l
            /\ g \in Buckets!Row \cup {Buckets!NO_BUCKET_ROW}
         /\ Buckets!MaskAfter(l, g) \in Masks
            /\ (kind \in Buckets!Cached => MaskFits(Buckets!MaskAfter(l, g), H1))
         /\ LinksEnd(nx1, q[k])
<1>0. SmallMax \in Nat \ {0} /\ BucketTypes /\ ListsLinked /\ CountsFit
  BY DEF Buckets!BucketAssumption, BucketsInv
<1>1. q \in Seq(Buckets!Row) /\ \A j \in 1 .. Len(q) : q[j] \in Buckets!Row
        /\ q[j] \in Members(l, col)
  <2>1. q \in Seq(Buckets!Row)  BY DEF Linked
  <2>2. \A j \in 1 .. Len(q) : q[j] \in Buckets!Row  BY ONLY <2>1
  <2>3. \A j \in 1 .. Len(q) : q[j] \in Members(l, col)  BY DEF RowsOf
  <2>. QED BY <2>1, <2>2, <2>3
<1>2. q[k] \in Buckets!Row /\ q[k] \in Here /\ Buckets!ListOf(q[k]) = l
  BY <1>1 DEF Members, Here
<1>3. \A j \in Buckets!Row : next_in_bucket[j] \in Buckets!Row \cup {Buckets!NO_BUCKET_ROW}
  BY <1>0 DEF BucketTypes
<1>4. heads[l][col] \in Buckets!Row \cup {Buckets!NO_BUCKET_ROW}  BY <1>0 DEF BucketTypes
<1>5. g \in Buckets!Row \cup {Buckets!NO_BUCKET_ROW}  BY <1>2, <1>3, <1>4
<1>6. HoldWithout(H1, nx1, ListRows, q[k])
  <2>. DEFINE S == ListRows
  <2>1. S \in ListSets /\ Apart(S) /\ AllHold(heads, next_in_bucket, S)
          /\ S[l][col] = Members(l, col)
    BY RowsOfLists
  <2>. HIDE DEF S
  <2>2. RowsOf(q) = S[l][col]  BY <2>1
  <2>3. HoldWithout(H1, nx1, S, q[k])  BY <2>1, <2>2, ListTaken
  <2>. QED BY <2>3 DEF S
<1>7. \A x \in Buckets!Row : nx1[x] \in Buckets!Row \cup {Buckets!NO_BUCKET_ROW}
  BY <1>2, <1>3 DEF LinksAre
<1>8. nx1[q[k]] = Buckets!NO_BUCKET_ROW  BY <1>2 DEF LinksAre
<1>9. ASSUME NEW x \in Buckets!Row \ Buckets!Waiting PROVE nx1[x] = Buckets!NO_BUCKET_ROW
  <2>1. k > 1 => k - 1 \in 1 .. Len(q)  BY <1>1
  <2>2. k > 1 => q[k - 1] \in Buckets!Waiting  BY <1>1, <2>1 DEF Members
  <2>3. next_in_bucket[x] = Buckets!NO_BUCKET_ROW  BY <1>0 DEF ListsLinked
  <2>. QED BY <2>2, <2>3 DEF LinksAre
<1>10. heads[l][col] # Buckets!NO_BUCKET_ROW
  <2>1. Holds(heads[l][col], next_in_bucket, Members(l, col))  BY <1>0 DEF ListsLinked
  <2>2. Members(l, col) # {}  BY <1>1
  <2>. QED BY <2>1, <2>2, HeadOfList
<1>11. Buckets!MaskAfter(l, g) \in Masks
         /\ (kind \in Buckets!Cached => MaskFits(Buckets!MaskAfter(l, g), H1))
  <2>. PICK old : old = nonempty_masks  OBVIOUS
  <2>1. old \in Masks /\ (kind \in Buckets!Cached => MaskFits(old, heads))
    BY <1>0 DEF CountsFit, Buckets!MasksAndCountsFit, BucketTypes, Masks, MaskFits
  <2>2. CASE kind \in Buckets!Cached /\ l > 0 /\ g = Buckets!NO_BUCKET_ROW
    <3>1. Buckets!MaskAfter(l, g) = [old EXCEPT ![col] = @ \ {l}]  BY <2>2 DEF Buckets!MaskAfter
    <3>2. Buckets!MaskAfter(l, g) \in Masks
            /\ MaskSet(Buckets!MaskAfter(l, g), old, col, old[col] \ {l})
      BY <2>1, <3>1 DEF Masks, MaskSet
    <3>3. MaskFits(Buckets!MaskAfter(l, g), H1)  BY <2>1, <2>2, <3>2, MaskChanges
    <3>. QED BY <3>2, <3>3
  <2>3. CASE ~(kind \in Buckets!Cached /\ l > 0 /\ g = Buckets!NO_BUCKET_ROW)
    <3>1. Buckets!MaskAfter(l, g) = old  BY <2>3 DEF Buckets!MaskAfter
    <3>2. kind \in Buckets!Cached => l = 0
            \/ (g # Buckets!NO_BUCKET_ROW /\ heads[l][col] # Buckets!NO_BUCKET_ROW)
      BY <1>10, <2>3 DEF Buckets!List
    <3>3. kind \in Buckets!Cached => MaskFits(old, H1)
      <4>. HAVE kind \in Buckets!Cached
      <4>1. MaskFits(old, heads)  BY <2>1
      <4>. QED BY <3>2, <4>1, MaskStays
    <3>. QED BY <2>1, <3>1, <3>3
  <2>. QED BY <2>2, <2>3
<1>. QED BY <1>2, <1>5, <1>6, <1>7, <1>8, <1>9, <1>11 DEF LinksEnd

\* Rows are not counted twice where they begin.
LEMMA Counted ==
  ASSUME Buckets!BucketAssumption, BucketsInv, kind = "counted"
  PROVE  /\ \A d \in Buckets!Col : bucket_counts[d] = Buckets!Cardinality(Begin(d))
            /\ Begin(d) \in SUBSET Buckets!Row
         /\ bucket_counts \in [Buckets!Col -> Int] /\ Here = Begin(col)
BY DEF BucketsInv, BucketTypes, CountsFit, Buckets!MasksAndCountsFit, Begin, Here,
   Buckets!Waiting

\* A row of the column as it will be when the pivot has been added.
LEMMA SumOfRow ==
  ASSUME Buckets!BucketAssumption, BucketsInv, pivot # Buckets!NO_BUCKET_ROW, NEW y \in Here
  PROVE  /\ y \in Buckets!Row /\ y # pivot /\ pivot \in Buckets!Row /\ col \in Buckets!Col
            /\ Buckets!Sum(y) \in Vector
         /\ \A d \in Buckets!Col : d < col + 1 => Buckets!Sum(y)[d] = Buckets!Zero
         /\ Buckets!Support(Buckets!Sum(y)) # {}
            => Buckets!LeadingColumn(Buckets!Sum(y)) \in Buckets!Col
                /\ Buckets!LeadingColumn(Buckets!Sum(y)) > col
         /\ kind \in Buckets!BinaryKinds =>
              /\ Ones(Buckets!Sum(y))
              /\ Buckets!Support(Buckets!Sum(y))
                 = (Buckets!Support(rows[y]) \ Buckets!Support(rows[pivot]))
                                     \cup (Buckets!Support(rows[pivot]) \ Buckets!Support(rows[y]))
<1>1. y \in Buckets!Waiting /\ y \in Buckets!Row /\ Buckets!Support(rows[y]) # {}
        /\ Buckets!LeadingColumn(rows[y]) = col
  BY DEF Here, Buckets!Waiting
<1>2. pivot \in Buckets!Row /\ col \in Buckets!Col /\ pivot_for_col[col] = pivot
        /\ rows[pivot][col] = Buckets!One
      /\ \A d \in Buckets!Col : d < col => rows[pivot][d] = Buckets!Zero
  BY DEF BucketsInv, BucketTypes, BucketControl
<1>3. y # pivot
  <2>1. pivot \in Buckets!Pivoted  BY <1>2 DEF Buckets!Pivoted
  <2>. QED BY <1>1, <2>1 DEF Buckets!Waiting
<1>4. rows[y] \in Vector /\ rows[pivot] \in Vector  BY <1>1, <1>2 DEF BucketsInv, BucketTypes
<1>5. rows[y][col] # Buckets!Zero /\ \A d \in Buckets!Col : d < col => rows[y][d] = Buckets!Zero
  BY <1>1, <1>4, Leading
<1>6. kind \in Buckets!BinaryKinds => Ones(rows[y]) /\ Ones(rows[pivot])
  BY <1>1, <1>2 DEF BucketsInv, BucketTypes
<1>7. /\ Buckets!Sum(y) \in Vector
      /\ \A d \in Buckets!Col : d <= col => Buckets!Sum(y)[d] = Buckets!Zero
      /\ Buckets!Support(Buckets!Sum(y)) # {}
         => Buckets!LeadingColumn(Buckets!Sum(y)) \in Buckets!Col
             /\ Buckets!LeadingColumn(Buckets!Sum(y)) > col
      /\ Ones(rows[y]) /\ Ones(rows[pivot]) => Ones(Buckets!Sum(y))
      /\ Ones(rows[y]) /\ Ones(rows[pivot]) /\ rows[y][col] # Buckets!Zero =>
           Buckets!Support(Buckets!Sum(y))
               = (Buckets!Support(rows[y]) \ Buckets!Support(rows[pivot]))
                               \cup (Buckets!Support(rows[pivot]) \ Buckets!Support(rows[y]))
  BY <1>2, <1>4, <1>5, ClearedRow DEF Buckets!Sum
<1>8. \A d \in Buckets!Col : d < col + 1 => d <= col  BY <1>2 DEF Buckets!Col
<1>. QED BY <1>1, <1>2, <1>3, <1>5, <1>6, <1>7, <1>8

\* The weight kept of it is its weight, however it is found.
LEMMA WeightKept ==
  ASSUME Buckets!BucketAssumption, BucketsInv, pivot # Buckets!NO_BUCKET_ROW, NEW y \in Here,
           kind \in Buckets!Cached
  PROVE  Buckets!WeightAfter(y) = Buckets!Cardinality(Buckets!Support(Buckets!Sum(y)))
<1>. DEFINE A == Buckets!Support(rows[y])
            B == Buckets!Support(rows[pivot])
<1>1. y \in Buckets!Row /\ pivot \in Buckets!Row /\ kind \in Buckets!BinaryKinds
  BY SumOfRow DEF Buckets!BinaryKinds
<1>2. Buckets!Support(Buckets!Sum(y)) = (A \ B) \cup (B \ A)  BY <1>1, SumOfRow
<1>3. \A j \in Buckets!Row : Buckets!CachedEntries(j) = Buckets!Support(rows[j])
  BY DEF Buckets!CachedEntries, BucketsInv, CachesCurrent, Buckets!CachedStateIsCurrent
<1>4. A \in SUBSET Buckets!Col /\ B \in SUBSET Buckets!Col
  BY <1>1, WeightAndList DEF BucketsInv
<1>5. row_weights[y] = Buckets!Cardinality(A)
  BY <1>1 DEF BucketsInv, CachesCurrent, Buckets!CachedStateIsCurrent, Buckets!Weight
<1>6. Buckets!Cardinality((A \ B) \cup (B \ A))
        = Buckets!Cardinality(A) + Buckets!Cardinality(B \ A) - Buckets!Cardinality(B \cap A)
  BY <1>4, Sizes
<1>. HIDE DEF A, B
<1>7. Buckets!CachedEntries(y) = A /\ Buckets!CachedEntries(pivot) = B  BY <1>1, <1>3 DEF A, B
<1>8. Buckets!sorted_u16_symmetric_difference(A, B) = (A \ B) \cup (B \ A)
  BY DEF Buckets!sorted_u16_symmetric_difference
<1>9. Buckets!xor_u16_columns_update_weight(y)
        = Buckets!Cardinality(A) + Buckets!Cardinality(B \ A) - Buckets!Cardinality(B \cap A)
  BY <1>5, <1>7 DEF Buckets!xor_u16_columns_update_weight, A
<1>10. CASE Buckets!LightPivot /\ Buckets!LightRow(y)
  <2>1. Buckets!WeightAfter(y) =
          Buckets!Cardinality(Buckets!sorted_u16_symmetric_difference(Buckets!CachedEntries(y),
              Buckets!CachedEntries(pivot)))
    BY <1>10 DEF Buckets!WeightAfter, Buckets!LightPivot
  <2>. QED BY <1>2, <1>7, <1>8, <2>1
<1>11. CASE Buckets!LightPivot /\ ~Buckets!LightRow(y)
  <2>1. Buckets!WeightAfter(y) = Buckets!xor_u16_columns_update_weight(y)
    BY <1>11 DEF Buckets!WeightAfter, Buckets!LightPivot
  <2>. QED BY <1>2, <1>6, <1>9, <2>1
<1>12. CASE ~Buckets!LightPivot
  BY <1>12 DEF Buckets!WeightAfter
<1>. QED BY <1>10, <1>11, <1>12

\* Heads, links, masks and counts after a row has left its list.
LEMMA TakeSteps ==
  ASSUME BucketTypes, NEW q, NEW l \in Buckets!List, Buckets!Chain(l, col) = q,
           NEW k \in 1 .. Len(q), col \in Buckets!Col,
         q[k] \in Buckets!Row, Buckets!Take(l, k),
         NEW g, g = IF k = 1 THEN next_in_bucket[q[k]] ELSE heads[l][col],
         g \in Buckets!Row \cup {Buckets!NO_BUCKET_ROW}
  PROVE  /\ HeadSet(heads', heads, l, col, g)
         /\ heads' \in [Buckets!List -> [Buckets!Col -> Buckets!Row
            \cup {Buckets!NO_BUCKET_ROW}]]
         /\ LinksAre(next_in_bucket', next_in_bucket, q, k)
         /\ DOMAIN next_in_bucket' = Buckets!Row
         /\ nonempty_masks' = Buckets!MaskAfter(l, g)
         /\ bucket_counts' = IF kind = "counted"
                             THEN [bucket_counts EXCEPT ![col] = @ - 1] ELSE bucket_counts
         /\ next_in_bucket' = [x \in Buckets!Row |-> next_in_bucket'[x]]
<1>1. heads' = [heads EXCEPT ![l][col] = g]  BY DEF Buckets!Take
<1>2. HeadSet(heads', heads, l, col, g)
        /\ heads' \in [Buckets!List -> [Buckets!Col -> Buckets!Row
           \cup {Buckets!NO_BUCKET_ROW}]]
  BY <1>1 DEF BucketTypes, HeadSet
<1>3. next_in_bucket' = Buckets!LinksAfter(l, k)  BY DEF Buckets!Take
<1>4. LinksAre(next_in_bucket', next_in_bucket, q, k) /\ DOMAIN next_in_bucket' = Buckets!Row
      /\ next_in_bucket' = [x \in Buckets!Row |-> next_in_bucket'[x]]
  BY <1>3 DEF Buckets!LinksAfter, LinksAre
<1>5. nonempty_masks' = Buckets!MaskAfter(l, g)  BY DEF Buckets!Take
<1>6. bucket_counts' = IF kind = "counted"
                       THEN [bucket_counts EXCEPT ![col] = @ - 1] ELSE bucket_counts
  BY DEF Buckets!Take
<1>. QED BY <1>2, <1>4, <1>5, <1>6

\* When nothing is left of a row that was taken, the others wait as before.
LEMMA OneLess ==
  ASSUME Buckets!BucketAssumption, BucketsInv, col \in Buckets!Col, kind' = kind, NEW p \in Here,
           p \in Buckets!Row,
         \A j \in Buckets!Row : j # p => rows'[j] = rows[j]
             /\ (j \in Buckets!Waiting' <=> j \in Buckets!Waiting),
         p \notin Buckets!Waiting',
         HoldWithout(heads', next_in_bucket', ListRows, p),
         next_in_bucket'[p] = Buckets!NO_BUCKET_ROW,
         \A x \in Buckets!Row \ Buckets!Waiting : next_in_bucket'[x] = Buckets!NO_BUCKET_ROW,
         kind \in Buckets!Cached => MaskFits(nonempty_masks', heads'),
         bucket_counts' = IF kind = "counted"
                          THEN [bucket_counts EXCEPT ![col] = @ - 1] ELSE bucket_counts
  PROVE  ListsLinked' /\ CountsFit' /\ bucket_counts' \in [Buckets!Col -> Int]
<1>0. /\ \A m, c : Members(m, c)' \ {p} = Members(m, c) \ {p}
      /\ \A m, c : p \in Members(m, c)' <=>
           p \in Buckets!Waiting' /\ Buckets!LeadingColumn(rows'[p]) = c
               /\ Buckets!ListOf(p)' = m
      /\ \A c : Begin(c)' \ {p} = Begin(c) \ {p}
      /\ \A c : p \in Begin(c)' <=> p \in Buckets!Waiting'
         /\ Buckets!LeadingColumn(rows'[p]) = c
  BY AllButOne
<1>1. /\ \A m, c : Members(m, c)' = Members(m, c) \ {p}
      /\ \A c : Begin(c)' = Begin(c) \ {p}
  <2>1. (\A m, c : p \notin Members(m, c)') /\ \A c : p \notin Begin(c)'  BY <1>0
  <2>. QED BY <1>0, <2>1
<1>2. ListsLinked'
  <2>1. \A m \in Buckets!List, d \in Buckets!Col : ListRows[m][d] = Members(m, d)
    BY RowsOfLists
  <2>2. \A m \in Buckets!List, d \in Buckets!Col :
          Holds(heads'[m][d], next_in_bucket', Members(m, d)')
    BY <1>1, <2>1 DEF HoldWithout
  <2>3. \A x \in Buckets!Row \ Buckets!Waiting' : next_in_bucket'[x] = Buckets!NO_BUCKET_ROW
    <3>. TAKE x \in Buckets!Row \ Buckets!Waiting'
    <3>1. x = p \/ x \in Buckets!Row \ Buckets!Waiting  OBVIOUS
    <3>. QED BY <3>1
  <2>. QED BY <2>2, <2>3 DEF ListsLinked
<1>3. bucket_counts' \in [Buckets!Col -> Int]
      /\ IF kind = "counted" THEN \A d \in Buckets!Col : bucket_counts'[d]
         = Buckets!Cardinality(Begin(d)')
         ELSE \A d \in Buckets!Col : bucket_counts'[d] = 0
  <2>1. CASE kind = "counted"
    <3>1. bucket_counts' = [bucket_counts EXCEPT ![col] = @ - 1]  BY <2>1
    <3>2. /\ \A d \in Buckets!Col : bucket_counts[d] = Buckets!Cardinality(Begin(d))
             /\ Begin(d) \in SUBSET Buckets!Row
          /\ bucket_counts \in [Buckets!Col -> Int] /\ Here = Begin(col)
      BY <2>1, Counted
    <3>3. Buckets!Cardinality(Begin(col) \ {p}) = Buckets!Cardinality(Begin(col)) - 1
      BY <3>2, Sizes
    <3>4. \A d \in Buckets!Col : bucket_counts'[d] = Buckets!Cardinality(Begin(d)')
      <4>. TAKE d \in Buckets!Col
      <4>1. CASE d = col
        <5>1. bucket_counts'[col] = bucket_counts[col] - 1  BY <3>1, <3>2
        <5>2. Begin(d)' = Begin(col) \ {p}  BY <1>1, <4>1
        <5>. QED BY <3>2, <3>3, <4>1, <5>1, <5>2
      <4>2. CASE d # col
        <5>1. bucket_counts'[d] = bucket_counts[d]  BY <3>1, <3>2, <4>2
        <5>2. p \notin Begin(d)  BY <4>2 DEF Begin, Here
        <5>3. Begin(d)' = Begin(d)  BY <1>1, <5>2
        <5>. QED BY <3>2, <5>1, <5>3
      <4>. QED BY <4>1, <4>2
    <3>5. bucket_counts' \in [Buckets!Col -> Int]  BY <3>1, <3>2
    <3>. QED BY <2>1, <3>4, <3>5
  <2>2. CASE kind # "counted"
    BY <2>2 DEF BucketsInv, CountsFit, BucketTypes
  <2>. QED BY <2>1, <2>2
<1>4. CountsFit'
  BY <1>3 DEF CountsFit, Buckets!MasksAndCountsFit, MaskFits, Begin
<1>. QED BY <1>2, <1>3, <1>4

\* The row that becomes the pivot, and what it becomes.
LEMMA PopLightestFacts ==
  ASSUME Buckets!BucketAssumption, BucketsInv, Buckets!PopLightest
  PROVE  /\ col \in Buckets!Col /\ pivot = Buckets!NO_BUCKET_ROW /\ filed = Height
         /\ UNCHANGED <<kind, filed, row_weights, entries, col>>
         /\ \E l \in Buckets!List, q \in Seq(Buckets!Row) : \E k \in 1 .. Len(q) :
              /\ l = Buckets!ListToTake /\ Buckets!Chain(l, col) = q
              /\ Linked(q, heads[l][col], next_in_bucket) /\ RowsOf(q) = Members(l, col)
              /\ Buckets!Take(l, k) /\ pivot' = q[k]
              /\ pivot_for_col' = [pivot_for_col EXCEPT ![col] = q[k]]
              /\ rows' = [rows EXCEPT ![q[k]] = Buckets!Lead(q[k])]
              /\ \A j \in Here : Buckets!Weight(q[k]) <= Buckets!Weight(j)
<1>1. col \in Buckets!Col /\ pivot = Buckets!NO_BUCKET_ROW /\ filed = Height /\ Buckets!Anything
      /\ UNCHANGED <<kind, filed, row_weights, entries, col>>
  BY DEF Buckets!PopLightest, BucketsInv, BucketTypes, Buckets!BucketAssumption, Buckets!Col
<1>2. PICK l, k : l = Buckets!ListToTake
        /\ k = IF l = 0 THEN Buckets!PlaceOfLightest ELSE 1  OBVIOUS
<1>3. PICK q \in Seq(Buckets!Row) : /\ Linked(q, heads[l][col], next_in_bucket)
                                    /\ RowsOf(q) = Members(l, col) /\ Buckets!Chain(l, col) = q
  BY <1>1, <1>2, TakenFrom
<1>4. l \in Buckets!List /\ Here # {}  BY <1>1, <1>2, TakenFrom
<1>5. k \in 1 .. Len(q) /\ \A j \in Here : Buckets!Weight(q[k]) <= Buckets!Weight(j)
  <2>1. CASE l = 0
    <3>1. k = Buckets!PlaceOfLightest /\ Buckets!Chain(0, col) = q /\ Buckets!ListToTake = 0
      BY <1>2, <1>3, <2>1
    <3>. QED BY <1>1, <1>4, <3>1, LightestFound
  <2>2. CASE l # 0
    <3>1. k = 1 /\ l > 0  BY <1>2, <1>4, <2>2 DEF Buckets!List
    <3>2. q # <<>>  BY <1>1, <1>2, <1>3 DEF Buckets!Anything
    <3>3. k \in 1 .. Len(q)  BY <3>1, <3>2
    <3>4. q[k] \in Members(l, col)  BY <1>3, <3>3 DEF RowsOf
    <3>5. \A j \in Here, p \in Members(l, col) : Buckets!Weight(p) <= Buckets!Weight(j)
      BY <1>1, <1>2, <3>1, TakenFrom
    <3>. QED BY <3>3, <3>4, <3>5
  <2>. QED BY <2>1, <2>2
<1>6. /\ Buckets!Take(l, k) /\ pivot' = q[k]
      /\ pivot_for_col' = [pivot_for_col EXCEPT ![col] = q[k]]
      /\ rows' = [rows EXCEPT ![q[k]] = Buckets!Lead(q[k])]
  BY <1>2, <1>3 DEF Buckets!PopLightest
<1>. QED BY <1>1, <1>2, <1>3, <1>4, <1>5, <1>6

\* A pivot has the entries of its row, and no longer waits.
LEMMA PivotFound ==
  ASSUME Buckets!BucketAssumption, BucketsInv, col \in Buckets!Col,
           pivot = Buckets!NO_BUCKET_ROW, filed = Height,
         kind' = kind, filed' = filed, NEW p \in Buckets!Row, p \in Here,
         pivot_for_col' = [pivot_for_col EXCEPT ![col] = p], rows'
             = [rows EXCEPT ![p] = Buckets!Lead(p)]
  PROVE  /\ rows' \in [Buckets!Row -> Vector] /\ rows'[p][col] = Buckets!One
         /\ \A d \in Buckets!Col : d < col => rows'[p][d] = Buckets!Zero
         /\ \A j \in Buckets!Row : j # p => rows'[j] = rows[j]
            /\ (j \in Buckets!Waiting' <=> j \in Buckets!Waiting)
         /\ p \notin Buckets!Waiting'
            /\ \A j \in Buckets!Row : Buckets!Support(rows'[j]) = Buckets!Support(rows[j])
         /\ kind \in Buckets!BinaryKinds => \A j \in Buckets!Row : Ones(rows'[j])
         /\ pivot_for_col'[col] = p
            /\ pivot_for_col' \in [Buckets!Col -> Buckets!Row \cup {Buckets!NO_BUCKET_ROW}]
         /\ \A c \in Buckets!Col : c # col => pivot_for_col'[c] = pivot_for_col[c]
<1>. DEFINE v == rows[p]
            w == Buckets!Lead(p)
<1>1. BucketTypes /\ BucketControl  BY DEF BucketsInv
<1>2. v \in Vector /\ v[col] # Buckets!Zero /\ \A d \in Buckets!Col : d < col
        => v[d] = Buckets!Zero
  <2>1. Buckets!Support(v) # {} /\ Buckets!LeadingColumn(v) = col  BY DEF Here, Buckets!Waiting
  <2>2. v \in Vector  BY <1>1 DEF BucketTypes
  <2>. QED BY <2>1, <2>2, Leading
<1>3. /\ w \in Vector /\ w[col] = Buckets!One
      /\ \A d \in Buckets!Col : w[d] = Buckets!Zero <=> v[d] = Buckets!Zero
      /\ Ones(v) => Ones(w)
  BY <1>2, ScaledRow DEF Buckets!Lead
<1>4. Buckets!Support(w) = Buckets!Support(v)
  <2>1. Buckets!Support(w) = {d \in Buckets!Col : w[d] # Buckets!Zero}
          /\ Buckets!Support(v) = {d \in Buckets!Col : v[d] # Buckets!Zero}
    BY <1>2, <1>3, Leading
  <2>. QED BY <1>3, <2>1
<1>. HIDE DEF v, w
<1>5. rows'[p] = w /\ (\A j \in Buckets!Row : j # p => rows'[j] = rows[j])
        /\ rows' \in [Buckets!Row -> Vector]
  BY <1>1, <1>3 DEF BucketTypes, w
<1>6. \A j \in Buckets!Row : Buckets!Support(rows'[j]) = Buckets!Support(rows[j])
  BY <1>4, <1>5 DEF v
<1>7. /\ pivot_for_col'[col] = p
         /\ pivot_for_col' \in [Buckets!Col -> Buckets!Row \cup {Buckets!NO_BUCKET_ROW}]
      /\ \A c \in Buckets!Col : c # col => pivot_for_col'[c] = pivot_for_col[c]
  BY <1>1 DEF BucketTypes
<1>8. pivot_for_col[col] = Buckets!NO_BUCKET_ROW  BY <1>1 DEF BucketControl
<1>9. p \in Buckets!Pivoted' /\ \A j \in Buckets!Row : j # p
        => (j \in Buckets!Pivoted' <=> j \in Buckets!Pivoted)
  <2>1. p # Buckets!NO_BUCKET_ROW  BY DEF Buckets!Row, Buckets!NO_BUCKET_ROW
  <2>2. p \in Buckets!Pivoted'  BY <1>7, <2>1 DEF Buckets!Pivoted
  <2>3. \A j \in Buckets!Row : j # Buckets!NO_BUCKET_ROW
    BY DEF Buckets!Row, Buckets!NO_BUCKET_ROW
  <2>4. \A j \in Buckets!Row : j # p => (j \in Buckets!Pivoted' <=> j \in Buckets!Pivoted)
    <3>. TAKE j \in Buckets!Row
    <3>. HAVE j # p
    <3>1. \A c \in Buckets!Col : pivot_for_col'[c] = j <=> pivot_for_col[c] = j
      BY <1>7, <1>8, <2>3
    <3>. QED BY <2>3, <3>1 DEF Buckets!Pivoted
  <2>. QED BY <2>2, <2>4
<1>10. p \notin Buckets!Waiting' /\ \A j \in Buckets!Row : j # p
         => (j \in Buckets!Waiting' <=> j \in Buckets!Waiting)
  BY <1>6, <1>9 DEF Buckets!Waiting
<1>11. kind \in Buckets!BinaryKinds => \A j \in Buckets!Row : Ones(rows'[j])
  BY <1>1, <1>3, <1>5 DEF BucketTypes, v
<1>12. \A d \in Buckets!Col : d < col => rows'[p][d] = Buckets!Zero  BY <1>2, <1>3, <1>5
<1>. QED BY <1>3, <1>5, <1>6, <1>7, <1>10, <1>11, <1>12

\* The pivot leaves its list, from the head or the middle.
LEMMA PopLightestKeeps ==
  ASSUME Buckets!BucketAssumption, BucketsInv, Buckets!PopLightest
  PROVE  BucketsInv'
<1>1. /\ col \in Buckets!Col /\ pivot = Buckets!NO_BUCKET_ROW /\ filed = Height
      /\ UNCHANGED <<kind, filed, row_weights, entries, col>>
  BY PopLightestFacts
<1>2. PICK l \in Buckets!List, q \in Seq(Buckets!Row) : \E k \in 1 .. Len(q) :
              /\ l = Buckets!ListToTake /\ Buckets!Chain(l, col) = q
              /\ Linked(q, heads[l][col], next_in_bucket) /\ RowsOf(q) = Members(l, col)
              /\ Buckets!Take(l, k) /\ pivot' = q[k]
              /\ pivot_for_col' = [pivot_for_col EXCEPT ![col] = q[k]]
              /\ rows' = [rows EXCEPT ![q[k]] = Buckets!Lead(q[k])]
              /\ \A j \in Here : Buckets!Weight(q[k]) <= Buckets!Weight(j)
  BY PopLightestFacts
<1>3. PICK k \in 1 .. Len(q) :
              /\ l = Buckets!ListToTake /\ Buckets!Chain(l, col) = q
              /\ Linked(q, heads[l][col], next_in_bucket) /\ RowsOf(q) = Members(l, col)
              /\ Buckets!Take(l, k) /\ pivot' = q[k]
              /\ pivot_for_col' = [pivot_for_col EXCEPT ![col] = q[k]]
              /\ rows' = [rows EXCEPT ![q[k]] = Buckets!Lead(q[k])]
  BY <1>2
<1>4. PICK p, g : p = q[k] /\ g = IF k = 1 THEN next_in_bucket[q[k]] ELSE heads[l][col]  OBVIOUS
<1>5. BucketTypes /\ BucketControl /\ WaitingBegin /\ CachesCurrent  BY DEF BucketsInv
<1>6. p \in Buckets!Row /\ p \in Here /\ g \in Buckets!Row \cup {Buckets!NO_BUCKET_ROW}
  <2>1. p \in Buckets!Row /\ p \in Here  BY <1>3, <1>4 DEF RowsOf, Members, Here
  <2>2. heads[l][col] \in Buckets!Row \cup {Buckets!NO_BUCKET_ROW}
          /\ next_in_bucket[p] \in Buckets!Row \cup {Buckets!NO_BUCKET_ROW}
    BY <1>1, <1>5, <2>1 DEF BucketTypes
  <2>. QED BY <1>4, <2>1, <2>2
<1>7. /\ HeadSet(heads', heads, l, col, g)
      /\ heads' \in [Buckets!List -> [Buckets!Col -> Buckets!Row \cup {Buckets!NO_BUCKET_ROW}]]
      /\ LinksAre(next_in_bucket', next_in_bucket, q, k)
      /\ nonempty_masks' = Buckets!MaskAfter(l, g)
      /\ bucket_counts' = IF kind = "counted"
                          THEN [bucket_counts EXCEPT ![col] = @ - 1] ELSE bucket_counts
      /\ next_in_bucket' = [x \in Buckets!Row |-> next_in_bucket'[x]]
  BY <1>1, <1>3, <1>4, <1>5, <1>6, TakeSteps
<1>8. /\ HoldWithout(heads', next_in_bucket', ListRows, q[k])
      /\ Buckets!MaskAfter(l, g) \in Masks
         /\ (kind \in Buckets!Cached => MaskFits(Buckets!MaskAfter(l, g), heads'))
      /\ LinksEnd(next_in_bucket', q[k])
  <2>1. Linked(q, heads[l][col], next_in_bucket) /\ RowsOf(q) = Members(l, col)  BY <1>3
  <2>. QED BY <1>1, <1>4, <1>7, <2>1, Taken
<1>9. /\ rows' \in [Buckets!Row -> Vector] /\ rows'[p][col] = Buckets!One
      /\ \A d \in Buckets!Col : d < col => rows'[p][d] = Buckets!Zero
      /\ \A j \in Buckets!Row : j # p => rows'[j] = rows[j]
         /\ (j \in Buckets!Waiting' <=> j \in Buckets!Waiting)
      /\ p \notin Buckets!Waiting'
         /\ \A j \in Buckets!Row : Buckets!Support(rows'[j]) = Buckets!Support(rows[j])
      /\ kind \in Buckets!BinaryKinds => \A j \in Buckets!Row : Ones(rows'[j])
      /\ pivot_for_col'[col] = p
         /\ pivot_for_col' \in [Buckets!Col -> Buckets!Row \cup {Buckets!NO_BUCKET_ROW}]
      /\ \A c \in Buckets!Col : c # col => pivot_for_col'[c] = pivot_for_col[c]
  BY <1>1, <1>3, <1>4, <1>6, PivotFound
<1>10. ListsLinked' /\ CountsFit' /\ bucket_counts' \in [Buckets!Col -> Int]
  <2>1. HoldWithout(heads', next_in_bucket', ListRows, p)
          /\ next_in_bucket'[p] = Buckets!NO_BUCKET_ROW
    BY <1>4, <1>8 DEF LinksEnd
  <2>2. kind \in Buckets!Cached => MaskFits(nonempty_masks', heads')  BY <1>7, <1>8
  <2>3. \A x \in Buckets!Row \ Buckets!Waiting : next_in_bucket'[x] = Buckets!NO_BUCKET_ROW
    BY <1>8 DEF LinksEnd
  <2>. QED BY <1>1, <1>6, <1>7, <1>9, <2>1, <2>2, <2>3, OneLess
<1>11. BucketTypes'
  <2>1. next_in_bucket' \in [Buckets!Row -> Buckets!Row \cup {Buckets!NO_BUCKET_ROW}]
    BY <1>7, <1>8 DEF LinksEnd
  <2>2. nonempty_masks' \in [Buckets!Col -> SUBSET (1 .. SmallMax)]  BY <1>7, <1>8 DEF Masks
  <2>. QED BY <1>1, <1>3, <1>4, <1>5, <1>6, <1>7, <1>9, <1>10, <2>1, <2>2 DEF BucketTypes
<1>12. BucketControl'
  <2>1. ~(filed' < Height)  BY <1>1 DEF Buckets!BucketAssumption
  <2>2. pivot' = p  BY <1>3, <1>4
  <2>3. \A c \in Buckets!Col : c > col => pivot_for_col[c] = Buckets!NO_BUCKET_ROW
    BY <1>5 DEF BucketControl
  <2>4. \A c \in Buckets!Col : c > col => c # col  BY <1>1 DEF Buckets!Col
  <2>5. p # Buckets!NO_BUCKET_ROW  BY <1>6 DEF Buckets!Row, Buckets!NO_BUCKET_ROW
  <2>. QED BY <1>1, <1>9, <2>1, <2>2, <2>3, <2>4, <2>5 DEF BucketControl
<1>13. WaitingBegin'
  <2>1. \A j \in Buckets!Waiting' : j \in Buckets!Waiting /\ rows'[j] = rows[j]
    BY <1>9 DEF Buckets!Waiting
  <2>. QED BY <1>1, <1>5, <2>1 DEF WaitingBegin
<1>14. CachesCurrent'
  <2>1. \A j \in Buckets!Row : Buckets!Weight(j)' = Buckets!Weight(j)
    BY <1>9 DEF Buckets!Weight
  <2>. QED BY <1>1, <1>5, <1>9, <2>1 DEF CachesCurrent, Buckets!CachedStateIsCurrent
<1>. QED BY <1>10, <1>11, <1>12, <1>13, <1>14 DEF BucketsInv

\* The row that the pivot is added to.
LEMMA EliminateFacts ==
  ASSUME Buckets!BucketAssumption, BucketsInv, Buckets!PopAndEliminate
  PROVE  /\ pivot # Buckets!NO_BUCKET_ROW /\ col \in Buckets!Col
         /\ UNCHANGED <<kind, filed, col, pivot, pivot_for_col>>
         /\ \E l \in Buckets!List, q \in Seq(Buckets!Row), r \in Buckets!Row :
              /\ l = Buckets!ListToTake /\ Buckets!Chain(l, col) = q /\ 1 \in 1 .. Len(q)
                 /\ r = q[1]
              /\ Linked(q, heads[l][col], next_in_bucket) /\ RowsOf(q) = Members(l, col)
<1>1. pivot # Buckets!NO_BUCKET_ROW /\ Buckets!Anything
        /\ UNCHANGED <<kind, filed, col, pivot, pivot_for_col>>
  BY DEF Buckets!PopAndEliminate
<1>2. col \in Buckets!Col  BY <1>1 DEF BucketsInv, BucketControl
<1>3. PICK l : l = Buckets!ListToTake  OBVIOUS
<1>4. PICK q \in Seq(Buckets!Row) : /\ Linked(q, heads[l][col], next_in_bucket)
                                    /\ RowsOf(q) = Members(l, col) /\ Buckets!Chain(l, col) = q
  BY <1>2, <1>3, TakenFrom
<1>5. q # <<>> /\ l \in Buckets!List  BY <1>1, <1>2, <1>3, <1>4, TakenFrom DEF Buckets!Anything
<1>6. 1 \in 1 .. Len(q) /\ q[1] \in Buckets!Row  BY <1>4, <1>5
<1>. QED BY <1>1, <1>2, <1>3, <1>4, <1>5, <1>6

\* What the step does to row r, and to what is kept of it.
LEMMA EliminateRows ==
  ASSUME Buckets!BucketAssumption, BucketsInv, Buckets!PopAndEliminate, NEW r \in Here,
           r \in Buckets!Row,
         rows' = [rows EXCEPT ![r] = Buckets!Sum(r)],
         row_weights' = [row_weights EXCEPT ![r] = Buckets!WeightAfter(r)],
         entries' = Buckets!EntriesAfter(r)
  PROVE  /\ rows'[r] = Buckets!Sum(r)
         /\ \A j \in Buckets!Row : j # r => rows'[j] = rows[j]
            /\ (j \in Buckets!Waiting' <=> j \in Buckets!Waiting)
         /\ r \in Buckets!Waiting' <=> Buckets!Support(Buckets!Sum(r)) # {}
         /\ CachesCurrent' /\ WaitingBegin' /\ BucketControl'
         /\ rows' \in [Buckets!Row -> Vector]
            /\ (kind \in Buckets!BinaryKinds => \A j \in Buckets!Row : Ones(rows'[j]))
         /\ row_weights' \in [Buckets!Row -> Int]
            /\ entries' \in [Buckets!Row -> {Buckets!NotCached} \cup SUBSET Buckets!Col]
<1>0. BucketTypes /\ BucketControl /\ WaitingBegin /\ CachesCurrent  BY DEF BucketsInv
<1>1. pivot # Buckets!NO_BUCKET_ROW /\ col \in Buckets!Col
        /\ UNCHANGED <<kind, filed, col, pivot, pivot_for_col>>
  BY EliminateFacts
<1>2. /\ r # pivot /\ pivot \in Buckets!Row /\ Buckets!Sum(r) \in Vector
      /\ \A d \in Buckets!Col : d < col + 1 => Buckets!Sum(r)[d] = Buckets!Zero
      /\ kind \in Buckets!BinaryKinds => Ones(Buckets!Sum(r))
  BY <1>1, SumOfRow
<1>3. rows'[r] = Buckets!Sum(r) /\ (\A j \in Buckets!Row : j # r => rows'[j] = rows[j])
      /\ rows' \in [Buckets!Row -> Vector]
  <2>. PICK s : s = Buckets!Sum(r)  OBVIOUS
  <2>1. rows' = [rows EXCEPT ![r] = s] /\ s \in Vector  BY <1>2
  <2>. QED BY <1>0, <2>1 DEF BucketTypes
<1>4. kind \in Buckets!BinaryKinds => \A j \in Buckets!Row : Ones(rows'[j])
  BY <1>0, <1>2, <1>3 DEF BucketTypes
<1>5. r \in Buckets!Waiting /\ filed' = filed /\ Buckets!Pivoted' = Buckets!Pivoted
  BY <1>1 DEF Here, Buckets!Pivoted
<1>6. /\ \A j \in Buckets!Row : j # r => (j \in Buckets!Waiting' <=> j \in Buckets!Waiting)
      /\ r \in Buckets!Waiting' <=> Buckets!Support(Buckets!Sum(r)) # {}
  BY <1>3, <1>5 DEF Buckets!Waiting
<1>7. row_weights'[r] = Buckets!WeightAfter(r) /\ \A j \in Buckets!Row : j # r
        => row_weights'[j] = row_weights[j]
  BY <1>0 DEF BucketTypes
<1>8. \A j \in Buckets!Row : j # r => Buckets!Weight(j)' = Buckets!Weight(j)
  BY <1>3 DEF Buckets!Weight
<1>9. Buckets!Weight(r)' = Buckets!Cardinality(Buckets!Support(Buckets!Sum(r)))
  BY <1>3 DEF Buckets!Weight
<1>10. Buckets!Cardinality(Buckets!Support(Buckets!Sum(r))) \in Nat
  <2>1. Buckets!Support(Buckets!Sum(r)) \in SUBSET Buckets!Col  BY <1>2, Leading
  <2>. QED BY <2>1, Sizes
<1>11. kind \in Buckets!Cached
         => Buckets!WeightAfter(r) = Buckets!Cardinality(Buckets!Support(Buckets!Sum(r)))
  BY <1>1, WeightKept
<1>12. row_weights' \in [Buckets!Row -> Int]
  <2>1. Buckets!WeightAfter(r) \in Int
    <3>1. CASE kind \in Buckets!Cached  BY <1>10, <1>11, <3>1
    <3>2. CASE kind \notin Buckets!Cached
      <4>1. Buckets!WeightAfter(r) = row_weights[r]
        BY <3>2 DEF Buckets!WeightAfter, Buckets!LightPivot
      <4>. QED BY <1>0, <4>1 DEF BucketTypes
    <3>. QED BY <3>1, <3>2
  <2>. PICK w : w = Buckets!WeightAfter(r)  OBVIOUS
  <2>2. row_weights' = [row_weights EXCEPT ![r] = w] /\ w \in Int  BY <2>1
  <2>. QED BY <1>0, <2>2 DEF BucketTypes
<1>13. kind \in Buckets!Cached => \A j \in Buckets!Row : row_weights'[j] = Buckets!Weight(j)'
  <2>. HAVE kind \in Buckets!Cached
  <2>1. \A j \in Buckets!Row : row_weights[j] = Buckets!Weight(j)
    BY <1>0 DEF CachesCurrent, Buckets!CachedStateIsCurrent
  <2>. QED BY <1>7, <1>8, <1>9, <1>11, <2>1
<1>14. ASSUME NEW j \in Buckets!Row, entries'[j] # Buckets!NotCached
       PROVE  /\ kind \in Buckets!Cached /\ entries'[j] \subseteq Buckets!Col
                 /\ Buckets!Cardinality(entries'[j]) <= SmallMax
              /\ entries'[j] = Buckets!Support(rows'[j])
  <2>1. entries'[j] = IF j = r /\ kind \in Buckets!Cached THEN Buckets!NotCached
                      ELSE IF j = pivot /\ Buckets!LightPivot THEN Buckets!CachedEntries(j)
                      ELSE entries[j]
    BY DEF Buckets!EntriesAfter
  <2>2. ~(j = r /\ kind \in Buckets!Cached)  BY <1>14, <2>1
  <2>3. CASE j = pivot /\ Buckets!LightPivot
    <3>1. kind \in Buckets!Cached /\ row_weights[j] <= SmallMax  BY <2>3 DEF Buckets!LightPivot
    <3>2. Buckets!CachedEntries(j) = Buckets!Support(rows[j])
            /\ row_weights[j] = Buckets!Cardinality(Buckets!Support(rows[j]))

        BY <1>0, <3>1 DEF CachesCurrent, Buckets!CachedStateIsCurrent, Buckets!CachedEntries,
           Buckets!Weight
    <3>3. Buckets!Support(rows[j]) \subseteq Buckets!Col  BY <1>0, WeightAndList
    <3>4. entries'[j] = Buckets!Support(rows[j])  BY <2>1, <2>2, <2>3, <3>2
    <3>5. rows'[j] = rows[j]  BY <1>2, <1>3, <2>3
    <3>. QED BY <3>1, <3>2, <3>3, <3>4, <3>5
  <2>4. CASE ~(j = pivot /\ Buckets!LightPivot)
    <3>1. entries'[j] = entries[j] /\ entries[j] # Buckets!NotCached  BY <1>14, <2>1, <2>2, <2>4
    <3>2. kind \in Buckets!Cached /\ entries[j] \subseteq Buckets!Col
            /\ Buckets!Cardinality(entries[j]) <= SmallMax
          /\ entries[j] = Buckets!Support(rows[j])
      BY <1>0, <3>1 DEF CachesCurrent, Buckets!CachedStateIsCurrent
    <3>3. rows'[j] = rows[j]  BY <1>3, <2>2, <3>2
    <3>. QED BY <3>1, <3>2, <3>3
  <2>. QED BY <2>3, <2>4
<1>15. entries' \in [Buckets!Row -> {Buckets!NotCached} \cup SUBSET Buckets!Col]
  <2>1. entries' = [j \in Buckets!Row |-> entries'[j]]  BY DEF Buckets!EntriesAfter
  <2>. QED BY <1>14, <2>1
<1>16. CachesCurrent'
  <2>1. kind' = kind  BY <1>1
  <2>2. Buckets!CachedStateIsCurrent'  BY <1>13, <1>14, <2>1 DEF Buckets!CachedStateIsCurrent
  <2>3. \A j \in Buckets!Row : entries'[j] # Buckets!NotCached =>
          kind \in Buckets!Cached /\ entries'[j] \subseteq Buckets!Col
              /\ Buckets!Cardinality(entries'[j]) <= SmallMax
    BY <1>14
  <2>. QED BY <2>1, <2>2, <2>3 DEF CachesCurrent
<1>17. WaitingBegin'
  <2>. SUFFICES ASSUME NEW j \in Buckets!Waiting', NEW d \in Buckets!Col,
         d < col PROVE rows'[j][d] = Buckets!Zero
    BY <1>1 DEF WaitingBegin
  <2>1. CASE j = r
    <3>1. d < col + 1  BY <1>1 DEF Buckets!Col
    <3>. QED BY <1>2, <1>3, <2>1, <3>1
  <2>2. CASE j # r
    <3>1. j \in Buckets!Row  BY DEF Buckets!Waiting
    <3>. QED BY <1>0, <1>3, <1>6, <2>2, <3>1 DEF WaitingBegin
  <2>. QED BY <2>1, <2>2
<1>18. BucketControl'
  <2>1. filed = Height /\ ~(filed' < Height)
    BY <1>0, <1>1 DEF BucketControl, Buckets!BucketAssumption
  <2>2. rows'[pivot] = rows[pivot]  BY <1>2, <1>3
  <2>. QED BY <1>0, <1>1, <2>1, <2>2 DEF BucketControl
<1>. QED BY <1>3, <1>4, <1>6, <1>12, <1>15, <1>16, <1>17, <1>18

\* The mask of a list that a row is put in.
LEMMA MaskGrows ==
  ASSUME Buckets!BucketAssumption, NEW mask, NEW H, MaskFits(mask, H),
         NEW k \in Buckets!List, NEW c \in Buckets!Col, NEW g, NEW H2, HeadSet(H2, H, k, c, g),
         NEW mask2,
         MaskSet(mask2, mask, c, mask[c] \cup {k}), k > 0, g # Buckets!NO_BUCKET_ROW
  PROVE  MaskFits(mask2, H2)
BY MaskChanges

\* Row r, the first of list l of the column, goes into list k of column c, no
\* other row changes, and it waits there afterwards.
GoesTo(l, k, c, r) ==
  /\ heads' = [heads EXCEPT ![l][col] = next_in_bucket[r], ![k][c] = r]
  /\ next_in_bucket' = [next_in_bucket EXCEPT ![r] = heads[k][c]]
  /\ nonempty_masks' = IF kind \in Buckets!Cached /\ k > 0
                       THEN [Buckets!MaskAfter(l, next_in_bucket[r]) EXCEPT ![c] = @ \cup {k}]
                       ELSE Buckets!MaskAfter(l, next_in_bucket[r])
  /\ bucket_counts' = IF kind = "counted"
                      THEN [bucket_counts EXCEPT ![col] = @ - 1, ![c] = @ + 1]
                      ELSE bucket_counts
OnlyRow(r) ==
  \A j \in Buckets!Row : j # r => rows'[j] = rows[j]
      /\ (j \in Buckets!Waiting' <=> j \in Buckets!Waiting)
WaitsIn(r, k, c) ==
  /\ r \in Buckets!Waiting'
  /\ Buckets!LeadingColumn(rows'[r]) = c /\ Buckets!ListOf(r)' = k
FirstOf(r, l, q) ==
  /\ r = q[1] /\ 1 \in 1 .. Len(q)
  /\ Linked(q, heads[l][col], next_in_bucket) /\ RowsOf(q) = Members(l, col)

\* All of it stays so: the row waits in one list as before, and its links,
\* mask and count have moved with it.
LEMMA Refiled ==
  ASSUME Buckets!BucketAssumption, BucketsInv, col \in Buckets!Col, kind' = kind,
         NEW l \in Buckets!List, NEW q \in Seq(Buckets!Row), NEW r \in Buckets!Row,
         FirstOf(r, l, q),
         NEW k \in Buckets!List, NEW c \in Buckets!Col, c > col,
         GoesTo(l, k, c, r), OnlyRow(r), WaitsIn(r, k, c)
  PROVE  /\ ListsLinked' /\ CountsFit' /\ bucket_counts' \in [Buckets!Col -> Int]
         /\ heads' \in [Buckets!List -> [Buckets!Col -> Buckets!Row
            \cup {Buckets!NO_BUCKET_ROW}]]
         /\ next_in_bucket' \in [Buckets!Row -> Buckets!Row \cup {Buckets!NO_BUCKET_ROW}]
         /\ nonempty_masks' \in [Buckets!Col -> SUBSET (1 .. SmallMax)]
<1>0. BucketTypes /\ SmallMax \in Nat \ {0}  BY DEF BucketsInv, Buckets!BucketAssumption
<1>a. PICK g : g = next_in_bucket[r]  OBVIOUS
<1>b. /\ heads' = [heads EXCEPT ![l][col] = g, ![k][c] = r]
      /\ next_in_bucket' = [next_in_bucket EXCEPT ![r] = heads[k][c]]
      /\ nonempty_masks' = IF kind \in Buckets!Cached /\ k > 0
                           THEN [Buckets!MaskAfter(l, g) EXCEPT ![c]
                               = @ \cup {k}] ELSE Buckets!MaskAfter(l, g)
      /\ bucket_counts' = IF kind = "counted"
                          THEN [bucket_counts EXCEPT ![col] = @ - 1,
                              ![c] = @ + 1] ELSE bucket_counts
  BY <1>a DEF GoesTo
<1>c. /\ \A j \in Buckets!Row : j # r => rows'[j] = rows[j]
         /\ (j \in Buckets!Waiting' <=> j \in Buckets!Waiting)
      /\ r \in Buckets!Waiting' /\ Buckets!LeadingColumn(rows'[r]) = c /\ Buckets!ListOf(r)' = k
  BY DEF OnlyRow, WaitsIn
<1>d. /\ r = q[1] /\ 1 \in 1 .. Len(q)
      /\ Linked(q, heads[l][col], next_in_bucket) /\ RowsOf(q) = Members(l, col)
  BY DEF FirstOf
<1>. DEFINE H1 == [heads EXCEPT ![l][col] = g]
            nx1 == [next_in_bucket EXCEPT ![r] = Buckets!NO_BUCKET_ROW]
            S1 == [m \in Buckets!List |-> [d \in Buckets!Col |-> Members(m, d) \ {r}]]
            mask1 == Buckets!MaskAfter(l, g)
<1>1. c # col  BY DEF Buckets!Col
<1>2. HeadSet(H1, heads, l, col, g)  BY <1>0 DEF BucketTypes, HeadSet
<1>3. LinksAre(nx1, next_in_bucket, q, 1)  BY <1>0, <1>d DEF BucketTypes, LinksAre
<1>4. g = IF 1 = 1 THEN next_in_bucket[q[1]] ELSE heads[l][col]  BY <1>a, <1>d
<1>5. g \in Buckets!Row \cup {Buckets!NO_BUCKET_ROW}  BY <1>0, <1>a DEF BucketTypes
<1>6. HeadSet(heads', H1, k, c, r) /\ H1[k][c] = heads[k][c]
      /\ heads' \in [Buckets!List -> [Buckets!Col -> Buckets!Row \cup {Buckets!NO_BUCKET_ROW}]]
  <2>1. /\ \A m \in Buckets!List, d \in Buckets!Col : m # k \/ d # c => heads'[m][d] = H1[m][d]
        /\ heads'[k][c] = r /\ H1[k][c] = heads[k][c]
    BY <1>0, <1>1, <1>b DEF BucketTypes
  <2>2. heads' \in [Buckets!List -> [Buckets!Col -> Buckets!Row \cup {Buckets!NO_BUCKET_ROW}]]
    BY <1>0, <1>5, <1>b DEF BucketTypes
  <2>. QED BY <2>1, <2>2 DEF HeadSet
<1>7. LinkSet(next_in_bucket', nx1, r, heads[k][c])
      /\ next_in_bucket' \in [Buckets!Row -> Buckets!Row \cup {Buckets!NO_BUCKET_ROW}]
  <2>1. heads[k][c] \in Buckets!Row \cup {Buckets!NO_BUCKET_ROW}  BY <1>0 DEF BucketTypes
  <2>. QED BY <1>0, <1>b, <2>1 DEF BucketTypes, LinkSet
<1>. HIDE DEF H1, nx1
<1>8. /\ HoldWithout(H1, nx1, ListRows, r) /\ r \in Here
      /\ mask1 \in Masks /\ (kind \in Buckets!Cached => MaskFits(mask1, H1))
      /\ LinksEnd(nx1, r)
  <2>. DEFINE e == 1
  <2>1. /\ e \in 1 .. Len(q) /\ g = IF e = 1 THEN next_in_bucket[q[e]] ELSE heads[l][col]
        /\ LinksAre(nx1, next_in_bucket, q, e) /\ q[e] = r
    BY <1>3, <1>4, <1>d
  <2>. HIDE DEF e, mask1
  <2>2. /\ HoldWithout(H1, nx1, ListRows, q[e]) /\ q[e] \in Here
        /\ Buckets!MaskAfter(l, g) \in Masks
           /\ (kind \in Buckets!Cached => MaskFits(Buckets!MaskAfter(l, g), H1))
        /\ LinksEnd(nx1, q[e])
    BY <1>2, <1>d, <2>1, Taken
  <2>. QED BY <2>1, <2>2 DEF mask1
<1>. HIDE DEF mask1
<1>9. \A m \in Buckets!List, d \in Buckets!Col : ListRows[m][d] = Members(m, d)  BY RowsOfLists
<1>10. \A m \in Buckets!List, d \in Buckets!Col : S1[m][d] = Members(m, d) \ {r}  OBVIOUS
<1>11. S1 \in ListSets
  <2>1. \A m, d : Members(m, d) \ {r} \in SUBSET Buckets!Row  BY DEF Members, Buckets!Waiting
  <2>. QED BY <2>1 DEF ListSets
<1>. HIDE DEF S1
<1>12. AllHold(H1, nx1, S1)
  <2>. SUFFICES ASSUME NEW m \in Buckets!List,
         NEW d \in Buckets!Col PROVE Holds(H1[m][d], nx1, S1[m][d])
    BY DEF AllHold
  <2>1. Holds(H1[m][d], nx1, ListRows[m][d] \ {r})  BY <1>8 DEF HoldWithout
  <2>2. S1[m][d] = ListRows[m][d] \ {r}  BY <1>9, <1>10
  <2>. QED BY <2>1, <2>2
<1>13. Unlisted(r, S1)  BY <1>10 DEF Unlisted
<1>14. Holds(heads'[k][c], next_in_bucket', S1[k][c] \cup {r})
       /\ OthersHold(heads', next_in_bucket', S1, k, c)
  <2>1. LinkSet(next_in_bucket', nx1, r, H1[k][c])  BY <1>6, <1>7
  <2>2. HeadSet(heads', H1, k, c, r)  BY <1>6
  <2>3. r \in Buckets!Row /\ k \in Buckets!List /\ c \in Buckets!Col  OBVIOUS
  <2>. QED BY ONLY <1>11, <1>12, <1>13, <2>1, <2>2, <2>3, ListPut
<1>15. /\ Members(k, c)' = S1[k][c] \cup {r}
       /\ \A m \in Buckets!List, d \in Buckets!Col : m # k \/ d # c => Members(m, d)' = S1[m][d]
       /\ \A d : Begin(d)' = IF d = c THEN Begin(d) \cup {r} ELSE Begin(d) \ {r}
  <2>1. /\ \A m, d : Members(m, d)' \ {r} = Members(m, d) \ {r}
        /\ \A m, d : r \in Members(m, d)' <=> d = c /\ m = k
        /\ \A d : Begin(d)' \ {r} = Begin(d) \ {r}
        /\ \A d : r \in Begin(d)' <=> d = c
    <3>1. /\ \A m, d : Members(m, d)' \ {r} = Members(m, d) \ {r}
          /\ \A m, d : r \in Members(m, d)' <=>
               r \in Buckets!Waiting' /\ Buckets!LeadingColumn(rows'[r]) = d
                   /\ Buckets!ListOf(r)' = m
          /\ \A d : Begin(d)' \ {r} = Begin(d) \ {r}
          /\ \A d : r \in Begin(d)' <=> r \in Buckets!Waiting'
             /\ Buckets!LeadingColumn(rows'[r]) = d
      BY <1>c, AllButOne
    <3>. QED BY <1>c, <3>1
  <2>2. Members(k, c)' = S1[k][c] \cup {r}  BY <1>10, <2>1
  <2>3. \A m \in Buckets!List, d \in Buckets!Col : m # k \/ d # c => Members(m, d)' = S1[m][d]
    <3>. TAKE m \in Buckets!List, d \in Buckets!Col
    <3>. HAVE m # k \/ d # c
    <3>1. r \notin Members(m, d)'  BY <2>1
    <3>2. Members(m, d)' = Members(m, d) \ {r}  BY <2>1, <3>1
    <3>. QED BY <1>10, <3>2
  <2>4. \A d : Begin(d)' = IF d = c THEN Begin(d) \cup {r} ELSE Begin(d) \ {r}
    <3>. TAKE d
    <3>1. CASE d = c
      <4>1. r \in Begin(d)'  BY <2>1, <3>1
      <4>2. Begin(d)' \ {r} = Begin(d) \ {r}  BY <2>1
      <4>. QED BY <3>1, <4>1, <4>2
    <3>2. CASE d # c
      <4>1. r \notin Begin(d)'  BY <2>1, <3>2
      <4>2. Begin(d)' \ {r} = Begin(d) \ {r}  BY <2>1
      <4>. QED BY <3>2, <4>1, <4>2
    <3>. QED BY <3>1, <3>2
  <2>. QED BY <2>2, <2>3, <2>4
<1>16. ListsLinked'
  <2>1. \A m \in Buckets!List, d \in Buckets!Col :
          Holds(heads'[m][d], next_in_bucket', Members(m, d)')
    <3>. TAKE m \in Buckets!List, d \in Buckets!Col
    <3>1. CASE m = k /\ d = c  BY <1>14, <1>15, <3>1
    <3>2. CASE m # k \/ d # c
      <4>1. Members(m, d)' = S1[m][d]  BY <1>15, <3>2
      <4>2. Holds(heads'[m][d], next_in_bucket', S1[m][d])  BY <1>14, <3>2 DEF OthersHold
      <4>. QED BY <4>1, <4>2
    <3>. QED BY <3>1, <3>2
  <2>2. \A x \in Buckets!Row \ Buckets!Waiting' : next_in_bucket'[x] = Buckets!NO_BUCKET_ROW
    <3>. TAKE x \in Buckets!Row \ Buckets!Waiting'
    <3>1. x # r /\ x \in Buckets!Row \ Buckets!Waiting  BY <1>c
    <3>. QED BY <1>7, <1>8, <3>1 DEF LinksEnd, LinkSet
  <2>. QED BY <2>1, <2>2 DEF ListsLinked
<1>17. nonempty_masks' \in Masks
         /\ (kind \in Buckets!Cached => MaskFits(nonempty_masks', heads'))
  <2>0. r # Buckets!NO_BUCKET_ROW /\ HeadSet(heads', H1, k, c, r)
    BY <1>6 DEF Buckets!NO_BUCKET_ROW, Buckets!Row
  <2>1. CASE kind \in Buckets!Cached /\ k > 0
    <3>1. nonempty_masks' = [mask1 EXCEPT ![c] = @ \cup {k}]  BY <1>b, <2>1 DEF mask1
    <3>2. k \in 1 .. SmallMax  BY <1>0, <2>1 DEF Buckets!List
    <3>3. nonempty_masks' \in Masks /\ MaskSet(nonempty_masks', mask1, c, mask1[c] \cup {k})
      <4>1. mask1 \in [Buckets!Col -> SUBSET (1 .. SmallMax)]  BY <1>8 DEF Masks
      <4>. QED BY ONLY <3>1, <3>2, <4>1, c \in Buckets!Col DEF Masks, MaskSet
    <3>4. MaskFits(nonempty_masks', heads')
      <4>1. MaskFits(mask1, H1)  BY <1>8, <2>1
      <4>2. MaskSet(nonempty_masks', mask1, c, mask1[c] \cup {k}) /\ k > 0  BY <2>1, <3>3
      <4>. QED BY <2>0, <4>1, <4>2, MaskGrows
    <3>. QED BY <3>3, <3>4
  <2>2. CASE ~(kind \in Buckets!Cached /\ k > 0)
    <3>1. nonempty_masks' = mask1  BY <1>b, <2>2 DEF mask1
    <3>2. kind \in Buckets!Cached => k = 0  BY <2>2 DEF Buckets!List
    <3>3. kind \in Buckets!Cached => MaskFits(mask1, heads')  BY <1>8, <2>0, <3>2, MaskStays
    <3>. QED BY <1>8, <3>1, <3>3
  <2>. QED BY <2>1, <2>2
<1>18. bucket_counts' \in [Buckets!Col -> Int]
       /\ IF kind = "counted" THEN \A d \in Buckets!Col : bucket_counts'[d]
          = Buckets!Cardinality(Begin(d)')
          ELSE \A d \in Buckets!Col : bucket_counts'[d] = 0
  <2>1. CASE kind = "counted"
    <3>1. bucket_counts' = [bucket_counts EXCEPT ![col] = @ - 1, ![c] = @ + 1]  BY <1>b, <2>1
    <3>2. /\ \A d \in Buckets!Col : bucket_counts[d] = Buckets!Cardinality(Begin(d))
             /\ Begin(d) \in SUBSET Buckets!Row
          /\ bucket_counts \in [Buckets!Col -> Int] /\ Here = Begin(col)
      BY <2>1, Counted
    <3>3. r \in Begin(col) /\ \A d : d # col => r \notin Begin(d)
      BY <1>8 DEF Begin, Here
    <3>4. Buckets!Cardinality(Begin(col) \ {r}) = Buckets!Cardinality(Begin(col)) - 1
      BY <3>2, <3>3, Sizes
    <3>5. Buckets!Cardinality(Begin(c) \cup {r}) = Buckets!Cardinality(Begin(c)) + 1
      <4>1. r \in Buckets!Row \ Begin(c)  BY <1>1, <3>3
      <4>. QED BY <3>2, <4>1, Sizes
    <3>6. \A d \in Buckets!Col : bucket_counts'[d] = Buckets!Cardinality(Begin(d)')
      <4>. TAKE d \in Buckets!Col
      <4>1. CASE d = col
        <5>1. bucket_counts'[d] = bucket_counts[col] - 1  BY <1>1, <3>1, <3>2, <4>1
        <5>2. Begin(d)' = Begin(col) \ {r}  BY <1>1, <1>15, <4>1
        <5>. QED BY <3>2, <3>4, <5>1, <5>2
      <4>2. CASE d = c
        <5>1. bucket_counts'[d] = bucket_counts[c] + 1  BY <1>1, <3>1, <3>2, <4>2
        <5>2. Begin(d)' = Begin(c) \cup {r}  BY <1>15, <4>2
        <5>. QED BY <3>2, <3>5, <5>1, <5>2
      <4>3. CASE d # col /\ d # c
        <5>1. bucket_counts'[d] = bucket_counts[d]  BY <3>1, <3>2, <4>3
        <5>2. Begin(d)' = Begin(d)
          <6>1. Begin(d)' = Begin(d) \ {r}  BY <1>15, <4>3
          <6>2. r \notin Begin(d)  BY <3>3, <4>3
          <6>. QED BY <6>1, <6>2
        <5>. QED BY <3>2, <5>1, <5>2
      <4>. QED BY <4>1, <4>2, <4>3
    <3>7. bucket_counts' \in [Buckets!Col -> Int]  BY <3>1, <3>2
    <3>. QED BY <2>1, <3>6, <3>7
  <2>2. CASE kind # "counted"
    BY <1>b, <2>2 DEF BucketsInv, CountsFit, BucketTypes
  <2>. QED BY <2>1, <2>2
<1>19. CountsFit'
  BY <1>17, <1>18 DEF CountsFit, Buckets!MasksAndCountsFit, MaskFits, Begin
<1>. QED BY <1>6, <1>7, <1>16, <1>17, <1>18, <1>19 DEF Masks

\* A row the pivot is added to is filed again, or vanishes.
LEMMA PopAndEliminateKeeps ==
  ASSUME Buckets!BucketAssumption, BucketsInv, Buckets!PopAndEliminate PROVE BucketsInv'
<1>1. pivot # Buckets!NO_BUCKET_ROW /\ col \in Buckets!Col
        /\ UNCHANGED <<kind, filed, col, pivot, pivot_for_col>>
  BY EliminateFacts
<1>2. PICK l \in Buckets!List, q \in Seq(Buckets!Row), r \in Buckets!Row :
        /\ l = Buckets!ListToTake /\ Buckets!Chain(l, col) = q /\ 1 \in 1 .. Len(q) /\ r = q[1]
        /\ Linked(q, heads[l][col], next_in_bucket) /\ RowsOf(q) = Members(l, col)
  BY EliminateFacts
<1>3. BucketTypes /\ r \in Here  BY <1>2 DEF BucketsInv, RowsOf, Members, Here
<1>4. /\ rows' = [rows EXCEPT ![r] = Buckets!Sum(r)]
      /\ row_weights' = [row_weights EXCEPT ![r] = Buckets!WeightAfter(r)]
      /\ entries' = Buckets!EntriesAfter(r)
  BY <1>2 DEF Buckets!PopAndEliminate
<1>5. /\ rows'[r] = Buckets!Sum(r)
      /\ \A j \in Buckets!Row : j # r => rows'[j] = rows[j]
         /\ (j \in Buckets!Waiting' <=> j \in Buckets!Waiting)
      /\ r \in Buckets!Waiting' <=> Buckets!Support(Buckets!Sum(r)) # {}
      /\ CachesCurrent' /\ WaitingBegin' /\ BucketControl'
      /\ rows' \in [Buckets!Row -> Vector]
         /\ (kind \in Buckets!BinaryKinds => \A j \in Buckets!Row : Ones(rows'[j]))
      /\ row_weights' \in [Buckets!Row -> Int]
         /\ entries' \in [Buckets!Row -> {Buckets!NotCached} \cup SUBSET Buckets!Col]
  BY <1>3, <1>4, EliminateRows
<1>6. Buckets!Sum(r) \in Vector
      /\ (Buckets!Support(Buckets!Sum(r)) # {}
         => Buckets!LeadingColumn(Buckets!Sum(r)) \in Buckets!Col
             /\ Buckets!LeadingColumn(Buckets!Sum(r)) > col)
  BY <1>1, <1>3, SumOfRow
<1>7. /\ ListsLinked' /\ CountsFit' /\ bucket_counts' \in [Buckets!Col -> Int]
      /\ heads' \in [Buckets!List -> [Buckets!Col -> Buckets!Row \cup {Buckets!NO_BUCKET_ROW}]]
      /\ next_in_bucket' \in [Buckets!Row -> Buckets!Row \cup {Buckets!NO_BUCKET_ROW}]
      /\ nonempty_masks' \in [Buckets!Col -> SUBSET (1 .. SmallMax)]
  <2>1. CASE Buckets!Support(Buckets!Sum(r)) = {}
    <3>1. Buckets!Take(l, 1)  BY <1>2, <2>1 DEF Buckets!PopAndEliminate
    <3>2. PICK k, g : k = 1 /\ g = IF k
            = 1 THEN next_in_bucket[q[k]] ELSE heads[l][col]  OBVIOUS
    <3>3. k \in 1 .. Len(q) /\ q[k] = r /\ Buckets!Take(l, k)  BY <1>2, <3>1, <3>2
    <3>4. g \in Buckets!Row \cup {Buckets!NO_BUCKET_ROW}  BY <1>3, <3>2, <3>3 DEF BucketTypes
    <3>5. /\ HeadSet(heads', heads, l, col, g)
          /\ heads' \in [Buckets!List -> [Buckets!Col -> Buckets!Row
             \cup {Buckets!NO_BUCKET_ROW}]]
          /\ LinksAre(next_in_bucket', next_in_bucket, q, k)
          /\ nonempty_masks' = Buckets!MaskAfter(l, g)
          /\ bucket_counts' = IF kind = "counted"
                              THEN [bucket_counts EXCEPT ![col] = @ - 1] ELSE bucket_counts
          /\ next_in_bucket' = [x \in Buckets!Row |-> next_in_bucket'[x]]
      BY <1>1, <1>2, <1>3, <3>2, <3>3, <3>4, TakeSteps
    <3>6. /\ HoldWithout(heads', next_in_bucket', ListRows, q[k])
          /\ Buckets!MaskAfter(l, g) \in Masks
             /\ (kind \in Buckets!Cached => MaskFits(Buckets!MaskAfter(l, g), heads'))
          /\ LinksEnd(next_in_bucket', q[k])
      <4>1. Linked(q, heads[l][col], next_in_bucket) /\ RowsOf(q) = Members(l, col)  BY <1>2
      <4>. QED BY <1>1, <3>2, <3>3, <3>5, <4>1, Taken
    <3>7. ListsLinked' /\ CountsFit' /\ bucket_counts' \in [Buckets!Col -> Int]
      <4>1. HoldWithout(heads', next_in_bucket', ListRows, r)
              /\ next_in_bucket'[r] = Buckets!NO_BUCKET_ROW
        BY <3>3, <3>6 DEF LinksEnd
      <4>2. kind \in Buckets!Cached => MaskFits(nonempty_masks', heads')  BY <3>5, <3>6
      <4>3. \A x \in Buckets!Row \ Buckets!Waiting : next_in_bucket'[x] = Buckets!NO_BUCKET_ROW
        BY <3>6 DEF LinksEnd
      <4>4. r \notin Buckets!Waiting'  BY <1>5, <2>1
      <4>. QED BY <1>1, <1>3, <1>5, <3>5, <4>1, <4>2, <4>3, <4>4, OneLess
    <3>8. next_in_bucket' \in [Buckets!Row -> Buckets!Row \cup {Buckets!NO_BUCKET_ROW}]
      BY <3>5, <3>6 DEF LinksEnd
    <3>. QED BY <3>5, <3>6, <3>7, <3>8 DEF Masks
  <2>2. CASE Buckets!Support(Buckets!Sum(r)) # {}
    <3>1. PICK c, k : /\ c = Buckets!LeadingColumn(Buckets!Sum(r))
                      /\ k = Buckets!small_weight_binary_bucket_index(IF kind \in Buckets!Cached
                               THEN Buckets!WeightAfter(r)
                               ELSE Buckets!Cardinality(Buckets!Support(Buckets!Sum(r))))
      OBVIOUS
    <3>2. GoesTo(l, k, c, r)
      BY <1>2, <2>2, <3>1 DEF Buckets!PopAndEliminate, GoesTo
    <3>3. c \in Buckets!Col /\ c > col  BY <1>6, <2>2, <3>1
    <3>4. k = Buckets!small_weight_binary_bucket_index(Buckets!Cardinality(Buckets!Support(Buckets!Sum(r))))
      BY <1>1, <1>3, <3>1, WeightKept
    <3>5. k \in Buckets!List
      <4>1. Buckets!Support(Buckets!Sum(r)) \in SUBSET Buckets!Col  BY <1>6, Leading
      <4>2. Buckets!Cardinality(Buckets!Support(Buckets!Sum(r))) \in Nat  BY <4>1, Sizes
      <4>. QED BY <1>3, <3>4, <4>2, WeightAndList
    <3>6. Buckets!ListOf(r)' = k

        BY <1>1, <1>5, <3>4 DEF Buckets!ListOf, Buckets!Weight,
           Buckets!small_weight_binary_bucket_index
    <3>7. WaitsIn(r, k, c)  BY <1>5, <2>2, <3>1, <3>6 DEF WaitsIn
    <3>8. FirstOf(r, l, q)  BY <1>2 DEF FirstOf
    <3>9. OnlyRow(r)  BY <1>5 DEF OnlyRow
    <3>. QED BY <1>1, <3>2, <3>3, <3>5, <3>7, <3>8, <3>9, Refiled
  <2>. QED BY <2>1, <2>2
<1>8. BucketTypes'  BY <1>1, <1>3, <1>5, <1>7 DEF BucketTypes
<1>. QED BY <1>5, <1>7, <1>8 DEF BucketsInv

\* Every step of the lists keeps the invariant.
LEMMA BucketsNext ==
  ASSUME Buckets!BucketAssumption, BucketsInv, [Buckets!Next]_(Buckets!vars) PROVE BucketsInv'
<1>1. CASE Buckets!FileRow  BY <1>1, FileRowKeeps
<1>2. CASE Buckets!PopLightest  BY <1>2, PopLightestKeeps
<1>3. CASE Buckets!PassOver  BY <1>3, PassOverKeeps
<1>4. CASE Buckets!PopAndEliminate  BY <1>4, PopAndEliminateKeeps
<1>5. CASE Buckets!NextColumn  BY <1>5, NextColumnKeeps
<1>6. CASE UNCHANGED Buckets!vars  BY <1>6, OverKeeps
<1>7. CASE Buckets!Over  BY <1>6, <1>7 DEF Buckets!Over
<1>. QED BY <1>1, <1>2, <1>3, <1>4, <1>5, <1>6, <1>7 DEF Buckets!Next

\* The invariant implies what is checked of the lists.
LEMMA BucketsImply ==
  ASSUME Buckets!BucketAssumption, BucketsInv
  PROVE  Buckets!TypeInv /\ Buckets!ListsHoldWaitingRows /\ Buckets!MasksAndCountsFit
           /\ Buckets!CachedStateIsCurrent
<1>0. BucketTypes /\ ListsLinked /\ CountsFit /\ CachesCurrent  BY DEF BucketsInv
<1>1. Buckets!MasksAndCountsFit /\ Buckets!CachedStateIsCurrent
  BY <1>0 DEF CountsFit, CachesCurrent
<1>2. bucket_counts \in [Buckets!Col -> 0 .. Height]
  <2>1. \A c \in Buckets!Col : bucket_counts[c] \in 0 .. Height
    <3>. TAKE c \in Buckets!Col
    <3>1. CASE kind = "counted"
      <4>1. bucket_counts[c] = Buckets!Cardinality(Begin(c)) /\ Begin(c) \in SUBSET Buckets!Row
        BY <3>1, Counted
      <4>. QED BY <4>1, Sizes
    <3>2. CASE kind # "counted"
      BY <1>0, <3>2 DEF CountsFit, Buckets!BucketAssumption
    <3>. QED BY <3>1, <3>2
  <2>. QED BY <1>0, <2>1 DEF BucketTypes
<1>3. Buckets!TypeInv  BY <1>0, <1>2 DEF Buckets!TypeInv, BucketTypes, CachesCurrent, Vector
<1>4. ASSUME NEW l \in Buckets!List, NEW c \in Buckets!Col
      PROVE  /\ Buckets!Following(heads[l][c])[Height + 1] = Buckets!NO_BUCKET_ROW
             /\ Buckets!Range(Buckets!Chain(l, c)) = Members(l, c)
  <2>1. PICK q \in Seq(Buckets!Row) : Linked(q, heads[l][c], next_in_bucket)
          /\ RowsOf(q) = Members(l, c)
    BY <1>0 DEF ListsLinked, Holds
  <2>2. Buckets!Chain(l, c) = q
          /\ Buckets!Following(heads[l][c])[Height + 1] = Buckets!NO_BUCKET_ROW
    BY <2>1, ChainIsList
  <2>3. Buckets!Range(q) = RowsOf(q)
    <3>1. DOMAIN q = 1 .. Len(q)  OBVIOUS
    <3>. QED BY <3>1 DEF Buckets!Range, RowsOf
  <2>. QED BY <2>1, <2>2, <2>3
<1>5. Buckets!ListsHoldWaitingRows
  BY <1>0, <1>4 DEF Buckets!ListsHoldWaitingRows, ListsLinked, Members
<1>. QED BY <1>1, <1>3, <1>5

\* Operators of the abstract specification are those of the detailed one.
LEMMA SameOperators ==
  /\ \A T : Buckets!Columns!Cardinality(T) = Buckets!Cardinality(T)
  /\ Buckets!Columns!F = Buckets!F
  /\ \A v : Buckets!Columns!Support(v) = Buckets!Support(v)
     /\ Buckets!Columns!LeadingColumn(v) = Buckets!LeadingColumn(v)
  /\ \A a, v : Buckets!Columns!VTimes(a, v) = Buckets!VTimes(a, v)
     /\ Buckets!Columns!VPlus(a, v) = Buckets!VPlus(a, v)
  /\ \A a : Buckets!Columns!FInverse(a) = Buckets!FInverse(a)
<1>1. \A T : Buckets!Columns!Cardinality(T) = Buckets!Cardinality(T)
  BY DEF Buckets!Columns!Cardinality, Buckets!Cardinality
<1>2. \A v : Buckets!Columns!Support(v) = Buckets!Support(v)
  BY DEF Buckets!Columns!Support, Buckets!Support, Buckets!Columns!Zero, Buckets!Zero
<1>3. \A v : Buckets!Columns!LeadingColumn(v) = Buckets!LeadingColumn(v)
  BY <1>2 DEF Buckets!Columns!LeadingColumn, Buckets!LeadingColumn
<1>4. \A a, b : Buckets!Columns!FTimes(a, b) = Buckets!FTimes(a, b)
        /\ Buckets!Columns!FPlus(a, b) = Buckets!FPlus(a, b)
  BY DEF Buckets!Columns!FTimes, Buckets!FTimes, Buckets!Columns!FPlus, Buckets!FPlus
<1>5. \A a, v : Buckets!Columns!VTimes(a, v) = Buckets!VTimes(a, v)
        /\ Buckets!Columns!VPlus(a, v) = Buckets!VPlus(a, v)
  BY <1>4 DEF Buckets!Columns!VTimes, Buckets!VTimes, Buckets!Columns!VPlus, Buckets!VPlus
<1>6. Buckets!Columns!F = Buckets!F  BY DEF Buckets!Columns!F, Buckets!F
<1>7. \A a : Buckets!Columns!FInverse(a) = Buckets!FInverse(a)
  BY <1>4, <1>6 DEF Buckets!Columns!FInverse, Buckets!FInverse, Buckets!Columns!One, Buckets!One
<1>. QED BY <1>1, <1>2, <1>3, <1>5, <1>6, <1>7

\* Without a pivot, rows are as they are, and the same begin in the column.
LEMMA BetweenPivots ==
  ASSUME Buckets!BucketAssumption, BucketsInv, pivot = Buckets!NO_BUCKET_ROW
  PROVE  /\ Buckets!Eliminated = rows
         /\ filed = Height => Buckets!Columns!BeginHere = Here
         /\ \A p \in Buckets!Row : Buckets!Columns!Weight(p) = Buckets!Weight(p)
            /\ Buckets!Columns!Normal(p) = Buckets!Lead(p)
<1>0. BucketTypes  BY DEF BucketsInv
<1>1. Buckets!Eliminated = rows
  <2>1. Buckets!Eliminated = [p \in Buckets!Row |-> rows[p]]  BY DEF Buckets!Eliminated
  <2>. QED BY <1>0, <2>1 DEF BucketTypes
<1>2. \A p \in Buckets!Row : Buckets!Columns!Weight(p) = Buckets!Weight(p)
  BY <1>1, SameOperators DEF Buckets!Columns!Weight, Buckets!Weight
<1>3. \A p \in Buckets!Row : Buckets!Columns!Normal(p) = Buckets!Lead(p)
  BY <1>1, SameOperators DEF Buckets!Columns!Normal, Buckets!Lead
<1>4. Buckets!Columns!Pivoted = Buckets!Pivoted
  BY DEF Buckets!Columns!Pivoted, Buckets!Pivoted, Buckets!Columns!NoPivot,
     Buckets!NO_BUCKET_ROW
<1>5. ASSUME filed = Height PROVE Buckets!Columns!BeginHere = Here
  <2>1. Buckets!Columns!BeginHere
          = {p \in Buckets!Row \ Buckets!Pivoted : Buckets!Support(rows[p]) # {}
              /\ Buckets!LeadingColumn(rows[p]) = col}
    BY <1>1, <1>4, SameOperators DEF Buckets!Columns!BeginHere
  <2>2. \A p \in Buckets!Row : p < filed  BY <1>5 DEF Buckets!Row, Buckets!BucketAssumption
  <2>. QED BY <2>1, <2>2 DEF Here, Buckets!Waiting
<1>. QED BY <1>1, <1>2, <1>3, <1>5

\* At the start the abstract specification is at its own.
LEMMA ColumnsStart ==
  ASSUME Buckets!BucketAssumption, Buckets!Init
  PROVE  Buckets!Columns!Init
<1>1. BucketsInv /\ pivot = Buckets!NO_BUCKET_ROW  BY BucketsStart DEF Buckets!Init
<1>2. Buckets!Eliminated = rows  BY <1>1, BetweenPivots
<1>3. rows \in [Buckets!Row -> [Buckets!Col -> Buckets!F]]
  BY <1>1 DEF BucketsInv, BucketTypes, Vector
<1>4. col = 0 /\ pivot_for_col = [j \in Buckets!Col |-> Buckets!NO_BUCKET_ROW]
  BY DEF Buckets!Init
<1>. QED BY <1>1, <1>2, <1>3, <1>4, SameOperators DEF Buckets!Columns!Init,
       Buckets!Columns!NoPivot, Buckets!NO_BUCKET_ROW

\* Its variables stay, though the lists change.
SameColumns ==
  /\ Buckets!Eliminated' = Buckets!Eliminated /\ pivot_for_col' = pivot_for_col
  /\ (IF pivot = Buckets!NO_BUCKET_ROW THEN col ELSE col + 1)'
       = IF pivot = Buckets!NO_BUCKET_ROW THEN col ELSE col + 1

\* What changes only the lists is a step it does not see.
LEMMA SameColumnsStutter ==
  ASSUME SameColumns
  PROVE  UNCHANGED Buckets!Columns!vars
BY DEF SameColumns, Buckets!Columns!vars

\* Filing is not seen.
LEMMA FileRowStutters ==
  ASSUME Buckets!BucketAssumption, BucketsInv, Buckets!FileRow PROVE SameColumns
<1>1. BucketsInv'  BY FileRowKeeps
<1>2. UNCHANGED <<rows, col, pivot, pivot_for_col>> /\ filed < Height  BY DEF Buckets!FileRow
<1>3. pivot = Buckets!NO_BUCKET_ROW  BY <1>2 DEF BucketsInv, BucketControl
<1>4. Buckets!Eliminated = rows  BY <1>3, BetweenPivots
<1>5. Buckets!Eliminated' = rows'
  <2>1. Buckets!Eliminated' = [p \in Buckets!Row |-> rows'[p]]
    BY <1>2, <1>3 DEF Buckets!Eliminated
  <2>. QED BY <1>1, <2>1 DEF BucketsInv, BucketTypes
<1>. QED BY <1>2, <1>4, <1>5 DEF SameColumns

\* Nor is the end of a column, which was done when its pivot was taken.
LEMMA NextColumnStutters ==
  ASSUME Buckets!BucketAssumption, BucketsInv, Buckets!NextColumn PROVE SameColumns
<1>1. BucketsInv'  BY NextColumnKeeps
<1>2. UNCHANGED <<rows, pivot_for_col>> /\ pivot # Buckets!NO_BUCKET_ROW
        /\ pivot' = Buckets!NO_BUCKET_ROW
      /\ col' = col + 1 /\ ~Buckets!Anything
  BY DEF Buckets!NextColumn
<1>3. col \in Buckets!Col  BY <1>2 DEF BucketsInv, BucketControl
<1>4. Here = {}  BY <1>2, <1>3, ColumnDone
<1>5. Buckets!Eliminated = [p \in Buckets!Row |-> rows[p]]  BY <1>4 DEF Buckets!Eliminated, Here
<1>6. Buckets!Eliminated' = [p \in Buckets!Row |-> rows'[p]]  BY <1>2 DEF Buckets!Eliminated
<1>. QED BY <1>2, <1>5, <1>6 DEF SameColumns

\* Nor is the addition of the pivot, which was expected.
LEMMA PopAndEliminateStutters ==
  ASSUME Buckets!BucketAssumption, BucketsInv, Buckets!PopAndEliminate PROVE SameColumns
<1>1. pivot # Buckets!NO_BUCKET_ROW /\ col \in Buckets!Col
        /\ UNCHANGED <<kind, filed, col, pivot, pivot_for_col>>
  BY EliminateFacts
<1>2. PICK l \in Buckets!List, q \in Seq(Buckets!Row), r \in Buckets!Row :
        /\ l = Buckets!ListToTake /\ Buckets!Chain(l, col) = q /\ 1 \in 1 .. Len(q) /\ r = q[1]
        /\ Linked(q, heads[l][col], next_in_bucket) /\ RowsOf(q) = Members(l, col)
  BY EliminateFacts
<1>3. r \in Here  BY <1>2 DEF RowsOf, Members, Here
<1>4. /\ rows' = [rows EXCEPT ![r] = Buckets!Sum(r)]
      /\ row_weights' = [row_weights EXCEPT ![r] = Buckets!WeightAfter(r)]
      /\ entries' = Buckets!EntriesAfter(r)
  BY <1>2 DEF Buckets!PopAndEliminate
<1>5. /\ rows'[r] = Buckets!Sum(r)
      /\ \A j \in Buckets!Row : j # r => rows'[j] = rows[j]
         /\ (j \in Buckets!Waiting' <=> j \in Buckets!Waiting)
      /\ r \in Buckets!Waiting' <=> Buckets!Support(Buckets!Sum(r)) # {}
  BY <1>3, <1>4, EliminateRows
<1>6. /\ r # pivot /\ pivot \in Buckets!Row
      /\ Buckets!Support(Buckets!Sum(r)) # {}
         => Buckets!LeadingColumn(Buckets!Sum(r)) \in Buckets!Col
             /\ Buckets!LeadingColumn(Buckets!Sum(r)) > col
  BY <1>1, <1>3, SumOfRow
<1>7. rows'[pivot] = rows[pivot]  BY <1>5, <1>6
<1>8. ASSUME NEW p \in Buckets!Row
      PROVE  IF p \in Buckets!Waiting'
               /\ Buckets!LeadingColumn(rows'[p]) = col THEN Buckets!Sum(p)'
                  = Buckets!Eliminated[p]
             ELSE rows'[p] = Buckets!Eliminated[p]
  <2>1. CASE p = r
    <3>1. Buckets!Eliminated[p] = Buckets!Sum(r)
      BY <1>1, <1>3, <2>1 DEF Buckets!Eliminated, Here
    <3>2. ~(p \in Buckets!Waiting' /\ Buckets!LeadingColumn(rows'[p]) = col)
      BY <1>1, <1>5, <1>6, <2>1 DEF Buckets!Col
    <3>. QED BY <1>5, <2>1, <3>1, <3>2
  <2>2. CASE p # r
    <3>1. rows'[p] = rows[p] /\ (p \in Buckets!Waiting' <=> p \in Buckets!Waiting)
      BY <1>5, <2>2
    <3>2. Buckets!Sum(p)' = Buckets!Sum(p)  BY <1>1, <1>7, <3>1 DEF Buckets!Sum
    <3>. QED BY <1>1, <3>1, <3>2 DEF Buckets!Eliminated
  <2>. QED BY <2>1, <2>2
<1>9. Buckets!Eliminated' = [p \in Buckets!Row |-> IF p \in Buckets!Waiting'
        /\ Buckets!LeadingColumn(rows'[p]) = col
                                   THEN Buckets!Sum(p)' ELSE rows'[p]]
  BY <1>1 DEF Buckets!Eliminated
<1>10. Buckets!Eliminated' = [p \in Buckets!Row |-> Buckets!Eliminated[p]]  BY <1>8, <1>9
<1>11. Buckets!Eliminated = [p \in Buckets!Row |-> Buckets!Eliminated[p]]
  BY DEF Buckets!Eliminated
<1>. QED BY <1>1, <1>10, <1>11 DEF SameColumns

\* A column is passed over in both.
LEMMA PassOverPasses ==
  ASSUME Buckets!BucketAssumption, BucketsInv, Buckets!PassOver PROVE Buckets!Columns!PassOver
<1>1. BucketsInv'  BY PassOverKeeps
<1>2. /\ UNCHANGED <<rows, pivot, pivot_for_col>> /\ col' = col + 1 /\ ~Buckets!Anything
      /\ filed = Height /\ col < Width /\ pivot = Buckets!NO_BUCKET_ROW
  BY DEF Buckets!PassOver
<1>3. col \in Buckets!Col
  BY <1>2 DEF Buckets!Col, BucketsInv, BucketTypes, Buckets!BucketAssumption
<1>4. Here = {}  BY <1>2, <1>3, ColumnDone
<1>5. Buckets!Columns!BeginHere = {} /\ Buckets!Eliminated = rows  BY <1>2, <1>4, BetweenPivots
<1>6. Buckets!Eliminated' = rows'
  <2>1. Buckets!Eliminated' = [p \in Buckets!Row |-> rows'[p]]  BY <1>2 DEF Buckets!Eliminated
  <2>. QED BY <1>1, <2>1 DEF BucketsInv, BucketTypes
<1>. QED BY <1>2, <1>3, <1>5, <1>6 DEF Buckets!Columns!PassOver

\* When the pivot is taken, all rows are as they will be when it has been
\* added.
LEMMA PopLightestEliminates ==
  ASSUME Buckets!BucketAssumption, BucketsInv,
           Buckets!PopLightest PROVE Buckets!Columns!EliminateColumn
<1>1. /\ col \in Buckets!Col /\ pivot = Buckets!NO_BUCKET_ROW /\ filed = Height
      /\ UNCHANGED <<kind, filed, row_weights, entries, col>>
  BY PopLightestFacts
<1>2. PICK l \in Buckets!List, q \in Seq(Buckets!Row) : \E k \in 1 .. Len(q) :
              /\ l = Buckets!ListToTake /\ Buckets!Chain(l, col) = q
              /\ Linked(q, heads[l][col], next_in_bucket) /\ RowsOf(q) = Members(l, col)
              /\ Buckets!Take(l, k) /\ pivot' = q[k]
              /\ pivot_for_col' = [pivot_for_col EXCEPT ![col] = q[k]]
              /\ rows' = [rows EXCEPT ![q[k]] = Buckets!Lead(q[k])]
              /\ \A j \in Here : Buckets!Weight(q[k]) <= Buckets!Weight(j)
  BY PopLightestFacts
<1>3. PICK p \in Here : /\ pivot' = p /\ pivot_for_col' = [pivot_for_col EXCEPT ![col] = p]
                        /\ rows' = [rows EXCEPT ![p] = Buckets!Lead(p)]
                        /\ \A j \in Here : Buckets!Weight(p) <= Buckets!Weight(j)
  <2>1. PICK k \in 1 .. Len(q) :
              /\ pivot' = q[k] /\ pivot_for_col' = [pivot_for_col EXCEPT ![col] = q[k]]
              /\ rows' = [rows EXCEPT ![q[k]] = Buckets!Lead(q[k])]
              /\ \A j \in Here : Buckets!Weight(q[k]) <= Buckets!Weight(j)
    BY <1>2
  <2>2. RowsOf(q) = Members(l, col)  BY <1>2
  <2>3. q[k] \in Here  BY <2>2 DEF RowsOf, Members, Here
  <2>. QED BY ONLY <2>1, <2>3
<1>4. p \in Buckets!Row /\ p # Buckets!NO_BUCKET_ROW /\ Here \subseteq Buckets!Row
  BY DEF Here, Buckets!Waiting, Buckets!Row, Buckets!NO_BUCKET_ROW
<1>5. /\ \A j \in Buckets!Row : j # p => rows'[j] = rows[j]
         /\ (j \in Buckets!Waiting' <=> j \in Buckets!Waiting)
      /\ p \notin Buckets!Waiting'
  BY <1>1, <1>3, <1>4, PivotFound
<1>6. rows'[p] = Buckets!Lead(p)  BY <1>3, <1>4 DEF BucketsInv, BucketTypes
<1>7. /\ Buckets!Columns!BeginHere = Here /\ Buckets!Eliminated = rows
      /\ \A j \in Buckets!Row : Buckets!Columns!Weight(j) = Buckets!Weight(j)
         /\ Buckets!Columns!Normal(j) = Buckets!Lead(j)
  BY <1>1, BetweenPivots
<1>8. Buckets!Eliminated' = [j \in Buckets!Row |-> IF j \in Buckets!Waiting'
        /\ Buckets!LeadingColumn(rows'[j]) = col
                                   THEN Buckets!Sum(j)' ELSE rows'[j]]
  BY <1>1, <1>3, <1>4 DEF Buckets!Eliminated
<1>9. ASSUME NEW j \in Buckets!Row
      PROVE  (IF j \in Buckets!Waiting'
               /\ Buckets!LeadingColumn(rows'[j]) = col THEN Buckets!Sum(j)' ELSE rows'[j])
             = IF j = p THEN Buckets!Lead(p)
               ELSE IF j \in Here THEN Buckets!VPlus(rows[j],
                   Buckets!VTimes(rows[j][col], Buckets!Lead(p))) ELSE rows[j]
  <2>1. CASE j = p  BY <1>5, <1>6, <2>1
  <2>2. CASE j # p
    <3>1. rows'[j] = rows[j] /\ (j \in Buckets!Waiting' <=> j \in Buckets!Waiting)
      BY <1>5, <2>2
    <3>2. Buckets!Sum(j)' = Buckets!VPlus(rows[j],
            Buckets!VTimes(rows[j][col], Buckets!Lead(p)))
      BY <1>1, <1>3, <1>6, <3>1 DEF Buckets!Sum
    <3>. QED BY <2>2, <3>1, <3>2 DEF Here
  <2>. QED BY <2>1, <2>2
<1>10. Buckets!Eliminated' = [j \in Buckets!Row |-> IF j = p THEN Buckets!Lead(p)
               ELSE IF j \in Here THEN Buckets!VPlus(rows[j],
                   Buckets!VTimes(rows[j][col], Buckets!Lead(p))) ELSE rows[j]]
  BY <1>8, <1>9
<1>11. Buckets!Eliminated' = [j \in Buckets!Row |->
            IF j = p THEN Buckets!Columns!Normal(p)
            ELSE IF j \in Buckets!Columns!BeginHere
            THEN Buckets!Columns!VPlus(Buckets!Eliminated[j],
                Buckets!Columns!VTimes(Buckets!Eliminated[j][col], Buckets!Columns!Normal(p)))
            ELSE Buckets!Eliminated[j]]
  BY <1>4, <1>7, <1>10, SameOperators
<1>12. \A j \in Buckets!Columns!BeginHere :
         Buckets!Columns!Weight(p) <= Buckets!Columns!Weight(j)
  BY <1>3, <1>4, <1>7
<1>13. (IF pivot = Buckets!NO_BUCKET_ROW THEN col ELSE col + 1)' = col + 1  BY <1>1, <1>3, <1>4
<1>. QED BY <1>1, <1>3, <1>7, <1>11, <1>12, <1>13 DEF Buckets!Columns!EliminateColumn

\* Every step eliminates a column, passes one over, or is not seen.
LEMMA ColumnsStep ==
  ASSUME Buckets!BucketAssumption, BucketsInv,
           [Buckets!Next]_(Buckets!vars) PROVE [Buckets!Columns!Next]_(Buckets!Columns!vars)
<1>1. CASE Buckets!FileRow  BY <1>1, FileRowStutters, SameColumnsStutter
<1>2. CASE Buckets!PopLightest  BY <1>2, PopLightestEliminates DEF Buckets!Columns!Next
<1>3. CASE Buckets!PassOver  BY <1>3, PassOverPasses DEF Buckets!Columns!Next
<1>4. CASE Buckets!PopAndEliminate  BY <1>4, PopAndEliminateStutters, SameColumnsStutter
<1>5. CASE Buckets!NextColumn  BY <1>5, NextColumnStutters, SameColumnsStutter
<1>6. CASE UNCHANGED Buckets!vars
  <2>1. UNCHANGED <<kind, rows, filed, col, pivot, pivot_for_col>>  BY <1>6 DEF Buckets!vars
  <2>2. Buckets!Waiting' = Buckets!Waiting  BY <2>1 DEF Buckets!Waiting, Buckets!Pivoted
  <2>3. \A p : Buckets!Sum(p)' = Buckets!Sum(p)  BY <2>1 DEF Buckets!Sum
  <2>4. Buckets!Eliminated' = Buckets!Eliminated  BY <2>1, <2>2, <2>3 DEF Buckets!Eliminated
  <2>. QED BY <2>1, <2>4, SameColumnsStutter DEF SameColumns
<1>7. CASE Buckets!Over  BY <1>6, <1>7 DEF Buckets!Over
<1>. QED BY <1>1, <1>2, <1>3, <1>4, <1>5, <1>6, <1>7 DEF Buckets!Next

-----------------------------------------------------------------------------
(* All of them.                                                            *)

\* Whichever runs keeps its own invariant.
RoutinesInv ==
  /\ subject = "Buckets" => BucketsInv
  /\ subject = "Merges" => MergeInv
  /\ subject = "Moves" => MovesInv

\* Every step of a behaviour keeps the invariants.
LEMMA RoutinesKept ==
  /\ Init => RoutinesInv
  /\ RoutinesInv /\ [Next]_vars => RoutinesInv'
<1>. USE RoutinesAssumption DEF RoutinesAssumption
<1>1. ASSUME Init PROVE RoutinesInv
  <2>1. CASE subject = "Merges" /\ Merges!Init  BY <2>1, MergeStarts DEF RoutinesInv
  <2>2. CASE subject = "Moves" /\ Moves!Init  BY <2>2, MovesInit DEF RoutinesInv
  <2>3. CASE subject = "Buckets" /\ Buckets!Init  BY <2>3, BucketsStart DEF RoutinesInv
  <2>. QED BY <1>1, <2>1, <2>2, <2>3 DEF Init
<1>2. ASSUME RoutinesInv, [Next]_vars PROVE RoutinesInv'
  <2>1. CASE MovesStep
    <3>1. subject = "Moves" /\ subject' = "Moves" /\ Moves!Next  BY <2>1 DEF MovesStep
    <3>. QED BY <1>2, <3>1, MovesNext DEF RoutinesInv
  <2>2. CASE MergesStep
    <3>1. subject = "Merges" /\ subject' = "Merges" /\ Merges!Next  BY <2>2 DEF MergesStep
    <3>. QED BY <1>2, <3>1, MergeKept DEF RoutinesInv
  <2>3. CASE BucketsStep
    <3>1. subject = "Buckets" /\ subject' = "Buckets" /\ Buckets!Next  BY <2>3 DEF BucketsStep
    <3>. QED BY <1>2, <3>1, BucketsNext DEF RoutinesInv
  <2>4. CASE UNCHANGED vars
    <3>1. subject' = subject /\ UNCHANGED Moves!vars /\ UNCHANGED Merges!vars
          /\ UNCHANGED Buckets!vars
      BY <2>4 DEF vars, Moves!vars, Merges!vars, Buckets!vars
    <3>. QED BY <1>2, <3>1, MovesNext, MergeKept, BucketsNext DEF RoutinesInv
  <2>. QED BY <1>2, <2>1, <2>2, <2>3, <2>4 DEF Next
<1>. QED BY <1>1, <1>2

\* For any number of rows and columns, and whichever kind of lists: every row
\* that waits for its column is in the one list it belongs to, links never run
\* from one list into another, and masks, counts, weights and cached entries
\* are those of the rows as they are (pi_solver.rs 8751-9265).
THEOREM ListsCorrect == Spec => []ListsHoldWaitingRows
<1>1. ASSUME RoutinesInv PROVE ListsHoldWaitingRows
  <2>. SUFFICES ASSUME subject = "Buckets" PROVE ListsHoldWaitingRows
    BY DEF ListsHoldWaitingRows
  <2>1. BucketsInv /\ Buckets!BucketAssumption
    BY <1>1, RoutinesAssumption DEF RoutinesInv, RoutinesAssumption
  <2>. QED BY <2>1, BucketsImply DEF ListsHoldWaitingRows
<1>. QED BY <1>1, RoutinesKept, PTL DEF Spec

\* By the lists every column is eliminated with a lightest row that begins
\* there, and all others that do are cleared with it, as if all rows were
\* looked at each time (pi_solver.rs 8315-8381, 9052-9265).
THEOREM EliminationImplemented == Spec => ImplementsElimination
<1>. DEFINE Starts == subject = "Buckets" => Buckets!Columns!Init
            Step == subject = "Buckets" => [Buckets!Columns!Next]_(Buckets!Columns!vars)
<1>1. ASSUME Init PROVE Starts
  <2>1. subject = "Buckets" => Buckets!Init  BY <1>1 DEF Init
  <2>2. Buckets!BucketAssumption  BY RoutinesAssumption DEF RoutinesAssumption
  <2>. QED BY <2>1, <2>2, ColumnsStart
<1>2. ASSUME RoutinesInv, [Next]_vars PROVE [Step]_vars
  <2>. SUFFICES ASSUME subject = "Buckets" PROVE [Buckets!Columns!Next]_(Buckets!Columns!vars)
    OBVIOUS
  <2>1. [Buckets!Next]_(Buckets!vars)
    BY <1>2 DEF Next, MovesStep, MergesStep, BucketsStep, vars, Buckets!vars
  <2>2. BucketsInv /\ Buckets!BucketAssumption
    BY <1>2, RoutinesAssumption DEF RoutinesInv, RoutinesAssumption
  <2>. QED BY <2>1, <2>2, ColumnsStep
<1>. HIDE DEF Starts, Step
<1>3. Spec => Starts /\ [][Step]_vars  BY <1>1, <1>2, RoutinesKept, PTL DEF Spec
<1>. QED BY <1>3 DEF ImplementsElimination, Starts, Step

\* Whichever way a multiple of one row is added to another, for any width and
\* any factor, the row stays in the order of its columns without zeros, no
\* lookup begins behind its place, and the row becomes the sum
\* (pi_solver.rs 9347-9917).
THEOREM MergesCorrect == Spec => []MergedRowIsSum
<1>1. ASSUME RoutinesInv PROVE MergedRowIsSum
  BY <1>1, MergeImplies DEF RoutinesInv, MergedRowIsSum
<1>. QED BY <1>1, RoutinesKept, PTL DEF Spec

\* However the pivots lie, for any number of columns and of LDPC and HDPC rows,
\* moving their symbols in place loses none, brings each to its column and each
\* coefficient back, and moves each once (pi_solver.rs 2853-2953, 4755-4843).
THEOREM MovesCorrect == Spec => []MovesBringPivotsHome
<1>1. ASSUME RoutinesInv PROVE MovesBringPivotsHome
  <2>. SUFFICES ASSUME subject = "Moves" PROVE MovesBringPivotsHome
    BY DEF MovesBringPivotsHome
  <2>1. MovesInv /\ Moves!MovesAssumption
    BY <1>1, RoutinesAssumption DEF RoutinesInv, RoutinesAssumption
  <2>. QED BY <2>1, MovesTyped, NoneIsLost, PivotsHome, CoefficientsBack, MovedOnce
       DEF MovesBringPivotsHome
<1>. QED BY <1>1, RoutinesKept, PTL DEF Spec
=============================================================================
