------------------------ MODULE ObjectEncoderProofs -------------------------
(***************************************************************************)
(* The layout of an object can be undone, for every configuration that     *)
(* ObjectTransmissionInformation::new admits and whatever the bytes, and   *)
(* Encoder::new uses plans that fit.                                       *)
(*                                                                         *)
(* Offsets are sums over blocks and over sub-symbols, defined recursively; *)
(* each gets a closed form first (SumOfBlocks, SumOfSubBlocks) and is used *)
(* through it alone.  That no byte of a block is lost then needs two       *)
(* facts: every byte has a place (EveryBytePlaced), and a symbol is read   *)
(* from the places it is written to (CreatedByte).                         *)
(*                                                                         *)
(* The loop's invariant says what the blocks made so far are; that a plan  *)
(* handed on fits follows because the loop compares symbol counts.         *)
(***************************************************************************)
EXTENDS ObjectEncoder, SequenceTheorems, FiniteSetTheorems,
        WellFoundedInduction, TLAPS

-----------------------------------------------------------------------------
(* Induction and recursion over the natural numbers, stated with sets and  *)
(* functions: the library's induction theorems take an operator as a       *)
(* parameter, which the provers cannot instantiate.                        *)

\* A set of numbers has a least member.
LEMMA LeastNumber ==
  ASSUME NEW T, T \subseteq Nat, T # {}
  PROVE  \E p \in T : \A q \in T : p <= q
<1>1. PICK p \in T : \A q \in T : ~(<<q, p>> \in OpToRel(<, Nat))  BY WFMin, NatLessThanWellFounded
<1>2. \A q \in T : ~(q < p)  BY <1>1 DEF OpToRel
<1>. QED BY <1>2

\* Induction over the numbers: a set that holds 0 and with n also n + 1 holds
\* them all.
LEMMA SetInduction ==
  ASSUME NEW P, 0 \in P, \A n \in Nat : n \in P => n + 1 \in P
  PROVE  \A n \in Nat : n \in P
<1>. DEFINE T == {n \in Nat : n \notin P}
<1>. SUFFICES ASSUME T # {} PROVE FALSE  OBVIOUS
<1>1. PICK p \in T : \A q \in T : p <= q  BY LeastNumber
<1>2. p # 0  OBVIOUS
<1>3. p - 1 \in Nat /\ p - 1 \notin T  BY <1>1, <1>2
<1>4. (p - 1) + 1 \in P  BY <1>3
<1>. QED BY <1>4

\* f starts with base, and step e makes f[e] of f[e - 1] by G.
Recurs(f, X, base, n, G) ==
  f \in [0 .. n -> X] /\ f[0] = base /\ \A e \in 1 .. n : f[e] = G[<<e, f[e - 1]>>]

\* Functions that agree everywhere are equal.
LEMMA SameFunction ==
  ASSUME NEW S, NEW T, NEW f, NEW g, f \in [S -> T], g \in [S -> T], \A p \in S : f[p] = g[p]
  PROVE  f = g
OBVIOUS

\* Recursion over 0 .. n has a solution.
LEMMA Recursion ==
  ASSUME NEW X, NEW base, NEW n, NEW G, base \in X, n \in Nat, G \in [(1 .. n) \X X -> X]
  PROVE  \E f : Recurs(f, X, base, n, G)
<1>. DEFINE Good(m, f) == f[0] = base /\ \A e \in 1 .. m : f[e] = G[<<e, f[e - 1]>>]
            P == {m \in Nat : m <= n => \E f \in [0 .. m -> X] : Good(m, f)}
<1>1. 0 \in P
  <2>1. [e \in 0 .. 0 |-> base] \in [0 .. 0 -> X] /\ Good(0, [e \in 0 .. 0 |-> base])  OBVIOUS
  <2>. QED BY <2>1
<1>2. ASSUME NEW m \in Nat, m \in P PROVE m + 1 \in P
  <2>. SUFFICES ASSUME m + 1 <= n PROVE \E f \in [0 .. m + 1 -> X] : Good(m + 1, f)  OBVIOUS
  <2>1. PICK f \in [0 .. m -> X] : Good(m, f)  BY <1>2
  <2>. DEFINE g == [e \in 0 .. m + 1 |-> IF e = m + 1 THEN G[<<m + 1, f[m]>>] ELSE f[e]]
  <2>2. <<m + 1, f[m]>> \in (1 .. n) \X X  BY <2>1
  <2>3. g \in [0 .. m + 1 -> X]  BY <2>1, <2>2
  <2>4. g[0] = base  BY <2>1
  <2>5. ASSUME NEW e \in 1 .. m + 1 PROVE g[e] = G[<<e, g[e - 1]>>]
    <3>1. CASE e = m + 1
      <4>1. e - 1 = m /\ g[e - 1] = f[m] /\ g[e] = G[<<m + 1, f[m]>>]  BY <3>1
      <4>. QED BY <3>1, <4>1
    <3>2. CASE e # m + 1
      <4>1. e \in 1 .. m /\ g[e] = f[e] /\ g[e - 1] = f[e - 1]  BY <3>2
      <4>. QED BY <2>1, <4>1
    <3>. QED BY <3>1, <3>2
  <2>. QED BY <2>3, <2>4, <2>5
<1>. HIDE DEF P
<1>3. n \in P  BY <1>1, <1>2, SetInduction
<1>. QED BY <1>3 DEF P, Recurs

-----------------------------------------------------------------------------
(* Division. *)

\* Quotient and remainder.
LEMMA DivMod == ASSUME NEW n \in Nat, NEW d \in Nat \ {0}
  PROVE n \div d \in Nat /\ n % d \in 0 .. d - 1 /\ n = d * (n \div d) + (n % d)
OBVIOUS

\* Quotient and remainder are the only ones.
LEMMA DivUnique == ASSUME NEW d \in Nat \ {0}, NEW q \in Nat, NEW r \in 0 .. d - 1
  PROVE (d * q + r) \div d = q /\ (d * q + r) % d = r
OBVIOUS

\* Products grow with a factor.
LEMMA Mono == ASSUME NEW k \in Nat, NEW a \in Nat, NEW e \in Nat, a <= e PROVE k * a <= k * e
OBVIOUS

\* Products distribute over sums.
LEMMA Dist == ASSUME NEW k \in Nat, NEW a \in Nat, NEW e \in Nat PROVE k * (a + e) = k * a + k * e /\ k * a \in Nat
OBVIOUS

\* int_div_ceil is the least number of parts of size d that hold n.
LEMMA Ceil == ASSUME NEW n \in Nat, NEW d \in Nat \ {0}
  PROVE /\ (n + d - 1) \div d \in Nat
        /\ d * ((n + d - 1) \div d) >= n
        /\ n % d > 0 => (n + d - 1) \div d = n \div d + 1
        /\ n % d = 0 => (n + d - 1) \div d = n \div d
<1>. DEFINE q == n \div d
            r == n % d
            m == (n + d - 1) \div d
            t == (n + d - 1) % d
<1>1. q \in Nat /\ r \in 0 .. d - 1 /\ n = d * q + r BY DivMod
<1>2. m \in Nat /\ t \in 0 .. d - 1 /\ n + d - 1 = d * m + t 
  <2>1. n + d - 1 \in Nat OBVIOUS
  <2> QED BY <2>1, DivMod
<1>3. d * m >= n  BY <1>2
<1>4. r > 0 => n + d - 1 = d * (q + 1) + (r - 1)  BY <1>1
<1>5. r = 0 => n + d - 1 = d * q + (d - 1)  BY <1>1
<1>. HIDE DEF q, r
<1>6. ASSUME r > 0 PROVE m = q + 1
  <2>1. q + 1 \in Nat /\ r - 1 \in 0 .. d - 1  BY <1>1, <1>6
  <2>. QED BY <1>4, <1>6, <2>1, DivUnique
<1>7. ASSUME r = 0 PROVE m = q
  <2>1. d - 1 \in 0 .. d - 1  OBVIOUS
  <2>. QED BY <1>5, <1>7, <1>1, <2>1, DivUnique
<1>. QED BY <1>2, <1>3, <1>6, <1>7 DEF q, r

-----------------------------------------------------------------------------
(* Cutting into blocks, sub-blocks and symbols, and putting together. *)

\* What part e of a partition p gets, and what all parts before e get.
Share(p, e) == IF e < p.jl THEN p.il ELSE p.is
Before(p, e) == e * p.is + (IF e < p.jl THEN e ELSE p.jl)

\* partition loses nothing: the parts add up to what was divided.
LEMMA PartitionAdds ==
  ASSUME NEW i \in Nat, NEW j \in Nat \ {0}, NEW p, p = partition(i, j)
  PROVE  /\ Before(p, 0) = 0 /\ Before(p, j) = i
         /\ \A e \in 0 .. j : Before(p, e) \in Nat
         /\ \A e \in 0 .. j - 1 : Share(p, e) \in Nat /\ Before(p, e + 1) = Before(p, e) + Share(p, e)
<1>1. p.jl = i % j /\ p.is = i \div j /\ p.il = (i + j - 1) \div j  BY DEF partition, int_div_ceil
<1>2. p.jl \in 0 .. j - 1 /\ p.is \in Nat /\ p.il \in Nat /\ i = j * p.is + p.jl  BY <1>1, DivMod, Ceil
<1>3. p.jl > 0 => p.il = p.is + 1  BY <1>1, Ceil
<1>. DEFINE s == p.is
<1>4. ASSUME NEW e \in Nat PROVE e * s \in Nat /\ (e + 1) * s = e * s + s
  <2>1. s \in Nat  BY <1>2
  <2>. HIDE DEF s
  <2>. QED BY <2>1
<1>5. s \in Nat BY <1>2
<1>6. 0 * s = 0 /\ j * s = i - p.jl  
  <2>1. j * s = i - p.jl BY <1>2
  <2>2. 0 * s = 0 BY <1>5
  <2> QED BY <2>1, <2>2
<1>7. \A e : Before(p, e) = e * s + (IF e < p.jl THEN e ELSE p.jl)  BY DEF Before
<1>8. \A e : Share(p, e) = IF e < p.jl THEN p.il ELSE s  BY DEF Share
<1>9. p.is = s OBVIOUS
<1>. HIDE DEF s
<1>10. Before(p, 0) = 0 /\ Before(p, j) = i  BY <1>2, <1>6, <1>7
<1>11. \A e \in 0 .. j : Before(p, e) \in Nat  BY <1>2, <1>4, <1>7
<1>12. ASSUME NEW e \in 0 .. j - 1 PROVE Share(p, e) \in Nat /\ Before(p, e + 1) = Before(p, e) + Share(p, e)
  <2>0. e \in Nat  OBVIOUS
  <2>1. Before(p, e) = e * s + (IF e < p.jl THEN e ELSE p.jl)  BY <1>7
  <2>2. Before(p, e + 1) = e * s + s + (IF e + 1 < p.jl THEN e + 1 ELSE p.jl)  BY <1>7, <1>4
  <2>3. Share(p, e) = IF e < p.jl THEN s + 1 ELSE s  BY <1>8, <1>3, <1>2, <1>9, <2>0
  <2>4. e * s \in Nat BY <1>4
  <2>. QED BY <2>1, <2>2, <2>3, <2>4, <1>2, <1>5
<1>. QED BY <1>10, <1>11, <1>12

\* The numbers of a configuration; kt symbols hold the object.
LEMMA ConfigNumbers ==
  ASSUME NEW c, ValidConfig(c)
  PROVE  /\ c.transfer_length \in Nat
         /\ c.symbol_size \in Nat \ {0} /\ c.source_blocks \in Nat \ {0}
         /\ c.sub_blocks \in Nat \ {0} /\ c.symbol_alignment \in Nat \ {0}
         /\ kt(c) \in Nat /\ c.symbol_size * kt(c) >= c.transfer_length
<1>1. /\ c.transfer_length \in Nat
      /\ c.symbol_size \in Nat \ {0} /\ c.source_blocks \in Nat \ {0}
      /\ c.sub_blocks \in Nat \ {0} /\ c.symbol_alignment \in Nat \ {0}
  BY DEF ValidConfig, ConfigFields
<1>. QED BY <1>1, Ceil DEF kt, int_div_ceil

\* calculate_block_offsets: the blocks follow each other without a gap, and all
\* kt symbols are in one of them.
LEMMA SumOfBlocks ==
  ASSUME NEW c, ValidConfig(c)
  PROVE  /\ \A e \in 0 .. c.source_blocks : BlockStart(c)[e] \in Nat
         /\ \A e \in BlockIds(c) : SymbolsOf(c, e) \in Nat
         /\ BlockStart(c)[0] = 0
         /\ \A e \in BlockIds(c) : BlockStart(c)[e + 1] = BlockStart(c)[e] + c.symbol_size * SymbolsOf(c, e)
         /\ BlockStart(c)[c.source_blocks] = c.symbol_size * kt(c)
<1>. DEFINE p == partition(kt(c), c.source_blocks)
            s == c.symbol_size
            Z == c.source_blocks
            W(e) == SymbolsOf(c, e) * s
            Eqn(f) == f = [e \in 0 .. Z |-> IF e = 0 THEN 0 ELSE f[e - 1] + SymbolsOf(c, e - 1) * s]
            u == CHOOSE f : Eqn(f)
            g == [e \in 0 .. Z |-> s * Before(p, e)]
<1>0. BlockStart(c) = u  BY DEF BlockStart
<1>1. Z \in Nat \ {0} /\ s \in Nat \ {0} /\ kt(c) \in Nat  BY ConfigNumbers
<1>2. \A e : SymbolsOf(c, e) = Share(p, e)  BY DEF SymbolsOf, Share
<1>3. /\ Before(p, 0) = 0 /\ Before(p, Z) = kt(c)
      /\ \A e \in 0 .. Z : Before(p, e) \in Nat
      /\ \A e \in 0 .. Z - 1 : Share(p, e) \in Nat /\ Before(p, e + 1) = Before(p, e) + Share(p, e)
  BY <1>1, PartitionAdds
<1>. HIDE DEF p, Z, s
<1>4. \A e \in 1 .. Z : e - 1 \in 0 .. Z - 1 /\ (e - 1) + 1 = e  BY <1>1
<1>5. ASSUME NEW e \in 0 .. Z - 1 PROVE s * Before(p, e + 1) = s * Before(p, e) + SymbolsOf(c, e) * s
  <2>. DEFINE x == Before(p, e)
              y == Share(p, e)
  <2>1. x \in Nat /\ y \in Nat /\ Before(p, e + 1) = x + y /\ SymbolsOf(c, e) = y
    <3>1. e \in 0 .. Z BY <1>1
    <3>. QED BY <1>2, <1>3, <3>1
  <2>. HIDE DEF x, y
  <2>2. s * (x + y) = s * x + y * s  BY <2>1, <1>1
  <2>. QED BY <2>1, <2>2 DEF x
<1>6. Eqn(g)
  <2>1. ASSUME NEW e \in 0 .. Z PROVE g[e] = IF e = 0 THEN 0 ELSE g[e - 1] + SymbolsOf(c, e - 1) * s
    <3>1. CASE e = 0  BY <3>1, <1>1, <1>3
    <3>2. CASE e # 0
      <4>1. e - 1 \in 0 .. Z - 1 /\ e - 1 \in 0 .. Z /\ (e - 1) + 1 = e  BY <3>2, <1>1
      <4>2. s * Before(p, e) = s * Before(p, e - 1) + SymbolsOf(c, e - 1) * s  BY <4>1, <1>5
      <4>3. g[e] = s * Before(p, e) /\ g[e - 1] = s * Before(p, e - 1)  BY <4>1
      <4>. QED BY <3>2, <4>2, <4>3
    <3>. QED BY <3>1, <3>2
  <2>. HIDE DEF g
  <2>2. g = [e \in 0 .. Z |-> g[e]]  BY DEF g
  <2>. QED BY <2>1, <2>2
<1>7. Eqn(u)  BY <1>6
<1>. HIDE DEF u
<1>8. u[0] = 0 /\ \A e \in 1 .. Z : u[e] = u[e - 1] + SymbolsOf(c, e - 1) * s
  <2>. DEFINE E(f, e) == IF e = 0 THEN 0 ELSE f[e - 1] + SymbolsOf(c, e - 1) * s
  <2>1. \A e \in 0 .. Z : u[e] = E(u, e)
    <3>1. u = [e \in 0 .. Z |-> E(u, e)]  BY <1>7
    <3>. HIDE DEF E
    <3>. QED BY <3>1
  <2>2. 0 \in 0 .. Z /\ \A e \in 1 .. Z : e # 0 /\ e \in 0 .. Z  BY <1>1
  <2>. QED BY <2>1, <2>2
<1>. HIDE DEF Eqn
<1>9. \A e \in 0 .. Z : u[e] = s * Before(p, e)
  <2>. DEFINE P == {e \in Nat : e <= Z => u[e] = s * Before(p, e)}
  <2>1. 0 \in P  BY <1>8, <1>3, <1>1
  <2>2. ASSUME NEW e \in Nat, e \in P PROVE e + 1 \in P
    <3>. SUFFICES ASSUME e + 1 <= Z PROVE u[e + 1] = s * Before(p, e + 1)  OBVIOUS
    <3>1. e \in 0 .. Z - 1 /\ e + 1 \in 1 .. Z /\ (e + 1) - 1 = e  BY <1>1
    <3>2. u[e] = s * Before(p, e)  BY <2>2, <3>1, <1>1
    <3>. QED BY <3>1, <3>2, <1>5, <1>8
  <2>. HIDE DEF P
  <2>3. \A e \in Nat : e \in P  BY <2>1, <2>2, SetInduction
  <2>. QED BY <2>3, <1>1 DEF P
<1>10. \A e \in 0 .. Z : u[e] \in Nat  
  <2>. TAKE e \in 0 .. Z
  <2>. DEFINE x == Before(p, e)
  <2>1. x \in Nat /\ u[e] = s * x  BY <1>3, <1>9
  <2>. HIDE DEF x
  <2>. QED BY <2>1, <1>1
<1>11. \A e \in 0 .. Z - 1 : u[e + 1] = u[e] + s * SymbolsOf(c, e)
  <2>. TAKE e \in 0 .. Z - 1
  <2>. DEFINE y == SymbolsOf(c, e)
  <2>1. e + 1 \in 1 .. Z /\ (e + 1) - 1 = e /\ y \in Nat  BY <1>1, <1>2, <1>3
  <2>2. u[e + 1] = u[e] + y * s  BY <1>8, <2>1
  <2>. HIDE DEF y
  <2>3. y * s = s * y  BY <2>1, <1>1
  <2>. QED BY <2>2, <2>3 DEF y
<1>12. u[Z] = s * kt(c)  BY <1>1, <1>3, <1>9
<1>. QED BY <1>0, <1>2, <1>3, <1>8, <1>10, <1>11, <1>12 DEF BlockIds, Z, s

\* The sub-symbols of a symbol follow each other without a gap and fill it.
LEMMA SumOfSubBlocks ==
  ASSUME NEW c, ValidConfig(c)
  PROVE  /\ \A j \in 0 .. c.sub_blocks : SubStart(c)[j] \in Nat
         /\ \A j \in 0 .. c.sub_blocks - 1 : SubBytes(c, j) \in Nat
         /\ SubStart(c)[0] = 0
         /\ \A j \in 0 .. c.sub_blocks - 1 : SubStart(c)[j + 1] = SubStart(c)[j] + SubBytes(c, j)
         /\ SubStart(c)[c.sub_blocks] = c.symbol_size
<1>. DEFINE N == c.sub_blocks
            a == c.symbol_alignment
            q == c.symbol_size \div a
            p == partition(q, N)
            Eqn(f) == f = [j \in 0 .. N |-> IF j = 0 THEN 0 ELSE f[j - 1] + SubBytes(c, j - 1)]
            u == CHOOSE f : Eqn(f)
            g == [j \in 0 .. N |-> Before(p, j) * a]
<1>0. SubStart(c) = u  BY DEF SubStart
<1>1. N \in Nat \ {0} /\ a \in Nat \ {0} /\ q \in Nat /\ q * a = c.symbol_size
  <2>1. N \in Nat \ {0} /\ a \in Nat \ {0} /\ c.symbol_size \in Nat /\ c.symbol_size % a = 0
    BY ConfigNumbers DEF ValidConfig
  <2>2. q \in Nat /\ c.symbol_size = a * q + 0  BY <2>1, DivMod
  <2>. HIDE DEF q, a
  <2>3. a * q = q * a /\ q * a \in Nat BY <2>1, <2>2
  <2>. QED BY <2>1, <2>2, <2>3
<1>2. \A j : SubBytes(c, j) = Share(p, j) * a  BY DEF SubBytes, Share
<1>. HIDE DEF N, a, q
<1>3. /\ Before(p, 0) = 0 /\ Before(p, N) = q
      /\ \A j \in 0 .. N : Before(p, j) \in Nat
      /\ \A j \in 0 .. N - 1 : Share(p, j) \in Nat /\ Before(p, j + 1) = Before(p, j) + Share(p, j)
  BY <1>1, PartitionAdds
<1>. HIDE DEF p
<1>5. ASSUME NEW j \in 0 .. N - 1 PROVE Before(p, j + 1) * a = Before(p, j) * a + SubBytes(c, j)
  <2>. DEFINE x == Before(p, j)
              y == Share(p, j)
  <2>1. x \in Nat /\ y \in Nat /\ Before(p, j + 1) = x + y /\ SubBytes(c, j) = y * a
    <3>1. j \in 0 .. N BY <1>1
    <3>. QED BY <1>2, <1>3, <3>1
  <2>. HIDE DEF x, y
  <2>2. (x + y) * a = x * a + y * a  BY <2>1, <1>1
  <2>. QED BY <2>1, <2>2 DEF x
<1>6. Eqn(g)
  <2>1. ASSUME NEW j \in 0 .. N PROVE g[j] = IF j = 0 THEN 0 ELSE g[j - 1] + SubBytes(c, j - 1)
    <3>1. CASE j = 0  BY <3>1, <1>1, <1>3
    <3>2. CASE j # 0
      <4>1. j - 1 \in 0 .. N - 1 /\ j - 1 \in 0 .. N /\ (j - 1) + 1 = j  BY <3>2, <1>1
      <4>2. Before(p, j) * a = Before(p, j - 1) * a + SubBytes(c, j - 1)  BY <4>1, <1>5
      <4>3. g[j] = Before(p, j) * a /\ g[j - 1] = Before(p, j - 1) * a  BY <4>1
      <4>. QED BY <3>2, <4>2, <4>3
    <3>. QED BY <3>1, <3>2
  <2>. HIDE DEF g
  <2>2. g = [j \in 0 .. N |-> g[j]]  BY DEF g
  <2>. QED BY <2>1, <2>2
<1>7. Eqn(u)  BY <1>6
<1>. HIDE DEF u
<1>8. u[0] = 0 /\ \A j \in 1 .. N : u[j] = u[j - 1] + SubBytes(c, j - 1)
  <2>. DEFINE E(f, j) == IF j = 0 THEN 0 ELSE f[j - 1] + SubBytes(c, j - 1)
  <2>1. \A j \in 0 .. N : u[j] = E(u, j)
    <3>1. u = [j \in 0 .. N |-> E(u, j)]  BY <1>7
    <3>. HIDE DEF E
    <3>. QED BY <3>1
  <2>2. 0 \in 0 .. N /\ \A j \in 1 .. N : j # 0 /\ j \in 0 .. N  BY <1>1
  <2>. QED BY <2>1, <2>2
<1>. HIDE DEF Eqn
<1>9. \A j \in 0 .. N : u[j] = Before(p, j) * a
  <2>. DEFINE P == {j \in Nat : j <= N => u[j] = Before(p, j) * a}
  <2>1. 0 \in P  BY <1>8, <1>3, <1>1
  <2>2. ASSUME NEW j \in Nat, j \in P PROVE j + 1 \in P
    <3>. SUFFICES ASSUME j + 1 <= N PROVE u[j + 1] = Before(p, j + 1) * a  OBVIOUS
    <3>1. j \in 0 .. N - 1 /\ j + 1 \in 1 .. N /\ (j + 1) - 1 = j  BY <1>1
    <3>2. u[j] = Before(p, j) * a  BY <2>2, <3>1, <1>1
    <3>. QED BY <3>1, <3>2, <1>5, <1>8
  <2>. HIDE DEF P
  <2>3. \A j \in Nat : j \in P  BY <2>1, <2>2, SetInduction
  <2>. QED BY <2>3, <1>1 DEF P
<1>10. \A j \in 0 .. N : u[j] \in Nat
  <2>. TAKE j \in 0 .. N
  <2>. DEFINE x == Before(p, j)
  <2>1. x \in Nat /\ u[j] = x * a  BY <1>3, <1>9
  <2>. HIDE DEF x
  <2>. QED BY <2>1, <1>1
<1>11. \A j \in 0 .. N - 1 : SubBytes(c, j) \in Nat /\ u[j + 1] = u[j] + SubBytes(c, j)
  <2>. TAKE j \in 0 .. N - 1
  <2>. DEFINE y == Share(p, j)
  <2>1. j + 1 \in 1 .. N /\ (j + 1) - 1 = j /\ y \in Nat /\ SubBytes(c, j) = y * a  BY <1>1, <1>2, <1>3
  <2>2. u[j + 1] = u[j] + SubBytes(c, j)  BY <1>8, <2>1
  <2>. HIDE DEF y
  <2>3. y * a \in Nat  BY <2>1, <1>1
  <2>. QED BY <2>1, <2>2, <2>3
<1>12. u[N] = c.symbol_size  BY <1>1, <1>3, <1>9
<1>. QED BY <1>0, <1>8, <1>10, <1>11, <1>12 DEF N

\* The sub-symbols start one after the other, inside the symbol.
LEMMA SubStartRises ==
  ASSUME NEW c, ValidConfig(c), NEW j \in 0 .. c.sub_blocks, NEW m \in 0 .. c.sub_blocks, j <= m
  PROVE  SubStart(c)[j] <= SubStart(c)[m] /\ SubStart(c)[m] <= c.symbol_size
<1>. DEFINE N == c.sub_blocks
            S(i) == SubStart(c)[i]
            P(i) == {n \in Nat : i + n <= N => S(i) <= S(i + n)}
<1>1. N \in Nat  BY ConfigNumbers
<1>2. /\ S(N) = c.symbol_size
      /\ \A i \in 0 .. N : S(i) \in Nat
      /\ \A i \in 0 .. N - 1 : S(i) <= S(i + 1)
  <2>1. /\ S(N) = c.symbol_size
        /\ \A i \in 0 .. N : S(i) \in Nat
        /\ \A i \in 0 .. N - 1 : SubBytes(c, i) \in Nat /\ S(i + 1) = S(i) + SubBytes(c, i)
    BY SumOfSubBlocks
  <2>. HIDE DEF S, N
  <2>2. \A i \in 0 .. N - 1 : i \in 0 .. N  BY <1>1
  <2>. QED BY <2>1, <2>2
<1>. HIDE DEF S, N
<1>3. ASSUME NEW i \in 0 .. N PROVE \A n \in Nat : n \in P(i)
  <2>1. 0 \in P(i)  BY <1>2
  <2>2. ASSUME NEW n \in Nat, n \in P(i) PROVE n + 1 \in P(i)
    <3>. SUFFICES ASSUME i + (n + 1) <= N PROVE S(i) <= S(i + (n + 1))  OBVIOUS
    <3>1. i + n \in 0 .. N - 1 /\ i + n \in 0 .. N /\ (i + n) + 1 = i + (n + 1) /\ i + (n + 1) \in 0 .. N  BY <1>1
    <3>2. S(i) <= S(i + n)  BY <2>2, <3>1
    <3>3. S(i + n) <= S(i + (n + 1))  BY <1>2, <3>1
    <3>. QED BY <3>1, <3>2, <3>3, <1>2
  <2>. HIDE DEF P
  <2>. QED BY <2>1, <2>2, SetInduction
<1>4. ASSUME NEW i \in 0 .. N, NEW n \in 0 .. N, i <= n PROVE S(i) <= S(n)
  <2>1. n - i \in Nat /\ i + (n - i) = n  BY <1>1, <1>4
  <2>2. n - i \in P(i)  BY <1>3, <2>1
  <2>. QED BY <2>1, <2>2, <1>1
<1>5. S(j) <= S(m)  BY <1>4 DEF N
<1>6. N \in 0 .. N /\ m <= N BY <1>1 DEF N
<1>7. S(m) <= S(N)  BY <1>4, <1>6 DEF N
<1>. QED BY <1>5, <1>7, <1>2 DEF S

\* Every byte of a block lies in one of its sub-blocks.
LEMMA Tiles ==
  ASSUME NEW c, ValidConfig(c), NEW k \in Nat, NEW x \in 0 .. k * c.symbol_size - 1
  PROVE  \E j \in 0 .. c.sub_blocks - 1 :
           k * SubStart(c)[j] <= x /\ x < k * SubStart(c)[j] + k * SubBytes(c, j)
<1>. DEFINE N == c.sub_blocks
            S(j) == SubStart(c)[j]
            w(j) == SubBytes(c, j)
            T == {j \in 0 .. N : x < k * S(j)}
<1>1. N \in Nat \ {0} /\ c.symbol_size \in Nat  BY ConfigNumbers
<1>2. /\ S(0) = 0 /\ S(N) = c.symbol_size
      /\ \A j \in 0 .. N : S(j) \in Nat
      /\ \A j \in 0 .. N - 1 : w(j) \in Nat /\ S(j + 1) = S(j) + w(j)
  BY SumOfSubBlocks
<1>. HIDE DEF S, w, N
<1>3. k * S(N) = k * c.symbol_size /\ k * c.symbol_size \in Nat /\ k * S(0) = 0  BY <1>1, <1>2
<1>0. x \in Nat /\ x < k * c.symbol_size  BY <1>3
<1>4. N \in T  BY <1>0, <1>1, <1>3
<1>5. T \subseteq Nat  BY <1>1
<1>6. PICK m \in T : \A j \in T : m <= j  BY <1>4, <1>5, LeastNumber
<1>7. m # 0  BY <1>3, <1>0, <1>6
<1>8. m - 1 \in 0 .. N - 1 /\ (m - 1) + 1 = m /\ m - 1 \notin T /\ m - 1 \in 0 .. N  BY <1>1, <1>6, <1>7
<1>9. S(m - 1) \in Nat /\ w(m - 1) \in Nat /\ S(m) = S(m - 1) + w(m - 1)
  <2>1. \A j \in 0 .. N - 1 : S(j + 1) = S(j) + w(j) BY <1>2
  <2>2. S((m - 1) + 1) = S(m - 1) + w(m - 1)  BY <2>1, <1>8
  <2>. QED BY <1>2, <1>8, <2>2
<1>10. k * S(m) = k * S(m - 1) + k * w(m - 1) /\ k * S(m - 1) \in Nat  BY <1>9, Dist
<1>11. k * S(m - 1) <= x  BY <1>8, <1>10, <1>0
<1>12. x < k * S(m)  BY <1>6
<1>. QED BY <1>8, <1>10, <1>11, <1>12 DEF S, w, N

\* Every byte of a block belongs to a sub-symbol of one of its symbols.
LEMMA EveryBytePlaced ==
  ASSUME NEW c, ValidConfig(c), NEW k \in Nat, NEW x \in 0 .. k * c.symbol_size - 1
  PROVE  \E j \in 0 .. c.sub_blocks - 1, i \in 0 .. k - 1, o \in 0 .. c.symbol_size - 1 :
           o < SubBytes(c, j) /\ Place(c, k, j, i, o) = x
<1>1. PICK j \in 0 .. c.sub_blocks - 1 :
        k * SubStart(c)[j] <= x /\ x < k * SubStart(c)[j] + k * SubBytes(c, j)
  BY Tiles
<1>. DEFINE s == SubStart(c)[j]
            w == SubBytes(c, j)
            y == x - k * s
            i == y \div w
            o == y % w
<1>2. s \in Nat /\ w \in Nat /\ s + w \in Nat /\ s + w = SubStart(c)[j + 1] /\ c.sub_blocks \in Nat
      /\ j \in Nat /\ j + 1 \in 0 .. c.sub_blocks
  <2>1. j + 1 \in 0 .. c.sub_blocks /\ j \in 0 .. c.sub_blocks /\ c.sub_blocks \in Nat  BY ConfigNumbers
  <2>. QED BY <2>1, SumOfSubBlocks
<1>3. w <= c.symbol_size /\ c.symbol_size \in Nat
  BY <1>2, SubStartRises, ConfigNumbers
<1>. HIDE DEF s, w
<1>4. k * s \in Nat /\ k * w \in Nat /\ x \in Nat  
  <2>1. k * c.symbol_size \in Nat  BY <1>3
  <2>. QED BY <1>2, <2>1
<1>5. y \in Nat /\ y < k * w /\ x = k * s + y  BY <1>1, <1>4 DEF s, w
<1>. HIDE DEF y
<1>6. w # 0  BY <1>5, <1>2
<1>7. i \in Nat /\ o \in 0 .. w - 1 /\ y = w * i + o  BY <1>2, <1>5, <1>6, DivMod
<1>. HIDE DEF i, o
<1>8. i < k
  <2>. SUFFICES ASSUME k <= i PROVE FALSE  BY <1>7
  <2>1. w * k <= w * i  BY <1>2, <1>7, Mono
  <2>. QED BY <2>1, <1>5, <1>7, <1>2
<1>9. o < w /\ o \in 0 .. c.symbol_size - 1 /\ i \in 0 .. k - 1  BY <1>3, <1>7, <1>8, <1>2
<1>10. Place(c, k, j, i, o) = x  
  <2>1. Place(c, k, j, i, o) = k * s + w * i + o  BY DEF Place, s, w
  <2>2. w * i \in Nat BY <1>2, <1>7
  <2>. QED BY <2>1, <2>2, <1>4, <1>5, <1>7
<1>. QED BY <1>9, <1>10 DEF w

\* The sub-symbol that an offset in a symbol belongs to is the only one.
LEMMA SubBlockFound ==
  ASSUME NEW c, ValidConfig(c), NEW j \in 0 .. c.sub_blocks - 1, NEW x \in Nat,
         SubStart(c)[j] <= x, x < SubStart(c)[j + 1]
  PROVE  SubBlockAt(c, x) = j
<1>. DEFINE N == c.sub_blocks
            S(i) == SubStart(c)[i]
<1>1. N \in Nat /\ \A i \in 0 .. N : S(i) \in Nat  BY ConfigNumbers, SumOfSubBlocks
<1>2. \A i, m \in 0 .. N : i <= m => S(i) <= S(m)  BY SubStartRises
<1>3. SubBlockAt(c, x) = CHOOSE i \in 0 .. N - 1 : S(i) <= x /\ x < S(i + 1)  BY DEF SubBlockAt
<1>4. j \in 0 .. N - 1 /\ S(j) <= x /\ x < S(j + 1)  OBVIOUS
<1>. HIDE DEF S, N
<1>5. ASSUME NEW i \in 0 .. N - 1, S(i) <= x, x < S(i + 1) PROVE i = j
  <2>1. /\ i \in 0 .. N /\ i + 1 \in 0 .. N /\ j \in 0 .. N /\ j + 1 \in 0 .. N /\ j \in Int
        /\ S(i) \in Nat /\ S(i + 1) \in Nat /\ S(j) \in Nat /\ S(j + 1) \in Nat
    BY <1>1, <1>4
  <2>2. ~(i + 1 <= j)  BY <2>1, <1>2, <1>4, <1>5
  <2>3. ~(j + 1 <= i)  BY <2>1, <1>2, <1>4, <1>5
  <2>. QED BY <2>1, <2>2, <2>3
<1>. QED BY <1>3, <1>4, <1>5

\* create_symbols takes byte o of sub-symbol j of symbol i from the place to
\* which unpack_sub_blocks writes it.
LEMMA CreatedByte ==
  ASSUME NEW c, ValidConfig(c), NEW k \in Nat, NEW block, NEW i \in 0 .. k - 1,
         NEW j \in 0 .. c.sub_blocks - 1, NEW o \in Nat, o < SubBytes(c, j)
  PROVE  At(CreateSymbol(c, k, block, i), SubStart(c)[j] + o) = At(block, Place(c, k, j, i, o))
<1>. DEFINE x == SubStart(c)[j] + o
            s == c.symbol_size
            w == SubBytes(c, j)
<1>1. /\ j + 1 \in 0 .. c.sub_blocks /\ j \in 0 .. c.sub_blocks /\ c.sub_blocks \in Nat \ {0}
      /\ s \in Nat \ {0}
  BY ConfigNumbers
<1>2. SubStart(c)[j] \in Nat /\ w \in Nat /\ SubStart(c)[j + 1] = SubStart(c)[j] + w  BY <1>1, SumOfSubBlocks
<1>3. SubStart(c)[j + 1] <= s  BY <1>1, SubStartRises
<1>4. x \in Nat /\ SubStart(c)[j] <= x /\ x < SubStart(c)[j + 1] /\ x < s  BY <1>1, <1>2, <1>3
<1>5. SubBlockAt(c, x) = j  BY <1>4, SubBlockFound
<1>6. x - SubStart(c)[j] = o  BY <1>2
<1>7. x + 1 \in 1 .. s /\ (x + 1) - 1 = x  BY <1>1, <1>4
<1>8. At(CreateSymbol(c, k, block, i), x) =
        IF c.sub_blocks > 1 THEN At(block, Place(c, k, j, i, x - SubStart(c)[j]))
                            ELSE At(block, i * s + x)
  <2>. DEFINE e(o1) == LET m == SubBlockAt(c, o1 - 1)
     IN  IF c.sub_blocks > 1 THEN At(block, Place(c, k, m, i, (o1 - 1) - SubStart(c)[m]))
                             ELSE At(block, i * c.symbol_size + (o1 - 1))
  <2>1. CreateSymbol(c, k, block, i) = [o1 \in 1 .. s |-> e(o1)]  BY DEF CreateSymbol
  <2>2. e(x + 1) = IF c.sub_blocks > 1 THEN At(block, Place(c, k, j, i, x - SubStart(c)[j]))
                            ELSE At(block, i * s + x)
    BY <1>5, <1>7
  <2>. HIDE DEF e, x, s
  <2>3. At(CreateSymbol(c, k, block, i), x) = e(x + 1)  BY <1>7, <2>1 DEF At
  <2>. QED BY <2>2, <2>3
<1>9. ASSUME c.sub_blocks = 1 PROVE Place(c, k, j, i, o) = i * s + x
  <2>1. j = 0 /\ SubStart(c)[j] = 0 /\ w = s
    BY <1>9, <1>1, <1>2, SumOfSubBlocks
  <2>2. Place(c, k, j, i, o) = k * 0 + s * i + o  BY <2>1 DEF Place
  <2>3. x = o BY <2>1
  <2>. HIDE DEF s, x
  <2>4. s * i = i * s /\ i * s \in Nat BY <1>1
  <2>. QED BY <2>2, <2>3, <2>4
<1>. HIDE DEF x, s
<1>10. c.sub_blocks > 1 \/ c.sub_blocks = 1  BY <1>1
<1>. QED BY <1>6, <1>8, <1>9, <1>10 DEF x

\* Unpacking a block's symbols in turn gives the block: no byte is left out, and
\* one written twice is written alike.
LEMMA UnpackedBlock ==
  ASSUME NEW c, ValidConfig(c), NEW k \in Nat, NEW n \in Nat, n = k * c.symbol_size,
         NEW block \in [1 .. n -> Nat]
  PROVE  Unpack(c, k, CreateSymbols(c, k, block)) = block
<1>. DEFINE R == 1 .. n
            X == [R -> Nat]
            sym == CreateSymbols(c, k, block)
            zero == [r \in R |-> 0]
            G == [p \in (1 .. k) \X X |-> UnpackSubBlocks(c, k, p[2], sym[p[1] - 1], p[1] - 1)]
            Eqn(f) == f = [i \in 0 .. k |->
              IF i = 0 THEN [r \in 1 .. k * c.symbol_size |-> 0]
              ELSE UnpackSubBlocks(c, k, f[i - 1], sym[i - 1], i - 1)]
            u == CHOOSE f : Eqn(f)
            Places(i, r) == {p \in (0 .. c.sub_blocks - 1) \X (0 .. c.symbol_size - 1) :
                      p[2] < SubBytes(c, p[1]) /\ Place(c, k, p[1], i, p[2]) = r - 1}
<1>1. Unpack(c, k, sym) = u[k]  BY DEF Unpack
<1>2. ASSUME NEW i \in 0 .. k - 1, NEW f \in X, NEW r \in R
      PROVE  UnpackSubBlocks(c, k, f, sym[i], i)[r] = IF Places(i, r) = {} THEN f[r] ELSE block[r]
  <2>. DEFINE e(q) == IF Places(i, q) = {} THEN f[q]
                ELSE LET p == CHOOSE p \in Places(i, q) : TRUE IN At(sym[i], SubStart(c)[p[1]] + p[2])
  <2>1. UnpackSubBlocks(c, k, f, sym[i], i) = [q \in DOMAIN f |-> e(q)]  BY DEF UnpackSubBlocks
  <2>2. UnpackSubBlocks(c, k, f, sym[i], i)[r] = e(r)
    <3>. HIDE DEF e
    <3>. QED BY <2>1
  <2>3. ASSUME NEW p \in Places(i, r) PROVE At(sym[i], SubStart(c)[p[1]] + p[2]) = block[r]
    <3>1. p[1] \in 0 .. c.sub_blocks - 1 /\ p[2] \in Nat /\ p[2] < SubBytes(c, p[1])
          /\ Place(c, k, p[1], i, p[2]) = r - 1
      BY <2>3, ConfigNumbers
    <3>2. sym[i] = CreateSymbol(c, k, block, i)  BY DEF CreateSymbols
    <3>3. At(sym[i], SubStart(c)[p[1]] + p[2]) = At(block, r - 1)  BY <3>1, <3>2, CreatedByte
    <3>4. r \in Int  OBVIOUS
    <3>. QED BY <3>3, <3>4 DEF At
  <2>. HIDE DEF Places, sym
  <2>. QED BY <2>2, <2>3
<1>3. ASSUME NEW i \in 0 .. k - 1, NEW f \in X
      PROVE  UnpackSubBlocks(c, k, f, sym[i], i) \in X
  <2>1. \A r \in R : UnpackSubBlocks(c, k, f, sym[i], i)[r] \in Nat  
    <3>. HIDE DEF Places, sym
    <3>. QED BY <1>2
  <2>2. UnpackSubBlocks(c, k, f, sym[i], i) = [r \in R |-> UnpackSubBlocks(c, k, f, sym[i], i)[r]]
    BY DEF UnpackSubBlocks
  <2>. HIDE DEF sym
  <2>. QED BY <2>1, <2>2
<1>. HIDE DEF sym, Places
<1>4. G \in [(1 .. k) \X X -> X]
  <2>1. ASSUME NEW p \in (1 .. k) \X X PROVE UnpackSubBlocks(c, k, p[2], sym[p[1] - 1], p[1] - 1) \in X
    <3>1. p[1] - 1 \in 0 .. k - 1 /\ p[2] \in X  OBVIOUS
    <3>. HIDE DEF X
    <3>. QED BY <1>3, <3>1
  <2>. HIDE DEF X
  <2>. QED BY <2>1
<1>5. zero \in X  OBVIOUS
<1>. HIDE DEF G, zero, X, R
<1>6. PICK f : Recurs(f, X, zero, k, G)
  <2>. HIDE DEF Eqn, u
  <2>1. k \in Nat  OBVIOUS
  <2>. QED BY <1>4, <1>5, <2>1, Recursion
<1>60. f \in [0 .. k -> X] /\ f[0] = zero /\ \A i \in 1 .. k : f[i] = G[<<i, f[i - 1]>>]
  BY <1>6 DEF Recurs
<1>7. ASSUME NEW i \in 1 .. k PROVE f[i] = UnpackSubBlocks(c, k, f[i - 1], sym[i - 1], i - 1)
  <2>1. <<i, f[i - 1]>> \in (1 .. k) \X X  BY <1>60
  <2>. QED BY <1>60, <2>1 DEF G
<1>8. Eqn(f)
  <2>. DEFINE E(g, i) == IF i = 0 THEN [r \in 1 .. k * c.symbol_size |-> 0]
                         ELSE UnpackSubBlocks(c, k, g[i - 1], sym[i - 1], i - 1)
  <2>1. \A i \in 0 .. k : f[i] = E(f, i)
    <3>1. \A i \in 0 .. k : i # 0 => i \in 1 .. k  OBVIOUS
    <3>. QED BY <1>60, <1>7, <3>1 DEF zero, R
  <2>2. f = [i \in 0 .. k |-> E(f, i)]
    <3>. HIDE DEF E
    <3>. QED BY <1>60, <2>1
  <2>. QED BY <2>2
<1>9. Eqn(u)  BY <1>8
<1>. HIDE DEF u
<1>10. u[0] = zero /\ \A i \in 1 .. k : u[i] = UnpackSubBlocks(c, k, u[i - 1], sym[i - 1], i - 1)
  <2>. DEFINE E(g, i) == IF i = 0 THEN [r \in 1 .. k * c.symbol_size |-> 0]
                         ELSE UnpackSubBlocks(c, k, g[i - 1], sym[i - 1], i - 1)
  <2>1. \A i \in 0 .. k : u[i] = E(u, i)
    <3>1. u = [i \in 0 .. k |-> E(u, i)]  BY <1>9
    <3>. HIDE DEF E
    <3>. QED BY <3>1
  <2>2. 0 \in 0 .. k /\ \A i \in 1 .. k : i # 0 /\ i \in 0 .. k  OBVIOUS
  <2>. QED BY <2>1, <2>2 DEF zero, R
<1>. HIDE DEF Eqn
<1>. DEFINE Done(i) == /\ u[i] \in X
                       /\ \A r \in R : \A m \in 0 .. i - 1 : Places(m, r) # {} => u[i][r] = block[r]
            P == {i \in Nat : i <= k => Done(i)}
<1>11. 0 \in P  BY <1>5, <1>10
<1>12. ASSUME NEW i \in Nat, i \in P PROVE i + 1 \in P
  <2>. SUFFICES ASSUME i + 1 <= k PROVE Done(i + 1)  OBVIOUS
  <2>1. i \in 0 .. k - 1 /\ i + 1 \in 1 .. k /\ (i + 1) - 1 = i /\ Done(i)  BY <1>12
  <2>2. u[i + 1] = UnpackSubBlocks(c, k, u[i], sym[i], i)  BY <1>10, <2>1
  <2>3. u[i + 1] \in X  BY <1>3, <2>1, <2>2 DEF X, R
  <2>4. ASSUME NEW r \in R, NEW m \in 0 .. (i + 1) - 1, Places(m, r) # {} PROVE u[i + 1][r] = block[r]
    <3>0. u[i] \in X  BY <2>1
    <3>1. u[i + 1][r] = IF Places(i, r) = {} THEN u[i][r] ELSE block[r]
      <4>. HIDE DEF Done
      <4>1. r \in R /\ i \in 0 .. k - 1  BY <2>1
      <4>. QED BY <1>2, <2>2, <3>0, <4>1
    <3>2. m # i => m \in 0 .. i - 1  OBVIOUS
    <3>. QED BY <2>1, <2>4, <3>1, <3>2
  <2>. QED BY <2>3, <2>4
<1>. HIDE DEF P
<1>13. k \in P  BY <1>11, <1>12, SetInduction
<1>14. Done(k)  BY <1>13 DEF P
<1>15. ASSUME NEW r \in R PROVE \E m \in 0 .. k - 1 : Places(m, r) # {}
  <2>1. r - 1 \in 0 .. k * c.symbol_size - 1
    <3>1. k * c.symbol_size \in Nat BY ConfigNumbers
    <3>. QED BY <3>1 DEF R
  <2>2. PICK j \in 0 .. c.sub_blocks - 1, i \in 0 .. k - 1, o \in 0 .. c.symbol_size - 1 :
           o < SubBytes(c, j) /\ Place(c, k, j, i, o) = r - 1
    BY <2>1, EveryBytePlaced
  <2>3. <<j, o>> \in Places(i, r)  BY <2>2 DEF Places
  <2>. QED BY <2>3
<1>16. \A r \in R : u[k][r] = block[r]  BY <1>14, <1>15
<1>17. block \in X BY DEF X, R
<1>. HIDE DEF Done
<1>18. u[k] \in X BY <1>14 DEF Done
<1>19. u[k] = block
  <2>. DEFINE g == u[k]
  <2>1. g \in [R -> Nat] /\ block \in [R -> Nat]  BY <1>17, <1>18 DEF X
  <2>2. \A r \in R : g[r] = block[r]  BY <1>16
  <2>. HIDE DEF R, g
  <2>3. g = block  BY ONLY <2>1, <2>2, SameFunction
  <2>. QED BY <2>3 DEF g
<1>. QED BY <1>1, <1>19 DEF sym

\* Two neighbouring pieces of h, joined, are one piece.
LEMMA Concatenated ==
  ASSUME NEW m \in Nat, NEW n \in Nat, NEW h \in [Nat -> Nat]
  PROVE  [x \in 1 .. m |-> h[x]] \o [x \in 1 .. n |-> h[m + x]] = [x \in 1 .. m + n |-> h[x]]
<1>. DEFINE s == [x \in 1 .. m |-> h[x]]
            t == [x \in 1 .. n |-> h[m + x]]
            w == [x \in 1 .. m + n |-> h[x]]
<1>1. s \in Seq(Nat) /\ Len(s) = m /\ t \in Seq(Nat) /\ Len(t) = n  OBVIOUS
<1>2. s \o t \in Seq(Nat) /\ Len(s \o t) = m + n  BY <1>1
<1>3. ASSUME NEW x \in 1 .. m + n PROVE (s \o t)[x] = h[x]
  <2>1. CASE x <= m
    <3>1. (s \o t)[x] = s[x]  BY <1>1, <2>1
    <3>. QED BY <2>1, <3>1
  <2>2. CASE x > m
    <3>1. (s \o t)[x] = t[x - m] /\ x - m \in 1 .. n  BY <1>1, <2>2
    <3>2. t[x - m] = h[m + (x - m)]  BY <3>1
    <3>3. m + (x - m) = x  OBVIOUS
    <3>. QED BY <3>1, <3>2, <3>3
  <2>. QED BY <2>1, <2>2
<1>4. s \o t \in [1 .. m + n -> Nat]
  <2>. DEFINE q == s \o t
              l == m + n
  <2>1. q \in Seq(Nat) /\ Len(q) = l  BY <1>2
  <2>. HIDE DEF q, l
  <2>2. q \in [1 .. l -> Nat]  BY <2>1, LenProperties
  <2>. QED BY <2>2 DEF q, l
<1>5. w \in [1 .. m + n -> Nat] /\ \A x \in 1 .. m + n : w[x] = h[x]  OBVIOUS
<1>. HIDE DEF s, t, w
<1>6. s \o t = w
  <2>. DEFINE q == s \o t
              S == 1 .. m + n
  <2>1. q \in [S -> Nat] /\ w \in [S -> Nat] /\ \A x \in S : q[x] = w[x]  BY <1>3, <1>4, <1>5
  <2>. HIDE DEF q, S
  <2>2. q = w  BY <2>1, SameFunction
  <2>. QED BY <2>2 DEF q
<1>. QED BY <1>6 DEF s, t, w

\* The object followed by padding.
Padded(data) == [x \in Nat |-> IF x \in 1 .. Len(data) THEN data[x] ELSE 0]

\* A block holds the bytes of the padded object between two offsets, and as many
\* as its symbols need.
LEMMA BlockBytes ==
  ASSUME NEW c, ValidConfig(c), NEW data \in Seq(Nat), NEW m \in BlockIds(c)
  PROVE  /\ Padded(data) \in [Nat -> Nat]
         /\ BlockStart(c)[m] \in Nat
         /\ SymbolsOf(c, m) \in Nat /\ c.symbol_size * SymbolsOf(c, m) \in Nat
         /\ BlockStart(c)[m + 1] = BlockStart(c)[m] + c.symbol_size * SymbolsOf(c, m)
         /\ BlockOf(c, data, m) = [o \in 1 .. c.symbol_size * SymbolsOf(c, m) |->
                                     Padded(data)[BlockStart(c)[m] + o]]
         /\ BlockOf(c, data, m) \in [1 .. c.symbol_size * SymbolsOf(c, m) -> Nat]
         /\ Len(BlockOf(c, data, m)) \div c.symbol_size = SymbolsOf(c, m)
<1>. DEFINE n == SymbolsOf(c, m)
            s == c.symbol_size
            a == BlockStart(c)[m]
<1>1. s \in Nat \ {0} /\ m \in 0 .. c.source_blocks  BY ConfigNumbers DEF BlockIds
<1>2. n \in Nat /\ a \in Nat /\ BlockStart(c)[m + 1] = a + s * n  BY <1>1, SumOfBlocks
<1>3. BlockOf(c, data, m) = [o \in 1 .. BlockStart(c)[m + 1] - a |->
         IF a + o <= Len(data) THEN data[a + o] ELSE 0]
  BY DEF BlockOf
<1>. HIDE DEF n, s, a
<1>4. s * n \in Nat  BY <1>1, <1>2
<1>5. Padded(data) \in [Nat -> Nat]  BY DEF Padded
<1>6. BlockOf(c, data, m) = [o \in 1 .. s * n |-> Padded(data)[a + o]]
  <2>1. BlockStart(c)[m + 1] - a = s * n  BY <1>2, <1>4
  <2>. DEFINE l == s * n
  <2>2. l \in Nat BY <1>4
  <2>. HIDE DEF l
  <2>3. ASSUME NEW o \in 1 .. l PROVE Padded(data)[a + o] = IF a + o <= Len(data) THEN data[a + o] ELSE 0
    <3>1. a + o \in Nat /\ a + o >= 1  BY <1>2, <2>2
    <3>. QED BY <3>1 DEF Padded
  <2>4. BlockOf(c, data, m) = [o \in 1 .. l |-> IF a + o <= Len(data) THEN data[a + o] ELSE 0]
    BY <1>3, <2>1 DEF l
  <2>5. BlockOf(c, data, m) = [o \in 1 .. l |-> Padded(data)[a + o]]  BY <2>3, <2>4
  <2>. QED BY <2>5 DEF l
<1>7. BlockOf(c, data, m) \in [1 .. s * n -> Nat]
  <2>. DEFINE l == s * n
  <2>1. l \in Nat /\ BlockOf(c, data, m) = [o \in 1 .. l |-> Padded(data)[a + o]]  BY <1>4, <1>6
  <2>. HIDE DEF l
  <2>2. ASSUME NEW o \in 1 .. l PROVE Padded(data)[a + o] \in Nat
    <3>1. a + o \in Nat  BY <1>2, <2>1
    <3>. QED BY <1>5, <3>1
  <2>3. BlockOf(c, data, m) \in [1 .. l -> Nat]  BY <2>1, <2>2
  <2>. QED BY <2>3 DEF l
<1>8. Len(BlockOf(c, data, m)) \div s = n
  <2>. DEFINE l == s * n
  <2>1. l \in Nat /\ BlockOf(c, data, m) \in [1 .. l -> Nat]  BY <1>4, <1>7
  <2>2. Len(BlockOf(c, data, m)) = l
    <3>. HIDE DEF l
    <3>. QED BY <2>1
  <2>3. (s * n + 0) \div s = n /\ s * n + 0 = s * n  BY <1>1, <1>2, <1>4, DivUnique
  <2>. QED BY <2>2, <2>3
<1>. QED BY <1>2, <1>4, <1>5, <1>6, <1>7, <1>8 DEF n, s, a

\* The blocks joined and truncated are the object.
LEMMA JoinedBlocks ==
  ASSUME NEW c, ValidConfig(c), NEW data \in Seq(Nat), Len(data) = c.transfer_length
  PROVE  Join(c, [m \in BlockIds(c) |-> BlockOf(c, data, m)]) = data
<1>. DEFINE Z == c.source_blocks
            h == Padded(data)
            B(i) == BlockStart(c)[i]
            Prefix(i) == [x \in 1 .. B(i) |-> h[x]]
            seqs == [n \in 1 .. c.source_blocks |-> [m \in BlockIds(c) |-> BlockOf(c, data, m)][n - 1]]
            Eqn(f) == f = [i \in 1 .. Len(seqs) |-> IF i = 1 THEN seqs[i] ELSE f[i - 1] \o seqs[i]]
            u == CHOOSE f : Eqn(f)
            g == [i \in 1 .. Z |-> Prefix(i)]
            result == FlattenSeq(seqs)
<1>1. Z \in Nat \ {0} /\ kt(c) \in Nat /\ c.symbol_size * kt(c) >= c.transfer_length
      /\ c.symbol_size * kt(c) \in Nat
  BY ConfigNumbers
<1>2. Len(seqs) = Z  BY <1>1
<1>3. result = u[Z]  BY <1>1, <1>2 DEF FlattenSeq
<1>4. Join(c, [m \in BlockIds(c) |-> BlockOf(c, data, m)]) =
        IF Len(result) > c.transfer_length THEN SubSeq(result, 1, c.transfer_length) ELSE result
  BY DEF Join
<1>5. ASSUME NEW i \in 1 .. Z
      PROVE  /\ i - 1 \in BlockIds(c) /\ (i - 1) + 1 = i
             /\ seqs[i] = BlockOf(c, data, i - 1)
  <2>1. i - 1 \in BlockIds(c) /\ i \in Int  BY <1>1 DEF BlockIds
  <2>. QED BY <2>1
<1>6. h \in [Nat -> Nat] /\ B(0) = 0 /\ B(Z) = c.symbol_size * kt(c)  BY SumOfBlocks DEF Padded
<1>. HIDE DEF seqs, h, B, Z, result
<1>7. ASSUME NEW i \in 1 .. Z
      PROVE  /\ B(i - 1) \in Nat /\ B(i) \in Nat /\ B(i - 1) <= B(i)
             /\ \A m, n : m = B(i - 1) /\ n \in Nat /\ B(i) = m + n =>
                  seqs[i] = [o \in 1 .. n |-> h[m + o]]
  <2>. DEFINE q == i - 1
              l == c.symbol_size * SymbolsOf(c, q)
  <2>1. q \in BlockIds(c) /\ q + 1 = i /\ seqs[i] = BlockOf(c, data, q)  BY <1>5
  <2>. HIDE DEF q
  <2>2. /\ B(q) \in Nat /\ l \in Nat /\ B(q + 1) = B(q) + l
        /\ BlockOf(c, data, q) = [o \in 1 .. l |-> h[B(q) + o]]
    <3>1. BlockOf(c, data, q) = [o \in 1 .. c.symbol_size * SymbolsOf(c, q) |->
                                   Padded(data)[BlockStart(c)[q] + o]]
      BY <2>1, BlockBytes
    <3>2. BlockStart(c)[q] \in Nat
          /\ BlockStart(c)[q + 1] = BlockStart(c)[q] + c.symbol_size * SymbolsOf(c, q)
      BY <2>1, BlockBytes
    <3>3. c.symbol_size * SymbolsOf(c, q) \in Nat  BY <2>1, BlockBytes
    <3>. QED BY <3>1, <3>2, <3>3 DEF B, h
  <2>. HIDE DEF l
  <2>3. ASSUME NEW m, NEW k, m = B(q), k \in Nat, B(i) = m + k
        PROVE  seqs[i] = [o \in 1 .. k |-> h[m + o]]
    <3>1. k = l  BY <2>1, <2>2, <2>3
    <3>. QED BY <2>1, <2>2, <2>3, <3>1
  <2>4. B(q) \in Nat /\ B(i) \in Nat /\ B(q) <= B(i)  BY <2>1, <2>2
  <2>. QED BY <2>3, <2>4 DEF q
<1>8. Prefix(1) = seqs[1]
  <2>1. 1 \in 1 .. Z /\ 1 - 1 = 0  BY <1>1
  <2>2. B(1) \in Nat /\ B(1 - 1) = 0  BY <1>6, <1>7, <2>1
  <2>3. \A o \in 1 .. B(1) : 0 + o = o  OBVIOUS
  <2>4. B(1) = 0 + B(1)  BY <2>2
  <2>5. seqs[1] = [o \in 1 .. B(1) |-> h[0 + o]]  BY <1>7, <2>1, <2>2, <2>4
  <2>. QED BY <2>3, <2>5
<1>9. ASSUME NEW i \in 1 .. Z, i # 1 PROVE Prefix(i) = Prefix(i - 1) \o seqs[i]
  <2>. DEFINE m == B(i - 1)
              n == B(i) - B(i - 1)
  <2>0. m \in Nat /\ n \in Nat /\ m + n = B(i)  BY <1>7
  <2>1. m \in Nat /\ n \in Nat /\ m + n = B(i) /\ seqs[i] = [x \in 1 .. n |-> h[m + x]]  BY <1>7, <2>0
  <2>2. Prefix(i - 1) = [x \in 1 .. m |-> h[x]]  OBVIOUS
  <2>. HIDE DEF m, n
  <2>3. [x \in 1 .. m |-> h[x]] \o [x \in 1 .. n |-> h[m + x]] = [x \in 1 .. m + n |-> h[x]]
    BY <1>6, <2>1, Concatenated
  <2>4. [x \in 1 .. m + n |-> h[x]] = Prefix(i)  BY <2>1
  <2>. HIDE DEF Prefix
  <2>. QED BY <2>1, <2>2, <2>3, <2>4
<1>. HIDE DEF Prefix
<1>10. Eqn(g)
  <2>1. ASSUME NEW i \in 1 .. Z PROVE g[i] = IF i = 1 THEN seqs[i] ELSE g[i - 1] \o seqs[i]
    <3>1. CASE i = 1  BY <3>1, <1>8
    <3>2. CASE i # 1
      <4>1. i - 1 \in 1 .. Z  BY <3>2, <1>1
      <4>2. g[i] = Prefix(i) /\ g[i - 1] = Prefix(i - 1)  BY <4>1
      <4>. QED BY <3>2, <4>2, <1>9
    <3>. QED BY <3>1, <3>2
  <2>. DEFINE E(f, i) == IF i = 1 THEN seqs[i] ELSE f[i - 1] \o seqs[i]
  <2>2. g = [i \in 1 .. Z |-> E(g, i)]
    <3>1. g = [i \in 1 .. Z |-> g[i]]  OBVIOUS
    <3>2. \A i \in 1 .. Z : g[i] = E(g, i)  BY <2>1
    <3>. HIDE DEF E, g
    <3>. QED BY <3>1, <3>2
  <2>. QED BY <2>2, <1>2
<1>. HIDE DEF g
<1>11. Eqn(u)  BY <1>10
<1>. HIDE DEF u
<1>12. \A i \in 1 .. Z : u[i] = IF i = 1 THEN seqs[i] ELSE u[i - 1] \o seqs[i]
  <2>. DEFINE E(f, i) == IF i = 1 THEN seqs[i] ELSE f[i - 1] \o seqs[i]
  <2>1. u = [i \in 1 .. Z |-> E(u, i)]  BY <1>2, <1>11
  <2>. HIDE DEF E
  <2>2. \A i \in 1 .. Z : u[i] = E(u, i)  BY <2>1
  <2>. QED BY <2>2 DEF E
<1>. HIDE DEF Eqn
<1>13. u[Z] = Prefix(Z)
  <2>. DEFINE P == {i \in Nat : i + 1 <= Z => u[i + 1] = Prefix(i + 1)}
  <2>1. 0 \in P
    <3>1. 1 \in 1 .. Z /\ 0 + 1 = 1  BY <1>1
    <3>. QED BY <1>8, <1>12, <3>1
  <2>2. ASSUME NEW i \in Nat, i \in P PROVE i + 1 \in P
    <3>. SUFFICES ASSUME (i + 1) + 1 <= Z PROVE u[(i + 1) + 1] = Prefix((i + 1) + 1)  OBVIOUS
    <3>. DEFINE n == (i + 1) + 1
    <3>1. n \in 1 .. Z /\ n # 1 /\ n - 1 = i + 1 /\ i + 1 <= Z  BY <1>1
    <3>2. u[n - 1] = Prefix(n - 1)  BY <2>2, <3>1
    <3>. HIDE DEF n
    <3>3. u[n] = u[n - 1] \o seqs[n]  BY <1>12, <3>1
    <3>4. Prefix(n) = Prefix(n - 1) \o seqs[n]  BY <1>9, <3>1
    <3>. QED BY <3>2, <3>3, <3>4 DEF n
  <2>. HIDE DEF P
  <2>3. Z - 1 \in Nat /\ (Z - 1) + 1 = Z  BY <1>1
  <2>4. Z - 1 \in P  BY <2>1, <2>2, <2>3, SetInduction
  <2>. QED BY <2>3, <2>4, <1>1 DEF P
<1>. DEFINE l == c.symbol_size * kt(c)
<1>14. l \in Nat /\ l >= c.transfer_length /\ B(Z) = l  BY <1>1, <1>6
<1>. HIDE DEF l
<1>15. result = [x \in 1 .. l |-> h[x]]  BY <1>3, <1>13, <1>14 DEF Prefix
<1>16. result \in Seq(Nat) /\ Len(result) = l /\ \A x \in 1 .. l : result[x] = h[x]
  <2>1. \A x \in 1 .. l : h[x] \in Nat BY <1>6, <1>14
  <2>. QED BY <1>14, <1>15, <2>1
<1>17. c.transfer_length \in Nat  BY ConfigNumbers
<1>. DEFINE L == c.transfer_length
<1>18. \A x \in 1 .. L : h[x] = data[x]  BY <1>17 DEF h, Padded
<1>. HIDE DEF L
<1>19. data \in [1 .. L -> Nat]  BY <1>17 DEF L
<1>20. L \in Nat /\ l >= L  BY <1>14, <1>17 DEF L
<1>21. ASSUME l > L PROVE SubSeq(result, 1, L) = data
  <2>1. SubSeq(result, 1, L) = [x \in 1 .. L |-> result[x]]  BY <1>16, <1>20, <1>21
  <2>2. \A x \in 1 .. L : result[x] = data[x]  BY <1>16, <1>18, <1>20 DEF L
  <2>. QED BY <1>19, <2>1, <2>2
<1>22. ASSUME l = L PROVE result = data
  <2>1. result \in [1 .. L -> Nat]  BY <1>16, <1>22
  <2>2. \A x \in 1 .. L : result[x] = data[x]  BY <1>16, <1>18, <1>22 DEF L
  <2>. DEFINE S == 1 .. L
  <2>3. result \in [S -> Nat] /\ data \in [S -> Nat] /\ \A x \in S : result[x] = data[x]  BY <1>19, <2>1, <2>2
  <2>. HIDE DEF S
  <2>. QED BY <2>3, SameFunction
<1>23. l > L \/ l = L  BY <1>14, <1>20
<1>24. Len(result) > L <=> l > L  BY <1>16
<1>. QED BY <1>4, <1>14, <1>21, <1>22, <1>23, <1>24, <1>20 DEF L

\* A sub-symbol is placed inside its block.
LEMMA PlaceInside ==
  ASSUME NEW c, ValidConfig(c), NEW k \in Nat, NEW i \in 0 .. k - 1,
         NEW j \in 0 .. c.sub_blocks - 1, NEW o \in Nat, o < SubBytes(c, j)
  PROVE  Place(c, k, j, i, o) \in 0 .. k * c.symbol_size - 1
<1>. DEFINE s == SubStart(c)[j]
            w == SubBytes(c, j)
            z == SubStart(c)[j + 1]
<1>1. /\ j + 1 \in 0 .. c.sub_blocks /\ j \in 0 .. c.sub_blocks /\ c.symbol_size \in Nat
  BY ConfigNumbers
<1>2. s \in Nat /\ w \in Nat /\ z = s + w  BY <1>1, SumOfSubBlocks
<1>3. z <= c.symbol_size  BY <1>1, SubStartRises
<1>4. o < w /\ Place(c, k, j, i, o) = k * s + w * i + o  BY DEF Place
<1>. HIDE DEF s, w, z
<1>5. k * z <= k * c.symbol_size  BY <1>1, <1>2, <1>3, Mono
<1>6. k * z = k * s + k * w /\ k * s \in Nat /\ k * w \in Nat  BY <1>2, Dist
<1>7. w * (i + 1) = w * i + w /\ w * i \in Nat  BY <1>2
<1>8. w * (i + 1) <= w * k /\ w * k = k * w  
  <2>1. i + 1 \in Nat /\ i + 1 <= k  OBVIOUS
  <2>. QED BY <1>2, <2>1, Mono
<1>9. k * c.symbol_size \in Nat  BY <1>1
<1>. HIDE DEF s
<1>. QED BY <1>2, <1>4, <1>5, <1>6, <1>7, <1>8, <1>9

\* A symbol made from a block of bytes is symbol_size bytes.
LEMMA SymbolType ==
  ASSUME NEW c, ValidConfig(c), NEW k \in Nat, NEW n \in Nat, n = k * c.symbol_size,
         NEW block \in [1 .. n -> Nat], NEW i \in 0 .. k - 1
  PROVE  CreateSymbol(c, k, block, i) \in [1 .. c.symbol_size -> Nat]
<1>. DEFINE s == CreateSymbol(c, k, block, i)
<1>1. c.symbol_size \in Nat /\ c.sub_blocks \in Nat  BY ConfigNumbers
<1>2. ASSUME NEW o1 \in 1 .. c.symbol_size PROVE s[o1] \in Nat
  <2>. DEFINE x == o1 - 1
  <2>1. x \in 0 .. 1 * c.symbol_size - 1 /\ x \in Nat  BY <1>1
  <2>2. PICK j \in 0 .. c.sub_blocks - 1 :
           1 * SubStart(c)[j] <= x /\ x < 1 * SubStart(c)[j] + 1 * SubBytes(c, j)
    BY <2>1, Tiles
  <2>3. SubStart(c)[j] \in Nat /\ SubBytes(c, j) \in Nat
    <3>1. j \in 0 .. c.sub_blocks  BY <1>1
    <3>. QED BY <3>1, SumOfSubBlocks
  <2>. DEFINE o == x - SubStart(c)[j]
  <2>4. o \in Nat /\ o < SubBytes(c, j) /\ SubStart(c)[j] + o = x  BY <2>1, <2>2, <2>3
  <2>5. At(s, x) = At(block, Place(c, k, j, i, o))
    <3>. HIDE DEF o, x
    <3>1. At(s, SubStart(c)[j] + o) = At(block, Place(c, k, j, i, o))  BY <2>4, CreatedByte
    <3>. QED BY <2>4, <3>1
  <2>6. Place(c, k, j, i, o) \in 0 .. n - 1
    <3>. HIDE DEF o
    <3>. QED BY <2>4, PlaceInside
  <2>. DEFINE q == Place(c, k, j, i, o)
  <2>. HIDE DEF q
  <2>7. q \in 0 .. n - 1 /\ At(s, x) = At(block, q)  BY <2>5, <2>6 DEF q
  <2>8. block[q + 1] \in Nat  BY <2>7
  <2>9. At(s, x) = s[o1]
    <3>1. x + 1 = o1  OBVIOUS
    <3>. HIDE DEF x, s
    <3>. QED BY <3>1 DEF At
  <2>. QED BY <2>7, <2>8, <2>9 DEF At
<1>3. s = [o1 \in 1 .. c.symbol_size |-> s[o1]]  BY DEF CreateSymbol
<1>. HIDE DEF s
<1>4. s \in [1 .. c.symbol_size -> Nat]  BY <1>2, <1>3
<1>. QED BY <1>4 DEF s

-----------------------------------------------------------------------------
(* What the decoder undoes, for any bytes. *)

\* The symbols that a block decoder works with, unpacked again.
Undone(c, data, m) ==
  Unpack(c, SymbolsOf(c, m), CreateSymbols(c, SymbolsOf(c, m), BlockOf(c, data, m)))

\* A block's symbols, unpacked, are the block.
LEMMA BlockUndone ==
  ASSUME NEW c, ValidConfig(c), NEW data \in Seq(Nat), NEW m \in BlockIds(c)
  PROVE  /\ Undone(c, data, m) = BlockOf(c, data, m)
         /\ Undone(c, data, m) \in [1 .. SymbolsOf(c, m) * c.symbol_size -> Nat]
<1>. DEFINE k == SymbolsOf(c, m)
            l == c.symbol_size * k
            B == BlockOf(c, data, m)
<1>1. k \in Nat /\ l \in Nat /\ B \in [1 .. l -> Nat]
  BY BlockBytes
<1>2. Undone(c, data, m) = Unpack(c, k, CreateSymbols(c, k, B))
  BY DEF Undone
<1>. HIDE DEF k, B
<1>3. l = k * c.symbol_size
  BY <1>1, ConfigNumbers
<1>. HIDE DEF l
<1>4. Unpack(c, k, CreateSymbols(c, k, B)) = B
  BY <1>1, <1>3, UnpackedBlock
<1>. QED
  BY <1>1, <1>2, <1>3, <1>4 DEF k, B

\* The decoder's inverse of the encoder's layout, for every valid configuration
\* and every object of its length: unpack_sub_blocks and the joining of blocks
\* undo the cutting into blocks, sub-blocks and symbols, padding included.
THEOREM LayoutUndone ==
  ASSUME NEW c, ValidConfig(c), NEW data \in Seq(Nat), Len(data) = c.transfer_length
  PROVE  Join(c, [m \in BlockIds(c) |-> Undone(c, data, m)]) = data
<1>1. \A m \in BlockIds(c) : Undone(c, data, m) = BlockOf(c, data, m)
  BY BlockUndone
<1>2. [m \in BlockIds(c) |-> Undone(c, data, m)] = [m \in BlockIds(c) |-> BlockOf(c, data, m)]
  BY <1>1
<1>. QED
  BY <1>2, JoinedBlocks

-----------------------------------------------------------------------------
(* The loop of Encoder::new. *)

\* What Encoder::new makes of block m.
Made(m) == [symbols |-> CreateSymbols(config, SymbolsOf(config, m), BlockOf(config, object, m)),
            plan |-> SymbolsOf(config, m)]

\* The blocks made are the first ones, each with its symbols and its own plan.
IInv ==
  /\ config \in Configs
  /\ object = Object(config)
  /\ cached_plan \in Nat \cup {None}
  /\ panicked \in BOOLEAN
  /\ blocks \in Seq({Made(m) : m \in BlockIds(config)})
  /\ \A n \in DOMAIN blocks : n - 1 \in BlockIds(config) /\ blocks[n] = Made(n - 1)

\* The object is as long as its configuration says.
LEMMA ObjectType ==
  ASSUME NEW c, ValidConfig(c)
  PROVE  Object(c) \in Seq(Nat) /\ Len(Object(c)) = c.transfer_length
<1>1. c.transfer_length \in Nat  BY ConfigNumbers
<1>. QED BY <1>1 DEF Object

\* The loop starts with no block made.
LEMMA InitHolds == Init => IInv
<1>. SUFFICES ASSUME Init PROVE IInv  OBVIOUS
<1>. DEFINE S == {Made(m) : m \in BlockIds(config)}
<1>1. blocks = <<>>  BY DEF Init
<1>2. blocks \in Seq(S) /\ \A n \in DOMAIN blocks : FALSE
  <2>. HIDE DEF S
  <2>. QED BY <1>1
<1>. QED BY <1>2 DEF Init, IInv

\* Every turn of the loop makes the next block, with a plan for its number of
\* symbols, whether the plan is the cached one or a new one.
LEMMA NextHolds == IInv /\ [Next]_vars => IInv'
<1>. SUFFICES ASSUME IInv, [Next]_vars PROVE IInv'  OBVIOUS
<1>1. CASE EncodeBlock
  <2>. DEFINE m == Len(blocks)
              S == {Made(i) : i \in BlockIds(config)}
  <2>1. /\ config' = config /\ object' = object /\ panicked' = panicked
        /\ cached_plan' = PlanUsed
    BY <1>1 DEF EncodeBlock
  <2>2. ValidConfig(config) /\ object \in Seq(Nat)  BY ObjectType DEF IInv, Configs
  <2>3. m \in BlockIds(config) /\ m \in Nat
    BY <1>1, <2>2, ConfigNumbers DEF EncodeBlock, Running, b, BlockIds, IInv
  <2>4. symbol_count = SymbolsOf(config, m) /\ SymbolsOf(config, m) \in Nat
    BY <2>2, <2>3, BlockBytes DEF symbol_count, b
  <2>5. PlanUsed = SymbolsOf(config, m)  BY <2>4 DEF PlanUsed, ReusablePlan
  <2>6. blocks' = Append(blocks, Made(m))  BY <1>1, <2>4, <2>5 DEF EncodeBlock, Made, b
  <2>7. \A i : Made(i)' = Made(i)  BY <2>1 DEF Made
  <2>8. blocks \in Seq(S) /\ Made(m) \in S  BY <2>3 DEF IInv
  <2>9. S' = S /\ BlockIds(config)' = BlockIds(config)  BY <2>1, <2>7
  <2>10. \A n \in DOMAIN blocks : n - 1 \in BlockIds(config) /\ blocks[n] = Made(n - 1)  BY DEF IInv
  <2>. HIDE DEF S
  <2>11. blocks' \in Seq(S) /\ Len(blocks') = m + 1
         /\ \A n \in 1 .. m + 1 : blocks'[n] = IF n = m + 1 THEN Made(m) ELSE blocks[n]
    BY <2>6, <2>8
  <2>12. ASSUME NEW n \in DOMAIN blocks' PROVE n - 1 \in BlockIds(config) /\ blocks'[n] = Made(n - 1)
    <3>1. n \in 1 .. m + 1  BY <2>11
    <3>2. CASE n = m + 1
      <4>1. n - 1 = m  BY <2>3, <3>2
      <4>. QED BY <2>3, <2>11, <3>1, <3>2, <4>1
    <3>3. CASE n # m + 1
      <4>1. n \in DOMAIN blocks  BY <2>3, <2>8, <3>1, <3>3
      <4>. QED BY <2>10, <2>11, <3>1, <3>3, <4>1
    <3>. QED BY <3>2, <3>3
  <2>13. (\A n \in DOMAIN blocks : n - 1 \in BlockIds(config) /\ blocks[n] = Made(n - 1))'
    BY <2>7, <2>9, <2>12
  <2>14. (blocks \in Seq({Made(i) : i \in BlockIds(config)}))'  BY <2>9, <2>11 DEF S
  <2>15. (config \in Configs /\ object = Object(config) /\ panicked \in BOOLEAN)'  BY <2>1 DEF IInv
  <2>16. (cached_plan \in Nat \cup {None})'  BY <2>1, <2>4, <2>5
  <2>. QED BY <2>13, <2>14, <2>15, <2>16 DEF IInv
<1>2. CASE Panic  BY <1>2 DEF Panic, IInv, Made
<1>3. CASE UNCHANGED vars  BY <1>3 DEF vars, IInv, Made
<1>. QED BY <1>1, <1>2, <1>3 DEF Next

\* What the invariant says of a block that is made.
LEMMA MadeBlock ==
  ASSUME IInv, NEW n \in DOMAIN blocks
  PROVE  /\ ValidConfig(config) /\ object \in Seq(Nat) /\ Len(object) = config.transfer_length
         /\ n - 1 \in BlockIds(config)
         /\ SymbolsOf(config, n - 1) \in Nat
         /\ blocks[n].plan = SymbolsOf(config, n - 1)
         /\ blocks[n].symbols = CreateSymbols(config, SymbolsOf(config, n - 1), BlockOf(config, object, n - 1))
<1>1. ValidConfig(config) /\ object \in Seq(Nat) /\ Len(object) = config.transfer_length
  BY ObjectType DEF IInv, Configs
<1>2. n - 1 \in BlockIds(config) /\ blocks[n] = Made(n - 1)  BY DEF IInv
<1>. QED BY <1>1, <1>2, SumOfBlocks DEF Made

\* The invariant gives the types.
LEMMA TypeHolds == IInv => TypeInv
<1>. SUFFICES ASSUME IInv PROVE TypeInv  OBVIOUS
<1>1. object \in Seq(Nat)  BY ObjectType DEF IInv, Configs
<1>2. ASSUME NEW n \in DOMAIN blocks
      PROVE  blocks[n].plan \in Nat
             /\ \A i \in DOMAIN blocks[n].symbols : blocks[n].symbols[i] \in [1 .. config.symbol_size -> Nat]
  <2>. DEFINE m == n - 1
              k == SymbolsOf(config, m)
              l == config.symbol_size * k
              B == BlockOf(config, object, m)
  <2>1. /\ ValidConfig(config) /\ m \in BlockIds(config) /\ k \in Nat /\ blocks[n].plan = k
        /\ blocks[n].symbols = CreateSymbols(config, k, B)
    BY MadeBlock
  <2>. HIDE DEF m
  <2>2. l \in Nat /\ B \in [1 .. l -> Nat]  BY <1>1, <2>1, BlockBytes
  <2>3. l = k * config.symbol_size  BY <2>1, ConfigNumbers
  <2>. HIDE DEF l, k, B
  <2>4. \A i \in 0 .. k - 1 : CreateSymbol(config, k, B, i) \in [1 .. config.symbol_size -> Nat]
    BY <2>1, <2>2, <2>3, SymbolType
  <2>. QED BY <2>1, <2>4 DEF CreateSymbols
<1>. QED BY <1>1, <1>2 DEF TypeInv, IInv

\* The invariant gives each block a plan of its own size.
LEMMA PlansFit == IInv => PlanFitsBlock
<1>. SUFFICES ASSUME IInv, NEW n \in DOMAIN blocks
              PROVE  blocks[n].plan = Cardinality(DOMAIN blocks[n].symbols)
  BY DEF PlanFitsBlock
<1>. DEFINE k == SymbolsOf(config, n - 1)
<1>1. k \in Nat /\ blocks[n].plan = k
      /\ blocks[n].symbols = CreateSymbols(config, k, BlockOf(config, object, n - 1))
  BY MadeBlock
<1>2. DOMAIN blocks[n].symbols = 0 .. k - 1  BY <1>1 DEF CreateSymbols
<1>. HIDE DEF k
<1>3. Cardinality(0 .. k - 1) = k
  <2>. DEFINE q == k - 1
  <2>1. 0 \in Int /\ q \in Int /\ (IF 0 > q THEN 0 ELSE q - 0 + 1) = k
    BY <1>1
  <2>. HIDE DEF q
  <2>2. Cardinality(0 .. q) = IF 0 > q THEN 0 ELSE q - 0 + 1
    BY <2>1, FS_Interval
  <2>. QED
    BY <2>1, <2>2 DEF q
<1>. QED BY <1>1, <1>2, <1>3

\* The invariant gives an object that can be put together again.
LEMMA Reassembled == IInv => ObjectReassembles
<1>. SUFFICES ASSUME IInv, Len(blocks) = config.source_blocks
     PROVE Join(config, [n \in BlockIds(config) |->
                    Unpack(config, SymbolsOf(config, n), blocks[n + 1].symbols)]) = object
  BY DEF ObjectReassembles
<1>1. ValidConfig(config) /\ object \in Seq(Nat) /\ Len(object) = config.transfer_length
  BY ObjectType DEF IInv, Configs
<1>2. ASSUME NEW m \in BlockIds(config)
      PROVE  Unpack(config, SymbolsOf(config, m), blocks[m + 1].symbols) = BlockOf(config, object, m)
  <2>. DEFINE k == SymbolsOf(config, m)
              l == config.symbol_size * k
              B == BlockOf(config, object, m)
  <2>1. m + 1 \in DOMAIN blocks /\ (m + 1) - 1 = m
    BY <1>1, ConfigNumbers DEF BlockIds, IInv
  <2>2. blocks[m + 1].symbols = CreateSymbols(config, k, B) /\ k \in Nat
    <3>. DEFINE q == m + 1
    <3>1. q \in DOMAIN blocks /\ q - 1 = m  BY <2>1
    <3>. HIDE DEF q
    <3>2. blocks[q].symbols = CreateSymbols(config, k, B) /\ k \in Nat  BY <3>1, MadeBlock
    <3>. QED BY <3>2 DEF q
  <2>3. l \in Nat /\ B \in [1 .. l -> Nat]  BY <1>1, BlockBytes
  <2>4. l = k * config.symbol_size  BY <1>1, <2>2, ConfigNumbers
  <2>. HIDE DEF l, k, B
  <2>5. Unpack(config, k, CreateSymbols(config, k, B)) = B  BY <1>1, <2>2, <2>3, <2>4, UnpackedBlock
  <2>. QED BY <2>2, <2>5 DEF k, B
<1>3. Join(config, [m \in BlockIds(config) |-> BlockOf(config, object, m)]) = object
  BY <1>1, JoinedBlocks
<1>. DEFINE U(n) == Unpack(config, SymbolsOf(config, n), blocks[n + 1].symbols)
            B(n) == BlockOf(config, object, n)
<1>4. \A m \in BlockIds(config) : U(m) = B(m)  BY <1>2
<1>. HIDE DEF U, B
<1>5. [n \in BlockIds(config) |-> U(n)] = [n \in BlockIds(config) |-> B(n)]  BY <1>4
<1>. QED BY <1>3, <1>5 DEF U, B

\* The invariant holds in every state of the loop.
LEMMA SpecHolds == Spec => []IInv
  BY InitHolds, NextHolds, PTL DEF Spec

\* Every field keeps its type: whatever the configuration, the symbols made are
\* symbol_size bytes long.
THEOREM TypeCorrect == Spec => []TypeInv
  BY SpecHolds, TypeHolds, PTL

\* Encoder::new hands a plan from one block to the next only where it fits, so
\* with_encoding_plan never refuses it.
THEOREM PlansCorrect == Spec => []PlanFitsBlock
  BY SpecHolds, PlansFit, PTL

\* The decoder's inverse of what the encoder does puts the object together
\* again, for every configuration that ObjectTransmissionInformation::new admits.
THEOREM ReassemblyCorrect == Spec => []ObjectReassembles
  BY SpecHolds, Reassembled, PTL
=============================================================================
