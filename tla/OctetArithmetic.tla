--------------------------- MODULE OctetArithmetic ---------------------------
(***************************************************************************)
(* Octets as polynomials over GF(2) modulo x^8 + x^4 + x^3 + x^2 + 1: the  *)
(* loops that fill the tables of products, inverses and powers of alpha,   *)
(* and the vector instructions that multiply and double many octets.  An   *)
(* octet is the set of the bits that are one, so that adding is the        *)
(* symmetric difference.  Vectors are shifted in words of two octets, so   *)
(* that bits of one reach the other: a word is followed here.              *)
(***************************************************************************)
EXTENDS Integers, Sequences, SequencesExt, FiniteSetsExt
CONSTANTS Factors,     \* first factors of the products that are made
          Powers,      \* exponents of the powers that are made, besides 254
          Neighbours,  \* octets beside any octet in a word
          Sources      \* octets added to doubled ones
Bits == 0 .. 7
Octets == SUBSET Bits
FactorsAssumption == Factors \cup Powers \cup Neighbours \cup Sources \subseteq Octets

VARIABLES routine,     \* "mul", "pow", "alpha", or a vector's "products" or "doubles"
          x, y,        \* arguments: factors, base and exponent, or words
          a, b,        \* what the loop has made of them
          product,     \* what the loop has multiplied
          table        \* the powers of alpha so far
vars == <<routine, x, y, a, b, product, table>>

-----------------------------------------------------------------------------
One == {0}
Plus(p, q) == (p \cup q) \ (p \cap q)
ShiftRight(p) == {i - 1 : i \in p \ {0}}

\* 0x1d, for the bit that is shifted out.
Reduction == {0, 2, 3, 4}

Double(p) ==
  LET shifted == {i + 1 : i \in p \ {7}} IN IF 7 \in p THEN Plus(shifted, Reduction) ELSE shifted

\* The reference: the product of two polynomials, and its remainder.
PolynomialProduct(p, q) == FoldSet(LAMBDA i, sum : Plus(sum, {i + j : j \in q}), {}, p)
Remainder(p) ==
  FoldLeft(LAMBDA r, d : IF d \in r THEN Plus(r, {d, d - 4, d - 5, d - 6, d - 8}) ELSE r,
           p, <<14, 13, 12, 11, 10, 9, 8>>)
Times(p, q) == Remainder(PolynomialProduct(p, q))

-----------------------------------------------------------------------------
\* The exponent of an inverse, by its bits: 254.
InversePower == Bits \ {0}

Word(p, q) == p \cup {i + 8 : i \in q}
Octet(w, k) == {i - 8 * k : i \in w \cap (8 * k .. 8 * k + 7)}
Words == {Word(p, q) : p \in Octets, q \in Neighbours} \ {{}}

Init ==
  /\ \/ routine = "mul" /\ x \in Factors /\ y \in Octets
     \/ routine = "pow" /\ x \in Octets /\ y \in Powers \cup {InversePower}
     \/ routine = "alpha" /\ x = {1} /\ y = {}
     \/ routine = "products" /\ x \in Factors /\ y \in Words
     \/ routine = "doubles" /\ x \in {Word(p, q) : p, q \in Sources} /\ y \in Words
  /\ a = x /\ b = y
  /\ product = IF routine \in {"pow", "alpha"} THEN One ELSE {}
  /\ table = IF routine = "alpha" THEN <<One>> ELSE <<>>

gf_mul_slow ==
  /\ routine = "mul" /\ b # {}
  /\ product' = IF 0 \in b THEN Plus(product, a) ELSE product
  /\ b' = ShiftRight(b)
  /\ a' = Double(a)
  /\ UNCHANGED <<routine, x, y, table>>

PowFactor == a

gf_pow_slow ==
  /\ routine = "pow" /\ b # {}
  /\ product' = IF 0 \in b THEN Times(product, PowFactor) ELSE product
  /\ b' = ShiftRight(b)
  /\ a' = Times(a, a)
  /\ UNCHANGED <<routine, x, y, table>>

TableLength == 255

generate_gf_alpha_pow_table ==
  /\ routine = "alpha" /\ Len(table) < TableLength
  /\ table' = Append(table, Times(table[Len(table)], x))
  /\ UNCHANGED <<routine, x, y, a, b, product>>

-----------------------------------------------------------------------------
(* Vectors. *)

\* An instruction that treats octets alone.
EachOctet(Op(_), w) == Word(Op(Octet(w, 0)), Op(Octet(w, 1)))

\* 0x0f in every octet; shifts are of words.
Mask == Word(0 .. 3, 0 .. 3)
ShiftWord(w) == {i - 4 : i \in w \ (0 .. 3)}

\* The tables of a scalar, sixteen products with a nibble in either half.
LowTable(s) == [nibble \in SUBSET (0 .. 3) |-> Times(s, nibble)]

HighTable(s) == [nibble \in SUBSET (0 .. 3) |-> Times(s, {i + 4 : i \in nibble})]

\* Sixteen entries and zero for an index with its highest bit set.
Shuffle(entries, w) ==
  EachOctet(LAMBDA p : IF 7 \in p THEN {} ELSE entries[p \cap (0 .. 3)], w)

\* Faulty variant: what is shifted in from the octet beside it stays.
HighUnmasked(w) == ShiftWord(w)
HighNibbles(w) == ShiftWord(w) \cap Mask

gf256_mul_vector ==
  /\ routine = "products" /\ b # {}
  /\ product' = Plus(Shuffle(LowTable(x), b \cap Mask), Shuffle(HighTable(x), HighNibbles(b)))
  /\ b' = {}
  /\ UNCHANGED <<routine, x, y, a, table>>

\* Octets are compared as signed numbers.
CarryMask(w) == EachOctet(LAMBDA p : IF 7 \in p THEN Bits ELSE {}, w)

Doubled(w) == EachOctet(LAMBDA p : {i + 1 : i \in p \ {7}}, w)

fused_mulassign_alpha_addassign ==
  /\ routine = "doubles" /\ b # {}
  /\ product' = Plus(Plus(Doubled(b), CarryMask(b) \cap Word(Reduction, Reduction)), a)
  /\ b' = {}
  /\ UNCHANGED <<routine, x, y, a, table>>

Done == (IF routine = "alpha" THEN Len(table) = TableLength ELSE b = {}) /\ UNCHANGED vars
Next ==
  \/ gf_mul_slow \/ gf_pow_slow \/ generate_gf_alpha_pow_table
  \/ gf256_mul_vector \/ fused_mulassign_alpha_addassign \/ Done
Spec == Init /\ [][Next]_vars

-----------------------------------------------------------------------------
\* The value of a number given by its bits, and repeated multiplication.
Number(bits) == MapThenSumSet(LAMBDA i : 2^i, bits)
Power(p, n) == FoldLeft(LAMBDA r, i : Times(r, p), One, [i \in 1 .. n |-> i])

TypeInv ==
  /\ routine \in {"mul", "pow", "alpha", "products", "doubles"}
  /\ {x, y, a, b, product} \subseteq SUBSET (0 .. 15)
  /\ routine \in {"mul", "pow", "alpha"} => {x, y, a, b, product} \subseteq Octets
  /\ table \in Seq(Octets) /\ Len(table) <= TableLength

\* Shifting and adding with the reduction folded into each step keeps what
\* remains to be multiplied, so an entry of the multiplication table is the
\* remainder of the product of its polynomials (octet.rs 110-124).
LoopKeepsProduct ==
  routine = "mul" => Plus(product, Times(a, b)) = Times(x, y)

\* Squaring keeps the power, for exponents small enough to multiply out
\* (octet.rs 38-49, 98-108).
LoopKeepsPower ==
  routine = "pow" /\ y \in Powers => Times(product, Power(a, Number(b))) = Power(x, Number(y))

\* An entry of the inverse table, the power of 254, is the inverse of every
\* octet but zero (octet.rs 33-36, 78-86).
InverseIsInverse ==
  routine = "pow" /\ y = InversePower /\ b = {} /\ x # {} => Times(x, product) = One

\* The powers of alpha are all different, every octet but zero is one, and
\* after the last comes the first again: an exponent may be reduced by the
\* length of the table (octet.rs 29-31, 88-96).
AlphaIsPrimitive ==
  routine = "alpha" =>
    /\ IsInjective(table)
    /\ Len(table) = TableLength =>
         Times(table[TableLength], x) = table[1] /\ Range(table) = Octets \ {{}}

\* Both octets of a word are multiplied by the factor, whatever the octet
\* beside them (octets.rs 1773-1836).
BothOctetsMultiplied ==
  routine = "products" /\ b = {} =>
    \A k \in {0, 1} : Octet(product, k) = Times(x, Octet(y, k))

\* Both octets of a word are multiplied by alpha and the source's are added:
\* the comparison finds the bit that is shifted out (octets.rs 1673-1690).
BothOctetsDoubled ==
  routine = "doubles" /\ b = {} =>
    \A k \in {0, 1} : Octet(product, k) = Plus(Times({1}, Octet(y, k)), Octet(x, k))
=============================================================================
