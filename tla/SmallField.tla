----------------------------- MODULE SmallField -----------------------------
(***************************************************************************)
(* GF(4) in the place of GF(256), with vectors over it.  Elimination uses  *)
(* of its octets that they form a field of characteristic two in which     *)
(* some elements are neither zero nor one, and GF(4) is the smallest such. *)
(* The octets themselves are in OctetArithmetic.                           *)
(***************************************************************************)
EXTENDS Integers
F == 0 .. 3
Zero == 0
One == 1

FPlus(a, b) ==
  IF a = b THEN 0 ELSE IF a = 0 THEN b ELSE IF b = 0 THEN a ELSE 6 - a - b

\* Products of the non-zero elements add exponents modulo 3.
FTimes(a, b) == IF a = 0 \/ b = 0 THEN 0 ELSE (((a - 1) + (b - 1)) % 3) + 1
FInverse(a) == CHOOSE b \in F : FTimes(a, b) = One

VPlus(u, v) == [i \in DOMAIN u |-> FPlus(u[i], v[i])]
VTimes(a, v) == [i \in DOMAIN v |-> FTimes(a, v[i])]
VZero(I) == [i \in I |-> Zero]
VUnit(I, j) == [i \in I |-> IF i = j THEN One ELSE Zero]

\* Columns with an entry, and the first of them.
Support(v) == {i \in DOMAIN v : v[i] # Zero}
LeadingColumn(v) == CHOOSE i \in Support(v) : \A j \in Support(v) : i <= j

\* The sum of coefficients[i] * vectors[i] for i in 0 .. n - 1.
Combination(coefficients, vectors, n) ==
  LET sum[k \in 0 .. n] ==
        IF k = 0 THEN VZero(DOMAIN vectors[0])
        ELSE VPlus(sum[k - 1], VTimes(coefficients[k - 1], vectors[k - 1]))
  IN sum[n]
=============================================================================
