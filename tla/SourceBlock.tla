---------------------------- MODULE SourceBlock ----------------------------
(***************************************************************************)
(* One source block as a linear code, the data shared by the encoder       *)
(* (encoder.rs) and the decoder (decoder.rs).                              *)
(*                                                                         *)
(* A row of the constraint matrix is named <<kind, index>>: the S LDPC     *)
(* rows, the H HDPC rows, and one encoded row per internal symbol id       *)
(* (ISI).  Eval(row, c) is the symbol that a row yields on the             *)
(* intermediate symbols c.  An equation is a row with the symbol that the  *)
(* D vector holds for it.  How a row combines columns is left to Eval, so  *)
(* everything below holds for every matrix and every symbol size.          *)
(***************************************************************************)
EXTENDS Integers, FiniteSets

CONSTANTS
  K,              \* source_block_symbols
  KPrime,         \* extended_source_block_symbols(K)
  S,              \* num_ldpc_symbols(K)
  H,              \* num_hdpc_symbols(K)
  MaxRepair,      \* how many repair symbols the sender may draw
  Symbols,        \* contents of one symbol
  Zero,           \* the all-zero symbol
  Intermediates,  \* every value the L intermediate symbols can take together
  Eval(_, _),     \* Eval(row, c): a row applied to the intermediate symbols c
  None            \* Option::None

ASSUME SizeAssumption ==
  /\ K \in Nat \ {0}
  /\ KPrime \in Nat
  /\ KPrime >= K
  /\ S \in Nat
  /\ H \in Nat
  /\ MaxRepair \in Nat

L == KPrime + S + H            \* num_intermediate_symbols(K)
num_padding == KPrime - K

SourceIds == 0 .. K - 1
EncodingIds == 0 .. K + MaxRepair - 1
Blocks == [SourceIds -> Symbols]

ASSUME NoneAssumption == None \notin Intermediates /\ None \notin Blocks /\ None \notin Symbols
ASSUME ZeroAssumption == Zero \in Symbols
ASSUME FiniteAssumption == IsFiniteSet(Intermediates)

-----------------------------------------------------------------------------
Isi(n) == <<"isi", n>>
LdpcRows == {<<"ldpc", i>> : i \in 0 .. S - 1}
HdpcRows == {<<"hdpc", i>> : i \in 0 .. H - 1}

\* The equations of the leading zero symbols of D, and of the padding symbols.
ZeroEquations(rows) == {<<r, Zero>> : r \in rows}
PaddingEquations == {<<Isi(n), Zero>> : n \in K .. KPrime - 1}

\* What fused_inverse_mul_symbols promises: the intermediate symbols when the
\* equations determine them, None when the matrix is rank deficient.
Solutions(eqs) == {c \in Intermediates : \A e \in eqs : Eval(e[1], c) = e[2]}
Determined(eqs) == Cardinality(Solutions(eqs)) = 1
Solve(eqs) == IF Determined(eqs) THEN CHOOSE c \in Solutions(eqs) : TRUE ELSE None

-----------------------------------------------------------------------------
(* The encoder: SourceBlockEncoder. *)

create_d(block) ==
  ZeroEquations(LdpcRows \cup HdpcRows) \cup PaddingEquations
    \cup {<<Isi(i), block[i]>> : i \in SourceIds}

gen_intermediate_symbols(block) == Solve(create_d(block))

SourcePackets(block) == {[esi |-> i, data |-> block[i]] : i \in SourceIds}

RepairPackets(intermediate, start, n) ==
  {[esi |-> K + start + i, data |-> Eval(Isi(KPrime + start + i), intermediate)]
     : i \in 0 .. n - 1}

PacketsOf(block) ==
  SourcePackets(block) \cup RepairPackets(gen_intermediate_symbols(block), 0, MaxRepair)

\* The packets with the given ids, the padding and all constraint rows
\* together have one solution only.
EquationOf(p) == <<Isi(p.esi + (IF p.esi < K THEN 0 ELSE num_padding)), p.data>>
EquationsOf(block, ids) ==
  ZeroEquations(LdpcRows \cup HdpcRows) \cup PaddingEquations
    \cup {EquationOf(p) : p \in {q \in PacketsOf(block) : q.esi \in ids}}
Recoverable(block, ids) ==
  Cardinality(ids) >= K /\ Determined(EquationsOf(block, ids))

\* The systematic index of RFC 6330, section 5.7 is chosen so that the K'
\* encoded rows and the constraint rows determine the intermediate symbols of
\* every source block: SourceBlockEncodingPlan::generate unwraps the solution.
ASSUME SystematicAssumption == \A block \in Blocks : Determined(create_d(block))

\* A row applied to intermediate symbols yields a symbol.
ASSUME EvalAssumption ==
  \A c \in Intermediates, n \in 0 .. KPrime + MaxRepair - 1 : Eval(Isi(n), c) \in Symbols
=============================================================================
