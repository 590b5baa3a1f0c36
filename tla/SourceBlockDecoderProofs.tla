---------------------- MODULE SourceBlockDecoderProofs ----------------------
(***************************************************************************)
(* Proofs about SourceBlockDecoder, for every code that satisfies the      *)
(* assumptions of SourceBlock and for calls with any number of packets.    *)
(*                                                                         *)
(* The argument: every equation that the decoder hands to a solver holds   *)
(* of the intermediate symbols of the encoder, so that a system with one   *)
(* solution has theirs; and the equations of a call with HDPC rows are a   *)
(* function of the set of received ids, because the records agree.         *)
(***************************************************************************)
EXTENDS SourceBlockDecoder, FiniteSetTheorems, WellFoundedInduction, TLAPS

\* A set of numbers has a least member.
LEMMA LeastNumber ==
  ASSUME NEW T, T \subseteq Nat, T # {}
  PROVE  \E p \in T : \A q \in T : p <= q
<1>1. PICK p \in T : \A q \in T : ~(<<q, p>> \in OpToRel(<, Nat))  BY WFMin, NatLessThanWellFounded
<1>2. \A q \in T : ~(q < p)  BY <1>1 DEF OpToRel
<1>. QED BY <1>2

\* All equations hold of the intermediate symbols c.
HoldsOf(eqs, c) == \A e \in eqs : Eval(e[1], c) = e[2]

LEMMA IdsFinite ==
  /\ IsFiniteSet(SourceIds) /\ Cardinality(SourceIds) = K
  /\ \A ids \in SUBSET EncodingIds : IsFiniteSet(ids)
<1>1. K - 1 \in Int /\ K + MaxRepair - 1 \in Int /\ ~(0 > K - 1) /\ K - 1 - 0 + 1 = K
  BY SizeAssumption
<1>2. IsFiniteSet(0 .. K - 1) /\ Cardinality(0 .. K - 1) = K
  BY <1>1, FS_Interval
<1>3. IsFiniteSet(EncodingIds)
  BY <1>1, FS_Interval DEF EncodingIds
<1>4. QED
  BY <1>2, <1>3, FS_Subset DEF SourceIds

LEMMA DisjointUnion ==
  ASSUME NEW A, NEW B, IsFiniteSet(A), IsFiniteSet(B), A \cap B = {}
  PROVE  Cardinality(A \cup B) = Cardinality(A) + Cardinality(B)
<1>1. Cardinality(A \cap B) = 0
  BY FS_EmptySet
<1>2. Cardinality(A) \in Nat /\ Cardinality(B) \in Nat
  BY FS_CardinalityType
<1>3. Cardinality(A \cup B) = Cardinality(A) + Cardinality(B) - Cardinality(A \cap B)
  BY FS_Union
<1>4. QED
  BY <1>1, <1>2, <1>3

LEMMA SolutionsFinite ==
  ASSUME NEW eqs
  PROVE  IsFiniteSet(Solutions(eqs)) /\ Solutions(eqs) \subseteq Intermediates
  BY FiniteAssumption, FS_Subset DEF Solutions

LEMMA DeterminedIsSingleton ==
  ASSUME NEW eqs
  PROVE  Determined(eqs) <=> \E c : Solutions(eqs) = {c}
  BY SolutionsFinite, FS_Singleton DEF Determined

\* A solver that answers at all answers with what the equations were made of.
LEMMA SolveSound ==
  ASSUME NEW eqs, NEW c \in Intermediates, HoldsOf(eqs, c)
  PROVE  Solve(eqs) = IF Determined(eqs) THEN c ELSE None
<1>1. c \in Solutions(eqs)
  BY DEF HoldsOf, Solutions
<1>2. Determined(eqs) => Solutions(eqs) = {c}
  BY <1>1, DeterminedIsSingleton
<1>3. QED
  BY <1>2 DEF Solve

\* More equations of the same symbols determine no less.
LEMMA DeterminedMonotone ==
  ASSUME NEW A, NEW B, A \subseteq B, NEW c \in Intermediates, HoldsOf(B, c),
         Determined(A)
  PROVE  Determined(B)
<1>1. c \in Solutions(B) /\ Solutions(B) \subseteq Solutions(A)
  BY DEF HoldsOf, Solutions
<1>2. Solutions(B) = {c}
  BY <1>1, DeterminedIsSingleton
<1>3. QED
  BY <1>2, DeterminedIsSingleton

-----------------------------------------------------------------------------
(* The encoder. *)

LEMMA EncoderSolves ==
  ASSUME NEW b \in Blocks
  PROVE  /\ gen_intermediate_symbols(b) \in Intermediates
         /\ HoldsOf(create_d(b), gen_intermediate_symbols(b))
<1>1. Determined(create_d(b))
  BY SystematicAssumption
<1>2. PICK c : Solutions(create_d(b)) = {c}
  BY <1>1, DeterminedIsSingleton
<1>3. gen_intermediate_symbols(b) = c
  BY <1>1, <1>2 DEF gen_intermediate_symbols, Solve
<1>4. QED
  BY <1>2, <1>3, SolutionsFinite DEF Solutions, HoldsOf

LEMMA PacketFacts ==
  ASSUME NEW b \in Blocks, NEW p \in PacketsOf(b)
  PROVE  /\ p.esi \in EncodingIds
         /\ p.data \in Symbols
         /\ p \in [esi : EncodingIds, data : Symbols]
         /\ p.esi < K => p.esi \in SourceIds /\ p.data = b[p.esi]
         /\ p.esi >= K => p.esi \in EncodingIds \ SourceIds
         /\ HoldsOf({EquationOf(p)}, gen_intermediate_symbols(b))
<1> DEFINE c == gen_intermediate_symbols(b)
<1>1. c \in Intermediates /\ HoldsOf(create_d(b), c)
  BY EncoderSolves
<1> HIDE DEF c
<1>2. CASE p \in SourcePackets(b)
  <2>1. PICK i \in SourceIds : p = [esi |-> i, data |-> b[i]]
    BY <1>2 DEF SourcePackets
  <2>2. i \in 0 .. K - 1 /\ i \in EncodingIds /\ i < K /\ b[i] \in Symbols
    BY SizeAssumption DEF SourceIds, EncodingIds, Blocks
  <2>3. <<Isi(i), b[i]>> \in create_d(b)
    BY DEF create_d
  <2>4. Eval(Isi(i), c) = b[i]
    BY <2>3, <1>1 DEF HoldsOf
  <2>5. i + 0 = i
    BY <2>2, SizeAssumption
  <2>6. EquationOf(p) = <<Isi(i), b[i]>>
    BY <2>1, <2>2, <2>5 DEF EquationOf
  <2>7. HoldsOf({EquationOf(p)}, c)
    BY <2>4, <2>6 DEF HoldsOf
  <2>8. ~(i >= K)
    BY <2>2, SizeAssumption
  <2>9. QED
    BY <2>1, <2>2, <2>7, <2>8 DEF c
<1>3. CASE p \in RepairPackets(c, 0, MaxRepair)
  <2>1. PICK i \in 0 .. MaxRepair - 1 :
          p = [esi |-> K + 0 + i, data |-> Eval(Isi(KPrime + 0 + i), c)]
    BY <1>3 DEF RepairPackets
  <2>2. /\ K + 0 + i \in EncodingIds \ SourceIds
        /\ ~(K + 0 + i < K)
        /\ K + 0 + i + num_padding = KPrime + 0 + i
        /\ KPrime + 0 + i \in 0 .. KPrime + MaxRepair - 1
    BY SizeAssumption DEF EncodingIds, SourceIds, num_padding
  <2>3. Eval(Isi(KPrime + 0 + i), c) \in Symbols
    BY <1>1, <2>2, EvalAssumption
  <2>4. EquationOf(p) = <<Isi(KPrime + 0 + i), p.data>>
    BY <2>1, <2>2 DEF EquationOf
  <2>5. HoldsOf({EquationOf(p)}, c)
    BY <2>1, <2>4 DEF HoldsOf
  <2>6. QED
    BY <2>1, <2>2, <2>3, <2>5 DEF c
<1>4. QED
  BY <1>2, <1>3 DEF PacketsOf, c

LEMMA SamePacket ==
  ASSUME NEW b \in Blocks, NEW p \in PacketsOf(b), NEW q \in PacketsOf(b), p.esi = q.esi
  PROVE  p = q
<1>1. p \in [esi : EncodingIds, data : Symbols] /\ q \in [esi : EncodingIds, data : Symbols]
  BY PacketFacts
<1>2. CASE p.esi < K
  <2>1. p.data = b[p.esi] /\ q.data = b[q.esi]
    BY <1>2, PacketFacts
  <2>2. p.data = q.data
    BY <2>1
  <2>3. QED
    BY <1>1, <2>2
<1>3. CASE ~(p.esi < K)
  <2>1. p \notin SourcePackets(b) /\ q \notin SourcePackets(b)
    BY <1>3, SizeAssumption DEF SourcePackets, SourceIds
  <2>2. PICK i \in 0 .. MaxRepair - 1 :
          p = [esi |-> K + 0 + i, data |-> Eval(Isi(KPrime + 0 + i), gen_intermediate_symbols(b))]
    BY <2>1 DEF PacketsOf, RepairPackets
  <2>3. PICK j \in 0 .. MaxRepair - 1 :
          q = [esi |-> K + 0 + j, data |-> Eval(Isi(KPrime + 0 + j), gen_intermediate_symbols(b))]
    BY <2>1 DEF PacketsOf, RepairPackets
  <2>4. i = j
    BY <2>2, <2>3, SizeAssumption
  <2>5. QED
    BY <2>2, <2>3, <2>4
<1>4. QED
  BY <1>2, <1>3

LEMMA EveryIdHasPacket ==
  ASSUME NEW b \in Blocks, NEW i \in SourceIds
  PROVE  /\ [esi |-> i, data |-> b[i]] \in PacketsOf(b)
         /\ i \in EncodingIds /\ i < K
  BY SizeAssumption DEF PacketsOf, SourcePackets, SourceIds, EncodingIds

LEMMA ReceivedEquationsHold ==
  ASSUME NEW b \in Blocks, NEW ids
  PROVE  HoldsOf(EquationsOf(b, ids), gen_intermediate_symbols(b))
<1> DEFINE c == gen_intermediate_symbols(b)
<1>1. HoldsOf(create_d(b), c)
  BY EncoderSolves
<1>2. HoldsOf(ZeroEquations(LdpcRows \cup HdpcRows) \cup PaddingEquations, c)
  BY <1>1 DEF HoldsOf, create_d
<1>3. HoldsOf({EquationOf(p) : p \in {q \in PacketsOf(b) : q.esi \in ids}}, c)
  BY PacketFacts DEF HoldsOf
<1>4. QED
  BY <1>2, <1>3 DEF HoldsOf, EquationsOf

-----------------------------------------------------------------------------
(* What a call sees after its loop, for any contents of the records. *)

\* The records hold exactly the packets with the given ids.
Holding(b, ids, src, reps) ==
  /\ src = [i \in SourceIds |-> IF i \in ids THEN b[i] ELSE None]
  /\ reps = {p \in PacketsOf(b) : p.esi \in ids /\ p.esi >= K}

LEMMA PresentIds ==
  ASSUME NEW b \in Blocks, NEW ids, NEW src, NEW reps, Holding(b, ids, src, reps)
  PROVE  Present(src) = ids \cap SourceIds
<1>1. \A i \in SourceIds : b[i] # None
  BY NoneAssumption DEF Blocks
<1>2. QED
  BY <1>1 DEF Holding, Present

LEMMA EncodedEquationsAgree ==
  ASSUME NEW b \in Blocks, NEW ids, NEW src, NEW reps, Holding(b, ids, src, reps)
  PROVE  ZeroEquations(LdpcRows \cup HdpcRows) \cup EncodedEquations(src, reps)
           = EquationsOf(b, ids)
<1> DEFINE Had == {EquationOf(p) : p \in {q \in PacketsOf(b) : q.esi \in ids}}
           Src == {<<Isi(i), src[i]>> : i \in Present(src)}
           Rep == {<<Isi(p.esi + num_padding), p.data>> : p \in reps}
<1>1. Present(src) = ids \cap SourceIds
  BY PresentIds
<1>2. ASSUME NEW i \in ids \cap SourceIds
      PROVE  /\ [esi |-> i, data |-> b[i]] \in PacketsOf(b)
             /\ EquationOf([esi |-> i, data |-> b[i]]) = <<Isi(i), b[i]>>
             /\ src[i] = b[i]
  <2>1. i < K /\ i + 0 = i
    BY SizeAssumption DEF SourceIds
  <2>2. QED
    BY <2>1, EveryIdHasPacket DEF EquationOf, Holding
<1>3. ASSUME NEW p \in PacketsOf(b), p.esi \in ids, p.esi < K
      PROVE  EquationOf(p) = <<Isi(p.esi), src[p.esi]>> /\ p.esi \in ids \cap SourceIds
  <2>1. p.esi \in SourceIds /\ p.data = b[p.esi]
    BY <1>3, PacketFacts
  <2>2. p.esi + 0 = p.esi
    BY <2>1, SizeAssumption DEF SourceIds
  <2>3. src[p.esi] = b[p.esi]
    BY <1>3, <2>1 DEF Holding
  <2>4. EquationOf(p) = <<Isi(p.esi), p.data>>
    BY <1>3, <2>2 DEF EquationOf
  <2>5. QED
    BY <1>3, <2>1, <2>3, <2>4
<1>4. ASSUME NEW p \in PacketsOf(b), ~(p.esi < K)
      PROVE  p.esi >= K /\ EquationOf(p) = <<Isi(p.esi + num_padding), p.data>>
  <2>1. p.esi \in EncodingIds
    BY PacketFacts
  <2>2. p.esi >= K
    BY <1>4, <2>1, SizeAssumption DEF EncodingIds
  <2>3. QED
    BY <1>4, <2>2 DEF EquationOf
<1>5. \A p \in PacketsOf(b) : p.esi >= K => ~(p.esi < K)
  <2>1. \A p \in PacketsOf(b) : p.esi \in EncodingIds
    BY PacketFacts
  <2>2. QED
    BY <2>1, SizeAssumption DEF EncodingIds
<1>6. reps = {p \in PacketsOf(b) : p.esi \in ids /\ p.esi >= K}
  BY DEF Holding
<1>7. Src \subseteq Had
  BY <1>1, <1>2
<1>8. Rep \subseteq Had
  BY <1>4, <1>5, <1>6
<1>9. Had \subseteq Src \cup Rep
  BY <1>1, <1>3, <1>4, <1>6
<1>10. QED
  BY <1>7, <1>8, <1>9 DEF EquationsOf, EncodedEquations

LEMMA RebuildsBlock ==
  ASSUME NEW b \in Blocks, NEW ids, NEW src, NEW reps, Holding(b, ids, src, reps)
  PROVE  Rebuild(src, gen_intermediate_symbols(b)) = b
<1> DEFINE c == gen_intermediate_symbols(b)
<1>1. \A i \in SourceIds : Eval(Isi(i), c) = b[i]
  <2>1. HoldsOf(create_d(b), c)
    BY EncoderSolves
  <2>2. TAKE i \in SourceIds
  <2>3. <<Isi(i), b[i]>> \in create_d(b)
    BY DEF create_d
  <2>4. QED
    BY <2>1, <2>3 DEF HoldsOf
<1>2. \A i \in SourceIds : src[i] # None => src[i] = b[i]
  BY DEF Holding
<1>3. QED
  BY <1>1, <1>2 DEF Rebuild, Blocks

\* An attempt with any of the zero rows returns the block or nothing, and
\* returns the block if its equations determine the intermediate symbols.
LEMMA AttemptSound ==
  ASSUME NEW b \in Blocks, NEW ids, NEW src, NEW reps, Holding(b, ids, src, reps),
         NEW rows \in SUBSET (LdpcRows \cup HdpcRows)
  PROVE  TryPiDecode(rows, src, reps)
           = IF Determined(ZeroEquations(rows) \cup EncodedEquations(src, reps))
             THEN b ELSE None
<1> DEFINE c == gen_intermediate_symbols(b)
           eqs == ZeroEquations(rows) \cup EncodedEquations(src, reps)
<1>1. eqs \subseteq EquationsOf(b, ids)
  BY EncodedEquationsAgree DEF ZeroEquations
<1>2. c \in Intermediates /\ HoldsOf(eqs, c)
  BY <1>1, EncoderSolves, ReceivedEquationsHold DEF HoldsOf
<1>3. Solve(eqs) = IF Determined(eqs) THEN c ELSE None
  BY <1>2, SolveSound
<1>4. Rebuild(src, c) = b
  BY RebuildsBlock
<1>5. QED
  BY <1>2, <1>3, <1>4, NoneAssumption DEF TryPiDecode

\* Without HDPC rows no more can be recovered than with them.
LEMMA NoHdpcWeaker ==
  ASSUME NEW b \in Blocks, NEW ids, NEW src, NEW reps, Holding(b, ids, src, reps),
         TryPiDecode(LdpcRows, src, reps) # None
  PROVE  Determined(EquationsOf(b, ids)) /\ TryPiDecode(LdpcRows, src, reps) = b
<1> DEFINE eqs == ZeroEquations(LdpcRows) \cup EncodedEquations(src, reps)
<1>1. TryPiDecode(LdpcRows, src, reps) = IF Determined(eqs) THEN b ELSE None
  BY AttemptSound
<1>2. eqs \subseteq EquationsOf(b, ids)
  BY EncodedEquationsAgree DEF ZeroEquations
<1>3. QED
  BY <1>1, <1>2, DeterminedMonotone, EncoderSolves, ReceivedEquationsHold

LEMMA AllSourceDetermines ==
  ASSUME NEW b \in Blocks, NEW ids, SourceIds \subseteq ids
  PROVE  Determined(EquationsOf(b, ids))
<1>1. ASSUME NEW i \in SourceIds
      PROVE  <<Isi(i), b[i]>> \in EquationsOf(b, ids)
  <2> DEFINE p == [esi |-> i, data |-> b[i]]
  <2>1. p \in PacketsOf(b) /\ p.esi \in ids /\ p.esi < K
    BY EveryIdHasPacket
  <2>2. i + 0 = i
    BY SizeAssumption DEF SourceIds
  <2>3. EquationOf(p) = <<Isi(i), b[i]>>
    BY <2>1, <2>2 DEF EquationOf
  <2>4. QED
    BY <2>1, <2>3 DEF EquationsOf
<1>2. create_d(b) \subseteq EquationsOf(b, ids)
  BY <1>1 DEF create_d, EquationsOf
<1>3. QED
  BY <1>2, SystematicAssumption, DeterminedMonotone, EncoderSolves, ReceivedEquationsHold

LEMMA RecoverableMonotone ==
  ASSUME NEW b \in Blocks, NEW more \in SUBSET EncodingIds, NEW ids \in SUBSET more,
         Recoverable(b, ids)
  PROVE  Recoverable(b, more)
<1>1. IsFiniteSet(more)
  BY IdsFinite
<1>2. Cardinality(more) \in Nat /\ Cardinality(ids) \in Nat
      /\ Cardinality(ids) <= Cardinality(more)
  BY <1>1, FS_Subset, FS_CardinalityType
<1>3. Cardinality(more) >= K
  BY <1>2, SizeAssumption DEF Recoverable
<1>4. EquationsOf(b, ids) \subseteq EquationsOf(b, more)
  BY DEF EquationsOf
<1>5. Determined(EquationsOf(b, more))
  BY <1>4, DeterminedMonotone, EncoderSolves, ReceivedEquationsHold DEF Recoverable
<1>6. QED
  BY <1>3, <1>5 DEF Recoverable

-----------------------------------------------------------------------------
(* The loop of a call. *)

EncoderReady == intermediate_symbols = gen_intermediate_symbols(block)

LEMMA RecordsHold ==
  ASSUME TypeInv, EncoderReady, RecordsAgree
  PROVE  /\ Packets = PacketsOf(block)
         /\ Holding(block, received_esi, source_symbols, repair_packets)
<1>1. Packets = PacketsOf(block)
  BY DEF EncoderReady, Packets, PacketsOf
<1>2. source_symbols = [i \in SourceIds |-> IF i \in received_esi THEN block[i] ELSE None]
  BY DEF TypeInv, RecordsAgree
<1>3. QED
  BY <1>1, <1>2 DEF Holding, RecordsAgree

\* Places that hold different ids are as many as the ids.
LEMMA CountPlaces ==
  ASSUME NEW batch, NEW Places, {batch[i].esi : i \in Places} \in SUBSET EncodingIds,
         \A i, j \in Places : batch[i].esi = batch[j].esi => i = j
  PROVE  Cardinality(Places) = Cardinality({batch[i].esi : i \in Places})
<1> DEFINE Ids == {batch[i].esi : i \in Places}
           f == [i \in Places |-> batch[i].esi]
<1>1. IsFiniteSet(Ids)
  BY IdsFinite
<1>2. f \in Injection(Places, Ids) /\ f \in Surjection(Places, Ids)
  BY DEF Injection, Surjection, IsInjective
<1>3. QED
  BY <1>1, <1>2, FS_Injection

\* The packets of a call, in whatever order and however often.
InCall(batch) == {batch[i] : i \in DOMAIN batch}

\* Of the packets of a call with one id the first is kept, unless it was
\* received before.
LEMMA FirstIsKept ==
  ASSUME NEW batch \in Seq(Packets), NEW p \in InCall(batch), p.esi \notin received_esi
  PROVE  \E q \in Kept(batch) : q.esi = p.esi
<1>. DEFINE Same == {i \in DOMAIN batch : batch[i].esi = p.esi}
<1>1. DOMAIN batch = 1 .. Len(batch) /\ Len(batch) \in Nat  OBVIOUS
<1>2. Same \in SUBSET Nat /\ Same # {}  BY <1>1 DEF InCall
<1>3. PICK i \in Same : \A j \in Same : i <= j  BY <1>2, LeastNumber
<1>4. \A j \in 1 .. i - 1 : batch[j].esi # p.esi  BY <1>1, <1>3
<1>5. i \in Fresh(batch)  BY <1>3, <1>4 DEF Fresh
<1>. QED BY <1>3, <1>5 DEF Kept

\* What is kept is of the call, new, and of each id once.
LEMMA KeptOnce ==
  ASSUME NEW batch \in Seq(Packets)
  PROVE  /\ Kept(batch) \in SUBSET InCall(batch)
         /\ InCall(batch) \in SUBSET Packets
         /\ \A p \in Kept(batch) : p.esi \notin received_esi
         /\ \A i, j \in Fresh(batch) : batch[i].esi = batch[j].esi => i = j
<1>1. DOMAIN batch = 1 .. Len(batch) /\ Len(batch) \in Nat  OBVIOUS
<1>2. Kept(batch) \in SUBSET InCall(batch) /\ InCall(batch) \in SUBSET Packets
  BY <1>1 DEF Kept, InCall, Fresh
<1>3. \A p \in Kept(batch) : p.esi \notin received_esi  BY DEF Kept, Fresh
<1>4. ASSUME NEW i \in Fresh(batch), NEW j \in Fresh(batch), i < j
      PROVE  batch[i].esi # batch[j].esi
  <2>1. i \in 1 .. j - 1  BY <1>1, <1>4 DEF Fresh
  <2>. QED BY <2>1 DEF Fresh
<1>5. ASSUME NEW i \in Fresh(batch), NEW j \in Fresh(batch), batch[i].esi = batch[j].esi
      PROVE  i = j
  <2>1. i \in Nat /\ j \in Nat  BY <1>1 DEF Fresh
  <2>2. ~(i < j) /\ ~(j < i)  BY <1>4, <1>5
  <2>. QED BY <2>1, <2>2
<1>. QED BY <1>2, <1>3, <1>5

LEMMA ReceiveStep ==
  ASSUME TypeInv, EncoderReady, RecordsAgree, UNCHANGED encoder,
         NEW batch \in Seq(Packets), Receive(batch)
  PROVE  /\ block' = block
         /\ received_esi' = received_esi \cup {p.esi : p \in InCall(batch)}
         /\ received_esi' \in SUBSET EncodingIds
         /\ Holding(block, received_esi', source_symbols', repair_packets')
         /\ received_source_symbols' = Cardinality(received_esi' \cap SourceIds)
<1> DEFINE New == {p.esi : p \in InCall(batch)}
           source == {p \in Kept(batch) : p.esi < K}
<1>1. block \in Blocks /\ block' = block /\ InCall(batch) \subseteq PacketsOf(block)
      /\ Holding(block, received_esi, source_symbols, repair_packets)
  BY RecordsHold, KeptOnce DEF TypeInv, encoder
<1>2. received_esi' = received_esi \cup New
  <2>1. received_esi' = received_esi \cup {p.esi : p \in Kept(batch)}
    BY DEF Receive
  <2>2. \A p \in InCall(batch) : p.esi \in received_esi \/ \E q \in Kept(batch) : q.esi = p.esi
    BY FirstIsKept
  <2>3. QED
    BY <2>1, <2>2, KeptOnce
<1>3. received_esi' \in SUBSET EncodingIds
  BY <1>1, <1>2, PacketFacts DEF TypeInv
<1>4. \A p \in InCall(batch) : /\ p.esi < K => p.esi \in SourceIds /\ p.data = block[p.esi]
                               /\ p.esi >= K <=> ~(p.esi < K)
                               /\ p.esi \in SourceIds => p.esi < K
  <2>1. \A p \in InCall(batch) : p.esi \in EncodingIds /\ (p.esi < K => p.esi \in SourceIds /\ p.data = block[p.esi])
    BY <1>1, PacketFacts
  <2>2. \A n \in EncodingIds : (n >= K <=> ~(n < K)) /\ (n \in SourceIds => n < K)
    BY SizeAssumption DEF EncodingIds, SourceIds
  <2>3. QED
    BY <2>1, <2>2
<1>5. ASSUME NEW i \in SourceIds
      PROVE  source_symbols'[i] = IF i \in received_esi' THEN block[i] ELSE None
  <2>1. source_symbols'[i] = IF \E p \in source : p.esi = i
                             THEN (CHOOSE p \in source : p.esi = i).data
                             ELSE source_symbols[i]
    BY DEF Receive
  <2>2. source_symbols[i] = IF i \in received_esi THEN block[i] ELSE None
    BY DEF RecordsAgree
  <2>3. CASE \E p \in source : p.esi = i
    <3>1. PICK q : q = CHOOSE p \in source : p.esi = i
      OBVIOUS
    <3>2. q \in source /\ q.esi = i
      BY <2>3, <3>1
    <3>3. q \in InCall(batch) /\ q.esi < K
      BY <3>2, KeptOnce
    <3>4. q.data = block[i] /\ i \in received_esi'
      BY <1>2, <1>4, <3>2, <3>3
    <3>5. QED
      BY <2>1, <2>3, <3>1, <3>4
  <2>4. CASE ~\E p \in source : p.esi = i
    <3>1. i \in New => i \in received_esi
      BY <1>4, <2>4, FirstIsKept
    <3>2. QED
      BY <1>2, <2>1, <2>2, <2>4, <3>1
  <2>5. QED
    BY <2>3, <2>4
<1>6. source_symbols' = [i \in SourceIds |-> IF i \in received_esi' THEN block[i] ELSE None]
  <2>1. DOMAIN source_symbols' = SourceIds
        /\ source_symbols' = [i \in SourceIds |-> source_symbols'[i]]
    BY DEF Receive
  <2>2. QED
    BY <1>5, <2>1
<1>7. repair_packets' = {p \in PacketsOf(block) : p.esi \in received_esi' /\ p.esi >= K}
  <2>1. repair_packets = {p \in PacketsOf(block) : p.esi \in received_esi /\ p.esi >= K}
    BY <1>1 DEF Holding
  <2>2. repair_packets' = repair_packets \cup {p \in Kept(batch) : p.esi >= K}
    BY <1>4, KeptOnce DEF Receive
  <2>3. ASSUME NEW p \in PacketsOf(block), p.esi \in New, p.esi \notin received_esi
        PROVE  p \in Kept(batch)
    <3>1. PICK q \in Kept(batch) : q.esi = p.esi
      BY <2>3, FirstIsKept
    <3>2. QED
      BY <1>1, <3>1, SamePacket, KeptOnce
  <2>4. QED
    BY <1>1, <1>2, <2>1, <2>2, <2>3, KeptOnce
<1>8. received_source_symbols' = Cardinality(received_esi' \cap SourceIds)
  <2> DEFINE Old == received_esi \cap SourceIds
             Places == {i \in Fresh(batch) : batch[i].esi < K}
             Add == {p.esi : p \in source}
             IdsAt == {batch[i].esi : i \in Places}
  <2>1. IdsAt = Add
    <3>1. \A i \in Places : batch[i] \in source
      BY DEF Kept
    <3>2. \A p \in source : \E i \in Places : p = batch[i]
      BY DEF Kept
    <3>3. QED
      BY <3>1, <3>2
  <2>2. Cardinality(Places) = Cardinality(Add)
    <3>1. Add \in SUBSET EncodingIds
      BY <1>1, KeptOnce, PacketFacts
    <3>2. \A i, j \in Places : batch[i].esi = batch[j].esi => i = j
      BY KeptOnce
    <3> HIDE DEF Places, Add
    <3>3. QED
      BY <2>1, <3>1, <3>2, CountPlaces
  <2>3. IsFiniteSet(SourceIds)
    BY IdsFinite
  <2>4. Add \subseteq SourceIds /\ Add \cap Old = {} /\ received_esi' \cap SourceIds = Old \cup Add
    BY <1>2, <1>4, KeptOnce, FirstIsKept
  <2>5. IsFiniteSet(Old) /\ IsFiniteSet(Add) /\ Cardinality(Old) \in Nat /\ Cardinality(Add) \in Nat
    BY <2>3, <2>4, FS_Subset, FS_CardinalityType
  <2>6. Cardinality(Old \cup Add) = Cardinality(Old) + Cardinality(Add)
    BY <2>4, <2>5, DisjointUnion
  <2>7. received_source_symbols' = Cardinality(Old) + Cardinality(Places)
    BY DEF Receive, RecordsAgree, NewSource
  <2>8. QED
    BY <2>2, <2>4, <2>6, <2>7
<1>9. QED
  BY <1>1, <1>2, <1>3, <1>6, <1>7, <1>8 DEF Holding

-----------------------------------------------------------------------------
(* One call, and the specification. *)

IInv ==
  /\ TypeInv
  /\ EncoderReady
  /\ RecordsAgree
  /\ ResultIsBlock
  /\ AnswersWhenRecoverable
  /\ DecodedTracksResult

\* Whichever case answers, a call answers by the set of received ids.
LEMMA DecodeAnswers ==
  ASSUME IInv, NEW batch \in Seq(Packets), Decode(batch)
  PROVE  /\ UNCHANGED encoder
         /\ Receive(batch)
         /\ result' = IF Recoverable(block, received_esi') THEN block ELSE None
         /\ decoded' <=> (result' # None)
<1>1. UNCHANGED encoder /\ Receive(batch)
  BY DEF Decode, DecodeInsufficient, DecodeAllSource, DecodeWithoutHdpc, DecodeWithHdpc
<1>2. /\ block \in Blocks /\ block # None
      /\ received_esi' = received_esi \cup {p.esi : p \in InCall(batch)}
      /\ received_esi' \in SUBSET EncodingIds
      /\ Holding(block, received_esi', source_symbols', repair_packets')
      /\ received_source_symbols' = Cardinality(received_esi' \cap SourceIds)
  BY <1>1, ReceiveStep, NoneAssumption DEF IInv, TypeInv
<1>3. Cardinality(received_esi') \in Nat
  BY <1>2, IdsFinite, FS_CardinalityType
<1>4. decoded => Recoverable(block, received_esi')
  BY <1>2, RecoverableMonotone DEF IInv, AnswersWhenRecoverable, DecodedTracksResult
<1>5. CASE DecodeInsufficient(batch)
  <2>1. ~Recoverable(block, received_esi')
    BY <1>3, <1>5, SizeAssumption DEF DecodeInsufficient, TooFewReceived, Recoverable
  <2>2. QED
    BY <1>1, <1>4, <1>5, <2>1 DEF DecodeInsufficient, IInv, TypeInv
<1>6. CASE DecodeAllSource(batch)
  <2>1. Cardinality(received_esi' \cap SourceIds) = Cardinality(SourceIds)
    BY <1>2, <1>6, IdsFinite DEF DecodeAllSource, AllSourceReceived
  <2>2. received_esi' \cap SourceIds = SourceIds
    BY <2>1, IdsFinite, FS_Subset
  <2>3. Determined(EquationsOf(block, received_esi'))
    BY <1>2, <2>2, AllSourceDetermines
  <2>4. Recoverable(block, received_esi')
    BY <1>3, <1>6, <2>3, SizeAssumption DEF DecodeAllSource, TooFewReceived, Recoverable
  <2>5. source_symbols' = block
    BY <1>2, <2>2 DEF Holding, Blocks
  <2>6. QED
    BY <1>1, <1>2, <1>6, <2>4, <2>5 DEF DecodeAllSource
<1>7. CASE DecodeWithoutHdpc(batch)
  <2>1. TryPiDecode(LdpcRows, source_symbols', repair_packets') # None
        /\ result' = TryPiDecode(LdpcRows, source_symbols', repair_packets')
    BY <1>7 DEF DecodeWithoutHdpc, NoHdpcResult
  <2>2. Determined(EquationsOf(block, received_esi')) /\ result' = block
    BY <1>2, <2>1, NoHdpcWeaker
  <2>3. Recoverable(block, received_esi')
    BY <1>3, <1>7, <2>2, SizeAssumption DEF DecodeWithoutHdpc, TooFewReceived, Recoverable
  <2>4. QED
    BY <1>1, <1>2, <1>7, <2>2, <2>3 DEF DecodeWithoutHdpc
<1>8. CASE DecodeWithHdpc(batch)
  <2>1. result' = TryPiDecode(LdpcRows \cup HdpcRows, source_symbols', repair_packets')
    BY <1>8 DEF DecodeWithHdpc, HdpcResult
  <2>2. result' = IF Determined(EquationsOf(block, received_esi')) THEN block ELSE None
    <3> DEFINE rows == LdpcRows \cup HdpcRows
    <3>1. ZeroEquations(rows) \cup EncodedEquations(source_symbols', repair_packets')
            = EquationsOf(block, received_esi')
      BY <1>2, EncodedEquationsAgree
    <3>2. rows \in SUBSET (LdpcRows \cup HdpcRows)
      OBVIOUS
    <3> HIDE DEF rows
    <3>3. TryPiDecode(rows, source_symbols', repair_packets')
            = IF Determined(ZeroEquations(rows) \cup EncodedEquations(source_symbols', repair_packets'))
              THEN block ELSE None
      BY <1>2, <3>2, AttemptSound
    <3>4. QED
      BY <2>1, <3>1, <3>3 DEF rows
  <2>3. Cardinality(received_esi') >= K
    BY <1>3, <1>8, SizeAssumption DEF DecodeWithHdpc, TooFewReceived
  <2>4. result' = IF Recoverable(block, received_esi') THEN block ELSE None
    BY <2>2, <2>3 DEF Recoverable
  <2>5. decoded' <=> (result' # None)
    BY <1>2, <1>4, <1>8, <2>4 DEF DecodeWithHdpc, FlagAfterHdpc
  <2>6. QED
    BY <1>1, <2>4, <2>5
<1>9. QED
  BY <1>5, <1>6, <1>7, <1>8 DEF Decode

LEMMA InitIInv == Init => IInv
<1> SUFFICES ASSUME Init PROVE IInv
  OBVIOUS
<1>1. EncoderReady
  BY DEF Init, EncoderReady
<1>2. TypeInv
  BY EncoderSolves DEF Init, TypeInv
<1>3. Cardinality({}) = 0 /\ {} \cap SourceIds = {}
  BY FS_EmptySet
<1>4. RecordsAgree
  BY <1>3 DEF Init, RecordsAgree
<1>5. ~Recoverable(block, received_esi)
  BY <1>3, SizeAssumption DEF Init, Recoverable
<1>6. ResultIsBlock /\ AnswersWhenRecoverable /\ DecodedTracksResult
  BY <1>5 DEF Init, ResultIsBlock, AnswersWhenRecoverable, DecodedTracksResult
<1>7. QED
  BY <1>1, <1>2, <1>4, <1>6 DEF IInv

LEMMA NextIInv == IInv /\ [Next]_vars => IInv'
<1> SUFFICES ASSUME IInv, [Next]_vars PROVE IInv'
  OBVIOUS
<1>1. CASE UNCHANGED vars
  BY <1>1 DEF vars, encoder, received, IInv, TypeInv, EncoderReady, RecordsAgree, Packets,
              ResultIsBlock, AnswersWhenRecoverable, DecodedTracksResult
<1>2. ASSUME NEW batch \in Seq(Packets), Decode(batch) PROVE IInv'
  <2>1. /\ block' = block /\ intermediate_symbols' = intermediate_symbols
        /\ Receive(batch)
        /\ result' = IF Recoverable(block, received_esi') THEN block ELSE None
        /\ decoded' <=> (result' # None)
    BY <1>2, DecodeAnswers DEF encoder
  <2>2. /\ received_esi' \in SUBSET EncodingIds
        /\ Holding(block, received_esi', source_symbols', repair_packets')
        /\ received_source_symbols' = Cardinality(received_esi' \cap SourceIds)
    BY <2>1, ReceiveStep DEF IInv, encoder
  <2>3. block \in Blocks /\ EncoderReady
    BY DEF IInv, TypeInv
  <2>4. EncoderReady'
    BY <2>1, <2>3 DEF EncoderReady
  <2>5. Packets' = PacketsOf(block)
    BY <2>1, <2>3 DEF EncoderReady, Packets, PacketsOf
  <2>6. RecordsAgree'
    BY <2>1, <2>2, <2>5 DEF RecordsAgree, Holding
  <2>7. TypeInv'
    <3>1. source_symbols' \in [SourceIds -> Symbols \cup {None}]
      BY <2>2, <2>3 DEF Holding, Blocks
    <3>2. repair_packets' \in SUBSET [esi : EncodingIds \ SourceIds, data : Symbols]
      <4>1. ASSUME NEW p \in PacketsOf(block), p.esi >= K
            PROVE  p \in [esi : EncodingIds \ SourceIds, data : Symbols]
        <5>1. p \in [esi : EncodingIds, data : Symbols] /\ p.esi \in EncodingIds \ SourceIds
          BY <2>3, <4>1, PacketFacts
        <5>2. QED
          BY <5>1
      <4>2. QED
        BY <2>2, <4>1 DEF Holding
    <3>3. received_source_symbols' \in Nat
      BY <2>2, IdsFinite, FS_CardinalityType, FS_Subset
    <3>4. result' \in Blocks \cup {None} /\ decoded' \in BOOLEAN
      <4>1. decoded' \in BOOLEAN
        BY <1>2 DEF Decode, DecodeInsufficient, DecodeAllSource, DecodeWithoutHdpc,
                    DecodeWithHdpc, FlagAfterHdpc, IInv, TypeInv
      <4>2. QED
        BY <2>1, <2>3, <4>1
    <3>5. QED
      BY <2>1, <2>2, <3>1, <3>2, <3>3, <3>4 DEF TypeInv, IInv
  <2>8. (ResultIsBlock /\ AnswersWhenRecoverable /\ DecodedTracksResult)'
    BY <2>1, <2>3, NoneAssumption DEF ResultIsBlock, AnswersWhenRecoverable, DecodedTracksResult
  <2>9. QED
    BY <2>4, <2>6, <2>7, <2>8 DEF IInv
<1>3. QED
  BY <1>1, <1>2 DEF Next

LEMMA SpecIInv == Spec => []IInv
  BY InitIInv, NextIInv, PTL DEF Spec

\* Every reachable state of the decoder is well typed.
THEOREM TypeCorrect == Spec => []TypeInv
<1>1. IInv => TypeInv
  BY DEF IInv
<1>2. QED
  BY <1>1, SpecIInv, PTL

\* What decode has recorded is exactly what arrived, each symbol once.
THEOREM RecordsCorrect == Spec => []RecordsAgree
<1>1. IInv => RecordsAgree
  BY DEF IInv
<1>2. QED
  BY <1>1, SpecIInv, PTL

\* decode never returns anything but the block that was encoded.
THEOREM ResultCorrect == Spec => []ResultIsBlock
<1>1. IInv => ResultIsBlock
  BY DEF IInv
<1>2. QED
  BY <1>1, SpecIInv, PTL

\* decode returns the block as soon as, and only when, the symbols suffice.
THEOREM AnswersCorrect == Spec => []AnswersWhenRecoverable
<1>1. IInv => AnswersWhenRecoverable
  BY DEF IInv
<1>2. QED
  BY <1>1, SpecIInv, PTL

\* The decoded flag is what its name says after every call.
THEOREM FlagCorrect == Spec => []DecodedTracksResult
<1>1. IInv => DecodedTracksResult
  BY DEF IInv
<1>2. QED
  BY <1>1, SpecIInv, PTL

\* Once a call has returned the block, every later call does.
THEOREM NeverForgetsCorrect == Spec => NeverForgets
<1>1. IInv /\ [Next]_vars => [result # None => result' = result]_vars
  <2> SUFFICES ASSUME IInv, NEW batch \in Seq(Packets), Decode(batch), result # None
               PROVE  result' = result
    BY DEF Next
  <2>1. /\ Receive(batch) /\ UNCHANGED encoder
        /\ result' = IF Recoverable(block, received_esi') THEN block ELSE None
    BY DecodeAnswers
  <2>2. received_esi' \in SUBSET EncodingIds /\ received_esi \subseteq received_esi'
    BY <2>1, ReceiveStep DEF IInv
  <2>3. Recoverable(block, received_esi) /\ result = block /\ block \in Blocks
    BY DEF IInv, AnswersWhenRecoverable, ResultIsBlock, TypeInv
  <2>4. QED
    BY <2>1, <2>2, <2>3, RecoverableMonotone
<1>2. QED
  BY <1>1, SpecIInv, PTL DEF Spec, NeverForgets

\* SourceBlockDecoder implements the abstract BlockDelivery.
THEOREM DeliveryImplemented == Spec => ImplementsDelivery
<1>1. Init => Delivery!Init
  BY DEF Init, Delivery!Init
<1>2. IInv /\ [Next]_vars => [Delivery!Next]_<<block, received_esi, result>>
  <2> SUFFICES ASSUME IInv, [Next]_vars
               PROVE  [Delivery!Next]_<<block, received_esi, result>>
    OBVIOUS
  <2>1. ASSUME NEW batch \in Seq(Packets), Decode(batch)
        PROVE  Delivery!Next
    <3> DEFINE ids == {p.esi : p \in InCall(batch)}
    <3>1. /\ Receive(batch) /\ UNCHANGED encoder /\ block' = block
          /\ result' = IF Recoverable(block, received_esi') THEN block ELSE None
      BY <2>1, DecodeAnswers DEF encoder
    <3>2. received_esi' = received_esi \cup ids /\ received_esi' \in SUBSET EncodingIds
      BY <3>1, ReceiveStep DEF IInv
    <3>3. ids \in SUBSET EncodingIds
      BY <3>2
    <3>4. Delivery!Arrive(ids)
      BY <3>1, <3>2 DEF Delivery!Arrive
    <3>5. QED
      BY <3>3, <3>4 DEF Delivery!Next
  <2>2. CASE UNCHANGED vars
    BY <2>2 DEF vars, encoder, received
  <2>3. QED
    BY <2>1, <2>2 DEF Next
<1>3. QED
  BY <1>1, <1>2, SpecIInv, PTL DEF Spec, ImplementsDelivery, Delivery!Spec
=============================================================================
