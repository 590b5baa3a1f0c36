------------------------- MODULE SourceBlockDecoder -------------------------
(***************************************************************************)
(* SourceBlockDecoder of decoder.rs, fed with packets of one               *)
(* SourceBlockEncoder by a channel that may lose, duplicate and reorder    *)
(* them.  decode takes any number of packets in one call and is called     *)
(* again, on the same state, whether or not an earlier call succeeded.     *)
(*                                                                         *)
(* Symbols are kept whole: unpack_sub_blocks, which only places the bytes  *)
(* of a symbol in the result, is left out.                                 *)
(*                                                                         *)
(* Definitions headed "Faulty variant" are not used by the specification:  *)
(* each is a mistake that one of the properties must reveal when it stands *)
(* in for the definition after it.                                         *)
(***************************************************************************)
EXTENDS SourceBlock, Sequences

VARIABLES
  block,                    \* SourceBlockEncoder.source_symbols
  intermediate_symbols,     \* SourceBlockEncoder.intermediate_symbols
  source_symbols,
  repair_packets,           \* as a set: their order is of no consequence
  received_source_symbols,
  received_esi,
  decoded,
  result                    \* what the last call of decode returned

encoder == <<block, intermediate_symbols>>
received == <<source_symbols, repair_packets, received_source_symbols, received_esi>>
vars == <<encoder, received, decoded, result>>

Packets == SourcePackets(block) \cup RepairPackets(intermediate_symbols, 0, MaxRepair)

Init ==
  /\ block \in Blocks
  /\ intermediate_symbols = gen_intermediate_symbols(block)
  /\ source_symbols = [i \in SourceIds |-> None]
  /\ repair_packets = {}
  /\ received_source_symbols = 0
  /\ received_esi = {}
  /\ decoded = FALSE
  /\ result = None

-----------------------------------------------------------------------------
\* Faulty variant: a packet that is repeated within the call is taken again.
FreshBeforeCall(batch) == {i \in DOMAIN batch : batch[i].esi \notin received_esi}
\* The places of the packets that a call keeps: one whose id has been received,
\* before the call or earlier in it, is dropped.
Fresh(batch) ==
  {i \in DOMAIN batch : /\ batch[i].esi \notin received_esi
                        /\ \A j \in 1 .. i - 1 : batch[j].esi # batch[i].esi}
Kept(batch) == {batch[i] : i \in Fresh(batch)}

\* The counter goes up with each source symbol that is kept.
NewSource(batch) == Cardinality({i \in Fresh(batch) : batch[i].esi < K})

\* The loop over the packets of one call.
Receive(batch) ==
  LET source == {p \in Kept(batch) : p.esi < K}
  IN  /\ received_esi' = received_esi \cup {p.esi : p \in Kept(batch)}
      /\ repair_packets' = repair_packets \cup (Kept(batch) \ source)
      /\ source_symbols' =
           [i \in SourceIds |-> IF \E p \in source : p.esi = i
                                THEN (CHOOSE p \in source : p.esi = i).data
                                ELSE source_symbols[i]]
      /\ received_source_symbols' = received_source_symbols + NewSource(batch)

-----------------------------------------------------------------------------
Present(sources) == {i \in SourceIds : sources[i] # None}

\* Faulty variant: the ISI of a repair row is taken to be its encoding symbol id.
EncodedEquationsUnshifted(sources, repairs) ==
  {<<Isi(i), sources[i]>> : i \in Present(sources)}
    \cup PaddingEquations
    \cup {<<Isi(p.esi), p.data>> : p \in repairs}

\* The rows encoded_isis with what D holds for them: the source symbols at
\* hand, the padding symbols, the repair symbols.
EncodedEquations(sources, repairs) ==
  {<<Isi(i), sources[i]>> : i \in Present(sources)}
    \cup PaddingEquations
    \cup {<<Isi(p.esi + num_padding), p.data>> : p \in repairs}

\* try_pi_decode and try_pi_decode_no_hdpc: solve, then rebuild what is missing.
Rebuild(sources, c) ==
  [i \in SourceIds |-> IF sources[i] # None THEN sources[i] ELSE Eval(Isi(i), c)]
TryPiDecode(rows, sources, repairs) ==
  LET c == Solve(ZeroEquations(rows) \cup EncodedEquations(sources, repairs))
  IN  IF c = None THEN None ELSE Rebuild(sources, c)

-----------------------------------------------------------------------------
(* The cases of decode, in the order in which the code tries them. *)

\* Faulty variant: the number of symbols is compared with the extended size.
TooFewForExtended == Cardinality(received_esi') < KPrime
TooFewReceived == Cardinality(received_esi') < K

AllSourceReceived == received_source_symbols' = K

\* s + encoded_isis.len() >= l
EnoughWithoutHdpc ==
  S + Cardinality(Present(source_symbols')) + num_padding + Cardinality(repair_packets') >= L
NoHdpcResult ==
  IF EnoughWithoutHdpc
  THEN TryPiDecode(LdpcRows, source_symbols', repair_packets')
  ELSE None

\* Faulty variant: no second attempt once the one without HDPC rows was made.
HdpcResultUnlessTried ==
  IF EnoughWithoutHdpc
  THEN None
  ELSE TryPiDecode(LdpcRows \cup HdpcRows, source_symbols', repair_packets')
HdpcResult == TryPiDecode(LdpcRows \cup HdpcRows, source_symbols', repair_packets')

\* Case 1: too few symbols, whatever they are.
DecodeInsufficient(batch) ==
  /\ Receive(batch)
  /\ TooFewReceived
  /\ result' = None
  /\ UNCHANGED <<encoder, decoded>>

\* Case 2: every source symbol is at hand.
DecodeAllSource(batch) ==
  /\ Receive(batch)
  /\ ~TooFewReceived
  /\ AllSourceReceived
  /\ result' = source_symbols'
  /\ decoded' = TRUE
  /\ UNCHANGED encoder

\* Case 3a: enough rows to do without the HDPC rows, and they suffice.
DecodeWithoutHdpc(batch) ==
  /\ Receive(batch)
  /\ ~TooFewReceived
  /\ ~AllSourceReceived
  /\ NoHdpcResult # None
  /\ result' = NoHdpcResult
  /\ decoded' = TRUE
  /\ UNCHANGED encoder

\* The flag is cleared when 3a was tried in vain, and set by a success of 3b.
FlagAfterHdpc == result' # None \/ (decoded /\ ~EnoughWithoutHdpc)

\* Case 3b: with the HDPC rows.
DecodeWithHdpc(batch) ==
  /\ Receive(batch)
  /\ ~TooFewReceived
  /\ ~AllSourceReceived
  /\ NoHdpcResult = None
  /\ result' = HdpcResult
  /\ decoded' = FlagAfterHdpc
  /\ UNCHANGED encoder

Decode(batch) ==
  \/ DecodeInsufficient(batch)
  \/ DecodeAllSource(batch)
  \/ DecodeWithoutHdpc(batch)
  \/ DecodeWithHdpc(batch)

Next == \E batch \in Seq(Packets) : Decode(batch)

Spec == Init /\ [][Next]_vars

-----------------------------------------------------------------------------
\* Every field of the encoder and of SourceBlockDecoder keeps its type.
TypeInv ==
  /\ block \in Blocks
  /\ intermediate_symbols \in Intermediates
  /\ source_symbols \in [SourceIds -> Symbols \cup {None}]
  /\ repair_packets \in SUBSET [esi : EncodingIds \ SourceIds, data : Symbols]
  /\ received_source_symbols \in Nat
  /\ received_esi \in SUBSET EncodingIds
  /\ decoded \in BOOLEAN
  /\ result \in Blocks \cup {None}

\* The three records that decode keeps of what has arrived describe the same
\* packets: the id set that filters duplicates, the symbols themselves, and
\* the counter that decides whether any solving is needed.
RecordsAgree ==
  /\ \A i \in SourceIds :
       source_symbols[i] = IF i \in received_esi THEN block[i] ELSE None
  /\ repair_packets = {p \in Packets : p.esi \in received_esi /\ p.esi >= K}
  /\ received_source_symbols = Cardinality(received_esi \cap SourceIds)

\* Whatever has been lost, repeated or reordered, and whichever of the four
\* cases answered, a call that returns a block returns the block that was sent.
ResultIsBlock == result # None => result = block

\* The answer depends on nothing but the set of symbols received: not on their
\* order, on how they were split into calls, on repetitions, on the answers of
\* earlier calls, or on which solver was asked first.
AnswersWhenRecoverable == (result # None) <=> Recoverable(block, received_esi)

\* The flag tells whether the last call returned the block: a call that tried
\* the solver without HDPC rows in vain does not leave it wrong.
DecodedTracksResult == decoded <=> (result # None)

\* A block that a call has returned is returned by every later call.
NeverForgets == [][result # None => result' = result]_vars

-----------------------------------------------------------------------------
Delivery == INSTANCE BlockDelivery WITH arrived <- received_esi, answer <- result

\* The decoder implements BlockDelivery: every call, whichever case answers
\* it, is a step that adds the received ids and answers by their set alone.
ImplementsDelivery == Delivery!Spec
=============================================================================
