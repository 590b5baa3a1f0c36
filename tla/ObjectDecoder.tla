--------------------------- MODULE ObjectDecoder ---------------------------
(***************************************************************************)
(* Decoder of decoder.rs: it hands each packet to the decoder of its       *)
(* block, keeps the blocks that are done, and joins them when asked.  The  *)
(* object was encoded by Encoder (ObjectEncoder); its packets arrive in    *)
(* any order, repeatedly or not at all.                                    *)
(*                                                                         *)
(* A block decoder is used as BlockDelivery describes it, which            *)
(* SourceBlockDecoder is shown to implement: it remembers the symbol ids   *)
(* it was given, and answers a call by that set alone.                     *)
(*                                                                         *)
(* Definitions headed "Faulty variant" are not used by the specification:  *)
(* each is a mistake that one of the properties must reveal when it stands *)
(* in for the definition after it.                                         *)
(***************************************************************************)
EXTENDS ObjectLayout, FiniteSets

CONSTANTS
  Config,              \* the ObjectTransmissionInformation of the transfer
  Object,              \* the bytes sent
  Repair,              \* repair packets per block that the sender may draw
  Sufficient(_, _),    \* Sufficient(k, ids): ids recover a block of k symbols
  None,
  Unit                 \* what add_new_packet returns

ASSUME ConfigAssumption == ValidConfig(Config)
ASSUME ObjectAssumption == Object \in Seq(Nat) /\ Len(Object) = Config.transfer_length
ASSUME EncoderAssumption ==      \* Encoder::new has not panicked
  \A b \in BlockIds(Config) : BlockStart(Config)[b] <= Len(Object)

Ids(b) == 0 .. SymbolsOf(Config, b) + Repair - 1
Packets == {p \in BlockIds(Config) \X (0 .. SymbolsOf(Config, 0) + Repair - 1) :
              p[2] \in Ids(p[1])}

\* More symbols never make a block undecodable (RecoverableMonotone), and all
\* source symbols together are enough.
ASSUME SufficientAssumption ==
  \A b \in BlockIds(Config) :
    /\ \A ids, more \in SUBSET Ids(b) :
         ids \subseteq more /\ Sufficient(SymbolsOf(Config, b), ids)
           => Sufficient(SymbolsOf(Config, b), more)
    /\ Sufficient(SymbolsOf(Config, b), 0 .. SymbolsOf(Config, b) - 1)

\* What the block decoder of block b returns once it can.
DecodedBlock(b) ==
  Unpack(Config, SymbolsOf(Config, b),
         CreateSymbols(Config, SymbolsOf(Config, b), BlockOf(Config, Object, b)))

ASSUME NoneAssumption ==
  /\ None # Object /\ Unit # None /\ Unit # Object
  /\ \A b \in BlockIds(Config) : None # DecodedBlock(b)

VARIABLES
  received,   \* received[b]: the symbol ids that block decoder b was given
  blocks,     \* blocks[b]: the bytes of block b, or None
  answer,     \* what the last call returned
  arrived     \* history: every packet that a call has brought

vars == <<received, blocks, answer, arrived>>

Init ==
  /\ received = [b \in BlockIds(Config) |-> {}]
  /\ blocks = [b \in BlockIds(Config) |-> None]
  /\ answer = None
  /\ arrived = {}

-----------------------------------------------------------------------------
Pending(b) == blocks[b] = None

\* Faulty variant: the packet is filed after its block has answered.
GivenBefore(b, esi) == received[b]
Given(b, esi) == received[b] \cup {esi}

\* Faulty variant: as many symbols as the block has are taken to be enough.
AnswerByCount(b, ids) ==
  IF Cardinality(ids) >= SymbolsOf(Config, b) THEN DecodedBlock(b) ELSE None
\* The answer of block decoder b to a call that leaves it with ids.
BlockAnswer(b, ids) ==
  IF Sufficient(SymbolsOf(Config, b), ids) THEN DecodedBlock(b) ELSE None

\* A packet goes to its block's decoder, unless that block is done.
Dispatch(p) ==
  LET b == p[1] IN
  /\ arrived' = arrived \cup {p}
  /\ received' = IF Pending(b) THEN [received EXCEPT ![b] = @ \cup {p[2]}] ELSE received
  /\ blocks' = IF Pending(b) THEN [blocks EXCEPT ![b] = BlockAnswer(b, Given(b, p[2]))]
               ELSE blocks

AllDone(bs) == \A b \in BlockIds(Config) : bs[b] # None
Result(bs) == IF AllDone(bs) THEN Join(Config, bs) ELSE None

\* decode
Decode(p) ==
  /\ Dispatch(p)
  /\ answer' = Result(blocks')

\* add_new_packet
AddNewPacket(p) ==
  /\ Dispatch(p)
  /\ answer' = Unit

\* get_result
GetResult ==
  /\ answer' = Result(blocks)
  /\ UNCHANGED <<received, blocks, arrived>>

Next == GetResult \/ \E p \in Packets : Decode(p) \/ AddNewPacket(p)

Spec == Init /\ [][Next]_vars

-----------------------------------------------------------------------------
\* Every field keeps its type: blocks are whole, the answer has the length of
\* the object.
TypeInv ==
  /\ DOMAIN received = BlockIds(Config)
  /\ \A b \in BlockIds(Config) : received[b] \subseteq Ids(b)
  /\ DOMAIN blocks = BlockIds(Config)
  /\ \A b \in BlockIds(Config) :
       blocks[b] # None =>
         blocks[b] \in [1 .. SymbolsOf(Config, b) * Config.symbol_size -> Nat]
  /\ answer \notin {None, Unit} => answer \in [1 .. Config.transfer_length -> Nat]
  /\ arrived \subseteq Packets

IdsOf(packets, b) == {p[2] : p \in {q \in packets : q[1] = b}}

\* A block is done exactly when the packets that ever arrived for it suffice:
\* that a done block's later packets are dropped, and that its decoder is not
\* asked again, loses nothing.  A block without symbols still waits for a packet.
BlockDoneWhenSufficient ==
  \A b \in BlockIds(Config) :
    blocks[b] # None <=>
      IdsOf(arrived, b) # {} /\ Sufficient(SymbolsOf(Config, b), IdsOf(arrived, b))

-----------------------------------------------------------------------------
Enough(packets) ==
  \A b \in BlockIds(Config) :
    IdsOf(packets, b) # {} /\ Sufficient(SymbolsOf(Config, b), IdsOf(packets, b))

Delivery == INSTANCE ObjectDelivery WITH object <- Object

\* Decoder implements ObjectDelivery: whichever of decode, add_new_packet and
\* get_result the caller uses, in whatever order, the answer is the object as
\* soon as what has arrived suffices, and None before.
ImplementsDelivery == Delivery!Spec
=============================================================================
