------------------------ MODULE ObjectDecoderProofs ------------------------
(***************************************************************************)
(* ObjectDecoder gives out the object exactly when every block's packets   *)
(* suffice, for any valid configuration, any object and any monotone       *)
(* notion of sufficient packets.                                           *)
(*                                                                         *)
(* What a block decoder was given and what arrived for it drift apart once *)
(* its block is done.  The invariant says when they must not: while the    *)
(* block is pending.  That the blocks, unpacked and joined, are the object *)
(* is a theorem about the encoder's layout (LayoutUndone of                *)
(* ObjectEncoderProofs).                                                   *)
(***************************************************************************)
EXTENDS ObjectDecoder, TLAPS

\* A pending block's decoder has all that arrived.
PendingHasAll ==
  \A b \in BlockIds(Config) : Pending(b) => received[b] = IdsOf(arrived, b)

\* A block that is done is the one sent.
BlocksDecoded ==
  \A b \in BlockIds(Config) : blocks[b] \in {None, DecodedBlock(b)}

Typed ==
  /\ received \in [BlockIds(Config) -> SUBSET Int]
  /\ DOMAIN blocks = BlockIds(Config)
  /\ blocks = [b \in BlockIds(Config) |-> blocks[b]]
  /\ \A b \in BlockIds(Config) : received[b] \subseteq Ids(b)
  /\ arrived \subseteq Packets
  /\ answer \in {None, Unit, Object}

IInv == Typed /\ PendingHasAll /\ BlocksDecoded /\ BlockDoneWhenSufficient

-----------------------------------------------------------------------------
(* The sender: an encoder of the same configuration and object, of which only *)
(* the layout matters here.                                                   *)
Encoder == INSTANCE ObjectEncoderProofs
  WITH Lengths <- {}, SymbolSizes <- {}, BlockCounts <- {}, SubBlockCounts <- {},
       Alignments <- {}, config <- Config, object <- Object, blocks <- <<>>,
       cached_plan <- None, panicked <- FALSE

\* The encoder cuts blocks and symbols as the decoder takes them to be cut.
LEMMA SameLayout ==
  /\ Encoder!ValidConfig(Config) <=> ValidConfig(Config)
  /\ Encoder!BlockIds(Config) = BlockIds(Config)
  /\ \A b : Encoder!SymbolsOf(Config, b) = SymbolsOf(Config, b)
<1>1. Encoder!ValidConfig(Config) <=> ValidConfig(Config)
  BY DEF ValidConfig, ConfigFields, Encoder!ValidConfig, Encoder!ConfigFields
<1>2. Encoder!BlockIds(Config) = BlockIds(Config)
  BY DEF BlockIds, Encoder!BlockIds
<1>3. \A b : Encoder!SymbolsOf(Config, b) = SymbolsOf(Config, b)
  BY DEF SymbolsOf, partition, kt, int_div_ceil,
         Encoder!SymbolsOf, Encoder!partition, Encoder!kt, Encoder!int_div_ceil
<1> QED
  BY <1>1, <1>2, <1>3

\* What a block decoder returns is what the encoder's layout, undone, gives.
LEMMA SameBlocks ==
  ASSUME NEW b
  PROVE  Encoder!Undone(Config, Object, b) = DecodedBlock(b)
  BY DEF DecodedBlock, Unpack, UnpackSubBlocks, CreateSymbols, CreateSymbol, SubBlockAt, Place,
         SubStart, SubBytes, BlockOf, BlockStart, At, SymbolsOf, partition, kt, int_div_ceil,
         Encoder!Undone, Encoder!Unpack, Encoder!UnpackSubBlocks, Encoder!CreateSymbols,
         Encoder!CreateSymbol, Encoder!SubBlockAt, Encoder!Place, Encoder!SubStart,
         Encoder!SubBytes, Encoder!BlockOf, Encoder!BlockStart, Encoder!At, Encoder!SymbolsOf,
         Encoder!partition, Encoder!kt, Encoder!int_div_ceil

\* Blocks are joined alike.
LEMMA SameJoin ==
  ASSUME NEW bs
  PROVE  Encoder!Join(Config, bs) = Join(Config, bs)
  BY DEF Join, FlattenSeq, Encoder!Join, Encoder!FlattenSeq

\* The blocks that the block decoders return have their bytes, and are the object
\* when joined.
LEMMA LayoutHolds ==
  /\ Join(Config, [b \in BlockIds(Config) |-> DecodedBlock(b)]) = Object
  /\ \A b \in BlockIds(Config) :
       DecodedBlock(b) \in [1 .. SymbolsOf(Config, b) * Config.symbol_size -> Nat]
<1> DEFINE U == [m \in Encoder!BlockIds(Config) |-> Encoder!Undone(Config, Object, m)]
<1>1. Encoder!ValidConfig(Config) /\ Object \in Seq(Nat) /\ Len(Object) = Config.transfer_length
  BY ConfigAssumption, ObjectAssumption, SameLayout
<1>2. U = [b \in BlockIds(Config) |-> DecodedBlock(b)]
  BY SameLayout, SameBlocks
<1>3. Encoder!Join(Config, U) = Object
  BY <1>1, Encoder!LayoutUndone
<1>4. Join(Config, U) = Object
  BY <1>3, SameJoin
<1>5. \A b \in BlockIds(Config) :
        DecodedBlock(b) \in [1 .. SymbolsOf(Config, b) * Config.symbol_size -> Nat]
  BY <1>1, Encoder!BlockUndone, SameLayout, SameBlocks
<1> QED
  BY <1>2, <1>4, <1>5

-----------------------------------------------------------------------------
LEMMA PacketParts ==
  ASSUME NEW p \in Packets
  PROVE  p[1] \in BlockIds(Config) /\ p[2] \in Ids(p[1]) /\ p = <<p[1], p[2]>>
  BY DEF Packets

LEMMA IdsAreInts ==
  ASSUME NEW b \in BlockIds(Config)
  PROVE  Ids(b) \subseteq Int
  BY DEF Ids

LEMMA IdsArrived ==
  ASSUME NEW packets \in SUBSET Packets, NEW b \in BlockIds(Config)
  PROVE  IdsOf(packets, b) \subseteq Ids(b)
  BY PacketParts DEF IdsOf

\* One more packet is one more symbol id of its block, and none of another's.
LEMMA IdsAdded ==
  ASSUME NEW packets \in SUBSET Packets, NEW p \in Packets, NEW b \in BlockIds(Config)
  PROVE  IdsOf(packets \cup {p}, b) =
           IF p[1] = b THEN IdsOf(packets, b) \cup {p[2]} ELSE IdsOf(packets, b)
  BY DEF IdsOf

\* More packets never make a block undecodable.
LEMMA SufficientStays ==
  ASSUME NEW b \in BlockIds(Config), NEW ids \in SUBSET Ids(b), NEW more \in SUBSET Ids(b),
         ids \subseteq more, Sufficient(SymbolsOf(Config, b), ids)
  PROVE  Sufficient(SymbolsOf(Config, b), more)
  BY SufficientAssumption

LEMMA InitIInv == Init => IInv
<1> SUFFICES ASSUME Init PROVE IInv
  OBVIOUS
<1>1. Typed
  BY DEF Init, Typed
<1>2. \A b \in BlockIds(Config) : IdsOf(arrived, b) = {}
  BY DEF Init, IdsOf
<1>3. PendingHasAll /\ BlocksDecoded /\ BlockDoneWhenSufficient
  BY <1>2 DEF Init, PendingHasAll, BlocksDecoded, BlockDoneWhenSufficient
<1> QED
  BY <1>1, <1>3 DEF IInv

-----------------------------------------------------------------------------
\* A packet leaves every block done exactly if what arrived for it suffices.
LEMMA DispatchStep ==
  ASSUME IInv, NEW p \in Packets, Dispatch(p)
  PROVE  /\ received' \in [BlockIds(Config) -> SUBSET Int]
         /\ DOMAIN blocks' = BlockIds(Config)
         /\ blocks' = [b \in BlockIds(Config) |-> blocks'[b]]
         /\ \A b \in BlockIds(Config) : received'[b] \subseteq Ids(b)
         /\ arrived' = arrived \cup {p} /\ arrived' \subseteq Packets
         /\ PendingHasAll' /\ BlocksDecoded' /\ BlockDoneWhenSufficient'
<1> DEFINE d == p[1]
<1>p. d \in BlockIds(Config) /\ p[2] \in Ids(d)
  BY PacketParts
<1>t. Typed /\ PendingHasAll /\ BlocksDecoded /\ BlockDoneWhenSufficient
  BY DEF IInv
<1>1. arrived' = arrived \cup {p} /\ arrived' \subseteq Packets /\ arrived \subseteq Packets
  BY <1>t DEF Dispatch, Typed
<1>2. \A b \in BlockIds(Config) :
        IdsOf(arrived', b) = IF d = b THEN IdsOf(arrived, b) \cup {p[2]} ELSE IdsOf(arrived, b)
  BY <1>1, IdsAdded
<1>3. \A b \in BlockIds(Config) : IdsOf(arrived, b) \subseteq Ids(b) /\ IdsOf(arrived', b) \subseteq Ids(b)
  BY <1>1, IdsArrived
<1>4. CASE Pending(d)
  <2>1. /\ received' = [received EXCEPT ![d] = @ \cup {p[2]}]
        /\ blocks' = [blocks EXCEPT ![d] = BlockAnswer(d, Given(d, p[2]))]
    BY <1>4 DEF Dispatch
  <2>2. Given(d, p[2]) = IdsOf(arrived', d) /\ received[d] = IdsOf(arrived, d)
    BY <1>2, <1>4, <1>p, <1>t DEF Given, PendingHasAll
  <2>3. /\ received' \in [BlockIds(Config) -> SUBSET Int]
        /\ \A b \in BlockIds(Config) : received'[b] \subseteq Ids(b)
        /\ \A b \in BlockIds(Config) : b # d => received'[b] = received[b]
        /\ received'[d] = received[d] \cup {p[2]}
    BY <2>1, <1>p, <1>t, IdsAreInts DEF Typed
  <2>4. /\ DOMAIN blocks' = BlockIds(Config)
        /\ blocks' = [b \in BlockIds(Config) |-> blocks'[b]]
        /\ \A b \in BlockIds(Config) : b # d => blocks'[b] = blocks[b]
        /\ blocks'[d] = BlockAnswer(d, IdsOf(arrived', d))
    BY <2>1, <2>2, <1>p, <1>t DEF Typed
  <2>5. PendingHasAll'
    BY <2>2, <2>3, <2>4, <1>2, <1>p, <1>t DEF PendingHasAll, Pending
  <2>6. BlocksDecoded'
    BY <2>4, <1>p, <1>t DEF BlocksDecoded, BlockAnswer
  <2>7. ASSUME NEW b \in BlockIds(Config)
        PROVE  blocks'[b] # None <=>
                 IdsOf(arrived', b) # {} /\ Sufficient(SymbolsOf(Config, b), IdsOf(arrived', b))
    <3>1. CASE b = d
      <4>1. IdsOf(arrived', d) # {}
        BY <1>2, <1>p
      <4> QED
        BY <3>1, <4>1, <2>4, <1>p, NoneAssumption DEF BlockAnswer
    <3>2. CASE b # d
      <4>1. IdsOf(arrived', b) = IdsOf(arrived, b) /\ blocks'[b] = blocks[b]
        BY <3>2, <1>2, <2>4
      <4> QED
        BY <4>1, <1>t DEF BlockDoneWhenSufficient
    <3> QED
      BY <3>1, <3>2
  <2>8. BlockDoneWhenSufficient'
    BY <2>7 DEF BlockDoneWhenSufficient
  <2> QED
    BY <1>1, <2>3, <2>4, <2>5, <2>6, <2>8
<1>5. CASE ~Pending(d)
  <2>1. received' = received /\ blocks' = blocks
    BY <1>5 DEF Dispatch
  <2>2. ASSUME NEW b \in BlockIds(Config)
        PROVE  /\ blocks'[b] # None <=>
                    IdsOf(arrived', b) # {} /\ Sufficient(SymbolsOf(Config, b), IdsOf(arrived', b))
               /\ blocks'[b] = None => received'[b] = IdsOf(arrived', b)
    <3>1. CASE b = d
      <4>1. IdsOf(arrived, b) # {} /\ Sufficient(SymbolsOf(Config, b), IdsOf(arrived, b))
        BY <3>1, <1>5, <1>t DEF BlockDoneWhenSufficient, Pending
      <4>2. IdsOf(arrived, b) \subseteq IdsOf(arrived', b)
        BY <3>1, <1>2
      <4>3. Sufficient(SymbolsOf(Config, b), IdsOf(arrived', b))
        BY <4>1, <4>2, <1>3, SufficientStays
      <4> QED
        BY <3>1, <4>1, <4>2, <4>3, <2>1, <1>5 DEF Pending
    <3>2. CASE b # d
      <4>1. IdsOf(arrived', b) = IdsOf(arrived, b)
        BY <3>2, <1>2
      <4> QED
        BY <4>1, <2>1, <1>t DEF BlockDoneWhenSufficient, PendingHasAll, Pending
    <3> QED
      BY <3>1, <3>2
  <2>3. PendingHasAll' /\ BlocksDecoded' /\ BlockDoneWhenSufficient'
    BY <2>1, <2>2, <1>t DEF PendingHasAll, Pending, BlocksDecoded, BlockDoneWhenSufficient
  <2> QED
    BY <1>1, <2>1, <2>3, <1>t DEF Typed
<1> QED
  BY <1>4, <1>5

\* Blocks that are done exactly when packets suffice for them join to the object
\* once all are, which is when the packets are enough.
LEMMA ResultIsObject ==
  ASSUME NEW bs, NEW packets, bs = [b \in BlockIds(Config) |-> bs[b]],
         \A b \in BlockIds(Config) : bs[b] \in {None, DecodedBlock(b)},
         \A b \in BlockIds(Config) :
           bs[b] # None <=>
             IdsOf(packets, b) # {} /\ Sufficient(SymbolsOf(Config, b), IdsOf(packets, b))
  PROVE  Result(bs) = IF Enough(packets) THEN Object ELSE None
<1>1. AllDone(bs) <=> Enough(packets)
  BY DEF AllDone, Enough
<1>2. ASSUME AllDone(bs) PROVE Join(Config, bs) = Object
  <2>1. \A b \in BlockIds(Config) : bs[b] = DecodedBlock(b)
    BY <1>2 DEF AllDone
  <2>2. bs = [b \in BlockIds(Config) |-> DecodedBlock(b)]
    BY <2>1
  <2> QED
    BY <2>2, LayoutHolds
<1> QED
  BY <1>1, <1>2 DEF Result

LEMMA NextIInv == IInv /\ [Next]_vars => IInv'
<1> SUFFICES ASSUME IInv, [Next]_vars PROVE IInv'
  OBVIOUS
<1>1. ASSUME NEW p \in Packets, Decode(p) PROVE IInv'
  <2>1. Dispatch(p) /\ answer' = Result(blocks')
    BY <1>1 DEF Decode
  <2>2. Result(blocks') = IF Enough(arrived') THEN Object ELSE None
    BY <2>1, DispatchStep, ResultIsObject DEF BlocksDecoded, BlockDoneWhenSufficient
  <2> QED
    BY <2>1, <2>2, DispatchStep DEF IInv, Typed
<1>2. ASSUME NEW p \in Packets, AddNewPacket(p) PROVE IInv'
  BY <1>2, DispatchStep DEF AddNewPacket, IInv, Typed
<1>3. CASE GetResult
  <2>1. Result(blocks) \in {Object, None}
    BY ResultIsObject DEF IInv, Typed, BlocksDecoded, BlockDoneWhenSufficient
  <2> QED
    BY <1>3, <2>1 DEF GetResult, IInv, Typed, PendingHasAll, Pending, BlocksDecoded,
                      BlockDoneWhenSufficient
<1>4. CASE UNCHANGED vars
  BY <1>4 DEF vars, IInv, Typed, PendingHasAll, Pending, BlocksDecoded, BlockDoneWhenSufficient
<1> QED
  BY <1>1, <1>2, <1>3, <1>4 DEF Next

LEMMA SpecIInv == Spec => []IInv
  BY InitIInv, NextIInv, PTL DEF Spec

-----------------------------------------------------------------------------
\* The blocks have their bytes and the answer its length, for any configuration.
THEOREM TypeCorrect == Spec => []TypeInv
<1>1. IInv => TypeInv
  <2> SUFFICES ASSUME IInv PROVE TypeInv
    OBVIOUS
  <2>1. ASSUME NEW b \in BlockIds(Config), blocks[b] # None
        PROVE  blocks[b] \in [1 .. SymbolsOf(Config, b) * Config.symbol_size -> Nat]
    BY <2>1, LayoutHolds DEF IInv, BlocksDecoded
  <2>2. Object \in [1 .. Config.transfer_length -> Nat]
    BY ObjectAssumption
  <2> QED
    BY <2>1, <2>2 DEF IInv, Typed, TypeInv
<1> QED
  BY <1>1, SpecIInv, PTL

\* A block is done exactly when what ever arrived for it suffices.
THEOREM BlocksCorrect == Spec => []BlockDoneWhenSufficient
<1>1. IInv => BlockDoneWhenSufficient
  BY DEF IInv
<1> QED
  BY <1>1, SpecIInv, PTL

\* Decoder implements ObjectDelivery.
THEOREM DeliveryImplemented == Spec => ImplementsDelivery
<1>1. Init => Delivery!Init
  BY DEF Init, Delivery!Init
<1>2. IInv /\ [Next]_vars => [Delivery!Next]_(Delivery!vars)
  <2> SUFFICES ASSUME IInv, [Next]_vars PROVE [Delivery!Next]_(Delivery!vars)
    OBVIOUS
  <2>1. ASSUME NEW p \in Packets, Decode(p) PROVE Delivery!Exchange(p)
    <3>1. Dispatch(p) /\ answer' = Result(blocks')
      BY <2>1 DEF Decode
    <3>2. Result(blocks') = IF Enough(arrived') THEN Object ELSE None
      BY <3>1, DispatchStep, ResultIsObject DEF BlocksDecoded, BlockDoneWhenSufficient
    <3> QED
      BY <3>1, <3>2, DispatchStep DEF Delivery!Exchange, Delivery!Answer
  <2>2. ASSUME NEW p \in Packets, AddNewPacket(p) PROVE Delivery!Arrive(p)
    BY <2>2, DispatchStep DEF AddNewPacket, Delivery!Arrive
  <2>3. ASSUME GetResult PROVE Delivery!Ask
    <3>1. Result(blocks) = IF Enough(arrived) THEN Object ELSE None
      BY ResultIsObject DEF IInv, Typed, BlocksDecoded, BlockDoneWhenSufficient
    <3> QED
      BY <2>3, <3>1 DEF GetResult, Delivery!Ask, Delivery!Answer
  <2>4. CASE UNCHANGED vars
    BY <2>4 DEF vars, Delivery!vars
  <2> QED
    BY <2>1, <2>2, <2>3, <2>4 DEF Next, Delivery!Next
<1> QED
  BY <1>1, <1>2, SpecIInv, PTL DEF Spec, ImplementsDelivery, Delivery!Spec
=============================================================================
