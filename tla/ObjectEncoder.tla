--------------------------- MODULE ObjectEncoder ---------------------------
(***************************************************************************)
(* Encoder::new of encoder.rs: the loop that cuts an object into blocks    *)
(* and makes an encoder of each, generating a plan for a number of symbols *)
(* only when the block before had another number.                          *)
(***************************************************************************)
EXTENDS ObjectLayout, FiniteSets

CONSTANTS
  Lengths, SymbolSizes, BlockCounts, SubBlockCounts, Alignments,  \* of a configuration
  None

\* The ObjectTransmissionInformation values considered.
Configs ==
  {c \in [transfer_length : Lengths, symbol_size : SymbolSizes, source_blocks : BlockCounts,
          sub_blocks : SubBlockCounts, symbol_alignment : Alignments] : ValidConfig(c)}

VARIABLES
  config,
  object,        \* data
  blocks,        \* the block encoders made: their symbols and the plan used
  cached_plan,   \* the symbol count of the cached plan, or None
  panicked       \* the loop has panicked

vars == <<config, object, blocks, cached_plan, panicked>>

\* Bytes that are all different show every misplaced byte, and none is like
\* the padding.
Object(c) == [i \in 1 .. c.transfer_length |-> i]

Init ==
  /\ config \in Configs
  /\ object = Object(config)
  /\ blocks = <<>>
  /\ cached_plan = None
  /\ panicked = FALSE

b == Len(blocks)      \* the block that the loop is at
Running == ~panicked /\ b < config.source_blocks

start == BlockStart(config)[b]
symbol_count == Len(BlockOf(config, object, b)) \div config.symbol_size

\* Faulty variant: the plan of the first block serves for all.
ReusablePlanAny == cached_plan # None
ReusablePlan == cached_plan # None /\ cached_plan = symbol_count

PlanUsed == IF ReusablePlan THEN cached_plan ELSE symbol_count

\* &data[start..] of a block that starts past the end of the object.
SliceOutOfRange == start > Len(object)

EncodeBlock ==
  /\ Running
  /\ ~SliceOutOfRange
  /\ cached_plan' = PlanUsed
  /\ blocks' = Append(blocks,
       [symbols |-> CreateSymbols(config, symbol_count, BlockOf(config, object, b)),
        plan |-> PlanUsed])
  /\ UNCHANGED <<config, object, panicked>>

Panic ==
  /\ Running
  /\ SliceOutOfRange
  /\ panicked' = TRUE
  /\ UNCHANGED <<config, object, blocks, cached_plan>>

Next == EncodeBlock \/ Panic

Spec == Init /\ [][Next]_vars

-----------------------------------------------------------------------------
\* Every field keeps its type: symbols are symbol_size bytes long.
TypeInv ==
  /\ config \in Configs
  /\ object \in Seq(Nat)
  /\ \A n \in DOMAIN blocks :
       /\ blocks[n].plan \in Nat
       /\ \A i \in DOMAIN blocks[n].symbols :
            blocks[n].symbols[i] \in [1 .. config.symbol_size -> Nat]
  /\ cached_plan \in Nat \cup {None}
  /\ panicked \in BOOLEAN

\* The plan handed from one block to the next fits every block it is used for,
\* also where the long blocks end and the short ones begin:
\* with_encoding_plan asserts it.
PlanFitsBlock ==
  \A n \in DOMAIN blocks : blocks[n].plan = Cardinality(DOMAIN blocks[n].symbols)

\* What the decoder does with symbols, to undo what the encoder does with
\* bytes: the symbols of all blocks, unpacked, joined and truncated, are the
\* object, whatever the uneven blocks, uneven sub-blocks and padding.
ObjectReassembles ==
  Len(blocks) = config.source_blocks =>
    Join(config, [n \in BlockIds(config) |->
                    Unpack(config, SymbolsOf(config, n), blocks[n + 1].symbols)]) = object

\* "If a block extends past the end of the object, it must be zero padded": no
\* block that extends past the end makes the loop panic instead.
EveryBlockPadded == ~panicked
=============================================================================
