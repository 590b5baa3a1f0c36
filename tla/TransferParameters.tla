------------------------- MODULE TransferParameters -------------------------
(***************************************************************************)
(* How the parameters of a transfer are chosen (generate_encoding_parameters*)
(* of base.rs), sent and read.  The number of source blocks is settled     *)
(* first, for the smallest sub-symbols there are; then sub-blocks are      *)
(* added one at a time until a block fits the receiver's memory.  The      *)
(* header and the packet ids then travel as bytes.                         *)
(*                                                                         *)
(* ObjectLayout computes with the parameters on both sides.                *)
(***************************************************************************)
EXTENDS ObjectLayout, FiniteSets

CONSTANTS
  Table,            \* rows [k_prime, s, h] of the systematic parameters, by k_prime
  MaxIntermediate,  \* MAX_SUPPORTED_INTERMEDIATE_SYMBOLS
  U32,              \* 2^32, or less: the width of a quotient of the memory
  Inputs,           \* transfer_length, max_packet_size, memory: the arguments
  Configs,          \* parameters that a caller chooses itself
  MaxLength,        \* the longest object, 942574504275, or less
  Blocks,           \* block numbers to send
  Symbols,          \* encoding symbol ids to send
  None

TableAssumption ==
  /\ Table # <<>>
  /\ \A i, j \in DOMAIN Table : i < j => Table[i].k_prime < Table[j].k_prime
  /\ Table[1].k_prime + Table[1].s + Table[1].h <= MaxIntermediate

VARIABLES
  input,       \* the arguments of the choice, or None when the caller chooses
  phase,       \* "start" or "given", "searching", "chosen", "sent", or how it panicked
  n,           \* the number of sub-blocks tried last
  config,      \* the parameters chosen, or None
  packet,      \* the id of the packet sent last, or None
  wire,        \* the bytes sent last
  received     \* what the receiver reads in them

vars == <<input, phase, n, config, packet, wire, received>>

Init ==
  /\ \/ input \in Inputs /\ phase = "start"
     \/ input = None /\ phase = "given"
  /\ n = 0
  /\ config = None /\ packet = None
  /\ wire = <<>> /\ received = None

-----------------------------------------------------------------------------
\* The rows a solver can handle: those before the first that is too wide.
supported_systematic_parameter_count ==
  LET wide == {i \in DOMAIN Table : Table[i].k_prime + Table[i].s + Table[i].h > MaxIntermediate}
  IN  IF wide = {} THEN Len(Table) ELSE Min(wide) - 1
SupportedKPrimes == {Table[i].k_prime : i \in 1 .. supported_systematic_parameter_count}

\* extended_source_block_symbols, over the whole table
Extend(symbols) == Min({Table[i].k_prime : i \in {j \in DOMAIN Table : Table[j].k_prime >= symbols}})

alignment == IF input.max_packet_size >= 64 THEN 8 ELSE 1
sub_symbol_size == alignment
symbol_size == input.max_packet_size - (input.max_packet_size % alignment)
total_symbols == int_div_ceil(input.transfer_length, symbol_size)
n_max == symbol_size \div (sub_symbol_size * alignment)

\* Faulty variant: sub-symbols are rounded down.
SubSymbolBytesDown(m) == alignment * (symbol_size \div (alignment * m))
\* The largest sub-symbol when a symbol is cut into m.
SubSymbolBytes(m) == alignment * int_div_ceil(symbol_size, alignment * m)

\* The supported block sizes that fit the memory with m sub-blocks; kl(m) is
\* the largest, and without any the code says that this is unreachable.
Fitting(m) ==
  LET places == (input.memory \div SubSymbolBytes(m)) % U32
  IN  {k \in SupportedKPrimes : k <= places}
kl(m) == Max(Fitting(m))

num_source_blocks == int_div_ceil(total_symbols, kl(n_max))

-----------------------------------------------------------------------------
Stop(how) == phase' = how /\ UNCHANGED <<input, n, config, packet, wire, received>>

\* assert!(max_packet_size >= alignment)
PacketTooSmall ==
  /\ phase = "start" /\ input.max_packet_size < alignment
  /\ Stop("assertion")

NoRow ==
  /\ phase = "start" /\ input.max_packet_size >= alignment
  /\ Fitting(n_max) = {}
  /\ Stop("unreachable")

Proceeds == phase = "start" /\ input.max_packet_size >= alignment /\ Fitting(n_max) # {}

BlockLimit == 255

TooManyBlocks ==
  /\ Proceeds /\ num_source_blocks > BlockLimit
  /\ Stop("assertion")

\* An object of no bytes has no blocks, and the search divides by their number.
NoBlocks ==
  /\ Proceeds /\ num_source_blocks = 0
  /\ Stop("assertion")

BeginSearch ==
  /\ Proceeds /\ num_source_blocks \in 1 .. BlockLimit
  /\ phase' = "searching" /\ n' = 1
  /\ UNCHANGED <<input, config, packet, wire, received>>

SearchFails ==
  /\ phase = "searching" /\ Fitting(n) = {}
  /\ Stop("unreachable")

\* Faulty variant: the symbols of a block are rounded down.
BlockSymbolsDown == total_symbols \div num_source_blocks
BlockSymbols == int_div_ceil(total_symbols, num_source_blocks)

TryNext ==
  /\ phase = "searching" /\ Fitting(n) # {}
  /\ BlockSymbols > kl(n) /\ n < n_max
  /\ n' = n + 1
  /\ UNCHANGED <<input, phase, config, packet, wire, received>>

ChosenBlocks == num_source_blocks % 256

Choose ==
  /\ phase = "searching" /\ Fitting(n) # {}
  /\ BlockSymbols <= kl(n) \/ n = n_max
  /\ phase' = "chosen"
  /\ config' = [transfer_length |-> input.transfer_length, symbol_size |-> symbol_size,
                source_blocks |-> ChosenBlocks, sub_blocks |-> n % 65536,
                symbol_alignment |-> alignment]
  /\ UNCHANGED <<input, n, packet, wire, received>>

\* ObjectTransmissionInformation::new
Accepts(c) ==
  /\ c.transfer_length <= MaxLength
  /\ c.symbol_alignment # 0 /\ c.symbol_size % c.symbol_alignment = 0
  /\ c.symbol_size # 0 /\ c.source_blocks # 0 =>
       int_div_ceil(int_div_ceil(c.transfer_length, c.symbol_size), c.source_blocks)
         <= Table[Len(Table)].k_prime

New ==
  /\ phase = "given"
  /\ \E c \in Configs :
       IF Accepts(c) THEN config' = c /\ phase' = "chosen"
       ELSE config' = None /\ phase' = "assertion"
  /\ UNCHANGED <<input, n, packet, wire, received>>

-----------------------------------------------------------------------------
\* Byte i of a number, counted from the last.
Byte(v, i) == (v \div 256 ^ i) % 256
Word(bytes) == FoldLeft(LAMBDA v, byte : v * 256 + byte, 0, bytes)

\* The first of a length's five bytes is reached by two divisions: 256^4 is not one
\* of TLC's integers, and neither are lengths from 2^31 on.
serialize(c) ==
  <<Byte(c.transfer_length \div 256, 3), Byte(c.transfer_length, 3),
    Byte(c.transfer_length, 2), Byte(c.transfer_length, 1), Byte(c.transfer_length, 0), 0, Byte(c.symbol_size, 1), Byte(c.symbol_size, 0),
    c.source_blocks, Byte(c.sub_blocks, 1), Byte(c.sub_blocks, 0), c.symbol_alignment>>

deserialize(data) ==
  [transfer_length |-> Word(SubSeq(data, 1, 5)), symbol_size |-> Word(SubSeq(data, 7, 8)),
   source_blocks |-> data[9], sub_blocks |-> Word(SubSeq(data, 10, 11)),
   symbol_alignment |-> data[12]]

serialize_id(id) ==
  <<id.block, Byte(id.symbol, 2), Byte(id.symbol, 1), Byte(id.symbol, 0)>>
deserialize_id(data) == [block |-> data[1], symbol |-> Word(SubSeq(data, 2, 4))]

Announce ==
  /\ phase = "chosen"
  /\ phase' = "sent"
  /\ wire' = serialize(config)
  /\ received' = deserialize(wire')
  /\ UNCHANGED <<input, n, config, packet>>

\* PayloadId::new asserts that a symbol id has 24 bits.
SendPacket ==
  /\ phase = "sent"
  /\ \E b \in Blocks, e \in Symbols :
       /\ b < config.source_blocks /\ e < 16777216
       /\ packet' = [block |-> b, symbol |-> e]
       /\ wire' = serialize_id(packet')
       /\ received' = deserialize_id(wire')
  /\ UNCHANGED <<input, phase, n, config>>

Next ==
  \/ PacketTooSmall \/ NoRow \/ TooManyBlocks \/ NoBlocks \/ BeginSearch
  \/ SearchFails \/ TryNext \/ Choose \/ New
  \/ Announce \/ SendPacket

Spec == Init /\ [][Next]_vars

-----------------------------------------------------------------------------
\* The parameters are of the search, not of the caller.
Chosen == n > 0 /\ config # None

TypeInv ==
  /\ input \in Inputs \cup {None}
  /\ phase \in {"start", "given", "searching", "chosen", "sent", "assertion", "unreachable"}
  /\ n \in 0 .. 65535
  /\ Chosen => config.source_blocks \in 1 .. 255 /\ config.sub_blocks \in 1 .. 65535
  /\ \A i \in DOMAIN wire : wire[i] \in 0 .. 255

\* A block as the encoder and the decoder cut it, extended as the solver
\* extends it, can be solved, and its largest sub-block fits the memory, with
\* no more sub-blocks than that takes.
ChosenFits ==
  Chosen =>
    LET k == Extend(SymbolsOf(config, 0))
    IN  /\ k \in SupportedKPrimes
        /\ k * SubBytes(config, 0) <= input.memory
        /\ config.sub_blocks > 1 => BlockSymbols > kl(config.sub_blocks - 1)

\* What was chosen could have been given: ObjectTransmissionInformation::new
\* accepts it.  Every block has symbols and begins
\* within the object, and every sub-symbol has bytes.
NothingEmpty ==
  Chosen =>
    /\ Accepts(config)
    /\ SymbolsOf(config, config.source_blocks - 1) > 0
    /\ BlockStart(config)[config.source_blocks - 1] < config.transfer_length
    /\ SubBytes(config, config.sub_blocks - 1) > 0

\* The receiver reads what was sent, the header and every packet id.
ReadAsSent ==
  received # None => received = IF packet = None THEN config ELSE packet

\* With the default memory a row fits whatever the packet size, for every
\* number of sub-blocks that the search may try on its way.
DefaultsSuffice ==
  input # None /\ input.memory = 10485760 => phase # "unreachable"

\* generate_encoding_parameters says, by unreachable!, that some row always fits
\* the memory.
RowAlwaysFits == phase # "unreachable"
=============================================================================
