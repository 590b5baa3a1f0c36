---------------------------- MODULE ObjectLayout ----------------------------
(***************************************************************************)
(* How an object is cut into source blocks, sub-blocks and symbols         *)
(* (encoder.rs) and put together again (decoder.rs), byte by byte.  An     *)
(* object, a block and a symbol are sequences of bytes; blocks, symbols,   *)
(* sub-blocks and offsets are counted from 0, as in the code.              *)
(*                                                                         *)
(* A configuration c is an ObjectTransmissionInformation: transfer_length, *)
(* symbol_size, source_blocks, sub_blocks and symbol_alignment.            *)
(*                                                                         *)
(* Definitions headed "Faulty variant" are not used by the specifications: *)
(* each is a mistake that one of the properties must reveal when it stands *)
(* in for the definition after it.                                         *)
(***************************************************************************)
EXTENDS Integers, Sequences, SequencesExt

ConfigFields ==
  {"transfer_length", "symbol_size", "source_blocks", "sub_blocks", "symbol_alignment"}

\* ObjectTransmissionInformation::new asserts that the alignment divides the
\* symbol size; with a size or a number of zero, partition would divide by zero.
ValidConfig(c) ==
  /\ DOMAIN c = ConfigFields /\ c \in [ConfigFields -> Nat]
  /\ c.symbol_size > 0 /\ c.source_blocks > 0 /\ c.sub_blocks > 0 /\ c.symbol_alignment > 0
  /\ c.symbol_size % c.symbol_alignment = 0

\* The code asserts that the quotient has 32 bits, and callers narrow it further;
\* here sizes are natural numbers of any width.
int_div_ceil(n, d) == (n + d - 1) \div d

\* partition(i, j): i = jl * il + js * is.
partition(i, j) ==
  LET jl == i % j IN [il |-> int_div_ceil(i, j), is |-> i \div j, jl |-> jl, js |-> j - jl]

At(s, offset) == s[offset + 1]

-----------------------------------------------------------------------------
(* Source blocks. *)

kt(c) == int_div_ceil(c.transfer_length, c.symbol_size)
BlockIds(c) == 0 .. c.source_blocks - 1

SymbolsOf(c, b) ==
  LET p == partition(kt(c), c.source_blocks) IN IF b < p.jl THEN p.il ELSE p.is

\* calculate_block_offsets: the byte at which block b starts; it ends where
\* the next one starts.
BlockStart(c) ==
  LET start[b \in 0 .. c.source_blocks] ==
        IF b = 0 THEN 0 ELSE start[b - 1] + SymbolsOf(c, b - 1) * c.symbol_size
  IN  start

\* The bytes of block b, zero padded where it extends past the object.
BlockOf(c, object, b) ==
  LET start == BlockStart(c)[b]
  IN  [o \in 1 .. BlockStart(c)[b + 1] - start |->
         IF start + o <= Len(object) THEN object[start + o] ELSE 0]

-----------------------------------------------------------------------------
(* Sub-blocks. *)

SubBytes(c, j) ==
  LET p == partition(c.symbol_size \div c.symbol_alignment, c.sub_blocks)
  IN  (IF j < p.jl THEN p.il ELSE p.is) * c.symbol_alignment

\* The offset of sub-symbol j in a symbol.
SubStart(c) ==
  LET start[j \in 0 .. c.sub_blocks] ==
        IF j = 0 THEN 0 ELSE start[j - 1] + SubBytes(c, j - 1)
  IN  start

\* Where byte o of sub-symbol j of symbol i lies in a block of k symbols.
Place(c, k, j, i, o) == k * SubStart(c)[j] + SubBytes(c, j) * i + o

SubBlockAt(c, offset) ==
  CHOOSE j \in 0 .. c.sub_blocks - 1 :
    SubStart(c)[j] <= offset /\ offset < SubStart(c)[j + 1]

\* SourceBlockEncoder::create_symbols: symbol i of a block of k symbols.
CreateSymbol(c, k, block, i) ==
  [o1 \in 1 .. c.symbol_size |->
     LET j == SubBlockAt(c, o1 - 1)
     IN  IF c.sub_blocks > 1 THEN At(block, Place(c, k, j, i, (o1 - 1) - SubStart(c)[j]))
                             ELSE At(block, i * c.symbol_size + (o1 - 1))]
CreateSymbols(c, k, block) == [i \in 0 .. k - 1 |-> CreateSymbol(c, k, block, i)]

\* Faulty variant: the symbol is written in one piece.
UnpackWhole(c, k, result, symbol, i) ==
  [r \in DOMAIN result |-> IF (r - 1) \div c.symbol_size = i
                           THEN At(symbol, (r - 1) % c.symbol_size) ELSE result[r]]
\* unpack_sub_blocks: symbol i is written to its places in the result.
UnpackSubBlocks(c, k, result, symbol, i) ==
  [r \in DOMAIN result |->
     LET places == {p \in (0 .. c.sub_blocks - 1) \X (0 .. c.symbol_size - 1) :
                      p[2] < SubBytes(c, p[1]) /\ Place(c, k, p[1], i, p[2]) = r - 1}
     IN  IF places = {} THEN result[r]
         ELSE LET p == CHOOSE p \in places : TRUE IN At(symbol, SubStart(c)[p[1]] + p[2])]

\* A block decoder's result: all its symbols unpacked in turn.
Unpack(c, k, symbols) ==
  LET result[i \in 0 .. k] ==
        IF i = 0 THEN [r \in 1 .. k * c.symbol_size |-> 0]
        ELSE UnpackSubBlocks(c, k, result[i - 1], symbols[i - 1], i - 1)
  IN  result[k]

\* The blocks one after the other, truncated to the transfer length.
Join(c, blocks) ==
  LET result == FlattenSeq([n \in 1 .. c.source_blocks |-> blocks[n - 1]])
  IN  IF Len(result) > c.transfer_length THEN SubSeq(result, 1, c.transfer_length) ELSE result
=============================================================================
