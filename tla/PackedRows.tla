------------------------------ MODULE PackedRows ------------------------------
(***************************************************************************)
(* Binary rows packed into words, for elimination: packed from the bytes   *)
(* of a dense matrix, whose rows may start inside a byte, or from lists of *)
(* columns; added to one another from a column on; and read word by word.  *)
(* A word or a byte is the set of its bits that are one.                   *)
(***************************************************************************)
EXTENDS Integers, Sequences, FiniteSets, FiniteSetsExt, SequencesExt
CONSTANTS Height, Widths,
          ByteBits,       \* bits of a byte
          BytesPerWord
PackingAssumption ==
  Height \in Nat \ {0} /\ Widths \subseteq Nat \ {0} /\ ByteBits \in Nat \ {0} /\ BytesPerWord \in Nat \ {0}

Row == 0 .. Height - 1
WordBits == ByteBits * BytesPerWord
Bit == 0 .. WordBits - 1
NoColumn == -1

VARIABLES width,
          words,      \* by row, from word 0
          entries,    \* by row, the columns that should be ones: for the properties
          reported    \* by row, what the last call on it answered: a first
                      \* column, the weight from there on and the first one
vars == <<width, words, entries, reported>>

div_ceil(n, d) == (n + d - 1) \div d
words_per_row == div_ceil(width, WordBits)
From(columns, start) == {c \in columns : c >= start}
MinOrNone(S) == IF S = {} THEN NoColumn ELSE Min(S)

Init ==
  /\ width \in Widths
  /\ words = [r \in Row |-> <<>>]
  /\ entries = [r \in Row |-> {}]
  /\ reported = [r \in Row |-> <<>>]

Unpacked == \A r \in Row : words[r] = <<>>

-----------------------------------------------------------------------------
(***************************************************************************)
(* Reading.                                                                *)
(***************************************************************************)
\* The words of a row from a column on, lower bits of the first masked out.
Masked(row, start) ==
  [w \in start \div WordBits .. words_per_row - 1 |->
     IF w = start \div WordBits THEN row[w] \ (0 .. (start % WordBits) - 1) ELSE row[w]]

first_one_at_or_after(row, start) ==
  IF start >= width THEN NoColumn
  ELSE LET masked == Masked(row, start)
           first == MinOrNone({w \in DOMAIN masked : masked[w] # {}})
           col == IF first = NoColumn THEN width ELSE first * WordBits + Min(masked[first])
       IN IF col < width THEN col ELSE NoColumn

weight_at_or_after(row, start) ==
  IF start >= width THEN 0
  ELSE LET masked == Masked(row, start)
       IN MapThenSumSet(LAMBDA w : Cardinality(masked[w]), DOMAIN masked)

\* In ascending order, to the end of the row.
visit_ones_at_or_after(row, start) ==
  IF start >= width THEN <<>>
  ELSE LET masked == Masked(row, start)
           cols == UNION {{w * WordBits + bit : bit \in masked[w]} : w \in DOMAIN masked}
       IN SetToSortSeq({c \in cols : c < width}, LAMBDA c, d : c < d)

\* The weight and the first one from a column on, as a pass over words has them.
State(row, start) ==
  <<start, weight_at_or_after(row, start), first_one_at_or_after(row, start)>>

-----------------------------------------------------------------------------
(***************************************************************************)
(* Packing.  data: the positions of ones in the bits of a dense matrix.    *)
(***************************************************************************)
\* Faulty variant: as if eight bytes always held the bits.
read_le_bits_one_window(data, start_bit, valid_bits) ==
  LET byte_start == start_bit \div ByteBits
      bit_offset == start_bit % ByteBits
      bits == {k \in Bit : byte_start * ByteBits + k \in data}
  IN {k - bit_offset : k \in bits \ (0 .. bit_offset - 1)} \cap (0 .. valid_bits - 1)

\* The bits are read as a word, shifted, and filled up from one byte more.
read_le_bits(data, start_bit, valid_bits) ==
  LET byte_start == start_bit \div ByteBits
      bit_offset == start_bit % ByteBits
      byte_len == div_ceil(bit_offset + valid_bits, ByteBits)
      bits == {k \in 0 .. Min({byte_len, BytesPerWord}) * ByteBits - 1 :
                 byte_start * ByteBits + k \in data}
      shifted == {k - bit_offset : k \in bits \ (0 .. bit_offset - 1)}
      next_byte == {k \in 0 .. ByteBits - 1 : (byte_start + BytesPerWord) * ByteBits + k \in data}
      filled == IF bit_offset # 0 /\ byte_len > BytesPerWord
                THEN shifted \cup {k + WordBits - bit_offset : k \in next_byte} ELSE shifted
  IN filled \cap (0 .. valid_bits - 1)

set_row_from_bit_slice(data, start_bit) ==
  [w \in 0 .. words_per_row - 1 |->
     read_le_bits(data, start_bit + w * WordBits, Min({width - w * WordBits, WordBits}))]

\* Rows of whole bytes: words of full chunks, and of the bytes that are left.
set_row_from_le_bytes(data, start_byte) ==
  LET len == width \div ByteBits
  IN [w \in 0 .. words_per_row - 1 |->
        {k \in Bit :
           /\ w * BytesPerWord + (k \div ByteBits) < len
           /\ (start_byte + w * BytesPerWord) * ByteBits + k \in data}]

PackDense(data) ==
  /\ Unpacked
  /\ words' = [r \in Row |->
       IF width % ByteBits = 0 THEN set_row_from_le_bytes(data, r * (width \div ByteBits))
       ELSE set_row_from_bit_slice(data, r * width)]
  /\ entries' = [r \in Row |-> {c \in 0 .. width - 1 : r * width + c \in data}]
  /\ reported' = [r \in Row |-> State(words'[r], 0)]
  /\ UNCHANGED width

\* The column that is first is kept while a list in any order is run through.
fill_sparse_entry_row(columns) ==
  LET first == FoldSet(LAMBDA c, least : IF c < least THEN c ELSE least, width, columns)
  IN IF first # width THEN first ELSE NoColumn

PackSparse(columns) ==
  /\ Unpacked
  /\ words' = [r \in Row |-> [w \in 0 .. words_per_row - 1 |->
                 {c % WordBits : c \in {d \in columns[r] : d \div WordBits = w}}]]
  /\ entries' = columns
  /\ reported' = [r \in Row |-> <<0, Cardinality(columns[r]), fill_sparse_entry_row(columns[r])>>]
  /\ UNCHANGED width

-----------------------------------------------------------------------------
(***************************************************************************)
(* Adding.                                                                 *)
(***************************************************************************)
\* Faulty variant: the first word is added whole.
AddedWhole(dest, src, start) ==
  [w \in DOMAIN dest |-> IF w < start \div WordBits THEN dest[w] ELSE SymDiff(dest[w], src[w])]

\* Words from the column's on, the first without its lower bits.
Added(dest, src, start) ==
  [w \in DOMAIN dest |->
     IF w < start \div WordBits THEN dest[w] ELSE SymDiff(dest[w], Masked(src, start)[w])]

Addable(dest, src, start) ==
  ~Unpacked /\ dest # src /\ start \in entries[dest]

\* xor_suffix, and a search for the next one after the column.
xor_suffix(dest, src, start) ==
  /\ Addable(dest, src, start)
  /\ words' = [words EXCEPT ![dest] = Added(@, words[src], start)]
  /\ entries' = [entries EXCEPT ![dest] = SymDiff(@, From(entries[src], start))]
  /\ reported' = [reported EXCEPT ![dest] = State(words'[dest], start + 1)]
  /\ UNCHANGED width

\* Added and counted at once, looking for the first one until it is found.
xor_suffix_count_ones_and_first_one(dest, src, start) ==
  /\ Addable(dest, src, start)
  /\ words' = [words EXCEPT ![dest] = Added(@, words[src], start)]
  /\ entries' = [entries EXCEPT ![dest] = SymDiff(@, From(entries[src], start))]
  /\ reported' = [reported EXCEPT ![dest] = State(words'[dest], start)]
  /\ UNCHANGED width

WeightAfter(row, cols, weight) ==
  weight + Cardinality({c \in cols : c % WordBits \notin row[c \div WordBits]})
         - Cardinality({c \in cols : c % WordBits \in row[c \div WordBits]})

\* Columns of another row, one by one, and the weight taken on from before.
xor_u16_columns_update_weight_and_first_one(dest, src, start) ==
  /\ Addable(dest, src, start) /\ start \in entries[src]
  /\ LET cols == ToSet(visit_ones_at_or_after(words[src], start))
         weight == WeightAfter(words[dest], cols, weight_at_or_after(words[dest], start))
     IN /\ words' = [words EXCEPT ![dest] =
             [w \in DOMAIN @ |-> SymDiff(@[w], {c % WordBits : c \in {d \in cols : d \div WordBits = w}})]]
        /\ reported' = [reported EXCEPT ![dest] =
             <<start, weight, IF weight = 0 THEN NoColumn ELSE first_one_at_or_after(words'[dest], start)>>]
  /\ entries' = [entries EXCEPT ![dest] = SymDiff(@, From(entries[src], start))]
  /\ UNCHANGED width

Next ==
  \/ /\ Unpacked
     /\ \/ \E data \in SUBSET (0 .. Height * width - 1) : PackDense(data)
        \/ \E columns \in [Row -> SUBSET (0 .. width - 1)] : PackSparse(columns)
  \/ \E dest, src \in Row, start \in 0 .. width - 1 :
       \/ xor_suffix(dest, src, start)
       \/ xor_suffix_count_ones_and_first_one(dest, src, start)
       \/ xor_u16_columns_update_weight_and_first_one(dest, src, start)

Spec == Init /\ [][Next]_vars

-----------------------------------------------------------------------------
TypeInv ==
  /\ width \in Widths
  /\ \A r \in Row : entries[r] \subseteq 0 .. width - 1
  /\ ~Unpacked => /\ words \in [Row -> [0 .. words_per_row - 1 -> SUBSET Bit]]
                  /\ reported \in [Row -> (0 .. width) \X (0 .. width) \X (-1 .. width - 1)]

\* The words hold just the ones they should: dense rows that start inside a
\* byte and end inside a word are packed without bits of their neighbours,
\* nothing is left past the last column, and adding from a column on leaves
\* the columns before it (gf2.rs 696-765, 836-860, 124-157).
WordsHoldEntries ==
  ~Unpacked =>
    \A r \in Row, w \in 0 .. words_per_row - 1 :
      words[r][w] = {c - w * WordBits : c \in {d \in entries[r] : d \div WordBits = w}}

\* What a call answered about a row, to be used when the row is filed, is true
\* of the row until it is added to again, whichever of the ways to add and to
\* count was taken (gf2.rs 376-475, 535-567, 871-915).
ReportIsTrue ==
  ~Unpacked =>
    \A r \in Row :
      LET start == reported[r][1]
      IN reported[r] = <<start, Cardinality(From(entries[r], start)), MinOrNone(From(entries[r], start))>>

\* Ones are visited in order, all of them and no other (gf2.rs 641-671).
VisitsInOrder ==
  ~Unpacked =>
    \A r \in Row, start \in 0 .. width :
      visit_ones_at_or_after(words[r], start) =
        SetToSortSeq(From(entries[r], start), LAMBDA c, d : c < d)
=============================================================================
