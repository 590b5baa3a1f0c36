----------------------------- MODULE EncodedRows -----------------------------
(***************************************************************************)
(* The encoded rows of a constraint matrix, for the ISIs of the symbols    *)
(* that were received.  The numbers that a row is drawn from are taken on  *)
(* from those of the row before when its ISI is the next one, and made     *)
(* anew otherwise; and the matrix is marked if its rows are those of a     *)
(* block without loss, or of one lost symbol with one repair symbol.       *)
(***************************************************************************)
EXTENDS Integers, Sequences, SequencesExt
CONSTANTS KPrime,      \* symbols of the block
          RowOffset,   \* rows before the encoded ones
          Base,        \* values of a byte: a word has four of them
          A, B         \* the parameters of the tuple, A odd
RowsAssumption ==
  KPrime \in Nat \ {0} /\ RowOffset \in Nat /\ Base \in Nat \ {0, 1} /\ A % 2 = 1 /\ B \in Nat

Word == Base * Base * Base * Base
Isi == 0 .. Word - 1
NotYet == -1

VARIABLES encoded_isis,   \* the ISIs so far
          y, isi_rand     \* what the last row is drawn from
vars == <<encoded_isis, y, isi_rand>>

-----------------------------------------------------------------------------
\* tuple_params.y
NewY(isi) == (B + isi * A) % Word

\* SequentialRfcRand: the bytes of the ISI, the lowest first.
NewRand(isi) ==
  <<isi % Base, (isi \div Base) % Base, (isi \div (Base * Base)) % Base,
    isi \div (Base * Base * Base)>>

\* Faulty variant: a carry stops after the second byte.
AdvanceTwoBytes(bytes) ==
  [j \in 1 .. 4 |->
     IF j = 1 \/ (j = 2 /\ bytes[1] = Base - 1) THEN (bytes[j] + 1) % Base ELSE bytes[j]]

\* A byte moves on when all lower ones have come round to zero.
advance(bytes) ==
  [j \in 1 .. 4 |->
     IF \A k \in 1 .. j - 1 : bytes[k] = Base - 1 THEN (bytes[j] + 1) % Base ELSE bytes[j]]

Init == encoded_isis = <<>> /\ y = NotYet /\ isi_rand = <<>>

\* The last ISI is followed by zero, as a word is.
FollowsPrevious(isi) ==
  encoded_isis # <<>> /\ isi = (encoded_isis[Len(encoded_isis)] + 1) % Word

FillEncodedRow(isi) ==
  /\ Len(encoded_isis) < KPrime
  /\ encoded_isis' = Append(encoded_isis, isi)
  /\ IF FollowsPrevious(isi)
     THEN y' = (y + A) % Word /\ isi_rand' = advance(isi_rand)
     ELSE y' = NewY(isi) /\ isi_rand' = NewRand(isi)

Filled == Len(encoded_isis) = KPrime /\ UNCHANGED vars
Next == (\E isi \in Isi : FillEncodedRow(isi)) \/ Filled
Spec == Init /\ [][Next]_vars

-----------------------------------------------------------------------------
(***************************************************************************)
(* What the matrix is marked with.                                         *)
(***************************************************************************)
encoded_isis_are_systematic ==
  Len(encoded_isis) = KPrime /\ \A j \in 1 .. KPrime : encoded_isis[j] = j - 1

Pass(scan, isi) ==
  CASE isi = scan.expected -> [scan EXCEPT !.expected = @ + 1]
    [] scan.missing = NotYet /\ isi = scan.expected + 1 /\ isi < KPrime ->
         [scan EXCEPT !.missing = scan.expected, !.expected = @ + 2]
    [] OTHER -> [scan EXCEPT !.fits = FALSE]

LastMissing(scan) ==
  IF scan.missing = NotYet
  THEN [scan EXCEPT !.missing = scan.expected, !.expected = @ + 1] ELSE scan

\* Systematic ISIs upwards, one left out, and a repair ISI at the end.
contiguous_single_repair_systematic_rows ==
  LET start == [expected |-> 0, missing |-> NotYet, fits |-> TRUE]
      last == LastMissing(FoldLeft(Pass, start, Front(encoded_isis)))
      repair == encoded_isis[Len(encoded_isis)]
  IN IF Len(encoded_isis) = KPrime /\ repair >= KPrime /\ last.fits /\ last.expected = KPrime
     THEN <<last.missing, RowOffset + KPrime - 1, repair>> ELSE <<>>

\* The matrix rows that hold a source symbol, by row.
mark_encoded_systematic_isis ==
  [row \in 0 .. RowOffset + Len(encoded_isis) - 1 |->
     IF row >= RowOffset /\ encoded_isis[row - RowOffset + 1] < KPrime
     THEN encoded_isis[row - RowOffset + 1] ELSE NotYet]

-----------------------------------------------------------------------------
TypeInv ==
  /\ encoded_isis \in Seq(Isi) /\ Len(encoded_isis) <= KPrime
  /\ encoded_isis # <<>> => y \in Isi /\ isi_rand \in [1 .. 4 -> 0 .. Base - 1]

\* Numbers taken on from row to row, over any carry and round the end of a
\* word, are those made anew: a symbol's row does not depend on which symbols
\* were received before it (constraint_matrix.rs 148-175; rng.rs 72-123).
RowDependsOnIsiOnly ==
  encoded_isis # <<>> =>
    LET isi == encoded_isis[Len(encoded_isis)]
    IN y = NewY(isi) /\ isi_rand = NewRand(isi)

\* Source symbols that are there, if the mark says so, and the order they are in.
WithoutOne(missing) == [j \in 1 .. KPrime - 1 |-> IF j - 1 < missing THEN j - 1 ELSE j]

\* The mark that lets a solver take all symbols but one for source symbols is
\* set for exactly the rows it is for: in order, one missing, first, last or
\* between, and a repair symbol at the end, whose row it names; and the rows
\* that are marked as source rows are then all others
\* (constraint_matrix.rs 82-117; sparse_matrix.rs 108-122).
SingleRepairMarkIsRight ==
  Len(encoded_isis) = KPrime =>
    LET mark == contiguous_single_repair_systematic_rows
        repair == encoded_isis[KPrime]
        fits == {m \in 0 .. KPrime - 1 : Front(encoded_isis) = WithoutOne(m) /\ repair >= KPrime}
    IN /\ (mark = <<>>) = (fits = {})
       /\ \A m \in fits : mark = <<m, RowOffset + KPrime - 1, repair>>
       /\ mark # <<>> =>
            /\ ~encoded_isis_are_systematic
            /\ mark_encoded_systematic_isis[mark[2]] = NotYet
            /\ Range(mark_encoded_systematic_isis) \ {NotYet} = (0 .. KPrime - 1) \ {mark[1]}
=============================================================================
