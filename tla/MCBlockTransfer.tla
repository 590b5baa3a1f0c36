-------------------------- MODULE MCBlockTransfer --------------------------
(***************************************************************************)
(* A code small enough for TLC with the structure of RaptorQ: three source *)
(* symbols, one padding symbol, one LDPC row, one HDPC row, and up to four *)
(* repair symbols.  Symbols are bits, and intermediate symbols the set of  *)
(* columns that hold 1.  Of the sets of K received symbols, 15 determine   *)
(* the block and 19 do not; of the larger ones, 18 can be solved without   *)
(* the HDPC row, 23 with it only, and 8 not at all.                        *)
(***************************************************************************)
EXTENDS BlockTransfer

Columns == 0 .. 5
ToyIntermediates == {c : c \in SUBSET Columns}

ColumnsOf(row) ==
  CASE row = <<"ldpc", 0>> -> {0, 1, 4}
    [] row = <<"hdpc", 0>> -> {0, 3, 4, 5}
    [] row = <<"isi", 0>> -> {1, 3, 4, 5}
    [] row = <<"isi", 1>> -> {0, 1, 3, 4, 5}
    [] row = <<"isi", 2>> -> {0, 2}
    [] row = <<"isi", 3>> -> {0, 2, 3, 4}
    [] row = <<"isi", 4>> -> {0, 2, 4}
    [] row = <<"isi", 5>> -> {3, 5}
    [] row = <<"isi", 6>> -> {0, 5}
    [] row = <<"isi", 7>> -> {0, 1, 2, 5}

ToyEval(row, c) == Cardinality(ColumnsOf(row) \cap c) % 2

\* The decoder alone, given any packets in each call, the same one twice too.
\* MaxBatch bounds a call.
MaxBatch == 2
DecoderNext ==
  /\ \E len \in 0 .. MaxBatch : \E batch \in [1 .. len -> Packets] : Decode(batch)
  /\ UNCHANGED channel
DecoderSpec == TransferInit /\ [][DecoderNext]_transferVars

\* The transfer of one block: what a step does depends on the ids received only.
MCInit == TransferInit /\ block = [i \in SourceIds |-> (i + 1) % 2]
MCSpec == MCInit /\ [][TransferNext]_transferVars /\ Fairness
=============================================================================
