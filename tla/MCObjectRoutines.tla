--------------------------- MODULE MCObjectRoutines --------------------------
(***************************************************************************)
(* From packets to the object: the object's decoder, which is the module   *)
(* that is extended, the parameters of an object, the rows made for its    *)
(* symbols, the matrices of bits that keep rows, plans that are made once  *)
(* and replayed, and the solve in two stages.  They share no state, so a   *)
(* behaviour is of one of them.                                            *)
(***************************************************************************)
EXTENDS ObjectDecoder

CONSTANTS
  PlanSources, PlanLdpc, PlanHdpc, CloneFree,               \* Plans
  TwoStageShapes

\* Seven bytes in symbols of two bytes: four symbols in three blocks of two,
\* one and one, the last byte padding; two sub-blocks.  Three of the blocks'
\* symbols suffice for the large block, unless they are the right two.
MCConfig == [transfer_length |-> 7, symbol_size |-> 2, source_blocks |-> 3,
             sub_blocks |-> 2, symbol_alignment |-> 1]
MCObject == [i \in 1 .. 7 |-> i]
MCSufficient(k, ids) == 0 .. k - 1 \subseteq ids \/ Cardinality(ids) > k

\* Rows K', J, S, H and W of the table of systematic_constants.rs, and each
\* limit of the degree table, from both sides.
ParameterRows ==
  <<<<10, 254, 7, 10, 17>>, <<12, 630, 7, 10, 19>>, <<18, 682, 11, 10, 29>>,
    <<20, 293, 11, 10, 31>>, <<26, 80, 11, 10, 37>>, <<101, 562, 17, 10, 113>>,
    <<213, 396, 23, 10, 223>>>>
DegreeLimits == {0, 5242, 5243, 529530, 529531, 704293, 704294, 791675, 983913, 983914, 1048575}

\* Rows of the same table, sparse in the middle, with the last supported and the
\* first unsupported one.  Objects of one byte up to more than the 255 largest
\* blocks; packets on both sides of each multiple that matters; memories from
\* none that fits to the default.  Given parameters go to the limits of the
\* fields, but for the length.
TableRow(k, s, h) == [k_prime |-> k, s |-> s, h |-> h]
WholeTable == <<TableRow(10, 7, 10), TableRow(12, 7, 10), TableRow(18, 11, 10), TableRow(20, 11, 10), TableRow(55, 13, 10),
             TableRow(119, 19, 10), TableRow(491, 37, 10), TableRow(1020, 59, 10), TableRow(1954, 83, 11),
             TableRow(1979, 83, 11), TableRow(56403, 907, 16)>>
Lengths == {0, 1, 2, 10, 11, 127, 128, 129, 5000, 65535, 500000}
PacketSizes == {0, 1, 2, 7, 63, 64, 65, 127, 128, 136, 200, 1024, 65535}
Memories == {9, 10, 639, 640, 1280, 5000, 30000, 10485760}
ObjectInputs == [transfer_length : Lengths, max_packet_size : PacketSizes, memory : Memories]
GivenConfigs ==
  [transfer_length : {0, 16909060, 2000000000}, symbol_size : {0, 8, 65535},
   source_blocks : {0, 1, 2, 255}, sub_blocks : {0, 1, 256, 65535}, symbol_alignment : {0, 1, 8}]

Three(p, q, r) == [j \in 0 .. 2 |-> <<p, q, r>>[j + 1]]
Four(p, q, r, s) == [j \in 0 .. 3 |-> <<p, q, r, s>>[j + 1]]

\* Square systems of three and four columns with one and two HDPC rows, and
\* systems with a row too many and a row too few.
ThreeWide == {Three(1, 2, 3), Three(2, 0, 1), Three(1, 1, 0), Three(0, 3, 1), Three(0, 0, 0)}
FourWide == {Four(1, 2, 3, 1), Four(2, 0, 1, 0), Four(1, 1, 0, 3)}
MCTwoStageShapes ==
  { [n |-> 3, s |-> 1, h |-> 1, bh |-> 2, hdpc |-> ThreeWide],
    [n |-> 4, s |-> 1, h |-> 2, bh |-> 2, hdpc |-> FourWide],
    [n |-> 3, s |-> 1, h |-> 1, bh |-> 3, hdpc |-> ThreeWide],
    [n |-> 3, s |-> 0, h |-> 1, bh |-> 1, hdpc |-> ThreeWide] }

VARIABLES
  subject,   \* which of them runs
  encoded_isis, y, isi_rand, symbols, rows, next, tuple, width, words, entries,
  reported, kind, rows_normalized, strayed, bits, input, phase, n, config, packet, wire,
  matrix, binary_rows, col, pivot_for_col, forward_steps, shape, hdpc, forward,
  updates, decoded

MCvars == <<subject, encoded_isis, y, isi_rand, symbols, rows, next, tuple, width,
          words, entries, reported, kind, rows_normalized, strayed, bits, input, phase,
          n, config, packet, wire, matrix, binary_rows, col, pivot_for_col,
          forward_steps, shape, hdpc, forward, updates, decoded, received,
          blocks, answer, arrived>>

Encoded == INSTANCE EncodedRows WITH
  KPrime <- 4, RowOffset <- 3, Base <- 2, A <- 5, B <- 3
Constraint == INSTANCE ConstraintRows WITH
  Parameters <- ParameterRows, LdpcSymbols <- {1, 11, 12, 13, 20, 26, 101, 102},
  EncodedSymbols <- {10, 18}, DegreeValues <- DegreeLimits
Packed == INSTANCE PackedRows WITH
  Height <- 2, Widths <- {2, 3, 5}, ByteBits <- 2, BytesPerWord <- 2
Binary == INSTANCE BinaryMatrices WITH
  Height <- 2, Width <- 3, ByteBits <- 2
Parameters == INSTANCE TransferParameters WITH
  Table <- WholeTable, MaxIntermediate <- 2048, U32 <- 16777216,
  Inputs <- ObjectInputs, Configs <- GivenConfigs, MaxLength <- 1999999999,
  Blocks <- {0, 1, 254}, Symbols <- {0, 255, 256, 65536, 16777215}
Plans == INSTANCE SystematicPlan WITH
  N <- PlanSources, S <- PlanLdpc, H <- PlanHdpc
TwoStages == INSTANCE BinaryHdpcSolve WITH
  Shapes <- TwoStageShapes

ASSUME SystemsAssumption ==
  /\ Encoded!RowsAssumption
  /\ Constraint!ParametersAssumption
  /\ Packed!PackingAssumption
  /\ Binary!MatrixAssumption
  /\ Parameters!TableAssumption
  /\ Plans!PlanAssumption
  /\ TwoStages!ShapesAssumption

\* A variable that two of them declare is one variable here; what the one that
\* runs does not use is idle.
Idle == "idle"
MCInit ==
  \/ /\ subject = "Encoded" /\ Encoded!Init
     /\ symbols = Idle /\ rows = Idle /\ next = Idle /\ tuple = Idle
     /\ width = Idle /\ words = Idle /\ entries = Idle /\ reported = Idle
     /\ kind = Idle /\ rows_normalized = Idle
     /\ strayed = Idle /\ bits = Idle /\ input = Idle
     /\ phase = Idle /\ n = Idle /\ config = Idle /\ packet = Idle
     /\ wire = Idle /\ matrix = Idle /\ binary_rows = Idle /\ col = Idle
     /\ pivot_for_col = Idle /\ forward_steps = Idle /\ shape = Idle
     /\ hdpc = Idle /\ forward = Idle /\ updates = Idle /\ decoded = Idle
     /\ received = [b \in BlockIds(Config) |-> {}]
     /\ blocks = [b \in BlockIds(Config) |-> None]
     /\ answer = None
     /\ arrived = {}
  \/ /\ subject = "Constraint" /\ Constraint!Init
     /\ encoded_isis = Idle /\ y = Idle /\ isi_rand = Idle /\ width = Idle
     /\ words = Idle /\ entries = Idle /\ reported = Idle /\ kind = Idle
     /\ rows_normalized = Idle
     /\ strayed = Idle /\ bits = Idle /\ input = Idle /\ phase = Idle
     /\ n = Idle /\ config = Idle /\ packet = Idle /\ wire = Idle
     /\ matrix = Idle /\ binary_rows = Idle /\ col = Idle
     /\ pivot_for_col = Idle /\ forward_steps = Idle /\ shape = Idle
     /\ hdpc = Idle /\ forward = Idle /\ updates = Idle /\ decoded = Idle
     /\ received = [b \in BlockIds(Config) |-> {}]
     /\ blocks = [b \in BlockIds(Config) |-> None]
     /\ answer = None
     /\ arrived = {}
  \/ /\ subject = "Packed" /\ Packed!Init
     /\ encoded_isis = Idle /\ y = Idle /\ isi_rand = Idle /\ symbols = Idle
     /\ rows = Idle /\ next = Idle /\ tuple = Idle /\ kind = Idle
     /\ rows_normalized = Idle
     /\ strayed = Idle /\ bits = Idle /\ input = Idle /\ phase = Idle
     /\ n = Idle /\ config = Idle /\ packet = Idle /\ wire = Idle
     /\ matrix = Idle /\ binary_rows = Idle /\ col = Idle
     /\ pivot_for_col = Idle /\ forward_steps = Idle /\ shape = Idle
     /\ hdpc = Idle /\ forward = Idle /\ updates = Idle /\ decoded = Idle
     /\ received = [b \in BlockIds(Config) |-> {}]
     /\ blocks = [b \in BlockIds(Config) |-> None]
     /\ answer = None
     /\ arrived = {}
  \/ /\ subject = "Binary" /\ Binary!Init
     /\ encoded_isis = Idle /\ y = Idle /\ isi_rand = Idle /\ symbols = Idle
     /\ next = Idle /\ tuple = Idle /\ width = Idle /\ words = Idle
     /\ reported = Idle /\ input = Idle /\ phase = Idle /\ n = Idle
     /\ config = Idle /\ packet = Idle /\ wire = Idle /\ matrix = Idle
     /\ binary_rows = Idle /\ col = Idle /\ pivot_for_col = Idle
     /\ forward_steps = Idle /\ shape = Idle /\ hdpc = Idle /\ forward = Idle
     /\ updates = Idle /\ decoded = Idle
     /\ received = [b \in BlockIds(Config) |-> {}]
     /\ blocks = [b \in BlockIds(Config) |-> None]
     /\ answer = None
     /\ arrived = {}
  \/ /\ subject = "Parameters" /\ Parameters!Init
     /\ encoded_isis = Idle /\ y = Idle /\ isi_rand = Idle /\ symbols = Idle
     /\ rows = Idle /\ next = Idle /\ tuple = Idle /\ width = Idle
     /\ words = Idle /\ entries = Idle /\ reported = Idle /\ kind = Idle
     /\ rows_normalized = Idle /\ strayed = Idle /\ bits = Idle /\ matrix = Idle
     /\ binary_rows = Idle /\ col = Idle /\ pivot_for_col = Idle
     /\ forward_steps = Idle /\ shape = Idle /\ hdpc = Idle /\ forward = Idle
     /\ updates = Idle /\ decoded = Idle
     /\ blocks = [b \in BlockIds(Config) |-> None]
     /\ answer = None
     /\ arrived = {}
  \/ /\ subject = "Plans" /\ Plans!Init
     /\ encoded_isis = Idle /\ y = Idle /\ isi_rand = Idle /\ next = Idle
     /\ tuple = Idle /\ width = Idle /\ words = Idle /\ entries = Idle
     /\ reported = Idle /\ kind = Idle /\ rows_normalized = Idle
     /\ strayed = Idle /\ bits = Idle
     /\ input = Idle /\ n = Idle /\ config = Idle /\ packet = Idle
     /\ wire = Idle /\ shape = Idle /\ hdpc = Idle /\ forward = Idle
     /\ updates = Idle /\ decoded = Idle
     /\ received = [b \in BlockIds(Config) |-> {}]
     /\ blocks = [b \in BlockIds(Config) |-> None]
     /\ answer = None
     /\ arrived = {}
  \/ /\ subject = "TwoStages" /\ TwoStages!Init
     /\ encoded_isis = Idle /\ y = Idle /\ isi_rand = Idle /\ next = Idle
     /\ tuple = Idle /\ width = Idle /\ words = Idle /\ entries = Idle
     /\ reported = Idle /\ rows_normalized = Idle
     /\ strayed = Idle /\ bits = Idle /\ input = Idle
     /\ n = Idle /\ config = Idle /\ packet = Idle /\ wire = Idle
     /\ binary_rows = Idle /\ forward_steps = Idle
     /\ blocks = [b \in BlockIds(Config) |-> None]
     /\ answer = None
     /\ arrived = {}
  \/ /\ subject = "Decoder" /\ Init
     /\ encoded_isis = Idle /\ y = Idle /\ isi_rand = Idle /\ symbols = Idle
     /\ rows = Idle /\ next = Idle /\ tuple = Idle /\ width = Idle
     /\ words = Idle /\ entries = Idle /\ reported = Idle /\ kind = Idle
     /\ rows_normalized = Idle
     /\ strayed = Idle /\ bits = Idle /\ input = Idle /\ phase = Idle
     /\ n = Idle /\ config = Idle /\ packet = Idle /\ wire = Idle
     /\ matrix = Idle /\ binary_rows = Idle /\ col = Idle
     /\ pivot_for_col = Idle /\ forward_steps = Idle /\ shape = Idle
     /\ hdpc = Idle /\ forward = Idle /\ updates = Idle /\ decoded = Idle

DecoderStep == subject = "Decoder" /\ Next /\ UNCHANGED <<subject, encoded_isis,
  y, isi_rand, symbols, rows, next, tuple, width, words, entries, reported, kind,
  rows_normalized, strayed, bits, input, phase, n, config, packet, wire, matrix,
  binary_rows, col, pivot_for_col, forward_steps, shape, hdpc, forward, updates,
  decoded>>
EncodedStep == subject = "Encoded" /\ Encoded!Next /\ UNCHANGED <<subject,
  symbols, rows, next, tuple, width, words, entries, reported, kind,
  rows_normalized, strayed, bits, input, phase, n, config, packet, wire, matrix,
  binary_rows, col, pivot_for_col, forward_steps, shape, hdpc, forward, updates,
  decoded, received, blocks, answer, arrived>>
ConstraintStep == subject = "Constraint" /\ Constraint!Next /\ UNCHANGED
  <<subject, encoded_isis, y, isi_rand, width, words, entries, reported, kind,
  rows_normalized, strayed, bits, input, phase, n, config, packet, wire, matrix,
  binary_rows, col, pivot_for_col, forward_steps, shape, hdpc, forward, updates,
  decoded, received, blocks, answer, arrived>>
PackedStep == subject = "Packed" /\ Packed!Next /\ UNCHANGED <<subject,
  encoded_isis, y, isi_rand, symbols, rows, next, tuple, kind, rows_normalized, strayed,
  bits, input, phase, n, config, packet, wire, matrix, binary_rows, col,
  pivot_for_col, forward_steps, shape, hdpc, forward, updates, decoded, received,
  blocks, answer, arrived>>
BinaryStep == subject = "Binary" /\ Binary!Next /\ UNCHANGED <<subject,
  encoded_isis, y, isi_rand, symbols, next, tuple, width, words, reported, input,
  phase, n, config, packet, wire, matrix, binary_rows, col, pivot_for_col,
  forward_steps, shape, hdpc, forward, updates, decoded, received, blocks, answer,
  arrived>>
ParametersStep == subject = "Parameters" /\ Parameters!Next /\ UNCHANGED
  <<subject, encoded_isis, y, isi_rand, symbols, rows, next, tuple, width, words,
  entries, reported, kind, rows_normalized, strayed, bits, matrix, binary_rows, col,
  pivot_for_col, forward_steps, shape, hdpc, forward, updates, decoded, blocks,
  answer, arrived>>
PlansStep == subject = "Plans" /\ Plans!Next /\ UNCHANGED <<subject, encoded_isis,
  y, isi_rand, next, tuple, width, words, entries, reported, kind,
  rows_normalized, strayed, bits, input, n, config, packet, wire, shape, hdpc, forward,
  updates, decoded, received, blocks, answer, arrived>>
TwoStagesStep == subject = "TwoStages" /\ TwoStages!Next /\ UNCHANGED <<subject,
  encoded_isis, y, isi_rand, next, tuple, width, words, entries, reported,
  rows_normalized, strayed, bits, input, n, config, packet, wire, binary_rows,
  forward_steps, blocks, answer, arrived>>
MCNext == DecoderStep \/ EncodedStep \/ ConstraintStep \/ PackedStep \/ BinaryStep \/ ParametersStep \/ PlansStep \/ TwoStagesStep
MCSpec == MCInit /\ [][MCNext]_MCvars

-----------------------------------------------------------------------------
\* The row of a symbol depends on its ISI alone, has the columns of its degree
\* and none twice, and the mark for one lost symbol is on the rows it is for;
\* LDPC rows cover every column and tell the first ones apart
\* (constraint_matrix.rs 82-175, 244-305; rng.rs 72-123).
RowsAreTheirSymbols ==
  /\ subject = "Encoded" =>
       Encoded!TypeInv /\ Encoded!RowDependsOnIsiOnly /\ Encoded!SingleRepairMarkIsRight
  /\ subject = "Constraint" =>
       /\ Constraint!TypeInv /\ Constraint!EncodedRowHasItsColumns /\ Constraint!NoColumnTwice
       /\ Constraint!LdpcColumnsCovered /\ Constraint!LdpcColumnsDiffer

\* Words hold the ones they should and no bits of their neighbours; ones are
\* visited in order, and what a call answered about a row is true until the row
\* is added to again (gf2.rs 376-567, 641-765, 836-915).
PackedRowsHoldOnes ==
  subject = "Packed" =>
    Packed!TypeInv /\ Packed!WordsHoldEntries /\ Packed!VisitsInOrder /\ Packed!ReportIsTrue

\* Whatever sequence of calls made a row, every column is in it once and the
\* dense and the sparse matrices read the same; only a row of a narrow matrix that
\* was changed while out of order may differ, and it alone (sparse_matrix.rs
\* 124-347; matrix.rs 173-293).
MatricesReadAlike ==
  subject = "Binary" =>
    /\ Binary!TypeInv /\ Binary!EntriesOnce
    /\ Binary!NormalizedMeansOrdered /\ Binary!ReadsAreEntries

\* The blocks that are cut by the parameters chosen can be solved and fit the
\* memory, none is empty, the receiver reads what was sent, and the default
\* memory is always enough (base.rs 60-130, 200-262).
ParametersFit ==
  subject = "Parameters" =>
    /\ Parameters!TypeInv /\ Parameters!ReadAsSent /\ Parameters!ChosenFits
    /\ Parameters!NothingEmpty /\ Parameters!DefaultsSuffice

\* A plan is made of every matrix that has an inverse, and replaying it solves
\* that matrix for any symbols, as do the coefficients of a repair symbol taken
\* back through it; no coefficient is lost to a stale binary flag or a bucket
\* left behind (pi_solver.rs 1557-1790, 2619-2850).
PlanReplaySolves ==
  subject = "Plans" =>
    /\ Plans!TypeInv /\ Plans!BinaryFlagsTrue /\ Plans!BucketsBehindEmpty
    /\ Plans!PanicsIfSingular /\ Plans!ReplaySolves /\ Plans!RepairCoefficientsAgree

\* Binary rows first and HDPC rows after: whichever routine solves this way,
\* what was done to the rows was done to the symbols, what is decoded satisfies
\* every row, and only a system without exactly one solution is given up
\* (pi_solver.rs 1937-2548, 6616-7300).
TwoStagesFindTheSolution ==
  subject = "TwoStages" =>
    /\ TwoStages!TypeInv /\ TwoStages!FreeColumnsOnly /\ TwoStages!SymbolsFollowRows
    /\ TwoStages!DecodedSatisfiesRows /\ TwoStages!FailsOnlyUndetermined

\* generate_encoding_parameters says, by unreachable!, that some row always fits
\* the memory (base.rs 224).
RowAlwaysFits == subject = "Parameters" => Parameters!RowAlwaysFits
=============================================================================
