--------------------------- MODULE MCSymbolRoutines --------------------------
(***************************************************************************)
(* What is done to symbols, from solving in one stage down to the vectors  *)
(* of bytes: the operations on rows and symbols that solve a system, the   *)
(* batches of the solver, the operations of a plan, the kernels and the    *)
(* arithmetic of octets.  They share no state, so a behaviour is of one of *)
(* them.                                                                   *)
(***************************************************************************)
EXTENDS Naturals, Sequences

CONSTANTS
  OneStageShapes,
  BatchMaxLen, LdpcRows, HdpcRows, UnitScalar, OtherScalar,              \* Batches
  Symbols, MaxDests, BatchSources, Chunks, FastSlabs,                    \* Ops
  Lane, SliceMaxLen, DestCounts, SourceCounts, StackMax, Coefficients,   \* Kernels
  Factors, Powers, Neighbours, Sources                                   \* Octets

\* Values for model checking.
Two(p, q) == [j \in 0 .. 1 |-> <<p, q>>[j + 1]]
Three(p, q, r) == [j \in 0 .. 2 |-> <<p, q, r>>[j + 1]]

\* Two and three columns, square systems and systems with a row to spare or
\* one too few; rows with entries one, others, and none.
Wide ==
  {Three(1, 1, 0), Three(0, 1, 1), Three(1, 0, 0), Three(2, 3, 1), Three(0, 2, 3),
   Three(3, 0, 1), Three(0, 0, 1)}
MCOneStageShapes ==
  { [n |-> 2, height |-> 2, rows |-> {Two(p, q) : p, q \in 0 .. 3}],
    [n |-> 2, height |-> 3, rows |-> {Two(1, 1), Two(0, 1), Two(2, 3), Two(3, 1), Two(1, 0), Two(0, 0)}],
    [n |-> 3, height |-> 2, rows |-> Wide],
    [n |-> 3, height |-> 3, rows |-> Wide],
    [n |-> 3, height |-> 4, rows |-> Wide \ {Three(1, 0, 0), Three(0, 2, 3), Three(3, 0, 1)}] }

\* Kernels for three and for two destinations.
MCChunks == <<3, 2>>
\* Columns of up to three coefficients in GF(4): a zero before, between and
\* after others, and one row more than there is room for.
MCCoefficients == UNION {[1 .. n -> {0, 1, 2}] : n \in 0 .. 3}
\* Products are sums over the bits of the first factor: each bit alone, none,
\* some, and all of them.
MCFactors == {{i} : i \in 0 .. 7} \cup {{}, {0, 7}, {1, 3, 6}, 0 .. 7}
\* Nothing, bits that are shifted over, bits that are not, and all.
MCNeighbours == {{}, {3}, {0, 2}, {4, 7}, 0 .. 7}
MCSources == {{}, {0, 7}, 0 .. 7}

VARIABLES
  subject,   \* which of them runs
  shape, kind, matrix, received, phase, col, rows, symbols, pivot_for_col, ops,
  decoded, routine, list, widths, done, before, op, index, width, panicked, fast,
  call, len, nonzero, avx2, bytes, offset, touched, seen, verdict, x, y, a, b,
  product, table

vars == <<subject, shape, kind, matrix, received, phase, col, rows, symbols,
          pivot_for_col, ops, decoded, routine, list, widths, done, before, op,
          index, width, panicked, fast, call, len, nonzero, avx2, bytes, offset,
          touched, seen, verdict, x, y, a, b, product, table>>

OneStage == INSTANCE RowElimination WITH
  Shapes <- OneStageShapes
Batches == INSTANCE SymbolBatches WITH
  MaxLen <- BatchMaxLen, S <- LdpcRows, H <- HdpcRows, One <- UnitScalar,
  Alpha <- OtherScalar
Ops == INSTANCE OperationVector
Kernels == INSTANCE ByteKernels WITH
  MaxLen <- SliceMaxLen
Octets == INSTANCE OctetArithmetic

ASSUME RoutinesAssumption ==
  /\ OneStage!ShapesAssumption
  /\ Batches!BatchAssumption
  /\ Ops!VectorAssumption
  /\ Kernels!KernelAssumption
  /\ Octets!FactorsAssumption

\* A variable that two of them declare is one variable here; what the one that
\* runs does not use is idle.
Idle == "idle"
Init ==
  \/ /\ subject = "OneStage" /\ OneStage!Init
     /\ routine = Idle /\ list = Idle /\ widths = Idle /\ done = Idle
     /\ before = Idle /\ op = Idle /\ index = Idle /\ width = Idle
     /\ panicked = Idle /\ fast = Idle /\ call = Idle /\ len = Idle
     /\ nonzero = Idle /\ avx2 = Idle /\ bytes = Idle /\ offset = Idle
     /\ touched = Idle /\ seen = Idle /\ verdict = Idle /\ x = Idle /\ y = Idle
     /\ a = Idle /\ b = Idle /\ product = Idle /\ table = Idle
  \/ /\ subject = "Batches" /\ Batches!Init
     /\ shape = Idle /\ kind = Idle /\ matrix = Idle /\ received = Idle
     /\ phase = Idle /\ col = Idle /\ rows = Idle /\ pivot_for_col = Idle
     /\ ops = Idle /\ decoded = Idle /\ op = Idle /\ index = Idle
     /\ width = Idle /\ panicked = Idle /\ fast = Idle /\ call = Idle
     /\ len = Idle /\ nonzero = Idle /\ avx2 = Idle /\ bytes = Idle
     /\ offset = Idle /\ touched = Idle /\ seen = Idle /\ verdict = Idle
     /\ x = Idle /\ y = Idle /\ a = Idle /\ b = Idle /\ product = Idle
     /\ table = Idle
  \/ /\ subject = "Ops" /\ Ops!Init
     /\ shape = Idle /\ kind = Idle /\ matrix = Idle /\ received = Idle
     /\ phase = Idle /\ col = Idle /\ rows = Idle /\ pivot_for_col = Idle
     /\ ops = Idle /\ decoded = Idle /\ routine = Idle /\ list = Idle
     /\ widths = Idle /\ done = Idle /\ call = Idle /\ len = Idle
     /\ nonzero = Idle /\ avx2 = Idle /\ bytes = Idle /\ offset = Idle
     /\ touched = Idle /\ seen = Idle /\ verdict = Idle /\ x = Idle /\ y = Idle
     /\ a = Idle /\ b = Idle /\ product = Idle /\ table = Idle
  \/ /\ subject = "Kernels" /\ Kernels!Init
     /\ shape = Idle /\ kind = Idle /\ matrix = Idle /\ received = Idle
     /\ col = Idle /\ rows = Idle /\ symbols = Idle /\ pivot_for_col = Idle
     /\ ops = Idle /\ decoded = Idle /\ routine = Idle /\ list = Idle
     /\ widths = Idle /\ done = Idle /\ before = Idle /\ op = Idle
     /\ index = Idle /\ width = Idle /\ panicked = Idle /\ fast = Idle
     /\ x = Idle /\ y = Idle /\ a = Idle /\ b = Idle /\ product = Idle
     /\ table = Idle
  \/ /\ subject = "Octets" /\ Octets!Init
     /\ shape = Idle /\ kind = Idle /\ matrix = Idle /\ received = Idle
     /\ phase = Idle /\ col = Idle /\ rows = Idle /\ symbols = Idle
     /\ pivot_for_col = Idle /\ ops = Idle /\ decoded = Idle /\ list = Idle
     /\ widths = Idle /\ done = Idle /\ before = Idle /\ op = Idle
     /\ index = Idle /\ width = Idle /\ panicked = Idle /\ fast = Idle
     /\ call = Idle /\ len = Idle /\ nonzero = Idle /\ avx2 = Idle
     /\ bytes = Idle /\ offset = Idle /\ touched = Idle /\ seen = Idle
     /\ verdict = Idle

OneStageStep == subject = "OneStage" /\ OneStage!Next /\ UNCHANGED <<subject,
  routine, list, widths, done, before, op, index, width, panicked, fast, call,
  len, nonzero, avx2, bytes, offset, touched, seen, verdict, x, y, a, b, product,
  table>>
BatchesStep == subject = "Batches" /\ Batches!Next /\ UNCHANGED <<subject, shape,
  kind, matrix, received, phase, col, rows, pivot_for_col, ops, decoded, op,
  index, width, panicked, fast, call, len, nonzero, avx2, bytes, offset, touched,
  seen, verdict, x, y, a, b, product, table>>
OpsStep == subject = "Ops" /\ Ops!Next /\ UNCHANGED <<subject, shape, kind,
  matrix, received, phase, col, rows, pivot_for_col, ops, decoded, routine, list,
  widths, done, call, len, nonzero, avx2, bytes, offset, touched, seen, verdict,
  x, y, a, b, product, table>>
KernelsStep == subject = "Kernels" /\ Kernels!Next /\ UNCHANGED <<subject, shape,
  kind, matrix, received, col, rows, symbols, pivot_for_col, ops, decoded,
  routine, list, widths, done, before, op, index, width, panicked, fast, x, y, a,
  b, product, table>>
OctetsStep == subject = "Octets" /\ Octets!Next /\ UNCHANGED <<subject, shape,
  kind, matrix, received, phase, col, rows, symbols, pivot_for_col, ops, decoded,
  list, widths, done, before, op, index, width, panicked, fast, call, len,
  nonzero, avx2, bytes, offset, touched, seen, verdict>>
Next == OneStageStep \/ BatchesStep \/ OpsStep \/ KernelsStep \/ OctetsStep
Spec == Init /\ [][Next]_vars

-----------------------------------------------------------------------------
\* Whichever routine solves in one stage, what was done to the rows was done to
\* the symbols, what is decoded satisfies every row, only a system without
\* exactly one solution is given up, and operations that were recorded on zeros
\* solve for any symbols (pi_solver.rs 8063-8749).
OneStageFindsTheSolution ==
  subject = "OneStage" =>
    /\ OneStage!TypeInv /\ OneStage!SymbolsFollowRows /\ OneStage!PassedColumnsCleared
    /\ OneStage!ReplaySolves /\ OneStage!DecodedSatisfiesRows /\ OneStage!FailsOnlyUndetermined

\* Whatever the widths in which entries are batched, the slab ends as if they
\* had been added one at a time, and none is left over when a routine returns
\* (pi_solver.rs 4250-4800, 5500-5760).
BatchesEqualSingles ==
  subject = "Batches" =>
    Batches!TypeInv /\ Batches!BatchesEqualSingles /\ Batches!NothingLeftOver

\* A batch, through kernels or not, does what its additions do one at a time,
\* and stops for an assertion exactly if it adds a symbol to itself
\* (operation_vector.rs 48-300).
BatchIsAdditions ==
  subject = "Ops" =>
    /\ Ops!TypeInv /\ Ops!StopsOnSourceOnly
    /\ Ops!BatchIsAdditions /\ Ops!AddIsLinear

\* No vector reaches past the end of a slice, and every byte is updated once,
\* with the factor of its own row (octets.rs 44-469, 713-1316).
EachByteOnce ==
  subject = "Kernels" => Kernels!TypeInv /\ Kernels!StaysInside /\ Kernels!EachByteOnce

\* The answer is zero exactly if all bytes are, wherever the one that is not
\* lies (octets.rs 475-563, 1028-1055, 1320-1401).
VerdictIsRight == subject = "Kernels" => Kernels!VerdictIsRight

\* The tables hold products, inverses and powers of the field, alpha generates
\* it, and both octets of a word of a vector are multiplied or doubled whatever
\* is beside them (octet.rs 29-124; octets.rs 1673-1690, 1773-1836).
OctetsFormAField ==
  subject = "Octets" =>
    /\ Octets!TypeInv
    /\ Octets!LoopKeepsProduct /\ Octets!LoopKeepsPower
    /\ Octets!InverseIsInverse /\ Octets!AlphaIsPrimitive
    /\ Octets!BothOctetsMultiplied /\ Octets!BothOctetsDoubled
=============================================================================
