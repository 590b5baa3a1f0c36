# RaptorQ in TLA+

A verification project for the Rust library `raptorq`, an implementation of the
fountain code of RFC 6330. An object is cut into source blocks of K symbols; the
encoder sends the symbols themselves and any number of repair symbols; a decoder
that has received enough symbols of a block, whichever they are, recovers it by
solving a system of linear equations.

The modules describe the code under `src/src`. `PROJECT.json` names, for each
definition, the lines it stands for, and for each property a mutation of the
code's logic that breaks it.

## The system

### Components, their state and their operations

| Component | Source | State | Operations | Correct when | Modules |
|---|---|---|---|---|---|
| object encoder | `encoder.rs` `Encoder` | block encoders; during `new`, the plan of the last block | `new`, `get_encoded_packets`, `get_block_encoders` | each block is encoded with a plan of its size; the layout is the one the decoder undoes | `ObjectEncoder`, `ObjectLayout` |
| source block encoder | `encoder.rs` `SourceBlockEncoder` | source and intermediate symbols, fixed once made | `new`, `with_encoding_plan`, `source_packets`, `repair_packets` | its packets satisfy the code's equations | `SourceBlock`, `BlockTransfer` |
| object decoder | `decoder.rs` `Decoder` | one block decoder and one result slot per block | `decode`, `add_new_packet`, `get_result` | it returns the object exactly when every block has enough packets | `ObjectDecoder`, `ObjectDelivery` |
| source block decoder | `decoder.rs` `SourceBlockDecoder` | received ids, source symbols, repair packets, a counter, a flag | `decode` (any number of packets, any number of times) | it returns the block exactly when the received set determines it | `SourceBlockDecoder`, `BlockDelivery` |
| process-wide caches | `pi_solver.rs`, `encoder.rs`, `constraint_matrix.rs` | a map and an insertion queue each, behind a mutex; one entry per thread for direct plans | look up, generate, insert with eviction | to its callers a cache is a function; caches never wait on each other | `PlanCache`, `PlanService`, `NestedCaches` |
| PI solver: plans | `pi_solver.rs` | a plan: recorded row operations, pivots, moves | prepare, replay on a block's symbols, transposed replay of a coefficient | replaying solves what was prepared | `SystematicPlan`, `BinaryHdpcSolve`, `PivotMoves`, `SymbolBatches` |
| PI solver: decode paths | `pi_solver.rs` | rows and symbols of one system; lists of rows by column and weight | eliminate in one stage or in two, substitute back; try a prefix of the rows first; rebuild one lost symbol | the one solution is found if there is exactly one; a shortcut changes no answer | `RowElimination`, `BinaryHdpcSolve`, `PrefixSolve`, `SingleRepair`, `RowBuckets`, `ColumnElimination`, `RowMerges` |
| operation vectors | `operation_vector.rs` | a list of symbol operations | `perform_op`, fused batches | a batch does what its additions do | `OperationVector` |
| constraint matrix, tuples, degrees | `constraint_matrix.rs`, `base.rs`, `rng.rs` | the numbers the last row was drawn from | `generate_constraint_matrix`, `enc_indices`, `intermediate_tuple`, `deg` | a row depends on its symbol alone, also when generated incrementally | `ConstraintRows`, `EncodedRows`, `RowLayout` |
| matrices | `matrix.rs`, `sparse_matrix.rs`, `octet_matrix.rs`, `gf2.rs` | rows of bits or octets; whether they are in order; whether octets are shared | get, set, toggle, append, row addition, clone | all representations read as the same matrix; a clone is a copy | `BinaryMatrices`, `PackedRows`, `SharedMatrix`, `IndependentMatrices` |
| octets and byte kernels | `octet.rs`, `octets.rs` | tables | GF(256) arithmetic; add, scale, compare slices | tables are those of the field; every byte is treated once | `OctetArithmetic`, `ByteKernels`, `SmallField` |
| parameters and formats | `base.rs`, `systematic_constants.rs` | none | `generate_encoding_parameters`, serialisation, table look-up | what is chosen fits; what is sent is read | `TransferParameters`, `ObjectLayout` |

### How they interact

`Encoder::new` cuts the object, generates a plan by running the solver on zero
symbols and replays the plan on the symbols of each block. A packet is a pair of
a block number and an encoding symbol id, with a symbol. The caller carries
packets from the encoder to `Decoder`, which passes each to the decoder of its
block. A block decoder builds the constraint matrix of the rows it has and calls
the solver, first without the dense HDPC rows when it has enough other rows, then
with them. Solver and encoder share plans through process-wide caches: all
values are made once, shared by reference, and evicted first in, first out.

### Which behaviours are hard

* The network loses, repeats and reorders packets. Nothing is sent back.
* `decode` is called again on a decoder that has already failed or succeeded, and
  keeps three records of what it received that must not drift apart.
* A first solving attempt may fail and must leave no trace for the second.
* Objects rarely divide evenly: two sizes of blocks, two sizes of sub-blocks,
  padding symbols that are never sent, and padding bytes.
* Threads meet in the caches between a look-up and an insertion that are separate
  critical sections; generation of one cached value asks for another.
* The solver chooses among many paths by shape and width; all must compute the
  same solution.

There are no crashes to recover from: nothing is persisted, and a decoder lives
and dies with its process.

## The modules

### One block

* `SourceBlock`: the code as data. A constraint row has a name, `Eval(row, c)`
  gives the symbol it yields on intermediate symbols `c`, and an equation pairs a
  row with the symbol that the D vector holds for it. `create_d`,
  `SourcePackets`, `RepairPackets` are the encoder's; `Solve` is what the solver
  promises: the solution when it is the only one, None otherwise. Since `Eval` is
  a parameter, what is proved holds for every matrix and every symbol size. That
  rows are linear is never used.
* `SourceBlockDecoder`: the decoder's variables are the fields of the struct. A
  call of `decode` is one step: `Receive` is its loop over the packets, and the
  four actions `DecodeInsufficient`, `DecodeAllSource`, `DecodeWithoutHdpc` and
  `DecodeWithHdpc` are its cases, in the code's order. `result` holds what the
  call returned. `repair_packets` is a set, since their order decides the order
  of rows only.
* `BlockDelivery`: the abstract promise. After every call the answer depends on
  the set of symbols that have arrived and on nothing else.
* `BlockTransfer`: adds the sender, which draws the source packets and then
  repair packets one by one, and the channel.
* `MCBlockTransfer`: a code small enough for TLC with every ingredient: padding, an LDPC
  row, an HDPC row, sets of K symbols that decode and sets of more that do not,
  sets for which the attempt without HDPC rows succeeds, fails in vain, and is
  not made. `DecoderSpec` is the decoder alone, given any packets in each call;
  `MCSpec` is the transfer of one block.

### The object

* `ObjectLayout`: `partition`, block offsets, padding, sub-block interleaving and
  its inverse, joining and truncating, as operators on byte sequences. Encoder
  and decoder compute these independently in the code, and so they do here:
  `CreateSymbols` reads where `UnpackSubBlocks` writes.
* `ObjectEncoder`: the loop of `Encoder::new`, one step per block, with the plan
  handed on from block to block, and the panic that slicing can cause.
* `ObjectDecoder`: `decode`, `add_new_packet` and `get_result`. Its block decoders
  are used as `BlockDelivery` describes them: an id set and an answer by that
  set. `arrived` is a history variable, the packets brought by any call; the code
  stops recording once a block is done.
* `ObjectDelivery`: the abstract promise of the three calls.

### The caches

* `PlanCache`: threads that call, look into the thread layer, look up, generate,
  and insert. `plans` and `insertion_order` are the fields of a cache, `pc[t]`
  says where thread `t` is, `plan[t]` is its local variable. A plan is known by
  the size it was made for and the thread that made it, so that a wrong plan and
  a second plan are both visible. The caches of systematic, hybrid and direct
  plans, encoding plans, HDPC rows, repair coefficients and single-repair
  coefficients follow this one protocol line by line; the direct cache alone has
  the thread layer and the hybrid cache alone can fail to generate. A critical
  section is one step: the mutex is held over it and nothing is called from it
  that takes another lock.
* `PlanService`: the abstract promise. A call is answered with a plan for what
  was asked, or with None for a size that has none.
* `NestedCaches`: three of the caches composed, the coefficient of a single
  repair above the direct plan above the HDPC rows, with the mutexes taken in one
  step and released in another, so that a call of one cache inside another is
  visible. A thread holds its place as the cache it has got to (`level[t]`) and
  where it is in it (`pc[t]`). A value carries what it was made from, so a plan
  made from the rows of another size is told apart.

### The solver

The solver's routines are modelled over GF(4) (`SmallField`) in the place of
GF(256): elimination uses of its octets that they are a field of characteristic
two with elements other than zero and one. A symbol is a vector over the symbols
that a routine starts from, so that one run stands for the runs on all symbols.

* `SystematicPlan`: the plan of a square system. `eliminate` builds the buckets,
  picks the lightest pivot of a column, merges rows and records forward steps and
  back substitution; `replay` runs what was recorded on symbols; the transposed
  replay takes the coefficients of a repair symbol back to the symbols it is made
  of. The flag that a row holds only ones, and the buckets left behind, are
  variables, since a stale one would choose a wrong merge or lose a row.
* `BinaryHdpcSolve`: binary rows first, the few free columns from the HDPC rows,
  and both substituted back. `kind` says which of the five routines runs: direct,
  slab and in-place plans, and the two that eliminate rows and symbols together.
  Its symbols have one component more for an error in what was received.
* `RowElimination`: the solvers in one stage, six routines that differ in the
  choice of pivots, in swapping rows or leaving them, and in recording.
* `PrefixSolve`: with rows to spare and no HDPC rows among them, as many rows as
  there are columns and a few more are eliminated first, and the rows behind them
  only compared with what they give. `kind` says where the symbols are meanwhile:
  in the slab that was passed in, with the end split off it, or in a copy. A
  column without pivot gives the prefix up: what was added is added once more, in
  the opposite order, the end is put back, and all rows are solved. The copy and
  all rows are solved by `solve_binary`, which `RowElimination` shows to find the
  one solution; `Solution` is that promise.
* `SingleRepair`: one source symbol lost and one repair symbol received. `Recognise`
  takes the rows for what they are, by the mark for one lost symbol, the marks of
  rows, or by comparing columns; the known symbols are taken out of the repair
  symbol, one by one with the coefficients of the transposed plan or all at once by
  encoding a block in which the lost symbol is zero; `Divide` leaves the lost
  symbol. What is returned is not what `Solve` of `SourceBlock` promises: it is
  zero but for one entry, by which the row of the lost symbol, which is not in the
  matrix, sums to that symbol. It suffices because the decoder rebuilds the symbols
  it lacks and no others; that is what the module shows.
* `RowBuckets`: the lists, linked through one array, in which rows wait for their
  column, with weights, masks and cached entries; `ColumnElimination` is what the
  lists are for, and `RowBuckets` is shown to implement it.
* `RowMerges`: four ways to add one sparse row to another in place.
* `PivotMoves`: planning and running the in-place permutation by chains and
  cycles with one scratch symbol, and the inverse on coefficients.
* `RowLayout`: which row of the matrix belongs to which symbol of D.

### Symbols and octets

* `SymbolBatches`: the lists of additions that the solver takes 32, 16, 8, 4, 3, 2
  or 1 at a time. A symbol is a formal sum of slots.
* `OperationVector`: `perform_op` for each `SymbolOps`, with the fused batches and
  the assertions of the slab.
* `ByteKernels`: the loops of `octets.rs` over vectors and bytes: thresholds, four
  vectors at a time, one at a time, the rest; tests for zero; tables of columns.
  Only what one instruction does is external.
* `OctetArithmetic`: the loops that fill the tables of products, inverses and
  powers, and multiplication and doubling in words of two octets, at full width.

### Rows, matrices and parameters

* `ConstraintRows`: `deg`, the tuples and walks, LDPC rows and encoded rows for
  rows of the code's table. What `rand` draws from its tables is any number.
* `EncodedRows`: rows generated incrementally or from scratch, with overflow at
  the width of a word, and the mark on the rows of a block with one repair symbol.
* `BinaryMatrices`: the narrow and the wide sparse matrix and the dense one, with
  every call that changes an entry, in any sequence. In a narrow matrix `set` and
  `toggle` search a row even when `toggle_unique` has left it out of order; what they
  find there is unspecified, and the row has `strayed`. The properties are about
  every other row, and say that a row that strays takes no other with it. In the crate
  itself no row strays: `generate_constraint_matrix` only appends and normalises, and
  the calls that search are left to tests and to the exported matrix types.
* `PackedRows`: bits packed into words from bytes or columns, added, and read.
* `SharedMatrix`: the octet matrix that clones share until one changes;
  `IndependentMatrices` is the promise that this cannot be told from copies.
* `TransferParameters`: `generate_encoding_parameters` with its widths and its
  `unreachable!()`, and the header and packet ids as bytes.

### How they are checked together

The routines of the last three sections share no state with one another: each runs
from its arguments to its result. `MCSymbolRoutines`, `MCEliminationRoutines`,
`MCSystemRoutines` and `MCObjectRoutines` put several of them into one model, in which
`subject` says which one a behaviour is of; the last of them holds the object's decoder
too. A variable that two of them declare under one name is
one variable, and what the running one does not use is `"idle"`. A property of
such a model is the conjunction of the properties of one routine, each of which is
stated and explained in the routine's own module. The bounds of `MCSymbolRoutines`,
`MCEliminationRoutines` and `MCSystemRoutines` are constants, given in their `.cfg`, so
that proofs can be about all of them.

Definitions headed "Faulty variant" belong to no specification. Each is a
mistake that could be made in the definition after it; putting it in that
definition's place breaks the property that `PROJECT.json` pairs it with.

## What is checked

| Run | Question | Bounds, and why they are enough |
|---|---|---|
| `source_block_decoder` | Does the decoder answer exactly when the received set determines the block, and go on doing so, for every block and every way of feeding it? | K = 3, one padding symbol, four repair symbols, all eight blocks of bits, calls of at most two packets (`MaxBatch`). Every subset of the seven symbols is reached by every order; a call of two packets may cross the threshold, hold one packet twice, repeat a symbol of an earlier call and mix both kinds. |
| `block_transfer` | Does the block come out in the end? | One block, calls of one packet as `Decoder` makes them, at most three of seven packets lost (`MaxLost`), so that in some runs what is left suffices and in some it does not. |
| `object_encoder` | Does the decoder's layout undo the encoder's, and does the handed-on plan fit? | All 840 configurations of 0 to 9 bytes, symbols of 1, 2, 4 or 6 bytes, 1 to 4 blocks, 1 to 3 sub-blocks, alignment 1 or 2: even and uneven, with and without padding, with empty blocks and empty sub-blocks. |
| `unpadded_block` | Is every block that extends past the end of the object padded? | The same configurations. It is not: see Findings. |
| `direct_plan_cache` | Is the cache a function, with the thread layer in front? | Two threads, three sizes for two places, two counts that share a size, one size too wide for the thread layer: hits, misses, races, evictions and stale thread entries all occur. |
| `hybrid_plan_cache` | Is a cache in which some plans cannot be made the service its callers expect, and does it answer them? | Three threads, three sizes for one place, one of them unsolvable: each insertion evicts what another thread is about to look up, and threads race to fail. |
| `nested_caches` | Can a thread that makes one cached value out of another wait for itself or in a circle, or get a value of the wrong kind? | Two threads, three block sizes with two extended sizes, two repairs. Plans and coefficients have one place each, so that threads evict each other; rows have two, so that racing threads could file a key twice; one size is too wide for the thread layer. |
| `elimination_routines` | Do lists, merges and moves keep what elimination needs? | GF(4). Lists: three rows of four columns, light meaning at most two entries, so that rows turn light and heavy. Merges: rows of five columns, two scalars: every way two runs of columns interleave. Moves: five places, every assignment of pivots: fixed places, chains, and cycles of all lengths. |
| `symbol_routines` | Does every solver with one stage find the one solution, and is every addition, every byte and every bit done once? | One stage: two and three columns over GF(4), square, over- and underdetermined, symbols that are zero, right, or wrong in one row. Lists of up to 52, past 32 + 16 + 3, so that each width is followed by each other. Batches of up to five among four symbols with kernel widths 3 and 2 for 8 and 4: whole kernels, a rest, and duplicates at every distance. Kernels: vectors of 2 bytes for 32 and slices of up to 21, past every threshold by less and by more than four vectors; room for 2 coefficients instead of 64 and up to 3 used. Octets: full width, factors that span the octets by linearity, all second factors. |
| `object_routines` | Does the object come out exactly when every block has enough, whatever the interleaving and the calls? Are parameters, rows and matrices what they stand for, and do plans and the solvers with two stages find what they determine? | Decoder: seven bytes in blocks of two, one and one symbols, two repair packets per block, two sub-blocks, one padding byte. Blocks without symbols, which this instance does not have, are covered by the proof. Parameters: objects and packets on both sides of every boundary, with the quotient of the memory cut at 2^24 and lengths at 2 * 10^9 for TLC's integers. Constraint rows: seven rows of the real table, on both sides of the limits of the degree table. Incremental rows: words of four bits, so that every sequence of symbol ids and each overflow occurs. Packed rows: words of two bytes of 2 bits, two rows of 2, 3 and 5 columns: part of a word in whole bytes and inside a byte, and more than a word, which starts inside a byte and needs one byte more. Binary matrices: 2 by 3, rows starting inside a byte of 2 bits, every sequence of calls; a row that is changed while out of order is followed until it has one entry more than columns (`MaxLength`). Plans, over GF(4) as all solves: all 3 by 3 systems with one LDPC and one HDPC row. Two stages: three and four columns, one and two HDPC rows, systems with a row to spare and with one missing. Routines of matrices really stop, so deadlock is not checked. |
| `small_memory` | Does some row of the table always fit the memory, as the code asserts? | The same. None need: see Findings. |
| `system_routines` | Is a shared matrix told from a copy, and does each way round a full solve find what that would? | Clones: three matrices in three allocations - a cache entry and two users. Prefixes: two columns with two, three and five rows and three columns with five, one row to spare in the prefix, so that no prefix is tried, the prefix is all rows, or one or two rows stay behind it; an error in the first symbol, the last or none; all three ways of holding the symbols. One repair: three source symbols and one for padding, one LDPC and one HDPC column, two repair symbols, with and without marks, the rows in every order. A solve stops when it is done, so deadlock is not checked. |

Each property is described where it is defined. The deeper ones:

* `AnswersWhenRecoverable` and `ImplementsDelivery` (decoder): whatever the order,
  the repetitions, the calls and the solver's path, the answer is a function of
  the received set.
* `RecordsAgree`: the id set, the symbols and the counter, on whose agreement the
  row count of D and the pairing of rows with symbols rest.
* `ObjectReassembles`: byte for byte, over all small configurations.
* `BlockDoneWhenSufficient`: dropping a done block's packets loses nothing.
* `QueueMatchesPlans`, `RacersShare`, `PlansStable`: what the second look-up under
  the lock is for.
* `LockIsForAccess`: no lock is held across a call, so no order among the caches is
  needed.
* `PlanReplaySolves`, `TwoStagesFindTheSolution`, `OneStageFindsTheSolution`: what
  was done to rows was done to symbols, recorded work may be replayed on other
  symbols, and a system is given up exactly when it has no single solution.
* `ListsHoldWaitingRows`, `ImplementsElimination`: masks, counts, weights and
  cached entries stay those of the rows as they are while rows move between lists.
* `PrefixLosesNothing`: whatever way the prefix goes, the solver of all rows finds
  every symbol as it was received, what is decoded satisfies all rows, and nothing
  is given up that all rows would solve.
* `LostSymbolIsRebuilt`: a stand-in for a solution is enough for the decoder, and
  with marks or without the rows are taken for what they are.
* `MovesBringPivotsHome`, `MergedRowIsSum`: work in place overwrites nothing that is
  still needed.
* `MatricesReadAlike`, `PackedRowsHoldOnes`, `ImplementsCopies`: representations
  with order flags, packed words and shared storage, under every sequence of calls.
* `ParametersFit`: the chosen blocks fit memory and table, at every boundary.

### Fairness

`BlockTransfer` assumes that the sender goes on drawing packets and that each
packet that is not lost is delivered at some time: properties of the caller and
the network, which the library cannot have. `EventuallyDecoded` is conditional:
it asks only that the packets that are not lost suffice. Nothing forces a loss.

`PlanCache` assumes that a thread that needs no lock goes on, and that while threads
wait for the mutex some thread gets it. Mutexes are not assumed fair, as those of
the standard library are not: a thread that waits for one may be passed over for
ever, while others call and take it. Calling is up to the caller. `CallsAnswered` is
accordingly conditional: unless new calls are made for ever, every call is answered.
Within the calls under way no thread can keep another from its answer by evicting
what that one inserted, since a caller leaves with its own reference and never looks
its plan up again.

`NestedCaches` assumes only that a thread inside a call takes its next step when
that step stays possible, and no fairness of mutexes either. `CallsReturn` is accordingly a promise of the process and not of each thread: while
threads are within calls, calls go on returning.

The other modules need no fairness: their routines are sequential, and what they
must do is said of their results.

## What is proved

`SourceBlockDecoderProofs` proves, for every block size, every matrix given by
`Eval`, every finite set of intermediate values and every sequence of calls, each
a list of packets of any length with any repetitions, all the invariants of the decoder, `NeverForgets`, and that it
implements `BlockDelivery`. The argument:

1. `EncodedEquationsAgree`: once the records agree, the rows and the symbols that
   `decode` puts together are exactly the equations of the received packets.
2. `EncoderSolves`, `ReceivedEquationsHold`: the encoder's intermediate symbols
   satisfy all of them, so that a unique solution must be these (`AttemptSound`).
3. `NoHdpcWeaker`, `DeterminedMonotone`: fewer equations have more solutions. If
   the rows without HDPC determine the symbols, all rows do; if an attempt
   without them fails, nothing is lost by asking again.
4. `FirstIsKept`, `KeptOnce`, `ReceiveStep`: of packets with one id the loop keeps
   the first, if none came before, and so keeps the records together.
5. `DecodeAnswers` joins these: whichever case answers, the answer is the block
   if the received set suffices, and None otherwise.

The inductive invariant `IInv` is the conjunction of the checked invariants and
`EncoderReady`, that the encoder's intermediate symbols are those of its block:
without it the packets would not be the code's. The
assumptions are those of `SourceBlock`: sizes are natural numbers, `Zero` is a
symbol, rows yield symbols, intermediate values are finitely many, and
`SystematicAssumption`, that the K' encoded rows and the constraint rows determine
the intermediate symbols of every block - the property for which RFC 6330 chose
its systematic indices, and which `SourceBlockEncodingPlan::generate` unwraps.

`PlanCacheProofs` proves, for any number of threads and sizes and any capacity,
type correctness, `QueueMatchesPlans`, `AnswerFitsCall`, the action properties
`RacersShare` and `PlansStable`, and that `PlanCache` implements `PlanService`.
The checked invariants are strengthened by `PlansFit`: a plan is kept under
the key it was made for wherever it is kept - in the shared map, in the thread
layer, in the hands of a thread about to insert it. `HeadLeaves` and
`NewcomerJoins` say what popping and appending do to a queue without repetition,
`QueueCounts` that such a queue is as long as it has members; together they show
that a full cache always has a place to free (`InsertKeepsQueue`).

`NestedCachesProofs` proves, for any number of threads, sizes, repairs and any
capacities, type correctness, `LockIsForAccess`, `NestedAnswerFits` and
`EntriesOnce`. `LockInv`, type correctness and `LockIsForAccess`, is inductive
alone: `AcquireKeeps`, `ReleaseKeeps` and `OutsideKeeps` are the three ways a step
can treat a lock, and every action is one of them. `AnswerInv` adds `DataFits`, that
what is filed, remembered or carried is right for its key at its level; `RightAbove`
says that what is right below makes what is right above. `EntriesOnce` needs
`AnswerInv` for the types of entries; `QueueTakesKey` is its lemma on queues.

`SystemRoutinesProofs` proves, for any number of matrices, allocations and values,
type correctness, `OwnersAlone`, `SharedAreLarge` and that `SharedMatrix` implements
`IndependentMatrices`. The inductive invariant is type correctness and
`OwnersAlone`, used in the form `Apart`: of two matrices with one allocation neither
owns it. A change in place is of octets that one matrix alone holds, whether it owns
them or the counter says so; any other change is made in a free allocation
(`OthersUnchangedInPlace`, `OthersUnchangedInNew`).

It also proves `PrefixLosesNothing`, for systems of any size with any rows of zeros and
ones, any HDPC rows, and each way of holding the symbols. `PrefixInv` says, by phase:

* `AtStart`, then `SuffixAside`: the symbols behind the prefix are as they were
  received, in the slab or in what was split off it.
* `Triangular`: the pivots of the columns done begin there, and every other row of the
  prefix is clear of them (`Leads`, `TriangularKept`).
* `SameSolutions`: the rows of the prefix as they are have the solutions of those that
  were received. Adding one row and its symbol to others keeps them both ways
  (`AddingKeepsSolutions`), since `Combination` is additive in the row
  (`CombinationAdds`) and adding twice is not adding (`AddedTwice`).
* `Restorable`: some sequence of slabs leads from what was received to the slab as it
  is, one recorded column after the other. Restoring walks it backwards, so what is
  left at its end is `received` (`RestorableKept`); that is `WholeFromReceived`.
* `OnlyDecoded`: while the rows behind are compared, `decoded` is the one solution of the
  prefix. Back substitution finds it (`BackSubstitutes`), as every column is given by its
  pivot's row and the columns behind (`RowGivesColumn`, `RemainingIs`). A comparison that
  fails therefore means that all rows have no solution; and a spare row without entries
  and with a symbol means the same (`EmptyRow`).

The copy and all rows are solved by `Solution`, the promise of `solve_binary`: that it
satisfies all rows is `SolutionSolves`, which ties the parity of the entries taken, in
which the promise is given, to the sum of symbols (`CombinationParity`). The theorem
assumes that a shape has a column, a row to spare, and at least as many rows as columns.

And it proves `LostSymbolIsRebuilt`, for any numbers of source symbols, padding symbols
and rows, any rows of the ISIs, rows of the matrix in any order, with marks or without.
`RepairInv` says, while known symbols are taken out:

* `Recognised`: with the lost symbol and the repair row as found, the row at each other
  place is that of the ISI that the layout gives (`RowBehind`, `Behind`). The scan by
  marks or by comparison reaches this (`ScannedIs`, `FromScanIs`), as does a match by
  position (`ContiguousIs`). A step of the scan takes one expected ISI or leaves it out
  (`NextBehind`, `PassKeeps`); that rows differ where ISIs do is what makes comparing
  them safe (`RowsMatch`). Rows in order with a repair symbol last are never turned away
  (`InOrderIsRecognised`).
* `StillHas`: of what the repair symbol consists of, the lost symbol and those not yet
  taken out are left, each with its coefficient, and a step takes out one
  (`OneTakenOut`). The other way leaves the repair symbol alone, and `InItsPlace` says
  which symbols have been put down so far (`PutDown`); encoded together they are all of
  it but the lost one (`KnownRepair`).

So in the end the lost symbol times its coefficient is left (`RestIs`), which the field
divides (`FourInverse`), and the row of the lost symbol takes the stand-in to it
(`RowLeads`, `StandInRebuilds`). The theorem assumes of the inverse that it is one for
the rows of a block without loss, and of the rows that no other ISI has the row of a
source symbol.

`ObjectEncoderProofs` proves, for every set of valid configurations, the invariants of
`Encoder::new`: type correctness, `PlanFitsBlock` and `ObjectReassembles`. The work is
in the layout, about which it proves `LayoutUndone`: for every valid configuration and
every object of its length, cutting it into blocks, each block into symbols and each
symbol out of sub-blocks, and then unpacking, joining and truncating, gives the
object back, byte for byte. The argument:

1. `PartitionAdds`: the parts of a partition follow each other, as many long ones as
   the code says and then short ones, and end where the whole ends.
2. `SumOfBlocks`, `SumOfSubBlocks`: so do block offsets and sub-block offsets, which the
   code adds up one by one.
3. `Tiles`, `EveryBytePlaced`: every byte of a block is byte `o` of sub-symbol `j` of
   symbol `i` for exactly one `i`, `j`, `o`. `CreatedByte`: there `create_symbols` took
   it from; `UnpackedBlock`: there `unpack_sub_blocks` puts it, one symbol after the other.
4. `Concatenated`, `JoinedBlocks`: blocks joined in order are the padded object.

The inductive invariant says that the loop has made its first blocks as
`BlockOf` says, and with plans of their own size (`Made`).

`ObjectDecoderProofs` proves, for any valid configuration, any number of blocks and
any notion of sufficient packets that grows with the packets, type correctness,
`BlockDoneWhenSufficient` and that `ObjectDecoder` implements `ObjectDelivery`. What
a block decoder was given and what has arrived for its block drift apart once the
block is done; the invariant adds `PendingHasAll`, that they agree until then, and
`BlocksDecoded`, that a filled slot holds the block that was sent. That joining the
blocks yields the object is `LayoutUndone`. The assumptions are `ConfigAssumption` (the
configuration is one that `ObjectTransmissionInformation` can hold) and
`SufficientAssumption` (more packets never hurt, which `DeterminedMonotone` proves of
the block decoder).

`SymbolRoutinesProofs` proves what is done to symbols for systems, lists, slabs, slices
and columns of any length. The steps of a behaviour are those of one routine, and so
is the invariant (`RoutinesInv`):

* `OneStageFindsTheSolution`, for GF(4)-systems of any number of rows and columns, all
  symbols zero, right or wrong, and each of the six routines. While `Eliminated`, the
  invariant (`OneInv`) has two parts. `Staged`: every column that was passed has a pivot
  that begins there, in place for the routines that swap, and all rows that are no pivots
  are clear of it, or all other rows for the one that clears them all. `Linear`: rows and
  symbols were changed alike. Of this, `Carried` says that a vector solves the rows
  as they are exactly if it solves the system, component by component of its symbols, and
  that symbols hold the coefficients of their rows; `Equivalent` that rows and matrix
  take the same vectors to nothing, which is what is left where symbols are all zero; and
  `Recorded` that the operations recorded so far, performed on the rows' own coefficients,
  give the rows as they are. A swap, a scaling and an addition to several rows keep each
  of these (`SwapSolves`, `ScaleSolves`, `FusedSolves`, `StepsLinear`), so the steps of
  a column do, whichever routine makes them (`EliminationGoesOn`). A column without pivot
  has a vector that the rows take to nothing (`NoPivotUndetermined`), and a row left over
  that does not fit has no solution (`LeftOverInconsistent`). Back substitution without a
  record solves the pivots' rows (`SubstitutedIs`, `LeftOverAnswers`); with one, rows keep
  their entries while symbols change, so `Backed` says all this of the rows with the
  entries behind the diagonal taken out from the current column on (`ClearedBehind`).
  At the end the rows are those of the identity, and what was recorded takes any symbols
  to the columns (`SolvedReplays`). Of the constants it assumes that a shape has a column
  and that rows are vectors over the field.
* `BatchesEqualSingles`. `BatchesInv` says that the slab is what single additions of the
  entries so far would have made of it, and that the kernel widths still to come
  suffice for what is left. `KernelAddsSingly` is its heart: no entry of a kernel
  call is read after another has changed it, since their targets differ and none of
  them is the hub.
* `BatchIsAdditions`. `OpsInv` relates the slab to the additions made one by one by the
  way a batch takes through the widths; `FieldLaws` and `SymbolLaws` are what
  it uses of octets, `FusedAdd` that a fused addition is one also where it reads
  the symbol that it writes.
* `EachByteOnce` and `VerdictIsRight`. `KernelsInv` says that the bytes up to the offset are
  what they should become and the others what they were; `VectorStep` moves the offset
  by vectors, `RowsOfColumn` says which rows a column's loop names.

`EliminationRoutinesProofs` proves `MergedRowIsSum`, for rows of any width with any
entries, every non-zero scalar and each way of adding. `MergeInv` has:

* `Denotes`: a sequence of entries in the order of their columns, none of them zero, is
  a vector. A lookup finds a column's place: lower columns lie before it and no lower
  one behind (`PartitionPoint`), and what is done there adds to the vector in that
  column alone (`AddsAt`).
* `ByEntry`: the first entries of the source have been added and no others (`Mixed`); the
  entry to come belongs at `search_start` or behind it. So a lookup that goes on from
  there misses nothing, though an entry that has cancelled moved all places behind it.
* `BySide`: the scratch is the sum in the columns that both rows have passed, and what is
  left of either lies behind.

It also proves `MovesBringPivotsHome`, for any number of columns,
of LDPC and HDPC rows and any assignment of pivots to rows. `MovesInv` is
`DestOk`, that the destinations given are those of the pivots and differ, and
then, by phase:

* `MovesOk`: a planned move follows the destinations, no place is the source of two
  moves or twice of one, and a move ends where it began, at a place that an earlier move
  emptied, or at one that is no symbol's. `EachMovedOnce` follows.
* `WalkOk`: so far as the move being planned has come, it does the same, and every place
  visited is in it, in a planned move, or lies right.
* `Walking` until replay, when nothing has been moved; then `Replaying`: the first `d` moves
  and `a` places of the next have been run (`ReplayedTo`). What was passed is where it
  belongs and the rest where it was (`Slabs`), with the symbol between in the scratch; so a
  move overwrites only what an earlier step took away.

Of the constants it assumes that there are columns, no fewer than LDPC and HDPC rows
together.

Of the lists of rows it proves `ListsHoldWaitingRows`, and that `RowBuckets`
implements `ColumnElimination`, for matrices of any size, any limit of light
rows, each kind of lists and any rows that Init allows. `BucketsInv` is the
conjunction of:

* `BucketTypes`, with what types cannot say: rows of the binary kinds hold zeros
  and ones, which scaling and adding keep (`SumOfRow`).
* `BucketControl`: a pivot in hand begins with one in the current column and is recorded
  as that column's, and the columns that come have none; nothing is eliminated before
  all rows are filed.
* `WaitingBegin`: the rows still waiting begin at the current column or after it, so
  that no list of an earlier column has anything in it.
* `ListsLinked`: for every list some sequence of rows without repetition runs through
  the links and has exactly its members (`Holds`). The checked property follows the
  links from a head instead; `ChainIsList` says that this yields the sequence. Since
  lists share one array of links, the conjunct is only kept if no two share a row:
  `PutInFront` and `TakenOut` are the two changes to a list, `ListTaken` and `ListPut`
  say that every other list is left as it was.
* `CountsFit`, `CachesCurrent`: masks, counts, weights and entries. A weight that is not
  counted again but computed from the entries of two light rows is the weight of the
  sum because the pivot and the row overlap in the columns the cache says
  (`PlainSizes`, `WeightKept`), and each row is put into the list of its new
  weight (`Refiled`).

For the refinement, `LightestFound` shows that the search along a list ends at a
lightest row though it may stop early, since no row that waits weighs less than
one, and `PopLightestFacts` that it is lightest in the other lists of the column too,
since the masks and counts by which a list was chosen are current. Taking the
pivot is then the abstract step (`PopLightestEliminates`), which clears all
rows at once; clearing them one by one is a stutter (`PopAndEliminateStutters`),
the refinement mapping showing each row as it will be.

`ObjectEncoderProofs` and the modules about routines state induction and recursion over
numbers with sets and functions in the place of operators (`SetInduction`, `Recursion`),
since the library's induction theorems take an operator, which the provers cannot
instantiate. The recursive functions of the modules - offsets, sums, columns, moves -
are reasoned about with them.

The type invariants of `SourceBlockDecoder`, `PlanCache` and `ObjectEncoder` are
proved for all constants and are therefore in no run.

Only model-checked: the liveness properties `EventuallyDecoded`, `CallsAnswered`
and `CallsReturn`, since the prover does not reason about fairness;
`OctetsFormAField`, a statement about finite tables that the run computes in full;
`TwoStagesFindTheSolution` and `PlanReplaySolves`, for which see the plan; and `RowsAreTheirSymbols`, `PackedRowsHoldOnes`, `MatricesReadAlike` and
`ParametersFit`, whose routines have no loop invariant yet that is stated for every size.

## Findings

`unpadded_block`: the comment at `src/encoder.rs:70` says that a block that
extends past the end of the object must be zero padded, and `Encoder::new` says
so too (`src/encoder.rs:116`). With more source blocks than symbols, and a last
symbol that is not full, a later block does not merely end but starts past the end
of the object. `ObjectTransmissionInformation::new` accepts such a
configuration - one byte, symbols of two bytes, two blocks - and
`&data[start..]` at line 119 is then out of range: `new` panics.

`small_memory`: `generate_encoding_parameters` chooses the largest table row that
fits the receiver's memory and says by `unreachable!()` (`src/base.rs:224`) that
there is one. `EncoderBuilder::set_decoder_memory_requirement` (`src/encoder.rs:50`)
takes any number of bytes. With a memory of fewer than ten sub-symbols no row
fits; and since the search for the number of sub-blocks begins with one, the code
panics already with a memory of fewer than ten whole symbols, where more sub-blocks
would have fitted.

Noted while modelling, without a claim that is contradicted:

* The reset of `decoded` at `src/decoder.rs:391` never changes it. The flag is
  set only when a call returns the block, and from then on every call does
  (`FlagCorrect` and `NeverForgets`, both proved).
* A block without symbols is complete from the start, but `Decoder` fills its
  slot only when a packet of that block arrives, and there is no source packet to
  send: the object waits for a repair packet of the empty block
  (`BlockDoneWhenSufficient`, whose right side asks for a packet).
* Rows are told apart by comparing their columns where marks are missing
  (`src/pi_solver.rs:7912`), and a repair row equal to the last or last but one
  source row of an unpadded block would be taken for it. `RepairAssumption` excludes
  this. It is a property of the table: at widths from 4096, where the shortcut is
  taken, no symbol id of 24 bits has such a row; at small widths, K' = 242 for
  one, some have, and the tests lower the threshold to 1.
* The last arm of `DenseOctetMatrix::clone` (`src/octet_matrix.rs:63`), for a small
  matrix that is shared, is never reached (`SharedAreLarge`, proved).

## Not modelled, and why

* The dispatcher of the solver, which chooses among the paths by the shape, width
  and symbol size of a system: the paths are modelled, and each is shown to solve
  the systems it takes. What the dispatcher adds are thresholds of speed.
* The blocked forms of comparing a solution with rows (`pi_solver.rs` 5780-5865,
  5890-6478): they sum what `Combination` sums, in other orders, and for HDPC rows
  of the standard by a recurrence over the columns, with a cache of the rows drawn.
* The generation of HDPC rows: the solvers' models take any HDPC rows.
* Tables of systematic indices and random words: data. A draw may be any number.
* The one-entry thread cache of systematic constants: a pure function's memo.
* Vector instructions: external; their arithmetic on a word is in `OctetArithmetic`.
* Symbol containers: no control of their own.
* Python bindings, benchmarks, fuzzing, scripts, examples: tooling.
* Symbol sizes, block counts or sub-block counts of zero given to `Decoder`, which
  would divide by zero in `partition`: outside `ConfigAssumption`.

## Plan

Done: the block, the object with its layout, and the caches, with proofs; caches
in caches, with proofs; shared matrices, with proofs; batches, operations and
kernels, with proofs; octets; the solver's plans and two stages; its solves in one
stage, lists, additions of rows, moves, prefixes and the path for one lost symbol, with
proofs; rows, matrices and parameters.

To come, most important first:

1. Proofs about the solve in two stages and the plans: the lemmas on swaps, scalings and
   additions that `OneStageCorrect` rests on are about rows and symbols of any width, and
   the binary rows and the HDPC rows are changed by the same three operations.
2. Proofs about `EncodedRows` and the matrices: a row depends on its symbol alone, for
   every word width.
3. `SolverDispatch`: the choice among the paths by shape, width and symbol size, with
   their fall-backs; each refines `Solve`, the single-repair path with what the decoder
   rebuilds from it.
4. The generation of HDPC rows, and the composition of `EncodedRows`, `ConstraintRows` and
   `RowLayout` into the whole constraint matrix.
