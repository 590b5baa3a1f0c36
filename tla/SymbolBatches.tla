--------------------------- MODULE SymbolBatches ---------------------------
(***************************************************************************)
(* Adding symbols in batches.  The solver adds one symbol to many, or many *)
(* to one, through kernels that take 32, 16, 8, 4, 3, 2 or 1 of them at    *)
(* once.  A routine is a descending list of batch widths; it takes batches *)
(* of the first width while they fit, then of the next.  Short lists of    *)
(* sources are taken by a table instead, each batch exactly once.          *)
(*                                                                         *)
(* A symbol is a formal sum of scaled slots of the slab: the set of the    *)
(* pairs (slot, scalar) that occur an odd number of times in it.           *)
(***************************************************************************)
EXTENDS Integers, Sequences, FiniteSets, RowLayout
CONSTANTS MaxLen,   \* the longest list of slots
          S, H,     \* LDPC and HDPC rows, for the routine that skips HDPC
          One, Alpha \* two scalars: the unit and another

BatchAssumption == MaxLen \in Nat /\ S \in Nat /\ H \in Nat /\ One # Alpha

Slot == 0 .. MaxLen + H
Symbol == SUBSET (Slot \X {One, Alpha})

VARIABLES routine,  \* the routine that runs
          list,     \* the slots of the batch, in order
          symbols,  \* the slab
          widths,   \* the batch widths still to try
          done,     \* how many entries of the list have been taken
          before    \* the slab before the call, kept for the properties
vars == <<routine, list, symbols, widths, done, before>>

(***************************************************************************)
(* The routines.  to: one symbol is added to the listed ones, or from: the *)
(* listed ones are added to one.  zeroCheck: nothing is done for a source  *)
(* that is zero.  scaled: entries have factors.  mapped: the indices are   *)
(* rows of the binary matrix.  once: each width is used exactly once.      *)
(***************************************************************************)
Routine(name, dir, ladder, zeroCheck) ==
  [name |-> name, dir |-> dir, ladder |-> ladder, zeroCheck |-> zeroCheck,
   scaled |-> FALSE, mapped |-> FALSE, once |-> FALSE]

fused_addassign_cached_symbol_batch(unit_only) ==
  IF unit_only THEN Routine("cached", "to", <<8, 4, 1>>, TRUE)
  ELSE [Routine("cached", "to", <<1>>, TRUE) EXCEPT !.scaled = TRUE]

addassign_external_symbol_batch == Routine("external", "to", <<8, 4, 1>>, FALSE)

addassign_direct_symbol_batch_impl(check_zero) ==
  Routine("direct", "to", <<8, 4, 1>>, check_zero)

addassign_symbol_row_batch(check_zero) ==
  Routine("rows", "to", <<8, 4, 1>>, check_zero)

addassign_mapped_binary_symbol_batch ==
  [Routine("mapped", "to", <<8, 4, 1>>, TRUE) EXCEPT !.mapped = TRUE]

\* The table of batches for one to fifteen sources.
TinySourceBatches ==
  << <<1>>, <<2>>, <<3>>, <<4>>, <<4, 1>>, <<4, 2>>, <<4, 3>>, <<8>>,
     <<8, 1>>, <<8, 2>>, <<8, 3>>, <<8, 4>>, <<8, 4, 1>>, <<8, 4, 2>>,
     <<8, 4, 3>> >>

\* roomy: the slab has enough symbols for bounds checks in the table to pay.
UsesTinyBatches(wide, checked, roomy, n) ==
  wide /\ (~checked \/ roomy) /\ n \in DOMAIN TinySourceBatches

WideSourceChunks(wide) == IF wide THEN <<32>> ELSE <<>>
SourceChunks == <<16, 8, 4, 3, 2, 1>>

addassign_symbol_sources_raw_impl(wide, checked, roomy, n) ==
  IF UsesTinyBatches(wide, checked, roomy, n)
  THEN [Routine("tiny", "from", TinySourceBatches[n], FALSE) EXCEPT !.once = TRUE]
  ELSE Routine("sources", "from", WideSourceChunks(wide) \o SourceChunks, FALSE)

addassign_direct_symbol_source_batch(n) ==
  addassign_symbol_sources_raw_impl(FALSE, TRUE, FALSE, n)

addassign_direct_symbol_source_batch_trusted(wide, n) ==
  addassign_symbol_sources_raw_impl(wide, FALSE, FALSE, n)

addassign_symbol_source_batch(n) ==
  addassign_symbol_sources_raw_impl(FALSE, TRUE, FALSE, n)

addassign_symbol_sources_to_slice(roomy, n) ==
  addassign_symbol_sources_raw_impl(TRUE, TRUE, roomy, n)

PointerTinyBatches == Append(TinySourceBatches, <<16>>)

addassign_symbol_source_ptrs_to_slice ==
  Routine("pointers", "from", <<16, 8, 4, 3, 2, 1>>, FALSE)

addassign_symbol_source_ptrs_to_slice_tiny_fast(n) ==
  IF n \in DOMAIN PointerTinyBatches
  THEN [Routine("pointers", "from", PointerTinyBatches[n], FALSE) EXCEPT !.once = TRUE]
  ELSE addassign_symbol_source_ptrs_to_slice

RoutinesFor(n) ==
  {fused_addassign_cached_symbol_batch(u) : u \in BOOLEAN}
    \cup {addassign_external_symbol_batch, addassign_mapped_binary_symbol_batch}
    \cup {addassign_direct_symbol_batch_impl(c) : c \in BOOLEAN}
    \cup {addassign_symbol_row_batch(c) : c \in BOOLEAN}
    \cup {addassign_direct_symbol_source_batch(n), addassign_symbol_source_batch(n)}
    \cup {addassign_direct_symbol_source_batch_trusted(w, n) : w \in BOOLEAN}
    \cup {addassign_symbol_sources_to_slice(r, n) : r \in BOOLEAN}
    \cup {addassign_symbol_source_ptrs_to_slice,
          addassign_symbol_source_ptrs_to_slice_tiny_fast(n)}

-----------------------------------------------------------------------------
\* Faulty variant: the HDPC symbols are not skipped.
PlaceUnmapped(index) == index

\* The slot that an index of the list names.
Place(index) ==
  IF routine.mapped THEN mapped_binary_symbol_row(index, S, H) ELSE index

\* Slot 0 is the one source or the one destination.
Hub == 0

Factor(index) == IF routine.scaled /\ index % 2 = 0 THEN Alpha ELSE One

Plus(a, b) == (a \ b) \cup (b \ a)
Scaled(symbol, factor) == {<<term[1], factor>> : term \in symbol}

\* The sum of the symbols of the entries first .. last, all read before any
\* is written.
SumOf(first, last) ==
  {term \in UNION {symbols[Place(list[i])] : i \in first .. last} :
     Cardinality({i \in first .. last : term \in symbols[Place(list[i])]}) % 2 = 1}

\* One kernel call on the entries first .. last.
Kernel(first, last) ==
  IF routine.dir = "from"
  THEN [symbols EXCEPT ![Hub] = Plus(@, SumOf(first, last))]
  ELSE [slot \in Slot |->
          IF \E i \in first .. last : Place(list[i]) = slot
          THEN LET i == CHOOSE i \in first .. last : Place(list[i]) = slot
               IN Plus(symbols[slot], Scaled(symbols[Hub], Factor(list[i])))
          ELSE symbols[slot]]

Init ==
  \E n \in 0 .. MaxLen, zeroHub \in BOOLEAN :
    /\ list = [i \in 1 .. n |-> i]
    /\ routine \in RoutinesFor(n)
    /\ symbols = [slot \in Slot |->
                    IF slot = Hub /\ zeroHub THEN {} ELSE {<<slot, One>>}]
    /\ before = symbols
    /\ widths = routine.ladder
    /\ done = 0

Left == Len(list) - done

AfterBatch == done + Head(widths)

NarrowerWidths == Tail(widths)

SkipsZero == routine.zeroCheck /\ symbols[Hub] = {}

\* The routine returns early: an empty list, or a source of zeros.
ReturnEarly ==
  /\ widths # <<>> /\ (Left = 0 \/ SkipsZero)
  /\ widths' = <<>>
  /\ UNCHANGED <<routine, list, symbols, done, before>>

\* A full batch of the current width.
TakeBatch ==
  /\ widths # <<>> /\ ~SkipsZero
  /\ Head(widths) <= Left
  /\ symbols' = Kernel(done + 1, done + Head(widths))
  /\ done' = AfterBatch
  /\ widths' = IF routine.once THEN Tail(widths) ELSE widths
  /\ UNCHANGED <<routine, list, before>>

\* What is left is shorter than a batch: on to the next width.
NextWidth ==
  /\ widths # <<>> /\ ~SkipsZero
  /\ ~routine.once /\ Left > 0 /\ Head(widths) > Left
  /\ widths' = NarrowerWidths
  /\ UNCHANGED <<routine, list, symbols, done, before>>

Returned == widths = <<>> /\ UNCHANGED vars

Next == ReturnEarly \/ TakeBatch \/ NextWidth \/ Returned
Spec == Init /\ [][Next]_vars /\ WF_vars(ReturnEarly \/ TakeBatch \/ NextWidth)

-----------------------------------------------------------------------------
TypeInv ==
  /\ list \in Seq(Slot) /\ Len(list) <= MaxLen
  /\ symbols \in [Slot -> Symbol]
  /\ done \in 0 .. Len(list)

\* The slot that holds the symbol of entry i.
Target(i) ==
  IF routine.name = "mapped" /\ list[i] >= S THEN list[i] + H ELSE list[i]

\* What adding the first `done` entries one at a time gives.
AddedSingly ==
  IF routine.dir = "from"
  THEN [before EXCEPT ![Hub] =
          Plus(@, UNION {before[Target(i)] : i \in 1 .. done})]
  ELSE [slot \in Slot |->
          IF \E i \in 1 .. done : Target(i) = slot
          THEN LET i == CHOOSE i \in 1 .. done : Target(i) = slot
               IN Plus(before[slot], Scaled(before[Hub], Factor(list[i])))
          ELSE before[slot]]

\* After every kernel call the slab holds what adding the entries taken so far
\* one at a time gives: batches do not overlap, no entry is taken twice, and
\* nothing outside the list is written, the HDPC symbols among it (pi_solver.rs
\* 3072-3870, 4026-4696, 5101-5212).
BatchesEqualSingles == symbols = AddedSingly

\* When a routine returns it has taken every entry, or its source is zero and
\* there is nothing to add: no remainder of a batch is forgotten.
NothingLeftOver == widths = <<>> => Left = 0 \/ SkipsZero

\* Every routine returns.
Returns == <>(widths = <<>>)

=============================================================================
