--------------------------- MODULE OperationVector ---------------------------
(***************************************************************************)
(* The operations of a recorded plan on the symbols of a block.  A batch   *)
(* adds one symbol, times factors, to a list of others.  On a slab of      *)
(* fitting size a batch of plain additions goes through kernels that take  *)
(* eight or four destinations at once, reading all of them before any is   *)
(* written, if these differ; otherwise one at a time.  The kernels demand  *)
(* destinations that do not overlap and promise nothing if they do.        *)
(***************************************************************************)
EXTENDS Integers, Sequences, FiniteSets, SequencesExt, SmallField
CONSTANTS Symbols,       \* symbols of the slab
          MaxDests,      \* length of the longest batch
          BatchSources,  \* slots that a batch may add
          Chunks,        \* kernel widths: <<8, 4>>
          FastSlabs      \* whether the slab's size is one for kernels
VectorAssumption ==
  /\ Symbols \in Nat \ {0, 1} /\ MaxDests \in Nat \ {0, 1} /\ BatchSources \subseteq 0 .. Symbols - 1
  /\ Chunks \in Seq(Nat \ {0}) /\ FastSlabs \subseteq BOOLEAN

Slot == 0 .. Symbols - 1
\* A symbol as a combination of those that the slab began with.
Symbol == [Slot -> F]

VARIABLES symbols,
          op,          \* the operation that runs
          index,       \* destinations done
          width,       \* which kernel width is in use; past them, one at a time
          panicked,    \* an assertion failed
          before,      \* the slab before the operation: for the properties
          fast
vars == <<symbols, op, index, width, panicked, before, fast>>

Scalars == {Zero, One, 2}
NoOp == [name |-> "none"]
Batches ==
  [name : {"batch"}, src : BatchSources, dests : UNION {[1 .. n -> Slot \X {One}] : n \in 0 .. MaxDests}]
  \cup [name : {"batch"}, src : BatchSources, dests : UNION {[1 .. n -> Slot \X Scalars] : n \in 0 .. 2}]

-----------------------------------------------------------------------------
\* FusedAdd on slots that may be the same: the factor is then one more.
fused_addassign_symbol(slab, dest, src, scalar) ==
  [slab EXCEPT ![dest] =
     IF dest = src THEN VTimes(FPlus(One, scalar), @) ELSE VPlus(@, VTimes(scalar, slab[src]))]

Swapped(slab, a, b) == [slab EXCEPT ![a] = slab[b], ![b] = slab[a]]
Scaled(slab, row, scalar) == [slab EXCEPT ![row] = VTimes(scalar, @)]

\* Slabs begin with symbols of their own, some of them zero.
Init ==
  /\ \E zeros \in SUBSET {0} :
       symbols = [s \in Slot |-> IF s \in zeros THEN VZero(Slot) ELSE VUnit(Slot, s)]
  /\ fast \in FastSlabs
  /\ op = NoOp /\ index = 0 /\ width = 1
  /\ panicked = FALSE
  /\ before = symbols

\* perform_op of Swap, Scale and FusedAdd is one step.
Perform(o, slab) ==
  /\ op = NoOp
  /\ op' = o
  /\ symbols' = slab
  /\ before' = symbols
  /\ index' = 0 /\ width' = 1
  /\ UNCHANGED <<panicked, fast>>

-----------------------------------------------------------------------------
(***************************************************************************)
(* Batches.                                                                *)
(***************************************************************************)
IsZero(symbol) == Support(symbol) = {}
Units(dests) == \A i \in DOMAIN dests : dests[i][2] = One
use_replay_batch_fast_paths(dests) == fast /\ Len(dests) > 1
\* Nothing is done for an empty batch or for a symbol that is zero.
Skips(o) == o.dests = <<>> \/ IsZero(symbols[o.src])

fused_addassign_symbol_batch_inner(o) ==
  /\ op = NoOp
  /\ op' = o
  /\ before' = symbols
  /\ index' = IF Skips(o) THEN Len(o.dests) ELSE 0
  /\ width' = IF use_replay_batch_fast_paths(o.dests) /\ Units(o.dests) THEN 1 ELSE Len(Chunks) + 1
  /\ UNCHANGED <<symbols, panicked, fast>>

Running == op.name = "batch" /\ ~panicked /\ index < Len(op.dests)

AfterOne == index + 1

AddOne ==
  LET dest == op.dests[index + 1][1]
      scalar == op.dests[index + 1][2]
  IN IF scalar # Zero /\ dest = op.src
     THEN panicked' = TRUE /\ UNCHANGED <<symbols, index>>
     ELSE /\ symbols' = [symbols EXCEPT ![dest] = VPlus(@, VTimes(scalar, symbols[op.src]))]
          /\ index' = AfterOne
          /\ UNCHANGED panicked

\* Faulty variant: only the source is looked at.
ChunkWithoutSource(src, chunk) == \A i \in DOMAIN chunk : chunk[i] # src
unit_dest_chunk_is_disjoint(src, chunk) ==
  IsInjective(chunk) /\ \A i \in DOMAIN chunk : chunk[i] # src

\* Each of a kernel's destinations is read before any is written.
AddChunk(chunk) ==
  symbols' = [s \in Slot |->
    IF s \in ToSet(chunk) THEN VPlus(symbols[s], symbols[op.src]) ELSE symbols[s]]

AfterChunk(n) == index + n

\* A chunk of the width in use, one of its destinations if two are the same,
\* or the next width when too few are left.
addassign_unit_symbol_batch_for_replay ==
  /\ Running /\ width <= Len(Chunks)
  /\ LET n == Chunks[width]
         chunk == [i \in 1 .. n |-> op.dests[index + i][1]]
     IN IF index + n > Len(op.dests)
        THEN width' = width + 1 /\ UNCHANGED <<symbols, index, panicked>>
        ELSE /\ UNCHANGED width
             /\ IF unit_dest_chunk_is_disjoint(op.src, chunk)
                THEN AddChunk(chunk) /\ index' = AfterChunk(n) /\ UNCHANGED panicked
                ELSE AddOne
  /\ UNCHANGED <<op, before, fast>>

\* What the kernels leave, and all of a batch with factors.
AddRest ==
  /\ Running /\ width > Len(Chunks)
  /\ AddOne
  /\ UNCHANGED <<op, width, before, fast>>

Done == op # NoOp /\ ~Running
Stop == Done /\ UNCHANGED vars

Next ==
  \/ \E a, b \in Slot : Perform([name |-> "swap", a |-> a, b |-> b], Swapped(symbols, a, b))
  \/ \E row \in Slot, x \in Scalars :
       Perform([name |-> "scale", row |-> row, by |-> x], Scaled(symbols, row, x))
  \/ \E dest, src \in Slot, x \in Scalars :
       Perform([name |-> "add", dest |-> dest, src |-> src, by |-> x],
               fused_addassign_symbol(symbols, dest, src, x))
  \/ \E o \in Batches : fused_addassign_symbol_batch_inner(o)
  \/ addassign_unit_symbol_batch_for_replay
  \/ AddRest
  \/ Stop

Spec == Init /\ [][Next]_vars /\ WF_vars(addassign_unit_symbol_batch_for_replay \/ AddRest)

-----------------------------------------------------------------------------
\* The batch as FusedAdd operations, one for each destination in order.
OneByOne(slab, o) ==
  LET after[n \in 0 .. Len(o.dests)] ==
        IF n = 0 THEN slab
        ELSE fused_addassign_symbol(after[n - 1], o.dests[n][1], o.src, o.dests[n][2])
  IN  after[Len(o.dests)]

TypeInv ==
  /\ symbols \in [Slot -> Symbol]
  /\ index \in 0 .. MaxDests /\ width \in 1 .. Len(Chunks) + 1
  /\ panicked \in BOOLEAN /\ fast \in BOOLEAN
  /\ op.name = "batch" => index <= Len(op.dests)

\* A finished batch has done what its additions do one after the other,
\* destinations that occur twice included (operation_vector.rs 122-302).
BatchIsAdditions ==
  op.name = "batch" /\ ~Running /\ ~panicked => symbols = OneByOne(before, op)

\* An assertion stops exactly the batches that would add a symbol to itself,
\* for which a batch and single additions differ, unless the symbol is zero;
\* a batch without such a destination is never stopped.
StopsOnSourceOnly ==
  op.name = "batch" /\ ~Running =>
    (panicked <=> /\ ~IsZero(before[op.src])
                  /\ \E i \in DOMAIN op.dests : op.dests[i] \in {op.src} \X {One, 2})

\* Adding to a symbol itself, and its factors, are additions of the field
\* whichever way is taken (operation_vector.rs 76-95).
AddIsLinear ==
  op.name = "add" =>
    symbols[op.dest] = VPlus(before[op.dest], VTimes(op.by, before[op.src]))

\* Every batch comes to its end: no chunk is looked at for ever.
BatchEnds == op.name = "batch" ~> ~Running
=============================================================================
