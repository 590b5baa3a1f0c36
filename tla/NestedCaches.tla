---------------------------- MODULE NestedCaches ----------------------------
(***************************************************************************)
(* Three process-wide caches, one behind the other, with their mutexes.    *)
(* The coefficient of a single repair is made from the direct plan of its  *)
(* size, and that plan from the HDPC rows of its size; each is cached, and *)
(* callers ask for all three.  PlanCache shows what one cache promises     *)
(* when a critical section is a single step; here a lock is taken in one   *)
(* step and released in another, and making a value is a call.             *)
(*                                                                         *)
(* A cache asks only the one below it, so a thread within a call is known  *)
(* by the cache it has got to: those above it are all making their value.  *)
(* A value is known by what it was made for and by what it was made from.  *)
(***************************************************************************)
EXTENDS Integers, Sequences, FiniteSets

CONSTANTS
  Threads,
  SymbolCounts,  \* numbers of source symbols that callers ask for
  Keys,          \* extended sizes
  Repairs,       \* pairs of a missing symbol and a repair symbol
  ThreadCached,  \* keys narrow enough for the thread layer of the plans
  RowCapacity, PlanCapacity, CoefficientCapacity,  \* entries that a cache may hold
  None

Rows == 1          \* hdpc_rows_cache
Plans == 2         \* direct_systematic_plan_cache
Coefficients == 3  \* direct_single_repair_coefficient_cache
Levels == 1 .. 3
Capacity == <<RowCapacity, PlanCapacity, CoefficientCapacity>>

\* extended_source_block_symbols: the first of the sizes that is large enough.
IsExtended(n, k) == n <= k /\ \A larger \in Keys : n <= larger => k <= larger
Extended == [n \in SymbolCounts |-> CHOOSE k \in Keys : IsExtended(n, k)]

ASSUME ParameterAssumption ==
  /\ \A n \in SymbolCounts : \E k \in Keys : IsExtended(n, k)
  /\ Keys # {} /\ Repairs # {}
  /\ ThreadCached \subseteq Keys
  /\ RowCapacity \in Nat \ {0} /\ PlanCapacity \in Nat \ {0} /\ CoefficientCapacity \in Nat \ {0}
  /\ None \notin Threads

VARIABLES
  lock,     \* lock[l]: the thread that holds the mutex of cache l, or None
  entries,  \* entries[l]: the entries of cache l, in the order of insertion
  recent,   \* recent[t]: the thread layer's plan, a set of at most one entry
  pc,       \* pc[t]: the next step of thread t
  call,     \* call[t]: the cache it asked, the key and the repair
  level,    \* level[t]: the cache it has got to
  value     \* value[t]: the value in its hands, a sequence, empty for none

vars == <<lock, entries, recent, pc, call, level, value>>

Calls == [top : Levels, key : Keys, repair : Repairs]
\* What call[t] and level[t] hold between calls, when neither is read.
SomeCall == CHOOSE c \in Calls : TRUE

Init ==
  /\ lock = [l \in Levels |-> None]
  /\ entries = [l \in Levels |-> <<>>]
  /\ recent = [t \in Threads |-> {}]
  /\ pc = [t \in Threads |-> "idle"]
  /\ call = [t \in Threads |-> SomeCall]
  /\ level = [t \in Threads |-> SomeCall.top]
  /\ value = [t \in Threads |-> <<>>]

-----------------------------------------------------------------------------
\* Faulty variant: coefficients of all repairs share an entry.
KeyWithoutRepair(l, c) == <<c.key>>
\* The key under which cache l files the value of a call.
KeyAt(l, c) == IF l = Coefficients THEN <<c.key, c.repair>> ELSE <<c.key>>
Key(t) == KeyAt(level[t], call[t])

\* The value that cache l makes for a call, from a value of the cache below.
MadeFrom(l, c, below) ==
  IF l = Coefficients THEN <<l, c.key, c.repair, below>> ELSE <<l, c.key, below>>

EntriesOf(t) == entries[level[t]]
Filed(t) == {i \in DOMAIN EntriesOf(t) : EntriesOf(t)[i].key = Key(t)}
Goto(t, from, to) == pc[t] = from /\ pc' = [pc EXCEPT ![t] = to]
Acquire(t) == lock[level[t]] = None /\ lock' = [lock EXCEPT ![level[t]] = t]
Release(t) == lock' = [lock EXCEPT ![level[t]] = None]

\* Faulty variant: the guard of the look-up outlives it.
KeepLock(t) == lock' = lock
\* The guard of the look-up is dropped with its block.
LeaveLookup(t) == Release(t)

\* Faulty variant: the call starts again once the value is in the cache.
LookUpAgain == "enter"
AfterInsert == "return"

\* Faulty variant: the value is inserted without a second look.
NoSecondLook(t) == FALSE
Overtaken(t) == Filed(t) # {}

-----------------------------------------------------------------------------
Call(t, l, n, r) ==
  /\ Goto(t, "idle", "enter")
  /\ call' = [call EXCEPT ![t] = [top |-> l, key |-> Extended[n], repair |-> r]]
  /\ level' = [level EXCEPT ![t] = l]
  /\ UNCHANGED <<lock, entries, recent, value>>

ThreadHits(t) ==
  IF level[t] = Plans /\ call[t].key \in ThreadCached
  THEN {e \in recent[t] : e.key = Key(t)} ELSE {}

ThreadHit(t) ==
  /\ Goto(t, "enter", "return")
  /\ \E e \in ThreadHits(t) : value' = [value EXCEPT ![t] = e.value]
  /\ UNCHANGED <<lock, entries, recent, call, level>>

LockToLookUp(t) ==
  /\ Goto(t, "enter", "looking")
  /\ ThreadHits(t) = {}
  /\ Acquire(t)
  /\ UNCHANGED <<entries, recent, call, level, value>>

\* direct_systematic_plan_thread_cache_store, while the lock is still held
Store(t, v) ==
  recent' = IF level[t] = Plans /\ call[t].key \in ThreadCached
            THEN [recent EXCEPT ![t] = {[key |-> Key(t), value |-> v]}]
            ELSE recent

\* The entry found under the lock is the answer.
Take(t) == \E i \in Filed(t) :
  /\ value' = [value EXCEPT ![t] = EntriesOf(t)[i].value]
  /\ Store(t, EntriesOf(t)[i].value)

LookupHit(t) ==
  /\ Goto(t, "looking", "return")
  /\ Take(t)
  /\ Release(t)
  /\ UNCHANGED <<entries, call, level>>

LookupMiss(t) ==
  /\ Goto(t, "looking", "generate")
  /\ Filed(t) = {}
  /\ LeaveLookup(t)
  /\ UNCHANGED <<entries, recent, call, level, value>>

\* To make a plan or a coefficient, the cache below is asked.
AskBelow(t) ==
  /\ Goto(t, "generate", "enter")
  /\ level[t] > Rows
  /\ level' = [level EXCEPT ![t] = @ - 1]
  /\ UNCHANGED <<lock, entries, recent, call, value>>

\* generate_hdpc_rows_uncached asks no cache.
GenerateRows(t) ==
  /\ Goto(t, "generate", "insert")
  /\ level[t] = Rows
  /\ value' = [value EXCEPT ![t] = MadeFrom(Rows, call[t], <<>>)]
  /\ UNCHANGED <<lock, entries, recent, call, level>>

\* The cache below has answered, and the value above is made of its answer.
GenerateFrom(t) ==
  /\ Goto(t, "return", "insert")
  /\ level[t] < call[t].top
  /\ level' = [level EXCEPT ![t] = @ + 1]
  /\ value' = [value EXCEPT ![t] = MadeFrom(level[t] + 1, call[t], value[t])]
  /\ UNCHANGED <<lock, entries, recent, call>>

LockToInsert(t) ==
  /\ Goto(t, "insert", "inserting")
  /\ Acquire(t)
  /\ UNCHANGED <<entries, recent, call, level, value>>

InsertOvertaken(t) ==
  /\ Goto(t, "inserting", AfterInsert)
  /\ Overtaken(t)
  /\ Take(t)
  /\ Release(t)
  /\ UNCHANGED <<entries, call, level>>

InsertNew(t) ==
  /\ Goto(t, "inserting", AfterInsert)
  /\ ~Overtaken(t)
  /\ LET kept == IF Len(EntriesOf(t)) >= Capacity[level[t]] THEN Tail(EntriesOf(t)) ELSE EntriesOf(t)
     IN entries' = [entries EXCEPT
          ![level[t]] = Append(kept, [key |-> Key(t), value |-> value[t]])]
  /\ Store(t, value[t])
  /\ Release(t)
  /\ UNCHANGED <<call, level, value>>

Return(t) ==
  /\ Goto(t, "return", "idle")
  /\ level[t] = call[t].top
  /\ call' = [call EXCEPT ![t] = SomeCall]
  /\ level' = [level EXCEPT ![t] = SomeCall.top]
  /\ value' = [value EXCEPT ![t] = <<>>]
  /\ UNCHANGED <<lock, entries, recent>>

Work(t) ==
  \/ ThreadHit(t) \/ LockToLookUp(t) \/ LookupHit(t) \/ LookupMiss(t)
  \/ AskBelow(t) \/ GenerateRows(t) \/ GenerateFrom(t)
  \/ LockToInsert(t) \/ InsertOvertaken(t) \/ InsertNew(t)
  \/ Return(t)

Next == \E t \in Threads :
  \/ Work(t)
  \/ \E l \in Levels, n \in SymbolCounts, r \in Repairs : Call(t, l, n, r)

Spec == Init /\ [][Next]_vars

\* A thread within a call takes its next step when nothing stands in its way.
\* Mutexes are not fair: a waiting thread may be passed over for ever.
Fairness == \A t \in Threads : WF_vars(Work(t))
FairSpec == Spec /\ Fairness

-----------------------------------------------------------------------------
RowsOf(c) == MadeFrom(Rows, c, <<>>)
PlanOf(c) == MadeFrom(Plans, c, RowsOf(c))
CoefficientOf(c) == MadeFrom(Coefficients, c, PlanOf(c))
\* The value of cache l for a call, whoever made it.
Right(l, c) ==
  CASE l = Rows -> RowsOf(c) [] l = Plans -> PlanOf(c) [] l = Coefficients -> CoefficientOf(c)

TypeInv ==
  /\ lock \in [Levels -> Threads \cup {None}]
  /\ DOMAIN entries = Levels
  /\ DOMAIN recent = Threads
  /\ pc \in [Threads -> {"idle", "enter", "looking", "generate", "insert", "inserting", "return"}]
  /\ call \in [Threads -> Calls]
  /\ level \in [Threads -> Levels]
  /\ \A t \in Threads : level[t] <= call[t].top
  /\ DOMAIN value = Threads

\* A mutex is held by the one thread that reads or changes the cache behind
\* it, and by no other.  So a thread holds one lock at most, holds none while
\* it makes a value or waits for another lock, and never asks for one it has:
\* the caches cannot wait on each other, whichever asks whichever.
LockIsForAccess ==
  \A l \in Levels, t \in Threads :
    lock[l] = t <=> level[t] = l /\ pc[t] \in {"looking", "inserting"}

\* A call gets the value made for its own size and repair, made from the plan
\* of that size, made from the rows of that size, although each was looked up
\* in a cache that other threads fill and empty between the steps.
NestedAnswerFits ==
  \A t \in Threads : pc[t] = "return" => value[t] = Right(level[t], call[t])

\* No cache files a key twice or outgrows its capacity.
EntriesOnce ==
  \A l \in Levels :
    /\ \A i, j \in DOMAIN entries[l] : entries[l][i].key = entries[l][j].key => i = j
    /\ Len(entries[l]) <= Capacity[l]

\* The process never stands still: as long as threads are within calls, calls
\* return, even if every value is evicted as soon as it is inserted and even
\* though no mutex is fair.
CallsReturn ==
  []<>(\A t \in Threads : pc[t] = "idle") \/ []<><<\E t \in Threads : Return(t)>>_vars
=============================================================================
