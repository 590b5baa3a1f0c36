----------------------------- MODULE PlanCache -----------------------------
(***************************************************************************)
(* The process-wide caches of pi_solver.rs, encoder.rs and                 *)
(* constraint_matrix.rs, which share one protocol: look up under the       *)
(* lock, generate without it, lock again, look again, evict the oldest     *)
(* entry of a full cache, insert.  The cache of direct plans has a layer   *)
(* in front of it that holds the last small plan of each thread; the       *)
(* cache of hybrid plans meets sizes for which generation fails.           *)
(*                                                                         *)
(* A mutex guards each look-up and each insertion from end to end and      *)
(* nothing is called while it is held, so each is one step.  A plan is     *)
(* known by the size it was made for and by the thread that made it.       *)
(*                                                                         *)
(* Definitions headed "Faulty variant" are not used by the specification:  *)
(* each is a mistake that one of the properties must reveal when it stands *)
(* in for the definition after it.                                         *)
(***************************************************************************)
EXTENDS Integers, Sequences, FiniteSets

CONSTANTS
  Threads,
  SymbolCounts,  \* numbers of source symbols that callers ask for
  Keys,          \* extended sizes, the keys of the cache
  Capacity,
  Unsolvable,    \* keys whose generation fails (hybrid plans only)
  ThreadCached,  \* keys narrow enough for the thread layer (direct plans only)
  None

\* extended_source_block_symbols: the first of the sizes that is large enough.
IsExtended(n, k) == n <= k /\ \A larger \in Keys : n <= larger => k <= larger
Extended == [n \in SymbolCounts |-> CHOOSE k \in Keys : IsExtended(n, k)]

ASSUME KeyAssumption ==
  /\ \A n \in SymbolCounts : \E k \in Keys : IsExtended(n, k)
  /\ Unsolvable \subseteq Keys
  /\ ThreadCached \subseteq Keys
  /\ ThreadCached = {} \/ Unsolvable = {}
  /\ SymbolCounts # {}
ASSUME CapacityAssumption == Capacity \in Nat \ {0}

Plans == [key : Keys, maker : Threads]
ThreadEntries == [key : Keys, plan : Plans]

ASSUME NoneIsNoPlan == None \notin Plans /\ None \notin ThreadEntries /\ None \notin Keys

VARIABLES
  plans,            \* plans[k]: the cached plan of key k, or None
  insertion_order,
  thread_cache,     \* thread_cache[t]: the entry of the thread layer, or None
  pc,               \* pc[t]: the next step of thread t
  asked,            \* asked[t]: the argument of its call
  plan              \* plan[t]: its local variable, in the end its answer

cache == <<plans, insertion_order>>
vars == <<cache, thread_cache, pc, asked, plan>>

Init ==
  /\ plans = [k \in Keys |-> None]
  /\ insertion_order = <<>>
  /\ thread_cache = [t \in Threads |-> None]
  /\ pc = [t \in Threads |-> "idle"]
  /\ asked \in [Threads -> SymbolCounts]
  /\ plan = [t \in Threads |-> None]

-----------------------------------------------------------------------------
\* Faulty variant: the argument itself is the key.
KeyUnextended(t) == asked[t]
Key(t) == Extended[asked[t]]
Cached == {k \in Keys : plans[k] # None}

Goto(t, from, to) == pc[t] = from /\ pc' = [pc EXCEPT ![t] = to]
Answer(t, p) == plan' = [plan EXCEPT ![t] = p]

\* direct_systematic_plan_thread_cache_store
Store(t, p) ==
  thread_cache' = IF Key(t) \in ThreadCached
                  THEN [thread_cache EXCEPT ![t] = [key |-> Key(t), plan |-> p]]
                  ELSE thread_cache

Call(t, n) ==
  /\ Goto(t, "idle", "thread")
  /\ asked' = [asked EXCEPT ![t] = n]
  /\ UNCHANGED <<cache, thread_cache, plan>>

\* Faulty variant: the key of the entry is not compared.
ThreadHasAny(t) == Key(t) \in ThreadCached /\ thread_cache[t] # None
\* direct_systematic_plan_thread_cache_get
ThreadHas(t) ==
  /\ Key(t) \in ThreadCached
  /\ thread_cache[t] # None
  /\ thread_cache[t].key = Key(t)

ThreadHit(t) ==
  /\ Goto(t, "thread", "done")
  /\ ThreadHas(t)
  /\ Answer(t, thread_cache[t].plan)
  /\ UNCHANGED <<cache, thread_cache, asked>>

ThreadMiss(t) ==
  /\ Goto(t, "thread", "lookup")
  /\ ~ThreadHas(t)
  /\ UNCHANGED <<cache, thread_cache, asked, plan>>

LookupHit(t) ==
  /\ Goto(t, "lookup", "done")
  /\ Key(t) \in Cached
  /\ Answer(t, plans[Key(t)])
  /\ Store(t, plans[Key(t)])
  /\ UNCHANGED <<cache, asked>>

LookupMiss(t) ==
  /\ Goto(t, "lookup", "generate")
  /\ Key(t) \notin Cached
  /\ UNCHANGED <<cache, thread_cache, asked, plan>>

Generate(t) ==
  /\ Goto(t, "generate", "insert")
  /\ Key(t) \notin Unsolvable
  /\ Answer(t, [key |-> Key(t), maker |-> t])
  /\ UNCHANGED <<cache, thread_cache, asked>>

GenerateFails(t) ==
  /\ Goto(t, "generate", "done")
  /\ Key(t) \in Unsolvable
  /\ UNCHANGED <<cache, thread_cache, asked, plan>>

-----------------------------------------------------------------------------
\* Faulty variant: another thread's insertion since the look-up is overlooked.
NoSecondLook(t) == FALSE
\* Another thread has inserted the plan since the look-up.
Overtaken(t) == Key(t) \in Cached

\* Faulty variant: the plan that lost the race is answered.
OwnPlan(t) == plan[t]
WinnersPlan(t) == plans[Key(t)]

Full == Cardinality(Cached) >= Capacity

\* Faulty variant: the call is started again once the plan has been inserted.
LookUpAgain == "lookup"
AfterInsert == "done"

InsertOvertaken(t) ==
  /\ Goto(t, "insert", "done")
  /\ Overtaken(t)
  /\ Answer(t, WinnersPlan(t))
  /\ Store(t, WinnersPlan(t))
  /\ UNCHANGED <<cache, asked>>

\* The oldest entry, which a full cache gives up for the new one.
Evicted == IF Full /\ insertion_order # <<>> THEN {Head(insertion_order)} ELSE {}

InsertNew(t) ==
  /\ Goto(t, "insert", AfterInsert)
  /\ ~Overtaken(t)
  /\ insertion_order' = Append(IF Evicted = {} THEN insertion_order ELSE Tail(insertion_order),
                               Key(t))
  /\ plans' = [k \in Keys |-> IF k = Key(t) THEN plan[t]
                              ELSE IF k \in Evicted THEN None ELSE plans[k]]
  /\ Store(t, plan[t])
  /\ UNCHANGED <<asked, plan>>

Return(t) ==
  /\ Goto(t, "done", "idle")
  /\ Answer(t, None)
  /\ UNCHANGED <<cache, thread_cache, asked>>

\* What a thread does by itself, and what it does once it has the mutex.
OwnStep(t) ==
  \/ ThreadHit(t)
  \/ ThreadMiss(t)
  \/ Generate(t)
  \/ GenerateFails(t)
LockedStep(t) ==
  \/ LookupHit(t)
  \/ LookupMiss(t)
  \/ InsertOvertaken(t)
  \/ InsertNew(t)

Work(t) == OwnStep(t) \/ LockedStep(t)

Next == \E t \in Threads : Work(t) \/ Return(t) \/ \E n \in SymbolCounts : Call(t, n)

Spec == Init /\ [][Next]_vars

\* A thread that needs no lock goes on. The mutex is not fair: while threads wait
\* for it some thread gets it, but one of them may be passed over for ever.
\* Whether the caller calls, or calls again, is up to the caller.
Fairness ==
  /\ \A t \in Threads : WF_vars(OwnStep(t))
  /\ WF_vars(\E t \in Threads : LockedStep(t))
FairSpec == Spec /\ Fairness

-----------------------------------------------------------------------------
TypeInv ==
  /\ plans \in [Keys -> Plans \cup {None}]
  /\ insertion_order \in Seq(Keys)
  /\ thread_cache \in [Threads -> ThreadEntries \cup {None}]
  /\ pc \in [Threads -> {"idle", "thread", "lookup", "generate", "insert", "done"}]
  /\ asked \in [Threads -> SymbolCounts]
  /\ plan \in [Threads -> Plans \cup {None}]

\* The map and the queue of one cache never drift apart, however the threads'
\* insertions interleave: the queue lists every cached key exactly once, so
\* that an eviction always frees a place and the capacity is kept for ever.
QueueMatchesPlans ==
  /\ {insertion_order[i] : i \in DOMAIN insertion_order} = Cached
  /\ \A i, j \in DOMAIN insertion_order : insertion_order[i] = insertion_order[j] => i = j
  /\ Len(insertion_order) <= Capacity

\* A call is answered with a plan for the size it asked for, even when other
\* threads have evicted or remade the plan, or the thread layer holds another.
AnswerFitsCall ==
  \A t \in Threads : pc[t] = "done" =>
    IF Key(t) \in Unsolvable THEN plan[t] = None
    ELSE plan[t] # None /\ plan[t].key = Key(t)

\* Threads that raced to generate one plan all leave with the one that is in
\* the cache: an insertion answers the cached plan.
RacersShare ==
  [][\A t \in Threads : pc[t] = "insert" /\ pc'[t] # "insert" =>
       plan'[t] = plans'[Key(t)]]_vars

\* A cached plan that threads may be sharing is never replaced by another of
\* the same size: it stays, or it is evicted.
PlansStable == [][\A k \in Cached : plans'[k] \in {plans[k], None}]_vars

\* No thread can keep another within its call by evicting what that one has just
\* inserted: unless new calls are made for ever, and may take the mutex each
\* time, every call is answered.
CallsAnswered ==
  \/ []<><<\E t \in Threads, n \in SymbolCounts : Call(t, n)>>_vars
  \/ \A t \in Threads : (pc[t] = "thread") ~> (pc[t] = "done")

-----------------------------------------------------------------------------
phaseOf(t) == CASE pc[t] = "idle" -> "idle" [] pc[t] = "done" -> "answered" [] OTHER -> "asked"
answerOf(t) == IF pc[t] = "done" /\ plan[t] # None THEN plan[t].key ELSE None
Service == INSTANCE PlanService WITH
  phase  <- [t \in Threads |-> phaseOf(t)],
  answer <- [t \in Threads |-> answerOf(t)]

\* The cache implements PlanService: to its callers it is a function.
ImplementsService == Service!Spec
=============================================================================
