-------------------------- MODULE PlanCacheProofs --------------------------
(***************************************************************************)
(* Proofs about PlanCache, for any number of threads and keys and any      *)
(* capacity.  The inductive invariant adds PlansFit to the checked         *)
(* invariants: wherever a plan is kept - in the cache, in the thread       *)
(* layer, or in the hands of a thread about to insert it - it was made for *)
(* the key it is kept under.  Without it nothing would tell that a hit is  *)
(* a right answer.                                                         *)
(***************************************************************************)
EXTENDS PlanCache, FiniteSetTheorems, TLAPS

PlansFit ==
  /\ \A k \in Keys : plans[k] # None => plans[k].key = k /\ k \notin Unsolvable
  /\ \A t \in Threads : thread_cache[t] # None =>
       /\ thread_cache[t].plan.key = thread_cache[t].key
       /\ thread_cache[t].key \notin Unsolvable
  /\ \A t \in Threads : pc[t] = "insert" =>
       plan[t] # None /\ plan[t].key = Key(t) /\ Key(t) \notin Unsolvable
  /\ \A t \in Threads : pc[t] \notin {"insert", "done"} => plan[t] = None

Queue == {insertion_order[i] : i \in DOMAIN insertion_order}

IInv == TypeInv /\ QueueMatchesPlans /\ AnswerFitsCall /\ PlansFit

-----------------------------------------------------------------------------
\* Every number that may be asked for has an extended size.
LEMMA ExtendedIsKey == Extended \in [SymbolCounts -> Keys]
<1>1. \A n \in SymbolCounts : (CHOOSE k \in Keys : IsExtended(n, k)) \in Keys
  BY KeyAssumption
<1>2. QED
  BY <1>1 DEF Extended

-----------------------------------------------------------------------------
(* Queues without repetition. *)

LEMMA HeadLeaves ==
  ASSUME NEW T, NEW q \in Seq(T), q # <<>>,
         \A i, j \in DOMAIN q : q[i] = q[j] => i = j
  PROVE  /\ Tail(q) \in Seq(T)
         /\ Len(Tail(q)) = Len(q) - 1
         /\ Head(q) \in {q[i] : i \in DOMAIN q}
         /\ {Tail(q)[i] : i \in DOMAIN Tail(q)} = {q[i] : i \in DOMAIN q} \ {Head(q)}
         /\ \A i, j \in DOMAIN Tail(q) : Tail(q)[i] = Tail(q)[j] => i = j
<1>1. /\ Tail(q) \in Seq(T) /\ Len(q) \in Nat \ {0} /\ Len(Tail(q)) = Len(q) - 1
      /\ Head(q) = q[1] /\ DOMAIN q = 1 .. Len(q) /\ DOMAIN Tail(q) = 1 .. Len(q) - 1
  OBVIOUS
<1>2. \A i \in 1 .. Len(q) - 1 : Tail(q)[i] = q[i + 1]
  OBVIOUS
<1>3. \A i \in 1 .. Len(q) - 1 : i + 1 \in DOMAIN q /\ i + 1 # 1
  BY <1>1
<1>4. \A j \in DOMAIN q : j # 1 => j - 1 \in 1 .. Len(q) - 1 /\ (j - 1) + 1 = j
  BY <1>1
<1>5. {Tail(q)[i] : i \in DOMAIN Tail(q)} \subseteq {q[i] : i \in DOMAIN q} \ {Head(q)}
  BY <1>1, <1>2, <1>3
<1>6. {q[i] : i \in DOMAIN q} \ {Head(q)} \subseteq {Tail(q)[i] : i \in DOMAIN Tail(q)}
  <2> SUFFICES ASSUME NEW j \in DOMAIN q, j # 1
               PROVE  q[j] \in {Tail(q)[i] : i \in DOMAIN Tail(q)}
    BY <1>1
  <2>1. Tail(q)[j - 1] = q[j] /\ j - 1 \in DOMAIN Tail(q)
    BY <1>1, <1>2, <1>4
  <2>2. QED
    BY <2>1
<1>7. ASSUME NEW i \in DOMAIN Tail(q), NEW j \in DOMAIN Tail(q), Tail(q)[i] = Tail(q)[j]
      PROVE  i = j
  <2>1. q[i + 1] = q[j + 1] /\ i + 1 \in DOMAIN q /\ j + 1 \in DOMAIN q
    BY <1>1, <1>2, <1>3, <1>7
  <2>2. i + 1 = j + 1
    BY <2>1
  <2>3. QED
    BY <1>1, <2>2
<1>8. Head(q) \in {q[i] : i \in DOMAIN q}
  BY <1>1
<1>9. QED
  BY <1>1, <1>5, <1>6, <1>7, <1>8

LEMMA NewcomerJoins ==
  ASSUME NEW T, NEW q \in Seq(T), NEW k \in T, k \notin {q[i] : i \in DOMAIN q},
         \A i, j \in DOMAIN q : q[i] = q[j] => i = j
  PROVE  /\ Append(q, k) \in Seq(T)
         /\ Len(Append(q, k)) = Len(q) + 1
         /\ {Append(q, k)[i] : i \in DOMAIN Append(q, k)} = {q[i] : i \in DOMAIN q} \cup {k}
         /\ \A i, j \in DOMAIN Append(q, k) : Append(q, k)[i] = Append(q, k)[j] => i = j
<1> DEFINE a == Append(q, k)
<1>1. /\ a \in Seq(T) /\ Len(q) \in Nat /\ Len(a) = Len(q) + 1
      /\ DOMAIN q = 1 .. Len(q) /\ DOMAIN a = 1 .. Len(q) + 1
  OBVIOUS
<1>2. a[Len(q) + 1] = k /\ \A i \in DOMAIN q : a[i] = q[i]
  OBVIOUS
<1>3. Len(q) + 1 \in DOMAIN a /\ DOMAIN q \subseteq DOMAIN a
      /\ \A i \in DOMAIN a : i \in DOMAIN q \/ i = Len(q) + 1
  BY <1>1
<1> HIDE DEF a
<1>4. {a[i] : i \in DOMAIN a} = {q[i] : i \in DOMAIN q} \cup {k}
  BY <1>2, <1>3
<1>5. \A i, j \in DOMAIN a : a[i] = a[j] => i = j
  BY <1>2, <1>3
<1>6. QED
  BY <1>1, <1>4, <1>5 DEF a

\* A queue without repetition has as many places as members.
LEMMA QueueCounts ==
  ASSUME NEW T, NEW q \in Seq(T), \A i, j \in DOMAIN q : q[i] = q[j] => i = j
  PROVE  Cardinality({q[i] : i \in DOMAIN q}) = Len(q)
<1> DEFINE R == {q[i] : i \in DOMAIN q}
           f == [i \in 1 .. Len(q) |-> q[i]]
<1>1. Len(q) \in Nat /\ DOMAIN q = 1 .. Len(q)
  OBVIOUS
<1>2. f \in Bijection(1 .. Len(q), R)
  BY <1>1 DEF Bijection, Injection, Surjection, IsInjective
<1>3. IsFiniteSet(1 .. Len(q)) /\ Cardinality(1 .. Len(q)) = Len(q)
  BY <1>1, FS_Interval
<1>4. Cardinality(R) = Cardinality(1 .. Len(q))
  BY <1>2, <1>3, FS_Bijection DEF ExistsBijection
<1>5. QED
  BY <1>3, <1>4

-----------------------------------------------------------------------------
(* The insertion of a plan keeps the map and the queue together. *)

LEMMA InsertKeepsQueue ==
  ASSUME TypeInv, QueueMatchesPlans, NEW t \in Threads, plan[t] # None, InsertNew(t)
  PROVE  QueueMatchesPlans' /\ insertion_order' \in Seq(Keys)
<1> DEFINE k == Key(t)
           rest == IF Evicted = {} THEN insertion_order ELSE Tail(insertion_order)
           Members(q) == {q[i] : i \in DOMAIN q}
           Once(q) == \A i, j \in DOMAIN q : q[i] = q[j] => i = j
<1>1. k \in Keys /\ k \notin Cached
  BY ExtendedIsKey DEF TypeInv, Key, InsertNew, Overtaken
<1>2. insertion_order' = Append(rest, k)
  BY DEF InsertNew
<1>3. Cardinality(Cached) = Len(insertion_order) /\ Len(insertion_order) \in Nat
  BY QueueCounts DEF QueueMatchesPlans, TypeInv
<1>4. /\ rest \in Seq(Keys) /\ Once(rest)
      /\ Members(rest) = Cached \ Evicted
      /\ Len(rest) + 1 <= Capacity
  <2>1. CASE Evicted = {}
    <3>1. Len(insertion_order) < Capacity
      BY <1>3, <2>1, CapacityAssumption DEF Evicted, Full, QueueMatchesPlans, TypeInv
    <3>2. QED
      BY <1>3, <2>1, <3>1, CapacityAssumption DEF QueueMatchesPlans, TypeInv
  <2>2. CASE Evicted # {}
    <3>1. insertion_order # <<>> /\ Evicted = {Head(insertion_order)}
      BY <2>2 DEF Evicted
    <3>2. /\ Tail(insertion_order) \in Seq(Keys)
          /\ Len(Tail(insertion_order)) = Len(insertion_order) - 1
          /\ Members(Tail(insertion_order)) = Members(insertion_order) \ {Head(insertion_order)}
          /\ Once(Tail(insertion_order))
      BY <3>1, HeadLeaves DEF QueueMatchesPlans, TypeInv
    <3>3. rest = Tail(insertion_order)
      BY <2>2
    <3>4. Members(insertion_order) = Cached /\ Len(insertion_order) <= Capacity
      BY DEF QueueMatchesPlans
    <3>5. Len(rest) + 1 <= Capacity
      BY <1>3, <3>2, <3>3, <3>4, CapacityAssumption
    <3>6. QED
      BY <3>1, <3>2, <3>3, <3>4, <3>5
  <2>3. QED
    BY <2>1, <2>2
<1> HIDE DEF rest
<1>5. /\ Append(rest, k) \in Seq(Keys) /\ Len(Append(rest, k)) = Len(rest) + 1
      /\ Members(Append(rest, k)) = Members(rest) \cup {k}
      /\ Once(Append(rest, k))
  <2>1. rest \in Seq(Keys) /\ k \in Keys /\ k \notin Members(rest) /\ Once(rest)
    BY <1>1, <1>4
  <2> HIDE DEF k
  <2>2. QED
    BY <2>1, NewcomerJoins
<1>6. Cached' = (Cached \ Evicted) \cup {k}
  BY <1>1 DEF InsertNew, Cached, TypeInv
<1>7. QED
  BY <1>2, <1>4, <1>5, <1>6 DEF QueueMatchesPlans

\* A step that keeps the map and the queue keeps what relates them.
LEMMA QueueKept ==
  ASSUME QueueMatchesPlans, UNCHANGED cache
  PROVE  QueueMatchesPlans'
BY DEF QueueMatchesPlans, cache, Cached

\* Storing the right plan in the thread layer keeps its entries right.
LEMMA StoreFits ==
  ASSUME TypeInv, PlansFit, NEW t \in Threads, NEW p \in Plans, Store(t, p),
         p.key = Key(t), Key(t) \notin Unsolvable
  PROVE  /\ thread_cache' \in [Threads -> ThreadEntries \cup {None}]
         /\ \A u \in Threads : thread_cache'[u] # None =>
              /\ thread_cache'[u].plan.key = thread_cache'[u].key
              /\ thread_cache'[u].key \notin Unsolvable
<1> DEFINE e == [key |-> Key(t), plan |-> p]
<1>1. Key(t) \in Keys
  BY ExtendedIsKey DEF TypeInv, Key
<1>2. e \in ThreadEntries /\ e.plan.key = e.key /\ e.key \notin Unsolvable
  BY <1>1 DEF ThreadEntries
<1>3. thread_cache' = thread_cache \/ thread_cache' = [thread_cache EXCEPT ![t] = e]
  BY DEF Store
<1> HIDE DEF e
<1>4. QED
  BY <1>2, <1>3 DEF TypeInv, PlansFit

-----------------------------------------------------------------------------
LEMMA InitIInv == Init => IInv
<1> SUFFICES ASSUME Init PROVE IInv
  OBVIOUS
<1>1. TypeInv
  BY DEF Init, TypeInv
<1>2. QueueMatchesPlans
  BY CapacityAssumption DEF Init, QueueMatchesPlans, Cached
<1>3. AnswerFitsCall /\ PlansFit
  BY DEF Init, AnswerFitsCall, PlansFit
<1>4. QED
  BY <1>1, <1>2, <1>3 DEF IInv

LEMMA NextIInv == IInv /\ [Next]_vars => IInv'
<1> SUFFICES ASSUME IInv, [Next]_vars PROVE IInv'
  OBVIOUS
<1> USE DEF IInv
<1>1. CASE UNCHANGED vars
  BY <1>1 DEF vars, cache, TypeInv, QueueMatchesPlans, Cached, AnswerFitsCall, PlansFit, Key
<1>2. ASSUME NEW t \in Threads, NEW n \in SymbolCounts, Call(t, n) PROVE IInv'
  <2>1. TypeInv'
    BY <1>2 DEF Call, Goto, TypeInv, cache
  <2>2. QueueMatchesPlans'
    BY <1>2, QueueKept DEF Call
  <2>3. (AnswerFitsCall /\ PlansFit)'
    BY <1>2 DEF Call, Goto, TypeInv, cache, AnswerFitsCall, PlansFit, Key
  <2>4. QED
    BY <2>1, <2>2, <2>3
<1>3. ASSUME NEW t \in Threads, ThreadHit(t) PROVE IInv'
  <2>1. thread_cache[t].plan \in Plans /\ thread_cache[t].plan.key = Key(t)
        /\ Key(t) \notin Unsolvable /\ thread_cache[t].plan # None
    BY <1>3, NoneIsNoPlan DEF ThreadHit, ThreadHas, PlansFit, TypeInv, ThreadEntries
  <2>2. TypeInv'
    BY <1>3, <2>1 DEF ThreadHit, Goto, Answer, TypeInv, cache
  <2>3. QueueMatchesPlans'
    BY <1>3, QueueKept DEF ThreadHit
  <2>4. (AnswerFitsCall /\ PlansFit)'
    BY <1>3, <2>1 DEF ThreadHit, Goto, Answer, TypeInv, cache, AnswerFitsCall, PlansFit, Key
  <2>5. QED
    BY <2>2, <2>3, <2>4
<1>4. ASSUME NEW t \in Threads, ThreadMiss(t) \/ LookupMiss(t) PROVE IInv'
  <2>1. TypeInv'
    BY <1>4 DEF ThreadMiss, LookupMiss, Goto, TypeInv, cache
  <2>2. QueueMatchesPlans'
    BY <1>4, QueueKept DEF ThreadMiss, LookupMiss
  <2>3. (AnswerFitsCall /\ PlansFit)'
    BY <1>4 DEF ThreadMiss, LookupMiss, Goto, TypeInv, cache, AnswerFitsCall, PlansFit, Key
  <2>4. QED
    BY <2>1, <2>2, <2>3
<1>5. ASSUME NEW t \in Threads, LookupHit(t) \/ InsertOvertaken(t) PROVE IInv'
  <2>1. /\ Answer(t, plans[Key(t)]) /\ Store(t, plans[Key(t)])
        /\ UNCHANGED cache /\ asked' = asked
        /\ pc' = [pc EXCEPT ![t] = "done"]
        /\ Key(t) \in Cached
    BY <1>5 DEF LookupHit, InsertOvertaken, WinnersPlan, Overtaken, Goto
  <2>2. /\ plans[Key(t)] \in Plans /\ plans[Key(t)] # None
        /\ plans[Key(t)].key = Key(t) /\ Key(t) \notin Unsolvable
    BY <2>1 DEF Cached, PlansFit, TypeInv
  <2>3. /\ thread_cache' \in [Threads -> ThreadEntries \cup {None}]
        /\ \A u \in Threads : thread_cache'[u] # None =>
             /\ thread_cache'[u].plan.key = thread_cache'[u].key
             /\ thread_cache'[u].key \notin Unsolvable
    BY <2>1, <2>2, StoreFits
  <2>4. TypeInv'
    BY <2>1, <2>2, <2>3 DEF Answer, TypeInv, cache
  <2>5. QueueMatchesPlans'
    BY <2>1, QueueKept
  <2>6. (AnswerFitsCall /\ PlansFit)'
    BY <2>1, <2>2, <2>3 DEF Answer, TypeInv, cache, AnswerFitsCall, PlansFit, Key
  <2>7. QED
    BY <2>4, <2>5, <2>6
<1>6. ASSUME NEW t \in Threads, Generate(t) PROVE IInv'
  <2> DEFINE p == [key |-> Key(t), maker |-> t]
  <2>1. p \in Plans /\ p.key = Key(t)
    BY ExtendedIsKey DEF TypeInv, Key, Plans
  <2>2. p # None
    BY <2>1, NoneIsNoPlan
  <2>3. plan' = [plan EXCEPT ![t] = p]
    BY <1>6 DEF Generate, Answer
  <2> HIDE DEF p
  <2>4. TypeInv'
    BY <1>6, <2>1, <2>3 DEF Generate, Goto, TypeInv, cache
  <2>5. QueueMatchesPlans'
    BY <1>6, QueueKept DEF Generate
  <2>6. (AnswerFitsCall /\ PlansFit)'
    BY <1>6, <2>1, <2>2, <2>3 DEF Generate, Goto, TypeInv, cache, AnswerFitsCall, PlansFit, Key
  <2>7. QED
    BY <2>4, <2>5, <2>6
<1>7. ASSUME NEW t \in Threads, GenerateFails(t) PROVE IInv'
  <2>1. TypeInv'
    BY <1>7 DEF GenerateFails, Goto, TypeInv, cache
  <2>2. QueueMatchesPlans'
    BY <1>7, QueueKept DEF GenerateFails
  <2>3. (AnswerFitsCall /\ PlansFit)'
    BY <1>7 DEF GenerateFails, Goto, TypeInv, cache, AnswerFitsCall, PlansFit, Key
  <2>4. QED
    BY <2>1, <2>2, <2>3
<1>8. ASSUME NEW t \in Threads, InsertNew(t) PROVE IInv'
  <2>1. /\ pc[t] = "insert" /\ pc' = [pc EXCEPT ![t] = "done"]
        /\ Store(t, plan[t]) /\ asked' = asked /\ plan' = plan
        /\ plans' = [k \in Keys |-> IF k = Key(t) THEN plan[t]
                                    ELSE IF k \in Evicted THEN None ELSE plans[k]]
    BY <1>8 DEF InsertNew, Goto, AfterInsert
  <2>2. /\ plan[t] \in Plans /\ plan[t] # None
        /\ plan[t].key = Key(t) /\ Key(t) \notin Unsolvable
    BY <2>1 DEF PlansFit, TypeInv
  <2>3. /\ thread_cache' \in [Threads -> ThreadEntries \cup {None}]
        /\ \A u \in Threads : thread_cache'[u] # None =>
             /\ thread_cache'[u].plan.key = thread_cache'[u].key
             /\ thread_cache'[u].key \notin Unsolvable
    BY <2>1, <2>2, StoreFits
  <2>4. QueueMatchesPlans' /\ insertion_order' \in Seq(Keys)
    BY <1>8, <2>2, InsertKeepsQueue
  <2>5. TypeInv'
    BY <2>1, <2>2, <2>3, <2>4 DEF TypeInv
  <2>6. (AnswerFitsCall /\ PlansFit)'
    BY <2>1, <2>2, <2>3 DEF TypeInv, AnswerFitsCall, PlansFit, Key
  <2>7. QED
    BY <2>4, <2>5, <2>6
<1>9. ASSUME NEW t \in Threads, Return(t) PROVE IInv'
  <2>1. TypeInv'
    BY <1>9 DEF Return, Goto, Answer, TypeInv, cache
  <2>2. QueueMatchesPlans'
    BY <1>9, QueueKept DEF Return
  <2>3. (AnswerFitsCall /\ PlansFit)'
    BY <1>9 DEF Return, Goto, Answer, TypeInv, cache, AnswerFitsCall, PlansFit, Key
  <2>4. QED
    BY <2>1, <2>2, <2>3
<1>10. QED
  BY <1>1, <1>2, <1>3, <1>4, <1>5, <1>6, <1>7, <1>8, <1>9 DEF Next, Work, OwnStep, LockedStep

LEMMA SpecIInv == Spec => []IInv
  BY InitIInv, NextIInv, PTL DEF Spec

\* Every variable keeps its type.
THEOREM TypeCorrect == Spec => []TypeInv
<1>1. IInv => TypeInv
  BY DEF IInv
<1>2. QED
  BY <1>1, SpecIInv, PTL

\* However insertions interleave, the eviction queue lists the cached keys once
\* each and the capacity is never exceeded.
THEOREM QueueCorrect == Spec => []QueueMatchesPlans
<1>1. IInv => QueueMatchesPlans
  BY DEF IInv
<1>2. QED
  BY <1>1, SpecIInv, PTL

\* No call is answered with a plan for another size than it asked for.
THEOREM AnswersCorrect == Spec => []AnswerFitsCall
<1>1. IInv => AnswerFitsCall
  BY DEF IInv
<1>2. QED
  BY <1>1, SpecIInv, PTL

\* A thread leaves an insertion with the plan that is then in the cache.
THEOREM RacersShareCorrect == Spec => RacersShare
<1> DEFINE A == \A t \in Threads : pc[t] = "insert" /\ pc'[t] # "insert" =>
                  plan'[t] = plans'[Key(t)]
<1>1. IInv /\ [Next]_vars => [A]_vars
  <2> SUFFICES ASSUME IInv, NEW u \in Threads, NEW t \in Threads,
                      Work(u) \/ Return(u) \/ \E n \in SymbolCounts : Call(u, n),
                      pc[t] = "insert", pc'[t] # "insert"
               PROVE  plan'[t] = plans'[Key(t)]
    BY DEF Next
  <2> USE DEF IInv, TypeInv, Goto
  <2>1. u = t
    BY DEF Work, OwnStep, LockedStep, ThreadHit, ThreadMiss, LookupHit, LookupMiss, Generate, GenerateFails,
           InsertOvertaken, InsertNew, Return, Call
  <2>2. InsertOvertaken(t) \/ InsertNew(t)
    BY <2>1 DEF Work, OwnStep, LockedStep, ThreadHit, ThreadMiss, LookupHit, LookupMiss, Generate, GenerateFails,
                Return, Call
  <2>3. Key(t) \in Keys
    BY ExtendedIsKey DEF Key
  <2>4. CASE InsertOvertaken(t)
    BY <2>4 DEF InsertOvertaken, WinnersPlan, Answer, cache
  <2>5. CASE InsertNew(t)
    BY <2>3, <2>5 DEF InsertNew
  <2>6. QED
    BY <2>2, <2>4, <2>5
<1>2. QED
  BY <1>1, SpecIInv, PTL DEF Spec, RacersShare

\* A cached plan is only ever evicted, never overwritten.
THEOREM PlansStableCorrect == Spec => PlansStable
<1>1. IInv /\ [Next]_vars => [\A k \in Cached : plans'[k] \in {plans[k], None}]_vars
  <2> SUFFICES ASSUME NEW u \in Threads, NEW k \in Cached,
                      Work(u) \/ Return(u) \/ \E n \in SymbolCounts : Call(u, n)
               PROVE  plans'[k] \in {plans[k], None}
    BY DEF Next
  <2>1. CASE InsertNew(u)
    BY <2>1 DEF InsertNew, Overtaken, Cached
  <2>2. CASE ~InsertNew(u)
    BY <2>2 DEF Work, OwnStep, LockedStep, ThreadHit, ThreadMiss, LookupHit, LookupMiss, Generate, GenerateFails,
                InsertOvertaken, Return, Call, cache
  <2>3. QED
    BY <2>1, <2>2
<1>2. QED
  BY <1>1, SpecIInv, PTL DEF Spec, PlansStable

-----------------------------------------------------------------------------
(* The cache implements PlanService. *)

\* A thread that moves takes its phase along and leaves the others where they are.
LEMMA StepMoves ==
  ASSUME TypeInv, TypeInv', NEW t \in Threads, NEW to, pc' = [pc EXCEPT ![t] = to]
  PROVE  /\ [u \in Threads |-> phaseOf(u)]'
              = [[u \in Threads |-> phaseOf(u)] EXCEPT ![t] = phaseOf(t)']
         /\ \A u \in Threads \ {t} : pc'[u] = pc[u]
         /\ pc'[t] = to
<1>1. \A u \in Threads : u # t => pc'[u] = pc[u]
  BY DEF TypeInv
<1>2. \A u \in Threads : u # t => phaseOf(u)' = phaseOf(u)
  BY <1>1 DEF phaseOf
<1>3. QED
  BY <1>1, <1>2 DEF TypeInv

\* Every step of the cache is a step that the service allows, or invisible to it.
THEOREM ServiceImplemented == Spec => ImplementsService
<1> DEFINE ph == [t \in Threads |-> phaseOf(t)]
           an == [t \in Threads |-> answerOf(t)]
<1>1. Init => Service!Init
  BY DEF Init, Service!Init, phaseOf, answerOf
<1>2. IInv /\ IInv' /\ [Next]_vars => [Service!Next]_<<ph, asked, an>>
  <2> SUFFICES ASSUME IInv, IInv', [Next]_vars
               PROVE  [Service!Next]_<<ph, asked, an>>
    OBVIOUS
  <2> USE DEF IInv
  <2>1. CASE UNCHANGED vars
    BY <2>1 DEF vars, phaseOf, answerOf
  <2>2. ASSUME NEW t \in Threads, NEW n \in SymbolCounts, Call(t, n)
        PROVE  Service!Ask(t, n)
    <3>1. ph' = [ph EXCEPT ![t] = phaseOf(t)'] /\ pc'[t] = "thread"
          /\ \A u \in Threads \ {t} : pc'[u] = pc[u]
      BY <2>2, StepMoves DEF Call, Goto
    <3>2. phaseOf(t) = "idle" /\ phaseOf(t)' = "asked"
      BY <2>2, <3>1 DEF Call, Goto, phaseOf
    <3>3. an' = an
      <4>1. \A u \in Threads : answerOf(u)' = answerOf(u)
        BY <2>2, <3>1 DEF Call, Goto, answerOf
      <4>2. QED
        BY <4>1
    <3>4. QED
      BY <2>2, <3>1, <3>2, <3>3 DEF Call, Service!Ask
  <2>3. ASSUME NEW t \in Threads, Work(t), pc'[t] # "done"
        PROVE  ph' = ph /\ an' = an /\ asked' = asked
    <3>1. /\ asked' = asked
          /\ pc[t] \in {"thread", "lookup", "generate", "insert"}
          /\ pc'[t] \in {"thread", "lookup", "generate", "insert"}
          /\ \A u \in Threads \ {t} : pc'[u] = pc[u] /\ plan'[u] = plan[u]
      BY <2>3 DEF Work, OwnStep, LockedStep, ThreadHit, ThreadMiss, LookupHit, LookupMiss, Generate, GenerateFails,
                  InsertOvertaken, InsertNew, AfterInsert, Goto, Answer, TypeInv
    <3>2. \A u \in Threads : phaseOf(u)' = phaseOf(u) /\ answerOf(u)' = answerOf(u)
      BY <3>1 DEF phaseOf, answerOf
    <3>3. QED
      BY <3>1, <3>2
  <2>4. ASSUME NEW t \in Threads, Work(t), pc'[t] = "done"
        PROVE  Service!Reply(t)
    <3>1. /\ asked' = asked
          /\ pc' = [pc EXCEPT ![t] = "done"]
          /\ pc[t] \in {"thread", "lookup", "generate", "insert"}
          /\ \A u \in Threads \ {t} : plan'[u] = plan[u]
      BY <2>4 DEF Work, OwnStep, LockedStep, ThreadHit, ThreadMiss, LookupHit, LookupMiss, Generate, GenerateFails,
                  InsertOvertaken, InsertNew, AfterInsert, Goto, Answer, TypeInv
    <3>2. ph' = [ph EXCEPT ![t] = phaseOf(t)']
          /\ \A u \in Threads \ {t} : pc'[u] = pc[u]
      BY <3>1, StepMoves
    <3>3. phaseOf(t) = "asked" /\ phaseOf(t)' = "answered"
      BY <2>4, <3>1 DEF phaseOf
    <3>4. answerOf(t)' = IF Extended[asked[t]] \in Unsolvable THEN None ELSE Extended[asked[t]]
      BY <2>4, <3>1 DEF answerOf, AnswerFitsCall, Key
    <3>5. \A u \in Threads \ {t} : answerOf(u)' = answerOf(u)
      BY <3>1, <3>2 DEF answerOf
    <3>6. an' = [an EXCEPT ![t] = IF Extended[asked[t]] \in Unsolvable THEN None
                                 ELSE Extended[asked[t]]]
      BY <3>4, <3>5
    <3>7. QED
      BY <3>1, <3>2, <3>3, <3>6 DEF Service!Reply
  <2>5. ASSUME NEW t \in Threads, Return(t)
        PROVE  Service!Take(t)
    <3>1. ph' = [ph EXCEPT ![t] = phaseOf(t)'] /\ pc'[t] = "idle"
          /\ \A u \in Threads \ {t} : pc'[u] = pc[u]
      BY <2>5, StepMoves DEF Return, Goto
    <3>2. phaseOf(t) = "answered" /\ phaseOf(t)' = "idle" /\ answerOf(t)' = None
      BY <2>5, <3>1 DEF Return, Goto, phaseOf, answerOf
    <3>3. \A u \in Threads \ {t} : answerOf(u)' = answerOf(u)
      BY <2>5, <3>1 DEF Return, Answer, answerOf, TypeInv
    <3>4. an' = [an EXCEPT ![t] = None]
      BY <3>2, <3>3
    <3>5. QED
      BY <2>5, <3>1, <3>2, <3>4 DEF Return, Service!Take
  <2>6. QED
    BY <2>1, <2>2, <2>3, <2>4, <2>5 DEF Next, Service!Next
<1>3. QED
  BY <1>1, <1>2, SpecIInv, PTL DEF Spec, ImplementsService, Service!Spec, Service!vars
=============================================================================
