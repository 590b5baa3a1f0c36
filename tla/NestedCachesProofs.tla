------------------------- MODULE NestedCachesProofs -------------------------
(***************************************************************************)
(* Proofs about NestedCaches, for any number of threads, sizes and         *)
(* repairs and any capacities.  Locks come first: with the types, that a   *)
(* mutex is held for access only is inductive by itself.  For the answers  *)
(* the inductive invariant says of every place where a value is kept - the *)
(* caches, the thread layer, the hands of a thread about to insert or to   *)
(* return - that it is the value of the key it is kept under.              *)
(***************************************************************************)
EXTENDS NestedCaches, TLAPS

Critical == {"looking", "inserting"}

-----------------------------------------------------------------------------
\* Every number that may be asked for has an extended size.
LEMMA ExtendedIsKey == Extended \in [SymbolCounts -> Keys]
<1>1. \A n \in SymbolCounts : (CHOOSE k \in Keys : IsExtended(n, k)) \in Keys
  BY ParameterAssumption
<1>2. QED
  BY <1>1 DEF Extended

\* Every cache has room for an entry.
LEMMA CapacityIsNumber == Capacity \in [Levels -> Nat \ {0}]
<1>1. \A l \in Levels : l = 1 \/ l = 2 \/ l = 3
  BY DEF Levels
<1>2. QED
  BY <1>1, ParameterAssumption DEF Capacity, Levels

-----------------------------------------------------------------------------
(* Locks. *)

LockInv == TypeInv /\ LockIsForAccess

LEMMA SomeCallIsCall == SomeCall \in Calls /\ SomeCall.top \in Levels
<1>1. PICK k \in Keys, r \in Repairs : TRUE
  BY ParameterAssumption
<1>2. [top |-> 1, key |-> k, repair |-> r] \in Calls
  BY DEF Calls, Levels
<1>3. SomeCall \in Calls
  BY <1>2 DEF SomeCall
<1>4. QED
  BY <1>3 DEF Calls

LEMMA InitLockInv == Init => LockInv
<1> SUFFICES ASSUME Init PROVE LockInv
  OBVIOUS
<1> USE SomeCallIsCall, ParameterAssumption DEF Init
<1>1. TypeInv
  BY DEF TypeInv, Levels
<1>2. LockIsForAccess
  BY DEF LockIsForAccess
<1>3. QED
  BY <1>1, <1>2 DEF LockInv

\* A thread that acquires the mutex of the cache it has got to.
LEMMA AcquireKeeps ==
  ASSUME LockInv, NEW t \in Threads, NEW p \in Critical,
         pc[t] \notin Critical, pc' = [pc EXCEPT ![t] = p], Acquire(t), UNCHANGED level
  PROVE  LockIsForAccess' /\ lock' \in [Levels -> Threads \cup {None}]
<1>1. lock \in [Levels -> Threads \cup {None}] /\ level[t] \in Levels /\ DOMAIN pc = Threads
  BY DEF LockInv, TypeInv
<1>2. lock[level[t]] = None /\ lock' = [lock EXCEPT ![level[t]] = t]
  BY DEF Acquire
<1>3. ASSUME NEW l \in Levels, NEW u \in Threads
      PROVE  lock'[l] = u <=> level[u] = l /\ pc'[u] \in Critical
  <2>1. lock[l] = u <=> level[u] = l /\ pc[u] \in Critical
    BY DEF LockInv, LockIsForAccess, Critical
  <2>2. CASE u = t
    BY <1>1, <1>2, <2>1, <2>2
  <2>3. CASE u # t
    BY <1>1, <1>2, <2>1, <2>3, ParameterAssumption
  <2>4. QED
    BY <2>2, <2>3
<1>4. QED
  BY <1>1, <1>2, <1>3 DEF LockIsForAccess, Critical

\* A thread that releases the mutex it holds.
LEMMA ReleaseKeeps ==
  ASSUME LockInv, NEW t \in Threads, NEW p, p \notin Critical,
         pc[t] \in Critical, pc' = [pc EXCEPT ![t] = p], Release(t), UNCHANGED level
  PROVE  LockIsForAccess' /\ lock' \in [Levels -> Threads \cup {None}]
<1>1. lock \in [Levels -> Threads \cup {None}] /\ level[t] \in Levels /\ DOMAIN pc = Threads
  BY DEF LockInv, TypeInv
<1>2. lock' = [lock EXCEPT ![level[t]] = None]
  BY DEF Release
<1>3. ASSUME NEW l \in Levels, NEW u \in Threads
      PROVE  lock'[l] = u <=> level[u] = l /\ pc'[u] \in Critical
  <2>1. lock[l] = u <=> level[u] = l /\ pc[u] \in Critical
    BY DEF LockInv, LockIsForAccess, Critical
  <2>2. lock[level[t]] = t
    BY <1>1 DEF LockInv, LockIsForAccess, Critical
  <2>3. CASE u = t
    BY <1>1, <1>2, <2>1, <2>3, ParameterAssumption
  <2>4. CASE u # t
    BY <1>1, <1>2, <2>1, <2>2, <2>4, ParameterAssumption
  <2>5. QED
    BY <2>3, <2>4
<1>4. QED
  BY <1>1, <1>2, <1>3 DEF LockIsForAccess, Critical

\* A thread outside the critical sections that stays outside, and holds nothing.
LEMMA OutsideKeeps ==
  ASSUME LockInv, NEW t \in Threads, NEW p, p \notin Critical, NEW k \in Levels,
         pc[t] \notin Critical, pc' = [pc EXCEPT ![t] = p],
         level' = [level EXCEPT ![t] = k], UNCHANGED lock
  PROVE  LockIsForAccess'
<1>1. DOMAIN pc = Threads /\ DOMAIN level = Threads
  BY DEF LockInv, TypeInv
<1>2. ASSUME NEW l \in Levels, NEW u \in Threads
      PROVE  lock'[l] = u <=> level'[u] = l /\ pc'[u] \in Critical
  <2>1. lock[l] = u <=> level[u] = l /\ pc[u] \in Critical
    BY DEF LockInv, LockIsForAccess, Critical
  <2>2. QED
    BY <1>1, <2>1
<1>3. QED
  BY <1>2 DEF LockIsForAccess, Critical

LEMMA NextLockInv == LockInv /\ [Next]_vars => LockInv'
<1> SUFFICES ASSUME LockInv, [Next]_vars PROVE LockInv'
  OBVIOUS
<1> USE DEF Critical
<1>0. TypeInv /\ \A t \in Threads : level[t] \in Levels /\ call[t] \in Calls /\ call[t].top \in Levels
  BY DEF LockInv, TypeInv, Calls
<1>1. CASE UNCHANGED vars
  BY <1>1 DEF vars, LockInv, TypeInv, LockIsForAccess
<1>2. ASSUME NEW t \in Threads, NEW l \in Levels, NEW n \in SymbolCounts, NEW r \in Repairs, Call(t, l, n, r)
      PROVE  LockInv'
  <2>1. [top |-> l, key |-> Extended[n], repair |-> r] \in Calls
    BY ExtendedIsKey DEF Calls
  <2>2. TypeInv'
    BY <1>0, <1>2, <2>1 DEF Call, Goto, TypeInv, Levels
  <2>3. LockIsForAccess'
    BY <1>2, OutsideKeeps DEF Call, Goto
  <2>4. QED
    BY <2>2, <2>3 DEF LockInv
<1>3. ASSUME NEW t \in Threads, ThreadHit(t) PROVE LockInv'
  <2>1. TypeInv'
    BY <1>0, <1>3 DEF ThreadHit, Goto, TypeInv
  <2>2. level' = [level EXCEPT ![t] = level[t]]
    BY <1>0, <1>3 DEF ThreadHit, TypeInv
  <2>3. LockIsForAccess'
    BY <1>0, <1>3, <2>2, OutsideKeeps DEF ThreadHit, Goto
  <2>4. QED
    BY <2>1, <2>3 DEF LockInv
<1>4. ASSUME NEW t \in Threads, LockToLookUp(t) \/ LockToInsert(t) PROVE LockInv'
  <2>1. LockIsForAccess' /\ lock' \in [Levels -> Threads \cup {None}]
    BY <1>4, AcquireKeeps DEF LockToLookUp, LockToInsert, Goto
  <2>2. TypeInv'
    BY <1>0, <1>4, <2>1 DEF LockToLookUp, LockToInsert, Goto, TypeInv
  <2>3. QED
    BY <2>1, <2>2 DEF LockInv
<1>5. ASSUME NEW t \in Threads, LookupHit(t) \/ LookupMiss(t) \/ InsertOvertaken(t) \/ InsertNew(t) PROVE LockInv'
  <2>1. LockIsForAccess' /\ lock' \in [Levels -> Threads \cup {None}]
    BY <1>5, ReleaseKeeps DEF LookupHit, LookupMiss, LeaveLookup, InsertOvertaken, InsertNew, AfterInsert, Goto
  <2>2. DOMAIN entries' = Levels
    BY <1>0, <1>5 DEF LookupHit, LookupMiss, InsertOvertaken, InsertNew, TypeInv
  <2>3. DOMAIN recent' = Threads
    BY <1>0, <1>5 DEF LookupHit, LookupMiss, InsertOvertaken, InsertNew, Take, Store, TypeInv
  <2>4. DOMAIN value' = Threads
    BY <1>0, <1>5 DEF LookupHit, LookupMiss, InsertOvertaken, InsertNew, Take, TypeInv
  <2>5. UNCHANGED <<call, level>> /\ pc' \in [Threads -> {"idle", "enter", "looking", "generate", "insert", "inserting", "return"}]
    BY <1>0, <1>5 DEF LookupHit, LookupMiss, InsertOvertaken, InsertNew, AfterInsert, Goto, TypeInv
  <2>6. TypeInv'
    BY <1>0, <2>1, <2>2, <2>3, <2>4, <2>5 DEF TypeInv
  <2>7. QED
    BY <2>1, <2>6 DEF LockInv
<1>6. ASSUME NEW t \in Threads, AskBelow(t) PROVE LockInv'
  <2>1. level[t] - 1 \in Levels /\ level[t] - 1 <= call[t].top
    BY <1>0, <1>6 DEF AskBelow, Rows, Levels, TypeInv
  <2>2. TypeInv'
    BY <1>0, <1>6, <2>1 DEF AskBelow, Goto, TypeInv
  <2>3. LockIsForAccess'
    BY <1>6, <2>1, OutsideKeeps DEF AskBelow, Goto
  <2>4. QED
    BY <2>2, <2>3 DEF LockInv
<1>7. ASSUME NEW t \in Threads, GenerateRows(t) PROVE LockInv'
  <2>1. TypeInv'
    BY <1>0, <1>7 DEF GenerateRows, Goto, TypeInv
  <2>2. level' = [level EXCEPT ![t] = level[t]]
    BY <1>0, <1>7 DEF GenerateRows, TypeInv
  <2>3. LockIsForAccess'
    BY <1>0, <1>7, <2>2, OutsideKeeps DEF GenerateRows, Goto
  <2>4. QED
    BY <2>1, <2>3 DEF LockInv
<1>8. ASSUME NEW t \in Threads, GenerateFrom(t) PROVE LockInv'
  <2>1. level[t] + 1 \in Levels /\ level[t] + 1 <= call[t].top
    BY <1>0, <1>8 DEF GenerateFrom, Levels
  <2>2. TypeInv'
    BY <1>0, <1>8, <2>1 DEF GenerateFrom, Goto, TypeInv
  <2>3. LockIsForAccess'
    BY <1>8, <2>1, OutsideKeeps DEF GenerateFrom, Goto
  <2>4. QED
    BY <2>2, <2>3 DEF LockInv
<1>9. ASSUME NEW t \in Threads, Return(t) PROVE LockInv'
  <2>1. TypeInv'
    BY <1>0, <1>9, SomeCallIsCall DEF Return, Goto, TypeInv, Levels
  <2>2. LockIsForAccess'
    BY <1>9, SomeCallIsCall, OutsideKeeps DEF Return, Goto
  <2>3. QED
    BY <2>1, <2>2 DEF LockInv
<1>10. QED
  BY <1>1, <1>2, <1>3, <1>4, <1>5, <1>6, <1>7, <1>8, <1>9 DEF Next, Work

LEMMA SpecLockInv == Spec => []LockInv
  BY InitLockInv, NextLockInv, PTL DEF Spec

\* The variables keep their types, and a thread never gets above the cache it
\* asked or below the cache of rows.
THEOREM TypeCorrect == Spec => []TypeInv
<1>1. LockInv => TypeInv
  BY DEF LockInv
<1>2. QED
  BY <1>1, SpecLockInv, PTL

\* A mutex is held by the thread that reads or changes the cache behind it and
\* by no other, so that no thread waits for a lock while it holds one.
THEOREM LocksCorrect == Spec => []LockIsForAccess
<1>1. LockInv => LockIsForAccess
  BY DEF LockInv
<1>2. QED
  BY <1>1, SpecLockInv, PTL

-----------------------------------------------------------------------------
(* Answers. *)

AllKeys == {KeyAt(l, c) : l \in Levels, c \in Calls}
AllValues == {Right(l, c) : l \in Levels, c \in Calls}
Entries == [key : AllKeys, value : AllValues]

\* An entry of cache l holds the value of its key.
Fits(l, e) == \A c \in Calls : e.key = KeyAt(l, c) => e.value = Right(l, c)

DataFits ==
  /\ \A l \in Levels : entries[l] \in Seq(Entries)
  /\ \A l \in Levels : \A i \in DOMAIN entries[l] : Fits(l, entries[l][i])
  /\ \A t \in Threads : \A e \in recent[t] : Fits(Plans, e)
  /\ \A t \in Threads : pc[t] \in {"insert", "inserting", "return"} =>
       value[t] = Right(level[t], call[t])

AnswerInv == LockInv /\ DataFits

LEMMA KeyDetermines ==
  ASSUME NEW l \in Levels, NEW c \in Calls, NEW d \in Calls, KeyAt(l, c) = KeyAt(l, d)
  PROVE  Right(l, c) = Right(l, d)
<1>1. c.key = d.key
  BY DEF KeyAt
<1>2. RowsOf(c) = RowsOf(d) /\ PlanOf(c) = PlanOf(d)
  BY <1>1 DEF RowsOf, PlanOf, MadeFrom, Rows, Plans, Coefficients
<1>3. ASSUME l = Coefficients PROVE CoefficientOf(c) = CoefficientOf(d)
  <2>1. c.repair = d.repair
    BY <1>3 DEF KeyAt
  <2>2. QED
    BY <1>1, <1>2, <2>1 DEF CoefficientOf, MadeFrom, Coefficients
<1>4. QED
  BY <1>2, <1>3 DEF Right, Levels, Rows, Plans, Coefficients

LEMMA RightAbove ==
  ASSUME NEW l \in Levels, NEW c \in Calls, l + 1 \in Levels
  PROVE  MadeFrom(l + 1, c, Right(l, c)) = Right(l + 1, c)
<1>1. CASE l = 1
  <2>1. Right(1, c) = RowsOf(c) /\ Right(2, c) = PlanOf(c)
    BY DEF Right, Rows, Plans, Coefficients
  <2>2. QED
    BY <1>1, <2>1 DEF PlanOf, Plans
<1>2. CASE l = 2
  <2>1. Right(2, c) = PlanOf(c) /\ Right(3, c) = CoefficientOf(c)
    BY DEF Right, Rows, Plans, Coefficients
  <2>2. QED
    BY <1>2, <2>1 DEF CoefficientOf, Coefficients
<1>3. QED
  BY <1>1, <1>2 DEF Levels

\* The entry that a thread makes of a right value fits.
LEMMA NewEntryFits ==
  ASSUME NEW l \in Levels, NEW c \in Calls, NEW v, v = Right(l, c)
  PROVE  /\ [key |-> KeyAt(l, c), value |-> v] \in Entries
         /\ Fits(l, [key |-> KeyAt(l, c), value |-> v])
<1>1. KeyAt(l, c) \in AllKeys /\ v \in AllValues
  BY DEF AllKeys, AllValues
<1>2. \A d \in Calls : KeyAt(l, c) = KeyAt(l, d) => v = Right(l, d)
  BY KeyDetermines
<1>3. QED
  BY <1>1, <1>2 DEF Entries, Fits

\* Neither evicting the oldest entry nor appending a fitting one harms a cache.
LEMMA EntriesKeepFitting ==
  ASSUME NEW l, NEW q \in Seq(Entries), \A i \in DOMAIN q : Fits(l, q[i])
  PROVE  /\ q # <<>> => Tail(q) \in Seq(Entries) /\ \A i \in DOMAIN Tail(q) : Fits(l, Tail(q)[i])
         /\ \A e \in Entries : Fits(l, e) =>
              Append(q, e) \in Seq(Entries) /\ \A i \in DOMAIN Append(q, e) : Fits(l, Append(q, e)[i])
<1>1. ASSUME q # <<>> PROVE Tail(q) \in Seq(Entries) /\ \A i \in DOMAIN Tail(q) : Fits(l, Tail(q)[i])
  <2>1. Tail(q) \in Seq(Entries) /\ \A i \in DOMAIN Tail(q) : i + 1 \in DOMAIN q /\ Tail(q)[i] = q[i + 1]
    BY <1>1
  <2>2. QED
    BY <2>1
<1>2. ASSUME NEW e \in Entries, Fits(l, e)
      PROVE  Append(q, e) \in Seq(Entries) /\ \A i \in DOMAIN Append(q, e) : Fits(l, Append(q, e)[i])
  <2>1. Append(q, e) \in Seq(Entries)
        /\ \A i \in DOMAIN Append(q, e) : (i \in DOMAIN q /\ Append(q, e)[i] = q[i]) \/ Append(q, e)[i] = e
    OBVIOUS
  <2>2. QED
    BY <1>2, <2>1
<1>3. QED
  BY <1>1, <1>2

LEMMA StoreKeepsFitting ==
  ASSUME AnswerInv, NEW t \in Threads, NEW v, v = Right(level[t], call[t]), Store(t, v)
  PROVE  \A u \in Threads : \A e \in recent'[u] : Fits(Plans, e)
<1>1. level[t] \in Levels /\ call[t] \in Calls /\ DOMAIN recent = Threads
  BY DEF AnswerInv, LockInv, TypeInv
<1>2. CASE level[t] = Plans /\ call[t].key \in ThreadCached
  <2> DEFINE e == [key |-> Key(t), value |-> v]
  <2>1. Fits(Plans, e)
    BY <1>1, <1>2, NewEntryFits DEF Key
  <2> HIDE DEF e
  <2>2. recent' = [recent EXCEPT ![t] = {e}]
    BY <1>2 DEF Store, e
  <2>3. QED
    BY <1>1, <2>1, <2>2 DEF AnswerInv, DataFits
<1>3. CASE ~(level[t] = Plans /\ call[t].key \in ThreadCached)
  BY <1>3 DEF Store, AnswerInv, DataFits
<1>4. QED
  BY <1>2, <1>3

\* What a thread takes out of a cache is right, and the thread layer with it.
LEMMA TakeFits ==
  ASSUME AnswerInv, NEW t \in Threads, Take(t)
  PROVE  /\ value' = [value EXCEPT ![t] = Right(level[t], call[t])]
         /\ \A u \in Threads : \A e \in recent'[u] : Fits(Plans, e)
<1>1. level[t] \in Levels /\ call[t] \in Calls
  BY DEF AnswerInv, LockInv, TypeInv
<1>2. PICK i \in Filed(t) :
        value' = [value EXCEPT ![t] = EntriesOf(t)[i].value] /\ Store(t, EntriesOf(t)[i].value)
  BY DEF Take
<1>3. i \in DOMAIN entries[level[t]] /\ entries[level[t]][i].key = KeyAt(level[t], call[t])
  BY <1>2 DEF Filed, EntriesOf, Key
<1>4. EntriesOf(t)[i].value = Right(level[t], call[t])
  BY <1>1, <1>3 DEF AnswerInv, DataFits, Fits, EntriesOf
<1>5. QED
  BY <1>2, <1>4, StoreKeepsFitting

LEMMA InitAnswerInv == Init => AnswerInv
<1> SUFFICES ASSUME Init PROVE DataFits
  BY InitLockInv DEF AnswerInv
<1>1. \A l \in Levels : entries[l] = <<>>
  BY DEF Init
<1>2. QED
  BY <1>1 DEF Init, DataFits

LEMMA NextAnswerInv == AnswerInv /\ [Next]_vars => AnswerInv'
<1> SUFFICES ASSUME AnswerInv, [Next]_vars PROVE DataFits'
  BY NextLockInv DEF AnswerInv
<1>0. /\ \A t \in Threads : level[t] \in Levels /\ call[t] \in Calls
      /\ DOMAIN pc = Threads /\ DOMAIN call = Threads /\ DOMAIN level = Threads
      /\ DOMAIN value = Threads /\ DOMAIN recent = Threads /\ DOMAIN entries = Levels
  BY DEF AnswerInv, LockInv, TypeInv
<1>a. DataFits
  BY DEF AnswerInv
<1>1. CASE UNCHANGED vars
  BY <1>a, <1>1 DEF vars, DataFits
<1>2. ASSUME NEW t \in Threads, NEW l \in Levels, NEW n \in SymbolCounts, NEW r \in Repairs, Call(t, l, n, r)
      PROVE  DataFits'
  BY <1>0, <1>a, <1>2 DEF Call, Goto, DataFits
<1>3. ASSUME NEW t \in Threads, ThreadHit(t) PROVE DataFits'
  <2>1. PICK e \in ThreadHits(t) : value' = [value EXCEPT ![t] = e.value]
    BY <1>3 DEF ThreadHit
  <2>2. level[t] = Plans /\ e \in recent[t] /\ e.key = KeyAt(level[t], call[t])
    BY <2>1 DEF ThreadHits, Key
  <2>3. e.value = Right(level[t], call[t])
    BY <1>0, <1>a, <2>2 DEF DataFits, Fits
  <2>4. QED
    BY <1>0, <1>a, <1>3, <2>1, <2>3 DEF ThreadHit, Goto, DataFits
<1>4. ASSUME NEW t \in Threads, LockToLookUp(t) \/ LookupMiss(t) PROVE DataFits'
  BY <1>0, <1>a, <1>4 DEF LockToLookUp, LookupMiss, Goto, DataFits
<1>5. ASSUME NEW t \in Threads, LockToInsert(t) PROVE DataFits'
  BY <1>0, <1>a, <1>5 DEF LockToInsert, Goto, DataFits
<1>6. ASSUME NEW t \in Threads, LookupHit(t) \/ InsertOvertaken(t) PROVE DataFits'
  <2>1. Take(t) /\ pc' = [pc EXCEPT ![t] = "return"] /\ UNCHANGED <<entries, call, level>>
    BY <1>6 DEF LookupHit, InsertOvertaken, AfterInsert, Goto
  <2>2. /\ value' = [value EXCEPT ![t] = Right(level[t], call[t])]
        /\ \A u \in Threads : \A e \in recent'[u] : Fits(Plans, e)
    BY <2>1, TakeFits
  <2>3. QED
    BY <1>0, <1>a, <2>1, <2>2 DEF DataFits
<1>7. ASSUME NEW t \in Threads, AskBelow(t) PROVE DataFits'
  BY <1>0, <1>a, <1>7 DEF AskBelow, Goto, DataFits
<1>8. ASSUME NEW t \in Threads, GenerateRows(t) PROVE DataFits'
  <2>1. MadeFrom(Rows, call[t], <<>>) = Right(level[t], call[t])
    BY <1>8 DEF GenerateRows, Right, RowsOf, Rows, Plans, Coefficients
  <2>2. QED
    BY <1>0, <1>a, <1>8, <2>1 DEF GenerateRows, Goto, DataFits
<1>9. ASSUME NEW t \in Threads, GenerateFrom(t) PROVE DataFits'
  <2>1. level[t] + 1 \in Levels
    BY <1>0, <1>9 DEF AnswerInv, LockInv, TypeInv, GenerateFrom, Calls, Levels
  <2>2. value[t] = Right(level[t], call[t])
    BY <1>a, <1>9 DEF GenerateFrom, Goto, DataFits
  <2>3. MadeFrom(level[t] + 1, call[t], value[t]) = Right(level[t] + 1, call[t])
    BY <1>0, <2>1, <2>2, RightAbove
  <2>4. QED
    BY <1>0, <1>a, <1>9, <2>3 DEF GenerateFrom, Goto, DataFits
<1>10. ASSUME NEW t \in Threads, InsertNew(t) PROVE DataFits'
  <2> DEFINE e == [key |-> Key(t), value |-> value[t]]
             kept == IF Len(EntriesOf(t)) >= Capacity[level[t]] THEN Tail(EntriesOf(t)) ELSE EntriesOf(t)
  <2>1. value[t] = Right(level[t], call[t])
    BY <1>a, <1>10 DEF InsertNew, Goto, DataFits
  <2>2. e \in Entries /\ Fits(level[t], e)
    BY <1>0, <2>1, NewEntryFits DEF Key
  <2>3. EntriesOf(t) \in Seq(Entries) /\ \A i \in DOMAIN EntriesOf(t) : Fits(level[t], EntriesOf(t)[i])
    BY <1>0, <1>a DEF EntriesOf, DataFits
  <2>4. Len(EntriesOf(t)) >= Capacity[level[t]] => EntriesOf(t) # <<>>
    BY <1>0, <2>3, CapacityIsNumber
  <2>5. kept \in Seq(Entries) /\ \A i \in DOMAIN kept : Fits(level[t], kept[i])
    BY <2>3, <2>4, EntriesKeepFitting
  <2>6. entries' = [entries EXCEPT ![level[t]] = Append(kept, e)]
    BY <1>10 DEF InsertNew
  <2> HIDE DEF e, kept
  <2>7. Append(kept, e) \in Seq(Entries) /\ \A i \in DOMAIN Append(kept, e) : Fits(level[t], Append(kept, e)[i])
    BY <2>2, <2>5, EntriesKeepFitting
  <2>8. \A l \in Levels : entries'[l] \in Seq(Entries) /\ \A i \in DOMAIN entries'[l] : Fits(l, entries'[l][i])
    BY <1>0, <1>a, <2>6, <2>7 DEF DataFits
  <2>9. \A u \in Threads : \A x \in recent'[u] : Fits(Plans, x)
    BY <1>10, <2>1, StoreKeepsFitting DEF InsertNew
  <2>10. QED
    BY <1>0, <1>a, <1>10, <2>1, <2>8, <2>9 DEF InsertNew, AfterInsert, Goto, DataFits
<1>11. ASSUME NEW t \in Threads, Return(t) PROVE DataFits'
  BY <1>0, <1>a, <1>11 DEF Return, Goto, DataFits
<1>12. QED
  BY <1>1, <1>2, <1>3, <1>4, <1>5, <1>6, <1>7, <1>8, <1>9, <1>10, <1>11 DEF Next, Work

\* A call is answered with the value made for its own size and repair from the
\* right values below, whatever other threads do to the caches meanwhile.
THEOREM AnswersCorrect == Spec => []NestedAnswerFits
<1>1. AnswerInv => NestedAnswerFits
  BY DEF AnswerInv, DataFits, NestedAnswerFits
<1>2. Spec => []AnswerInv
  BY InitAnswerInv, NextAnswerInv, PTL DEF Spec
<1>3. QED
  BY <1>1, <1>2, PTL

-----------------------------------------------------------------------------
(* Entries. *)

\* A queue whose keys differ, its oldest entry evicted if it is full, takes an
\* entry of another key.
LEMMA QueueTakesKey ==
  ASSUME NEW T, NEW q \in Seq(T), NEW e \in T, NEW n \in Nat \ {0},
         \A i, j \in DOMAIN q : q[i].key = q[j].key => i = j,
         \A i \in DOMAIN q : q[i].key # e.key,
         Len(q) <= n
  PROVE  LET kept == IF Len(q) >= n THEN Tail(q) ELSE q
             r == Append(kept, e)
         IN  /\ \A i, j \in DOMAIN r : r[i].key = r[j].key => i = j
             /\ Len(r) <= n
<1> DEFINE kept == IF Len(q) >= n THEN Tail(q) ELSE q
           r == Append(kept, e)
           d == IF Len(q) >= n THEN 1 ELSE 0
<1>1. Len(q) \in Nat /\ DOMAIN q = 1 .. Len(q) /\ d \in {0, 1}
  OBVIOUS
<1>2. kept \in Seq(T) /\ Len(kept) = Len(q) - d /\ Len(kept) < n
  BY <1>1
<1>3. \A i \in 1 .. Len(q) - d : i + d \in DOMAIN q /\ kept[i] = q[i + d]
  BY <1>1
<1> HIDE DEF kept, d
<1>4. /\ Len(r) = Len(q) - d + 1 /\ DOMAIN r = 1 .. Len(q) - d + 1
      /\ r[Len(q) - d + 1] = e /\ \A i \in 1 .. Len(q) - d : r[i] = kept[i]
  BY <1>2
<1> HIDE DEF r
<1>5. Len(r) <= n
  BY <1>1, <1>2, <1>4
<1>6. ASSUME NEW i \in DOMAIN r, NEW j \in DOMAIN r, r[i].key = r[j].key PROVE i = j
  <2>1. \A m \in DOMAIN r : m = Len(q) - d + 1 \/ m \in 1 .. Len(q) - d
    BY <1>1, <1>4
  <2>2. CASE i \in 1 .. Len(q) - d /\ j \in 1 .. Len(q) - d
    <3>1. q[i + d].key = q[j + d].key /\ i + d \in DOMAIN q /\ j + d \in DOMAIN q
      BY <1>3, <1>4, <1>6, <2>2
    <3>2. i + d = j + d
      BY <3>1
    <3>3. QED
      BY <1>1, <2>2, <3>2
  <2>3. CASE i = Len(q) - d + 1 /\ j \in 1 .. Len(q) - d
    BY <1>3, <1>4, <1>6, <2>3
  <2>4. CASE j = Len(q) - d + 1 /\ i \in 1 .. Len(q) - d
    BY <1>3, <1>4, <1>6, <2>4
  <2>5. QED
    BY <2>1, <2>2, <2>3, <2>4
<1>7. QED
  BY <1>5, <1>6 DEF r, kept

LEMMA InitEntriesOnce == Init => EntriesOnce
<1> SUFFICES ASSUME Init PROVE EntriesOnce
  OBVIOUS
<1>1. \A l \in Levels : entries[l] = <<>> /\ Capacity[l] \in Nat
  BY CapacityIsNumber DEF Init
<1>2. QED
  BY <1>1 DEF EntriesOnce

LEMMA NextEntriesOnce == AnswerInv /\ EntriesOnce /\ [Next]_vars => EntriesOnce'
<1> SUFFICES ASSUME AnswerInv, EntriesOnce, [Next]_vars PROVE EntriesOnce'
  OBVIOUS
<1>1. ASSUME UNCHANGED entries PROVE EntriesOnce'
  BY <1>1 DEF EntriesOnce
<1>2. ASSUME NEW t \in Threads, InsertNew(t) PROVE EntriesOnce'
  <2> DEFINE e == [key |-> Key(t), value |-> value[t]]
             q == EntriesOf(t)
             n == Capacity[level[t]]
             r == Append(IF Len(q) >= n THEN Tail(q) ELSE q, e)
  <2>1. level[t] \in Levels /\ call[t] \in Calls /\ DOMAIN entries = Levels
    BY DEF AnswerInv, LockInv, TypeInv
  <2>2. q \in Seq(Entries) /\ n \in Nat \ {0} /\ Len(q) <= n
        /\ \A i, j \in DOMAIN q : q[i].key = q[j].key => i = j
    BY <2>1, CapacityIsNumber DEF AnswerInv, DataFits, EntriesOf, EntriesOnce
  <2>3. \A i \in DOMAIN q : q[i].key # e.key
    BY <1>2 DEF InsertNew, Overtaken, Filed
  <2>4. e \in Entries
    BY <1>2, <2>1, NewEntryFits DEF InsertNew, Goto, AnswerInv, DataFits, Key
  <2>5. entries' = [entries EXCEPT ![level[t]] = r]
    BY <1>2 DEF InsertNew
  <2> HIDE DEF e, q, n
  <2>6. (\A i, j \in DOMAIN r : r[i].key = r[j].key => i = j) /\ Len(r) <= n
    BY <2>2, <2>3, <2>4, QueueTakesKey
  <2> HIDE DEF r
  <2>7. QED
    BY <2>1, <2>5, <2>6 DEF EntriesOnce, n
<1>3. ASSUME NEW t \in Threads, Work(t), ~InsertNew(t) PROVE UNCHANGED entries
  BY <1>3 DEF Work, ThreadHit, LockToLookUp, LookupHit, LookupMiss, AskBelow, GenerateRows,
              GenerateFrom, LockToInsert, InsertOvertaken, Return
<1>4. QED
  BY <1>1, <1>2, <1>3 DEF Next, Call, vars

\* No cache files a key twice or outgrows its capacity.
THEOREM EntriesCorrect == Spec => []EntriesOnce
<1>1. Init => AnswerInv /\ EntriesOnce
  BY InitAnswerInv, InitEntriesOnce
<1>2. AnswerInv /\ EntriesOnce /\ [Next]_vars => (AnswerInv /\ EntriesOnce)'
  BY NextAnswerInv, NextEntriesOnce
<1>3. QED
  BY <1>1, <1>2, PTL DEF Spec
=============================================================================
