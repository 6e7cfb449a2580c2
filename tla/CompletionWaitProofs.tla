------------------------ MODULE CompletionWaitProofs -------------------------
(***************************************************************************)
(* Theorems about CompletionWait for every number of external threads,     *)
(* workers, slots of the pool and waiter slots: no wake-up is lost, the    *)
(* registrations and the counters are exact, and wait() returns only for a *)
(* finished task.                                                          *)
(*                                                                         *)
(* The inductive invariant is proved in layers, each one relying on those  *)
(* before it:                                                              *)
(*   PlaceInv    the types, and what each place in the code implies        *)
(*   BookInv     WaiterBookkeeping: who is registered, and in which slot   *)
(*   SlotInv     a slot of the pool has one holder, whose generation is    *)
(*               the slot's                                                *)
(*   ReservedInv a slot being filled by submit() is nobody else's          *)
(*   IssueInv    a handle's generation is its slot's until its body is over *)
(*   WaiterCounts, OutstandingCount                                        *)
(*               handle_waiters_, all_waiters_ and outstanding_ are exact  *)
(*   AnswerInv   what is_complete_internal() concludes is true             *)
(*   HandleInv, IdleInv   the two wake-up properties, extended to the      *)
(*               moment between the predicate and the sleep                *)
(***************************************************************************)
EXTENDS CompletionWait, FiniteSetTheorems, TLAPS

Places == {"idle", "acquire", "construct", "rethrow", "inline", "generation", "state", "recheck",
           "register", "count", "lock", "sleep", "asleep", "leave", "unregister", "countAll", "outstanding"}
Stages == {"idle", "body", "bumpGeneration", "freeSlot", "decrement", "readWaiters",
           "readOverflow", "scan", "readAll", "lock", "notify"}
States == {"Free", "Queued", "Executing", "Completed"}
Index == 1 .. WaiterSlots + 1

PoolType ==
    /\ generation \in [Slots -> Nat]
    /\ state \in [Slots -> States]
    /\ free \subseteq Slots
    /\ ready \subseteq Handle
    /\ reserved \in [Threads -> Handle \cup {Idle}]
    /\ issued \subseteq Handle
    /\ finished \subseteq Handle
    /\ submitted \in Nat
    /\ untoldZero \in BOOLEAN

CountType ==
    /\ outstanding \in Int
    /\ handleWaiters \in Int
    /\ allWaiters \in Int
    /\ overflow \in Int
    /\ waited \in [1 .. WaiterSlots -> Slots \cup {NoIndex}]

ThreadType ==
    /\ mutex \in Threads \cup {Nobody}
    /\ asleep \subseteq Threads
    /\ epc \in [Threads -> Places]
    /\ target \in [Threads -> Handle \cup {Idle}]
    /\ seen \in [Threads -> States]
    /\ reg \in [Threads -> Index]

WorkerType ==
    /\ wpc \in [Workers -> Stages]
    /\ whandle \in [Workers -> Handle \cup {Idle}]
    /\ wremaining \in [Workers -> Int]
    /\ wwake \in [Workers -> BOOLEAN]
    /\ wscan \in [Workers -> Index]

(* Places a thread reaches only in wait(handle), and only in wait_all() or *)
(* outside both.                                                           *)
HandlePlaces == {"generation", "state", "recheck", "register", "count", "unregister"}
OtherPlaces == {"idle", "acquire", "construct", "rethrow", "inline", "countAll", "outstanding"}
EarlyStages == {"idle", "body", "bumpGeneration", "freeSlot", "decrement", "readWaiters",
                "readOverflow"}

(* Where a thread is says whether it holds the mutex, sleeps, waits for a  *)
(* handle and fills a slot; where a worker is, whether it has a task and   *)
(* has scanned.                                                            *)
ThreadPlace ==
    /\ \A e \in Threads : e \in asleep <=> epc[e] = "asleep"
    /\ \A e \in Threads :
           mutex = e => epc[e] \in {"generation", "state", "recheck", "outstanding", "sleep"}
    /\ \A e \in Threads : epc[e] \in {"outstanding", "sleep"} => mutex = e
    /\ \A e \in Threads : epc[e] \in HandlePlaces => target[e] # Idle
    /\ \A e \in Threads : epc[e] \in OtherPlaces => target[e] = Idle
    /\ \A e \in Threads : epc[e] = "construct" => reserved[e] # Idle

WorkerPlace ==
    \A w \in Workers :
        /\ wpc[w] # "idle" => whandle[w] # Idle
        /\ wpc[w] \in EarlyStages => wscan[w] = 1 /\ ~wwake[w]

PlaceInv == PoolType /\ CountType /\ ThreadType /\ WorkerType /\ ThreadPlace /\ WorkerPlace

(* The threads that occupy a waiter slot or the overflow count, those that *)
(* handle_waiters_ counts, those that all_waiters_ counts.                 *)
Blocked == {e \in Threads : Registered(e) \/ InPredicate(e)}
Counted == {e \in Blocked : epc[e] \notin {"count", "unregister"}}
AllCounted ==
    {e \in Threads : target[e] = Idle /\ epc[e] \in {"lock", "outstanding", "sleep", "asleep", "leave"}}

(* The tasks outstanding_ counts: being submitted, queued, being run.      *)
Submitting == {e \in Threads : epc[e] \in {"acquire", "construct", "rethrow", "inline"}}
Running == {w \in Workers : wpc[w] \in {"body", "bumpGeneration", "freeSlot", "decrement"}}

(* A worker that holds the slot of its task, and one that has not yet made *)
(* the slot's generation the next task's.                                  *)
Holds(w) == wpc[w] \in {"body", "bumpGeneration", "freeSlot"}
Runs(w) == wpc[w] \in {"body", "bumpGeneration"}

(* Nobody else has to do with a slot a submitter fills.                    *)
ReservedInv ==
    \A e \in Threads : reserved[e] # Idle =>
        /\ reserved[e].slot \notin free
        /\ reserved[e].gen = generation[reserved[e].slot]
        /\ \A h \in ready : h.slot # reserved[e].slot
        /\ \A w \in Workers : Holds(w) => whandle[w].slot # reserved[e].slot
        /\ \A f \in Threads : reserved[f] # Idle /\ f # e => reserved[f].slot # reserved[e].slot

SlotInv ==
    /\ \A h \in ready : h.slot \notin free /\ h.gen = generation[h.slot]
    /\ \A w \in Workers : Holds(w) =>
           /\ whandle[w].slot \notin free
           /\ \A h \in ready : h.slot # whandle[w].slot
           /\ \A v \in Workers : Holds(v) /\ v # w => whandle[v].slot # whandle[w].slot
           /\ generation[whandle[w].slot] =
                  IF Runs(w) THEN whandle[w].gen ELSE whandle[w].gen + 1
    /\ \A s \in Slots : state[s] = "Completed" =>
           \E w \in Workers : wpc[w] \in {"bumpGeneration", "freeSlot"} /\ whandle[w].slot = s

(* The generation of an issued handle is the slot's until its body has     *)
(* returned, and then never again.                                         *)
IssueInv ==
    /\ \A w \in Workers : wpc[w] = "bumpGeneration" => whandle[w] \in finished
    /\ \A h \in issued : h.gen <= generation[h.slot]
    /\ \A h \in issued : h.gen < generation[h.slot] => h \in finished
    /\ \A h \in issued : h.gen = generation[h.slot] =>
           h \in ready \/ \E w \in Workers : Runs(w) /\ whandle[w] = h

(* What a waiter has concluded about its handle is true.                   *)
Justified(e) ==
    target[e] # Idle =>
        /\ target[e] \in issued
        /\ epc[e] \in {"leave", "unregister"} => target[e] \in finished
        /\ epc[e] = "recheck" /\ seen[e] = "Completed"
               /\ generation[target[e].slot] = target[e].gen => target[e] \in finished

AnswerInv == \A e \in Threads : Justified(e)

(* A worker that will wake e, or e holds the mutex and the worker cannot   *)
(* have notified yet.                                                      *)
HandleInv ==
    \A e \in Threads :
        epc[e] \in {"sleep", "asleep"} /\ target[e] # Idle /\ Complete(target[e]) =>
            \E w \in Workers :
                /\ WillWake(w, e, target[e].slot)
                /\ epc[e] = "sleep" => wpc[w] # "notify"

IdleInv ==
    \A e \in Threads :
        epc[e] \in {"sleep", "asleep"} /\ target[e] = Idle /\ outstanding = 0 /\ ~untoldZero =>
            \E w \in Workers :
                \/ wpc[w] = "lock"
                \/ wpc[w] = "notify" /\ epc[e] = "asleep"
                \/ /\ wpc[w] \in {"readWaiters", "readOverflow", "scan", "readAll"}
                   /\ wremaining[w] = 0

-----------------------------------------------------------------------------
(* The initial states are where they should be. *)
LEMMA InitPlace == Init => PlaceInv
  <1> SUFFICES ASSUME Init PROVE PlaceInv
    OBVIOUS
  <1> USE BoundsAssumption, NoneAssumption DEF Init
  <1>1. PoolType
    BY DEF PoolType, States
  <1>2. CountType
    BY DEF CountType
  <1>3. ThreadType /\ ThreadPlace
    BY DEF ThreadType, ThreadPlace, Places, States, Index, HandlePlaces, OtherPlaces
  <1>4. WorkerType /\ WorkerPlace
    BY DEF WorkerType, WorkerPlace, Stages, Index, EarlyStages
  <1> QED BY <1>1, <1>2, <1>3, <1>4 DEF PlaceInv

(* Answering yes or no, from wherever the question was asked. *)
LEMMA AnswerPlace ==
    ASSUME PlaceInv, NEW e \in Threads,
           epc[e] \in {"generation", "recheck", "outstanding"},
           AnswerYes(e) \/ AnswerNo(e),
           UNCHANGED <<poolVars, outstanding, waitVars, workerVars, histVars>>
    PROVE  PlaceInv'
  <1> USE BoundsAssumption, NoneAssumption DEF PlaceInv
  <1>1. PoolType' /\ CountType' /\ WorkerType' /\ WorkerPlace'
    BY DEF PoolType, CountType, WorkerType, WorkerPlace, poolVars, waitVars, workerVars, histVars
  <1>2. CASE AnswerYes(e) /\ mutex = e
    BY <1>1, <1>2 DEF AnswerYes, Goto, poolVars, ThreadType, ThreadPlace, Places, HandlePlaces, OtherPlaces
  <1>3. CASE AnswerYes(e) /\ mutex # e
    BY <1>1, <1>3 DEF AnswerYes, Goto, Return, lockVars, poolVars, ThreadType, ThreadPlace,
                      Places, States, Index, HandlePlaces, OtherPlaces
  <1>4. CASE AnswerNo(e)
    BY <1>1, <1>4 DEF AnswerNo, Goto, lockVars, poolVars, ThreadType, ThreadPlace, Places, States,
                      HandlePlaces, OtherPlaces
  <1> QED BY <1>2, <1>3, <1>4

(* Every step keeps the types, and moves a thread or a worker only to a    *)
(* place where what that place implies is true.                            *)
LEMMA PlaceStep == PlaceInv /\ [Next]_vars => PlaceInv'
  <1> SUFFICES ASSUME PlaceInv, [Next]_vars PROVE PlaceInv'
    OBVIOUS
  <1> USE BoundsAssumption, NoneAssumption
      DEF PlaceInv, PoolType, CountType, ThreadType, WorkerType, ThreadPlace, WorkerPlace,
          Places, Stages, States, Index, HandlePlaces, OtherPlaces, EarlyStages, Handle,
          poolVars, waitVars, lockVars, threadVars, workerVars, histVars, Goto, WGoto,
          Return, WReturn, AnswerYes, AnswerNo
  <1>1. ASSUME NEW e \in Threads, SubmitCount(e) PROVE PlaceInv'
    <2>1. PoolType' /\ CountType'
      <3>1. untoldZero' = FALSE /\ submitted' \in Nat
        BY <1>1 DEF SubmitCount
      <3>2. PoolType'
        BY <1>1, <3>1 DEF SubmitCount
      <3>3. CountType'
        BY <1>1 DEF SubmitCount
      <3> QED BY <3>2, <3>3
    <2>2. ThreadType' /\ ThreadPlace'
      BY <1>1 DEF SubmitCount
    <2>3. WorkerType' /\ WorkerPlace'
      BY <1>1 DEF SubmitCount
    <2> QED BY <2>1, <2>2, <2>3
  <1>2. ASSUME NEW e \in Threads, RunInline(e) PROVE PlaceInv'
    BY <1>2 DEF RunInline
  <1>3. ASSUME NEW e \in Threads, InlineCount(e) PROVE PlaceInv'
    BY <1>3 DEF InlineCount, UncountUntold
  <1>4. ASSUME NEW e \in Threads, CheckGeneration(e) PROVE PlaceInv'
    <2>1. CASE generation[target[e].slot] = target[e].gen
      <3>1. PoolType' /\ CountType' /\ WorkerType' /\ WorkerPlace'
        BY <1>4, <2>1 DEF CheckGeneration
      <3>2. ThreadType' /\ ThreadPlace'
        <4> HIDE DEF PoolType, CountType, WorkerType, WorkerPlace, Handle
        <4> QED BY <1>4, <2>1 DEF CheckGeneration
      <3> QED BY <3>1, <3>2
    <2>2. CASE generation[target[e].slot] # target[e].gen
      BY <1>4, <2>2, AnswerPlace DEF CheckGeneration
    <2> QED BY <2>1, <2>2
  <1>5. ASSUME NEW e \in Threads, CheckState(e) PROVE PlaceInv'
    BY SMTT(20), <1>5 DEF CheckState
  <1>6. ASSUME NEW e \in Threads, RecheckGeneration(e) PROVE PlaceInv'
    BY <1>6, AnswerPlace DEF RecheckGeneration
  <1>7. ASSUME NEW e \in Threads, RegisterTry(e) PROVE PlaceInv'
    <2>1. PoolType' /\ CountType'
      <3>1. target[e] # Idle /\ target[e].slot \in Slots /\ reg[e] \in 1 .. WaiterSlots
        BY <1>7 DEF RegisterTry
      <3>2. \/ waited' = [waited EXCEPT ![reg[e]] = target[e].slot]
            \/ waited' = waited
        BY <1>7 DEF RegisterTry
      <3>3. waited' \in [1 .. WaiterSlots -> Slots \cup {NoIndex}]
        <4> HIDE DEF PoolType, ThreadType, WorkerType, ThreadPlace, WorkerPlace, Handle
        <4> QED BY <3>1, <3>2
      <3> QED BY <1>7, <3>3 DEF RegisterTry
    <2>2. ThreadType' /\ ThreadPlace'
      <3> HIDE DEF PoolType, CountType, WorkerType, WorkerPlace, Handle
      <3>1. CASE waited[reg[e]] = NoIndex
        BY <1>7, <3>1 DEF RegisterTry
      <3>2. CASE waited[reg[e]] # NoIndex
        BY <1>7, <3>2 DEF RegisterTry
      <3> QED BY <3>1, <3>2
    <2>3. WorkerType' /\ WorkerPlace'
      BY <1>7 DEF RegisterTry
    <2> QED BY <2>1, <2>2, <2>3
  <1>8. ASSUME NEW e \in Threads, RegisterOverflow(e) PROVE PlaceInv'
    BY <1>8 DEF RegisterOverflow
  <1>9. ASSUME NEW e \in Threads, CountWaiter(e) PROVE PlaceInv'
    BY SMTT(20), <1>9 DEF CountWaiter
  <1>10. ASSUME NEW e \in Threads, Lock(e) PROVE PlaceInv'
    BY <1>10 DEF Lock
  <1>11. ASSUME NEW e \in Threads, Sleep(e) PROVE PlaceInv'
    BY <1>11 DEF Sleep
  <1>12. ASSUME NEW e \in Threads, SpuriousWakeup(e) PROVE PlaceInv'
    BY <1>12 DEF SpuriousWakeup
  <1>13. ASSUME NEW e \in Threads, UncountWaiter(e) PROVE PlaceInv'
    BY <1>13 DEF UncountWaiter
  <1>14. ASSUME NEW e \in Threads, Unregister(e) PROVE PlaceInv'
    <2>1. PoolType' /\ CountType'
      BY <1>14 DEF Unregister
    <2>2. ThreadType' /\ ThreadPlace'
      BY <1>14 DEF Unregister
    <2>3. WorkerType' /\ WorkerPlace'
      BY <1>14 DEF Unregister
    <2> QED BY <2>1, <2>2, <2>3
  <1>15. ASSUME NEW e \in Threads, WaitAll(e) PROVE PlaceInv'
    BY SMTT(20), <1>15 DEF WaitAll
  <1>16. ASSUME NEW e \in Threads, CountAllWaiter(e) PROVE PlaceInv'
    BY SMTT(20), <1>16 DEF CountAllWaiter
  <1>17. ASSUME NEW e \in Threads, CheckOutstanding(e) PROVE PlaceInv'
    BY <1>17, AnswerPlace DEF CheckOutstanding
  <1>18. ASSUME NEW e \in Threads, UncountAllWaiter(e) PROVE PlaceInv'
    BY <1>18 DEF UncountAllWaiter
  <1>19. ASSUME NEW e \in Threads, NEW s \in Slots, Reserve(e, s) PROVE PlaceInv'
    BY <1>19 DEF Reserve
  <1>20. ASSUME NEW e \in Threads, NEW h \in issued, WaitHandle(e, h) PROVE PlaceInv'
    BY SMTT(20), <1>20 DEF WaitHandle
  <1>21. ASSUME NEW w \in Workers, StoreCompleted(w) PROVE PlaceInv'
    BY <1>21 DEF StoreCompleted
  <1>22. ASSUME NEW w \in Workers, BumpGeneration(w) PROVE PlaceInv'
    BY SMTT(20), <1>22 DEF BumpGeneration
  <1>23. ASSUME NEW w \in Workers, FreeSlot(w) PROVE PlaceInv'
    BY <1>23 DEF FreeSlot
  <1>24. ASSUME NEW w \in Workers, Decrement(w) PROVE PlaceInv'
    BY <1>24 DEF Decrement
  <1>25. ASSUME NEW w \in Workers, ReadHandleWaiters(w) PROVE PlaceInv'
    BY <1>25 DEF ReadHandleWaiters
  <1>26. ASSUME NEW w \in Workers, ReadOverflow(w) PROVE PlaceInv'
    BY <1>26 DEF ReadOverflow
  <1>27. ASSUME NEW w \in Workers, ScanWaiters(w) PROVE PlaceInv'
    <2>1. PoolType' /\ CountType' /\ ThreadType' /\ ThreadPlace'
      BY <1>27 DEF ScanWaiters
    <2>2. WorkerType'
      <3> HIDE DEF PoolType, CountType, ThreadType, ThreadPlace, Handle
      <3>1. wwake' \in [Workers -> BOOLEAN] /\ wpc' \in [Workers -> Stages]
        BY <1>27 DEF ScanWaiters
      <3>2. wscan' \in [Workers -> Index]
        BY <1>27 DEF ScanWaiters
      <3> QED BY <1>27, <3>1, <3>2 DEF ScanWaiters
    <2>3. WorkerPlace'
      BY <1>27 DEF ScanWaiters
    <2> QED BY <2>1, <2>2, <2>3
  <1>28. ASSUME NEW w \in Workers, ReadAllWaiters(w) PROVE PlaceInv'
    <2>1. PoolType' /\ CountType'
      BY <1>28 DEF ReadAllWaiters
    <2>2. ThreadType' /\ ThreadPlace'
      BY <1>28 DEF ReadAllWaiters
    <2>3. WorkerType' /\ WorkerPlace'
      <3>1. CASE wpc' = [wpc EXCEPT ![w] = "lock"]
        BY <1>28, <3>1 DEF ReadAllWaiters
      <3>2. CASE wpc' = [wpc EXCEPT ![w] = "idle"]
        <4> HIDE DEF PoolType, CountType, ThreadType, ThreadPlace, Handle
        <4>1. WReturn(w) 
          BY <1>28, <3>2 DEF ReadAllWaiters
        <4> QED BY <1>28, <4>1 DEF ReadAllWaiters
      <3> QED BY <1>28, <3>1, <3>2 DEF ReadAllWaiters
    <2> QED BY <2>1, <2>2, <2>3
  <1>29. ASSUME NEW w \in Workers, LockUnlock(w) PROVE PlaceInv'
    BY <1>29 DEF LockUnlock
  <1>30. ASSUME NEW w \in Workers, NotifyAll(w) PROVE PlaceInv'
    BY <1>30 DEF NotifyAll
  <1>31. ASSUME NEW w \in Workers, NEW h \in ready, Execute(w, h) PROVE PlaceInv'
    <2>1. h \in Handle /\ h # Idle /\ h.slot \in Slots
      BY <1>31
    <2>2. PoolType' /\ CountType' /\ ThreadType' /\ ThreadPlace'
      BY <1>31, <2>1 DEF Execute
    <2>3. WorkerType' /\ WorkerPlace'
      <3> HIDE DEF Handle, PoolType, CountType, ThreadType, ThreadPlace
      <3>1. /\ wpc' = [wpc EXCEPT ![w] = "body"]
            /\ whandle' = [whandle EXCEPT ![w] = h]
            /\ UNCHANGED <<wremaining, wwake, wscan>>
            /\ wpc[w] = "idle"
        BY <1>31 DEF Execute
      <3>2. WorkerType'
        BY <3>1, <2>1
      <3>3. WorkerPlace'
        BY <3>1, <2>1
      <3> QED BY <3>2, <3>3
    <2> QED BY <2>2, <2>3
  <1>32. CASE UNCHANGED vars
    BY <1>32 DEF vars
  <1>33. ASSUME NEW e \in Threads, Publish(e) PROVE PlaceInv'
    BY <1>33 DEF Publish
  <1>34. ASSUME NEW e \in Threads, ConstructThrows(e) PROVE PlaceInv'
    BY <1>34 DEF ConstructThrows
  <1>35. ASSUME NEW e \in Threads, ConstructThrowsInline(e) PROVE PlaceInv'
    BY <1>35 DEF ConstructThrowsInline
  <1>36. ASSUME NEW e \in Threads, Rethrow(e) PROVE PlaceInv'
    BY <1>36 DEF Rethrow, UncountUntold
  <1> QED
    BY <1>1, <1>2, <1>3, <1>4, <1>5, <1>6, <1>7, <1>8, <1>9, <1>10, <1>11, <1>12, <1>13, <1>14, <1>15, <1>16, <1>17, <1>18, <1>19, <1>20, <1>21, <1>22, <1>23, <1>24, <1>25, <1>26, <1>27, <1>28, <1>29, <1>30, <1>31, <1>32, <1>33, <1>34, <1>35, <1>36
    DEF Next, ThreadCalls, ThreadStep, WorkerStep

-----------------------------------------------------------------------------
(* Registration *)

Overflowed == {e \in Blocked : reg[e] > WaiterSlots}

(* WaiterBookkeeping, with its sets named. *)
BookInv ==
    /\ \A e \in Blocked : reg[e] <= WaiterSlots => waited[reg[e]] = target[e].slot
    /\ \A e, f \in Blocked : e # f /\ reg[e] <= WaiterSlots => reg[e] # reg[f]
    /\ \A i \in 1 .. WaiterSlots : waited[i] # NoIndex => \E e \in Blocked : reg[e] = i
    /\ overflow = Cardinality(Overflowed)

(* WaiterBookkeeping, in the terms of the proofs. *)
LEMMA BookkeepingParts == WaiterBookkeeping <=> BookInv
  BY DEF WaiterBookkeeping, BookInv, Blocked, Overflowed

(* The step registers nobody and unregisters nobody. *)
BlockedKept ==
    /\ Blocked' = Blocked
    /\ \A e \in Blocked : target'[e] = target[e] /\ reg'[e] = reg[e]
    /\ UNCHANGED <<waited, overflow>>

(* Only register_handle_waiter() and unregister_handle_waiter() do. *)
LEMMA BlockedKeptStep ==
    ASSUME PlaceInv, [Next]_vars,
           \A e \in Threads : ~RegisterTry(e) /\ ~RegisterOverflow(e) /\ ~Unregister(e)
    PROVE  BlockedKept
  <1> USE NoneAssumption
      DEF PlaceInv, ThreadType, ThreadPlace, HandlePlaces, OtherPlaces, BlockedKept, Blocked,
          Registered, InPredicate, waitVars, lockVars, threadVars, Goto, Return, AnswerYes,
          AnswerNo
  <1>1. ASSUME NEW e \in Threads, SubmitCount(e) PROVE BlockedKept
    BY <1>1 DEF SubmitCount
  <1>2. ASSUME NEW e \in Threads, RunInline(e) PROVE BlockedKept
    BY <1>2 DEF RunInline
  <1>3. ASSUME NEW e \in Threads, InlineCount(e) PROVE BlockedKept
    BY <1>3 DEF InlineCount, UncountUntold
  <1>4. ASSUME NEW e \in Threads, CheckGeneration(e) PROVE BlockedKept
    BY <1>4 DEF CheckGeneration
  <1>5. ASSUME NEW e \in Threads, CheckState(e) PROVE BlockedKept
    BY <1>5 DEF CheckState
  <1>6. ASSUME NEW e \in Threads, RecheckGeneration(e) PROVE BlockedKept
    BY <1>6 DEF RecheckGeneration
  <1>7. ASSUME NEW e \in Threads, CountWaiter(e) PROVE BlockedKept
    BY <1>7 DEF CountWaiter
  <1>8. ASSUME NEW e \in Threads, Lock(e) PROVE BlockedKept
    BY <1>8 DEF Lock
  <1>9. ASSUME NEW e \in Threads, Sleep(e) PROVE BlockedKept
    BY <1>9 DEF Sleep
  <1>10. ASSUME NEW e \in Threads, SpuriousWakeup(e) PROVE BlockedKept
    BY <1>10 DEF SpuriousWakeup
  <1>11. ASSUME NEW e \in Threads, UncountWaiter(e) PROVE BlockedKept
    BY <1>11 DEF UncountWaiter
  <1>12. ASSUME NEW e \in Threads, WaitAll(e) PROVE BlockedKept
    BY <1>12 DEF WaitAll
  <1>13. ASSUME NEW e \in Threads, CountAllWaiter(e) PROVE BlockedKept
    BY <1>13 DEF CountAllWaiter
  <1>14. ASSUME NEW e \in Threads, CheckOutstanding(e) PROVE BlockedKept
    BY <1>14 DEF CheckOutstanding
  <1>15. ASSUME NEW e \in Threads, UncountAllWaiter(e) PROVE BlockedKept
    BY <1>15 DEF UncountAllWaiter
  <1>16. ASSUME NEW e \in Threads, NEW s \in Slots, Reserve(e, s) PROVE BlockedKept
    BY <1>16 DEF Reserve
  <1>17. ASSUME NEW e \in Threads, NEW h \in issued, WaitHandle(e, h) PROVE BlockedKept
    BY <1>17 DEF WaitHandle
  <1>18. ASSUME NEW w \in Workers, StoreCompleted(w) PROVE BlockedKept
    BY <1>18 DEF StoreCompleted
  <1>19. ASSUME NEW w \in Workers, BumpGeneration(w) PROVE BlockedKept
    BY <1>19 DEF BumpGeneration
  <1>20. ASSUME NEW w \in Workers, FreeSlot(w) PROVE BlockedKept
    BY <1>20 DEF FreeSlot
  <1>21. ASSUME NEW w \in Workers, Decrement(w) PROVE BlockedKept
    BY <1>21 DEF Decrement
  <1>22. ASSUME NEW w \in Workers, ReadHandleWaiters(w) PROVE BlockedKept
    BY <1>22 DEF ReadHandleWaiters
  <1>23. ASSUME NEW w \in Workers, ReadOverflow(w) PROVE BlockedKept
    BY <1>23 DEF ReadOverflow
  <1>24. ASSUME NEW w \in Workers, ScanWaiters(w) PROVE BlockedKept
    BY <1>24 DEF ScanWaiters
  <1>25. ASSUME NEW w \in Workers, ReadAllWaiters(w) PROVE BlockedKept
    BY <1>25 DEF ReadAllWaiters
  <1>26. ASSUME NEW w \in Workers, LockUnlock(w) PROVE BlockedKept
    BY <1>26 DEF LockUnlock
  <1>27. ASSUME NEW w \in Workers, NotifyAll(w) PROVE BlockedKept
    BY <1>27 DEF NotifyAll
  <1>28. ASSUME NEW w \in Workers, NEW h \in ready, Execute(w, h) PROVE BlockedKept
    BY <1>28 DEF Execute
  <1>29. CASE UNCHANGED vars
    BY <1>29 DEF vars
  <1>30. ASSUME NEW e \in Threads, Publish(e) PROVE BlockedKept
    BY <1>30 DEF Publish
  <1>31. ASSUME NEW e \in Threads, ConstructThrows(e) PROVE BlockedKept
    BY <1>31 DEF ConstructThrows
  <1>32. ASSUME NEW e \in Threads, ConstructThrowsInline(e) PROVE BlockedKept
    BY <1>32 DEF ConstructThrowsInline
  <1>33. ASSUME NEW e \in Threads, Rethrow(e) PROVE BlockedKept
    BY <1>33 DEF Rethrow, UncountUntold
  <1> QED
    BY <1>1, <1>2, <1>3, <1>4, <1>5, <1>6, <1>7, <1>8, <1>9, <1>10, <1>11, <1>12, <1>13, <1>14, <1>15, <1>16, <1>17, <1>18, <1>19, <1>20, <1>21, <1>22, <1>23, <1>24, <1>25, <1>26, <1>27, <1>28, <1>29, <1>30, <1>31, <1>32, <1>33
    DEF Next, ThreadCalls, ThreadStep, WorkerStep

(* Registration stays exact when nobody comes or goes. *)
LEMMA BookkeepingKept ==
    ASSUME BookInv, BlockedKept
    PROVE  BookInv'
  <1>1. Overflowed' = Overflowed
    BY DEF BlockedKept, Overflowed
  <1> QED BY <1>1 DEF BookInv, BlockedKept

(* register_handle_waiter(): a thread that takes a waiter slot takes one   *)
(* that nobody has, and nobody else can have it.                           *)
LEMMA RegisterTryStep ==
    ASSUME PlaceInv, BookInv, NEW e \in Threads, RegisterTry(e)
    PROVE  BookInv'
  <1> USE DEF PlaceInv, ThreadType, ThreadPlace, HandlePlaces, CountType, Index
  <1>1. e \notin Blocked /\ target[e] # Idle /\ target[e].slot \in Slots /\ reg[e] \in 1 .. WaiterSlots
    BY DEF RegisterTry, Blocked, Registered, InPredicate, Handle
  <1>2. CASE waited[reg[e]] = NoIndex
    <2>1. /\ Blocked' = Blocked \cup {e}
          /\ waited' = [waited EXCEPT ![reg[e]] = target[e].slot]
          /\ UNCHANGED <<target, reg, overflow>>
      BY <1>1, <1>2 DEF RegisterTry, Blocked, Registered, InPredicate, Goto, lockVars
    <2>2. \A f \in Blocked : reg[f] # reg[e]
      <3>1. ASSUME NEW f \in Blocked, reg[f] = reg[e] PROVE FALSE
        <4>1. waited[reg[f]] = target[f].slot
          BY <1>1, <3>1 DEF BookInv
        <4>2. target[f].slot \in Slots
          BY DEF Blocked, Registered, InPredicate, Handle
        <4> QED BY <1>2, <3>1, <4>1, <4>2, NoneAssumption
      <3> QED BY <3>1
    <2>3. Overflowed' = Overflowed
      BY <1>1, <2>1, BoundsAssumption DEF Overflowed
    <2>4. \A f \in Blocked : reg[f] <= WaiterSlots => waited'[reg[f]] = waited[reg[f]]
      BY <2>1, <2>2 DEF Blocked
    <2> QED BY <1>1, <2>1, <2>2, <2>3, <2>4 DEF BookInv
  <1>3. CASE waited[reg[e]] # NoIndex
    <2>1. Blocked' = Blocked /\ \A f \in Blocked : target'[f] = target[f] /\ reg'[f] = reg[f]
      BY <1>1, <1>3 DEF RegisterTry, Blocked, Registered, InPredicate, lockVars
    <2>2. UNCHANGED <<waited, overflow>>
      BY <1>3 DEF RegisterTry
    <2> QED BY <2>1, <2>2, BookkeepingKept DEF BlockedKept
  <1> QED BY <1>2, <1>3

(* register_handle_waiter(), no slot left: one more in the overflow count. *)
LEMMA RegisterOverflowStep ==
    ASSUME PlaceInv, BookInv, NEW e \in Threads, RegisterOverflow(e)
    PROVE  BookInv'
  <1> USE DEF PlaceInv, ThreadType, ThreadPlace, HandlePlaces, CountType, Index
  <1>1. e \notin Blocked /\ reg[e] > WaiterSlots
    BY DEF RegisterOverflow, Blocked, Registered, InPredicate
  <1>2. /\ Blocked' = Blocked \cup {e}
        /\ overflow' = overflow + 1
        /\ UNCHANGED <<target, reg, waited>>
    BY <1>1 DEF RegisterOverflow, Blocked, Registered, InPredicate, Goto, lockVars
  <1>3. Overflowed' = Overflowed \cup {e} /\ e \notin Overflowed
    BY <1>1, <1>2 DEF Overflowed
  <1>4. IsFiniteSet(Overflowed)
    BY FinitelyManyThreads, FS_Subset DEF Overflowed, Blocked
  <1>5. overflow' = Cardinality(Overflowed')
    BY <1>2, <1>3, <1>4, FS_AddElement DEF BookInv
  <1> QED BY <1>1, <1>2, <1>5, BoundsAssumption DEF BookInv, Blocked

(* unregister_handle_waiter(): exactly what the waiter took is given back. *)
LEMMA UnregisterStep ==
    ASSUME PlaceInv, BookInv, NEW e \in Threads, Unregister(e)
    PROVE  BookInv'
  <1> USE DEF PlaceInv, ThreadType, ThreadPlace, HandlePlaces, CountType, Index
  <1>1. e \in Blocked /\ reg[e] \in Index
    BY DEF Unregister, Blocked, Registered
  <1>2. /\ Blocked' = Blocked \ {e}
        /\ \A f \in Blocked' : target'[f] = target[f] /\ reg'[f] = reg[f]
    BY <1>1, NoneAssumption DEF Unregister, Blocked, Registered, InPredicate, Return, Goto, lockVars
  <1>3. IsFiniteSet(Overflowed)
    BY FinitelyManyThreads, FS_Subset DEF Overflowed, Blocked
  <1>4. CASE reg[e] <= WaiterSlots
    <2>1. waited' = [waited EXCEPT ![reg[e]] = NoIndex] /\ overflow' = overflow
      BY <1>4 DEF Unregister
    <2>2. Overflowed' = Overflowed
      BY <1>2, <1>4, BoundsAssumption DEF Overflowed, Blocked
    <2>3. \A f \in Blocked' : reg[f] # reg[e]
      BY <1>1, <1>2, <1>4 DEF BookInv
    <2>4. \A f \in Blocked' : reg[f] <= WaiterSlots => waited'[reg[f]] = waited[reg[f]]
      BY <2>1, <2>3 DEF Blocked
    <2>5. \A f \in Blocked' : reg'[f] <= WaiterSlots => waited'[reg'[f]] = target'[f].slot
      BY <1>2, <2>4 DEF BookInv
    <2>6. \A f, g \in Blocked' : f # g /\ reg'[f] <= WaiterSlots => reg'[f] # reg'[g]
      BY <1>2 DEF BookInv
    <2>7. ASSUME NEW i \in 1 .. WaiterSlots, waited'[i] # NoIndex
          PROVE  \E f \in Blocked' : reg'[f] = i
      <3>1. i # reg[e] /\ waited[i] # NoIndex
        BY <1>1, <1>4, <2>1, <2>7, BoundsAssumption
      <3> QED BY <1>2, <3>1 DEF BookInv
    <2> QED BY <2>1, <2>2, <2>5, <2>6, <2>7 DEF BookInv
  <1>5. CASE reg[e] > WaiterSlots
    <2>1. waited' = waited /\ overflow' = overflow - 1
      BY <1>1, <1>5, BoundsAssumption DEF Unregister
    <2>2. Overflowed' = Overflowed \ {e} /\ e \in Overflowed
      BY <1>1, <1>2, <1>5 DEF Overflowed
    <2>3. overflow' = Cardinality(Overflowed')
      BY <1>3, <2>1, <2>2, FS_RemoveElement DEF BookInv
    <2>4. \A i \in 1 .. WaiterSlots : reg[e] # i
      BY <1>1, <1>5, BoundsAssumption
    <2>5. \A f \in Blocked' : reg'[f] <= WaiterSlots => waited'[reg'[f]] = target'[f].slot
      BY <1>2, <2>1 DEF BookInv
    <2>6. \A f, g \in Blocked' : f # g /\ reg'[f] <= WaiterSlots => reg'[f] # reg'[g]
      BY <1>2 DEF BookInv
    <2>7. \A i \in 1 .. WaiterSlots : waited'[i] # NoIndex => \E f \in Blocked' : reg'[f] = i
      BY <1>2, <2>1, <2>4 DEF BookInv
    <2> QED BY <2>3, <2>5, <2>6, <2>7 DEF BookInv
  <1> QED BY <1>1, <1>4, <1>5, BoundsAssumption

(* BookInv is kept: by the three steps above, and by all that leave the    *)
(* registrations alone.                                                    *)
LEMMA BookStep == PlaceInv /\ BookInv /\ [Next]_vars => BookInv'
  BY BlockedKeptStep, BookkeepingKept, RegisterTryStep, RegisterOverflowStep, UnregisterStep

-----------------------------------------------------------------------------
(* The slots of the pool *)

(* The step leaves the pool, and what the workers hold of it, alone. *)
PoolKept ==
    /\ UNCHANGED <<poolVars, issued, finished>>
    /\ \A w \in Workers : wpc'[w] # wpc[w] => ~Holds(w) /\ ~Holds(w)'
    /\ \A w \in Workers : Holds(w) => whandle'[w] = whandle[w]

(* Only submit() and the first half of a worker's round do not. *)
LEMMA PoolKeptStep ==
    ASSUME PlaceInv, [Next]_vars,
           \A e \in Threads : /\ ~Publish(e) /\ ~ConstructThrows(e)
                              /\ \A s \in Slots : ~Reserve(e, s),
           \A w \in Workers : /\ \A h \in ready : ~Execute(w, h)
                              /\ ~StoreCompleted(w) /\ ~BumpGeneration(w) /\ ~FreeSlot(w)
    PROVE  PoolKept
  <1> USE DEF PlaceInv, WorkerType, PoolKept, Holds, poolVars, workerVars, histVars, WGoto, WReturn
  <1>1. ASSUME NEW e \in Threads, UNCHANGED <<poolVars, workerVars, issued, finished>>
        PROVE  PoolKept
    BY <1>1
  <1>2. ASSUME NEW e \in Threads,
               SubmitCount(e) \/ RunInline(e) \/ InlineCount(e) \/ Rethrow(e)
               \/ ConstructThrowsInline(e) \/ CheckGeneration(e)
               \/ CheckState(e) \/ RecheckGeneration(e) \/ RegisterTry(e) \/ RegisterOverflow(e)
               \/ CountWaiter(e) \/ Lock(e) \/ Sleep(e) \/ SpuriousWakeup(e)
               \/ UncountWaiter(e) \/ Unregister(e) \/ WaitAll(e)
               \/ CountAllWaiter(e) \/ CheckOutstanding(e) \/ UncountAllWaiter(e)
        PROVE  PoolKept
    BY <1>1, <1>2 DEF SubmitCount, RunInline, InlineCount, Rethrow, UncountUntold, ConstructThrowsInline,
                      CheckGeneration, CheckState, RecheckGeneration, RegisterTry, RegisterOverflow, CountWaiter, Lock, Sleep, SpuriousWakeup, UncountWaiter, Unregister, WaitAll, CountAllWaiter, CheckOutstanding, UncountAllWaiter
  <1>3. ASSUME NEW e \in Threads, NEW h \in issued, WaitHandle(e, h) PROVE PoolKept
    BY <1>3 DEF WaitHandle
  <1>4. ASSUME NEW w \in Workers, Decrement(w) PROVE PoolKept
    BY <1>4 DEF Decrement
  <1>5. ASSUME NEW w \in Workers, ReadHandleWaiters(w) PROVE PoolKept
    BY <1>5 DEF ReadHandleWaiters
  <1>6. ASSUME NEW w \in Workers, ReadOverflow(w) PROVE PoolKept
    BY <1>6 DEF ReadOverflow
  <1>7. ASSUME NEW w \in Workers, ScanWaiters(w) PROVE PoolKept
    BY <1>7 DEF ScanWaiters
  <1>8. ASSUME NEW w \in Workers, ReadAllWaiters(w) PROVE PoolKept
    BY <1>8 DEF ReadAllWaiters
  <1>9. ASSUME NEW w \in Workers, LockUnlock(w) PROVE PoolKept
    BY <1>9 DEF LockUnlock
  <1>10. ASSUME NEW w \in Workers, NotifyAll(w) PROVE PoolKept
    BY <1>10 DEF NotifyAll
  <1>11. CASE UNCHANGED vars
    BY <1>11 DEF vars
  <1> QED
    BY <1>2, <1>3, <1>4, <1>5, <1>6, <1>7, <1>8, <1>9, <1>10, <1>11 DEF Next, ThreadCalls, ThreadStep, WorkerStep

(* A step that leaves the pool and its holders alone keeps what is said of *)
(* them.                                                                   *)
LEMMA PoolInvKept ==
    ASSUME PlaceInv, SlotInv, IssueInv, PoolKept
    PROVE  SlotInv' /\ IssueInv'
  <1>1. /\ UNCHANGED <<generation, state, free, ready, issued, finished>>
        /\ \A w \in Workers : Holds(w)' = Holds(w) /\ Runs(w)' = Runs(w)
        /\ \A w \in Workers : Holds(w)' => whandle'[w] = whandle[w] /\ wpc'[w] = wpc[w]
    BY DEF PoolKept, poolVars, Holds, Runs
  <1>2. SlotInv'
    <2>1. \A s \in Slots : state'[s] = "Completed" =>
             \E w \in Workers : wpc'[w] \in {"bumpGeneration", "freeSlot"} /\ whandle'[w].slot = s
      BY <1>1 DEF SlotInv, PoolKept, Holds
    <2> QED BY <1>1, <2>1 DEF SlotInv
  <1>3. IssueInv'
    BY <1>1 DEF IssueInv, Holds, Runs, PoolKept
  <1> QED BY <1>2, <1>3

(* submit(): a slot off the free list is one holder's less to speak of. *)
LEMMA ReserveStep ==
    ASSUME PlaceInv, SlotInv, IssueInv, NEW e \in Threads, NEW s \in Slots, Reserve(e, s)
    PROVE  SlotInv' /\ IssueInv'
  <1>1. /\ free' \subseteq free
        /\ UNCHANGED <<generation, state, ready, issued, finished, wpc, whandle>>
    BY DEF Reserve, workerVars, histVars
  <1>2. \A w \in Workers : Holds(w)' = Holds(w) /\ Runs(w)' = Runs(w)
    BY <1>1 DEF Holds, Runs
  <1>3. SlotInv'
    BY <1>1, <1>2 DEF SlotInv
  <1>4. IssueInv'
    BY <1>1, <1>2 DEF IssueInv
  <1> QED BY <1>3, <1>4

(* submit(): nobody else holds the slot that is published, and no handle   *)
(* of its generation was issued before.                                    *)
LEMMA PublishStep ==
    ASSUME PlaceInv, SlotInv, ReservedInv, IssueInv, NEW e \in Threads, Publish(e)
    PROVE  SlotInv' /\ IssueInv'
  <1> DEFINE h == reserved[e]
  <1>1. /\ ready' = ready \cup {h} /\ issued' = issued \cup {h}
        /\ state' = [state EXCEPT ![h.slot] = "Queued"]
        /\ UNCHANGED <<generation, free, finished, wpc, whandle>>
    BY DEF Publish, workerVars
  <1>2. \A w \in Workers : Holds(w)' = Holds(w) /\ Runs(w)' = Runs(w)
    BY <1>1 DEF Holds, Runs
  <1>3. /\ h \in Handle /\ h.slot \in Slots /\ h.gen = generation[h.slot]
        /\ h.slot \notin free /\ generation[h.slot] \in Nat
        /\ \A w \in Workers : Holds(w) => whandle[w].slot # h.slot
    BY DEF Publish, PlaceInv, PoolType, ThreadPlace, ReservedInv, Handle
  <1> HIDE DEF h
  <1>4. SlotInv'
    <2>1. \A k \in ready' : k.slot \notin free' /\ k.gen = generation'[k.slot]
      BY <1>1, <1>3 DEF SlotInv
    <2>2. \A t \in Slots : state'[t] = "Completed" => state[t] = "Completed"
      BY <1>1 DEF PlaceInv, PoolType
    <2> QED BY <1>1, <1>2, <1>3, <2>1, <2>2 DEF SlotInv
  <1>5. IssueInv'
    BY <1>1, <1>2, <1>3 DEF IssueInv
  <1> QED BY <1>4, <1>5

(* A handle of the generation of a slot being filled was issued to nobody. *)
LEMMA ReservedUnissued ==
    ASSUME ReservedInv, IssueInv, NEW e \in Threads, reserved[e] # Idle,
           NEW h \in issued, h.slot = reserved[e].slot
    PROVE  h.gen # generation[h.slot]
  BY DEF ReservedInv, IssueInv, Runs, Holds

(* submit_emplace() is undone: the slot goes back with a generation that   *)
(* is no handle's, as the one it leaves was.                               *)
LEMMA ConstructThrowsStep ==
    ASSUME PlaceInv, SlotInv, ReservedInv, IssueInv, NEW e \in Threads, ConstructThrows(e)
    PROVE  SlotInv' /\ IssueInv'
  <1> DEFINE s == reserved[e].slot
  <1>1. /\ generation' = [generation EXCEPT ![s] = @ + 1]
        /\ free' = free \cup {s}
        /\ UNCHANGED <<state, ready, issued, finished, wpc, whandle>>
    BY DEF ConstructThrows, workerVars, histVars
  <1>2. \A w \in Workers : Holds(w)' = Holds(w) /\ Runs(w)' = Runs(w)
    BY <1>1 DEF Holds, Runs
  <1>3. /\ reserved[e] # Idle /\ s \in Slots /\ generation[s] \in Nat
        /\ generation'[s] = generation[s] + 1
        /\ \A t \in Slots : t # s => generation'[t] = generation[t]
    BY <1>1 DEF ConstructThrows, PlaceInv, PoolType, ThreadPlace, Handle
  <1>4. \A h \in ready : h.slot \in Slots /\ h.slot # s
    BY <1>3 DEF ReservedInv, PlaceInv, PoolType, Handle
  <1>5. \A w \in Workers : Holds(w) => whandle[w].slot \in Slots /\ whandle[w].slot # s
    BY <1>3 DEF ReservedInv, PlaceInv, WorkerType, WorkerPlace, Holds, Handle
  <1>6. \A h \in issued : h.slot \in Slots /\ h.gen \in Nat /\ (h.slot = s => h.gen # generation[s])
    BY <1>3, ReservedUnissued DEF PlaceInv, PoolType, Handle
  <1> HIDE DEF s
  <1>7. SlotInv'
    BY <1>1, <1>2, <1>3, <1>4, <1>5 DEF SlotInv
  <1>8. IssueInv'
    <2>1. ASSUME NEW h \in issued, h.slot = s
          PROVE  h.gen < generation[s] /\ h \in finished
      BY <2>1, <1>3, <1>6 DEF IssueInv
    <2>2. ASSUME NEW h \in issued'
          PROVE  /\ h.gen <= generation'[h.slot]
                 /\ h.gen < generation'[h.slot] => h \in finished'
                 /\ h.gen = generation'[h.slot] =>
                        h \in ready' \/ \E w \in Workers : Runs(w)' /\ whandle'[w] = h
      <3>1. CASE h.slot = s
        BY <2>1, <2>2, <3>1, <1>1, <1>3, <1>6
      <3>2. CASE h.slot # s
        BY <2>2, <3>2, <1>1, <1>2, <1>3, <1>6 DEF IssueInv
      <3> QED BY <3>1, <3>2
    <2>3. \A w \in Workers : wpc'[w] = "bumpGeneration" => whandle'[w] \in finished'
      BY <1>1 DEF IssueInv
    <2> QED BY <2>2, <2>3 DEF IssueInv
  <1> QED BY <1>7, <1>8

(* execute() takes over the slot with the handle. *)
LEMMA ExecuteStep ==
    ASSUME PlaceInv, SlotInv, IssueInv, NEW w \in Workers, NEW h \in ready, Execute(w, h)
    PROVE  SlotInv' /\ IssueInv'
  <1>1. /\ ready' = ready \ {h}
        /\ wpc' = [wpc EXCEPT ![w] = "body"] /\ whandle' = [whandle EXCEPT ![w] = h]
        /\ state' = [state EXCEPT ![h.slot] = "Executing"]
        /\ UNCHANGED <<generation, free, issued, finished>>
        /\ wpc[w] = "idle"
    BY DEF Execute, WGoto, histVars
  <1>2. h \in Handle /\ h.slot \in Slots /\ h.gen \in Nat
    BY DEF PlaceInv, PoolType, Handle
  <1>3. /\ \A v \in Workers \ {w} : wpc'[v] = wpc[v] /\ whandle'[v] = whandle[v]
        /\ wpc'[w] = "body" /\ whandle'[w] = h
    BY <1>1 DEF PlaceInv, WorkerType
  <1>4. /\ \A v \in Workers \ {w} : Holds(v)' = Holds(v) /\ Runs(v)' = Runs(v)
        /\ ~Holds(w) /\ ~Runs(w) /\ Holds(w)' /\ Runs(w)'
    BY <1>1, <1>3 DEF Holds, Runs
  <1>5. h.slot \notin free /\ h.gen = generation[h.slot]
    BY DEF SlotInv
  <1>6. \A k \in ready' : k.slot # h.slot
    <2>1. ASSUME NEW k \in ready, k.slot = h.slot PROVE k = h
      <3>1. k.gen = h.gen
        BY <2>1, <1>5 DEF SlotInv
      <3> QED BY <2>1, <3>1, <1>2 DEF PlaceInv, PoolType, Handle
    <2> QED BY <2>1, <1>1
  <1>7. \A v \in Workers \ {w} : Holds(v) => whandle[v].slot # h.slot
    BY DEF SlotInv
  <1>8. SlotInv'
    <2>1. \A k \in ready' : k.slot \notin free' /\ k.gen = generation'[k.slot]
      BY <1>1 DEF SlotInv
    <2>2. ASSUME NEW v \in Workers, Holds(v)'
          PROVE  /\ whandle'[v].slot \notin free'
                 /\ \A k \in ready' : k.slot # whandle'[v].slot
                 /\ \A u \in Workers : Holds(u)' /\ u # v => whandle'[u].slot # whandle'[v].slot
                 /\ generation'[whandle'[v].slot] =
                        IF Runs(v)' THEN whandle'[v].gen ELSE whandle'[v].gen + 1
      <3>1. CASE v = w
        BY <3>1, <1>1, <1>3, <1>4, <1>5, <1>6, <1>7
      <3>2. CASE v # w
        BY <2>2, <3>2, <1>1, <1>3, <1>4, <1>7 DEF SlotInv
      <3> QED BY <3>1, <3>2
    <2>3. ASSUME NEW s \in Slots, state'[s] = "Completed"
          PROVE  \E v \in Workers : wpc'[v] \in {"bumpGeneration", "freeSlot"} /\ whandle'[v].slot = s
      <3>1. state[s] = "Completed"
        BY <2>3, <1>1 DEF PlaceInv, PoolType
      <3>2. PICK v \in Workers : wpc[v] \in {"bumpGeneration", "freeSlot"} /\ whandle[v].slot = s
        BY <3>1 DEF SlotInv
      <3> QED BY <3>2, <1>1, <1>3
    <2> QED BY <2>1, <2>2, <2>3 DEF SlotInv
  <1>9. IssueInv'
    BY <1>1, <1>3, <1>4 DEF IssueInv
  <1> QED BY <1>8, <1>9

(* What one worker's step does to who holds and who runs. *)
LEMMA HoldersMove ==
    ASSUME PlaceInv, NEW w \in Workers, NEW l \in Stages,
           wpc' = [wpc EXCEPT ![w] = l], UNCHANGED whandle
    PROVE  /\ \A v \in Workers \ {w} : Holds(v)' = Holds(v) /\ Runs(v)' = Runs(v)
           /\ \A v \in Workers \ {w} : wpc'[v] = wpc[v]
           /\ wpc'[w] = l
  BY DEF PlaceInv, WorkerType, Holds, Runs

(* The body has returned: the task is finished, its slot still held. *)
LEMMA StoreCompletedStep ==
    ASSUME PlaceInv, SlotInv, IssueInv, NEW w \in Workers, StoreCompleted(w)
    PROVE  SlotInv' /\ IssueInv'
  <1> DEFINE s == whandle[w].slot
  <1>1. /\ wpc[w] = "body" /\ wpc' = [wpc EXCEPT ![w] = "bumpGeneration"]
        /\ finished' = finished \cup {whandle[w]}
        /\ state' = [state EXCEPT ![s] = "Completed"]
        /\ UNCHANGED <<generation, free, ready, issued, whandle>>
    BY DEF StoreCompleted, WGoto
  <1>2. /\ \A v \in Workers : Holds(v)' = Holds(v) /\ Runs(v)' = Runs(v)
        /\ \A v \in Workers \ {w} : wpc'[v] = wpc[v]
        /\ wpc'[w] = "bumpGeneration"
    <2>1. "bumpGeneration" \in Stages
      BY DEF Stages
    <2>2. /\ \A v \in Workers \ {w} : Holds(v)' = Holds(v) /\ Runs(v)' = Runs(v)
          /\ \A v \in Workers \ {w} : wpc'[v] = wpc[v]
          /\ wpc'[w] = "bumpGeneration"
      BY <1>1, <2>1, HoldersMove
    <2> QED BY <1>1, <2>2 DEF Holds, Runs
  <1>3. SlotInv'
    <2>1. ASSUME NEW t \in Slots, state'[t] = "Completed"
          PROVE  \E v \in Workers : wpc'[v] \in {"bumpGeneration", "freeSlot"} /\ whandle'[v].slot = t
      <3>1. CASE t = s
        BY <3>1, <1>1, <1>2
      <3>2. CASE t # s
        <4>1. state[t] = "Completed"
          BY <2>1, <3>2, <1>1 DEF PlaceInv, PoolType
        <4>2. PICK v \in Workers : wpc[v] \in {"bumpGeneration", "freeSlot"} /\ whandle[v].slot = t
          BY <4>1 DEF SlotInv
        <4> QED BY <4>2, <3>2, <1>1, <1>2
      <3> QED BY <3>1, <3>2
    <2> QED BY <2>1, <1>1, <1>2 DEF SlotInv
  <1>4. IssueInv'
    <2>1. \A v \in Workers : wpc'[v] = "bumpGeneration" => whandle'[v] \in finished'
      BY <1>1, <1>2 DEF IssueInv
    <2> QED BY <2>1, <1>1, <1>2 DEF IssueInv
  <1> QED BY <1>3, <1>4

(* The slot moves to its next generation: the only handle that still had   *)
(* the old one is that of the task just finished.                          *)
LEMMA BumpGenerationStep ==
    ASSUME PlaceInv, SlotInv, IssueInv, NEW w \in Workers, BumpGeneration(w)
    PROVE  SlotInv' /\ IssueInv'
  <1> DEFINE s == whandle[w].slot
  <1>1. /\ wpc[w] = "bumpGeneration" /\ wpc' = [wpc EXCEPT ![w] = "freeSlot"]
        /\ generation' = [generation EXCEPT ![s] = @ + 1]
        /\ UNCHANGED <<state, free, ready, issued, finished, whandle>>
    BY DEF BumpGeneration, WGoto, histVars
  <1>2. /\ \A v \in Workers : Holds(v)' = Holds(v)
        /\ \A v \in Workers \ {w} : Runs(v)' = Runs(v) /\ wpc'[v] = wpc[v]
        /\ wpc'[w] = "freeSlot" /\ Holds(w) /\ Runs(w) /\ ~Runs(w)'
    <2>1. "freeSlot" \in Stages
      BY DEF Stages
    <2>2. /\ \A v \in Workers \ {w} : Holds(v)' = Holds(v) /\ Runs(v)' = Runs(v)
          /\ \A v \in Workers \ {w} : wpc'[v] = wpc[v]
          /\ wpc'[w] = "freeSlot"
      BY <1>1, <2>1, HoldersMove
    <2> QED BY <1>1, <2>2 DEF Holds, Runs
  <1>3. /\ whandle[w] \in Handle /\ s \in Slots
        /\ generation[s] = whandle[w].gen /\ generation[s] \in Nat
        /\ generation'[s] = generation[s] + 1
        /\ \A t \in Slots : t # s => generation'[t] = generation[t]
    <2>1. whandle[w] \in Handle
      BY <1>1 DEF PlaceInv, WorkerPlace, WorkerType
    <2>2. s \in Slots
      BY <2>1 DEF Handle
    <2>3. generation[s] = whandle[w].gen
      BY <1>2 DEF SlotInv
    <2> QED BY <1>1, <2>1, <2>2, <2>3 DEF PlaceInv, PoolType
  <1> HIDE DEF s
  <1>4. \A h \in ready : h.slot \in Slots /\ h.slot # s
    BY <1>2 DEF SlotInv, PlaceInv, PoolType, Handle, s
  <1>5. \A v \in Workers \ {w} : Holds(v) => whandle[v].slot # s /\ whandle[v].slot \in Slots
    <2>1. ASSUME NEW v \in Workers, v # w, Holds(v) PROVE whandle[v] \in Handle
      BY <2>1 DEF PlaceInv, WorkerPlace, WorkerType, Holds
    <2> QED BY <2>1, <1>2 DEF SlotInv, Handle, s
  <1>6. SlotInv'
    <2>1. \A h \in ready' : h.slot \notin free' /\ h.gen = generation'[h.slot]
      BY <1>1, <1>3, <1>4 DEF SlotInv
    <2>2. ASSUME NEW v \in Workers, Holds(v)'
          PROVE  /\ whandle'[v].slot \notin free'
                 /\ \A k \in ready' : k.slot # whandle'[v].slot
                 /\ \A u \in Workers : Holds(u)' /\ u # v => whandle'[u].slot # whandle'[v].slot
      BY <2>2, <1>1, <1>2 DEF SlotInv
    <2>3. ASSUME NEW v \in Workers, Holds(v)'
          PROVE  generation'[whandle'[v].slot] =
                     IF Runs(v)' THEN whandle'[v].gen ELSE whandle'[v].gen + 1
      <3>1. CASE v = w
        BY <3>1, <1>1, <1>2, <1>3 DEF s
      <3>2. CASE v # w
        BY <2>3, <3>2, <1>1, <1>2, <1>3, <1>5 DEF SlotInv
      <3> QED BY <3>1, <3>2
    <2>4. ASSUME NEW t \in Slots, state'[t] = "Completed"
          PROVE  \E v \in Workers : wpc'[v] \in {"bumpGeneration", "freeSlot"} /\ whandle'[v].slot = t
      <3>1. PICK v \in Workers : wpc[v] \in {"bumpGeneration", "freeSlot"} /\ whandle[v].slot = t
        BY <2>4, <1>1 DEF SlotInv
      <3> QED BY <3>1, <1>1, <1>2
    <2> QED BY <2>1, <2>2, <2>3, <2>4 DEF SlotInv
  <1>7. IssueInv'
    <2>1. \A v \in Workers : wpc'[v] = "bumpGeneration" => whandle'[v] \in finished'
      BY <1>1, <1>2 DEF IssueInv
    <2>2. ASSUME NEW h \in issued', h.slot = s
          PROVE  /\ h.gen < generation'[h.slot]
                 /\ h \in finished'
      <3>1. h \in issued /\ h \in Handle /\ h.gen \in Nat /\ h.gen <= generation[s]
        BY <2>2, <1>1 DEF IssueInv, PlaceInv, PoolType, Handle
      <3>2. ASSUME h.gen = generation[s] PROVE h \in finished
        <4>1. h \in ready \/ \E v \in Workers : Runs(v) /\ whandle[v] = h
          BY <2>2, <3>1, <3>2 DEF IssueInv
        <4>2. \A v \in Workers : Runs(v) /\ whandle[v] = h => v = w
          BY <2>2, <1>5 DEF Runs, Holds
        <4>3. whandle[w] = h
          BY <2>2, <4>1, <4>2, <1>4
        <4> QED BY <4>3, <1>1 DEF IssueInv
      <3>3. h.gen < generation[s] => h \in finished
        BY <2>2, <3>1 DEF IssueInv
      <3> QED BY <2>2, <1>1, <1>3, <3>1, <3>2, <3>3
    <2>3. ASSUME NEW h \in issued', h.slot # s
          PROVE  /\ h \in issued /\ generation'[h.slot] = generation[h.slot]
                 /\ \A v \in Workers : Runs(v) /\ whandle[v] = h => Runs(v)' /\ whandle'[v] = h
      BY <2>3, <1>1, <1>2, <1>3 DEF PlaceInv, PoolType, Handle, s
    <2>4. \A h \in issued' : h.slot = s => h.gen \in Nat
      BY <1>1 DEF PlaceInv, PoolType, Handle
    <2>5. \A h \in issued' : h.gen <= generation'[h.slot]
      BY <2>2, <2>3, <2>4, <1>3 DEF IssueInv
    <2>6. \A h \in issued' : h.gen < generation'[h.slot] => h \in finished'
      BY <2>2, <2>3, <1>1 DEF IssueInv
    <2>7. \A h \in issued' : h.gen = generation'[h.slot] =>
              h \in ready' \/ \E v \in Workers : Runs(v)' /\ whandle'[v] = h
      BY <2>2, <2>3, <2>4, <1>1, <1>3 DEF IssueInv
    <2> QED BY <2>1, <2>5, <2>6, <2>7 DEF IssueInv
  <1> QED BY <1>6, <1>7

(* The slot goes back to the pool: its worker was its only holder. *)
LEMMA FreeSlotStep ==
    ASSUME PlaceInv, SlotInv, IssueInv, NEW w \in Workers, FreeSlot(w)
    PROVE  SlotInv' /\ IssueInv'
  <1> DEFINE s == whandle[w].slot
  <1>1. /\ wpc[w] = "freeSlot" /\ wpc' = [wpc EXCEPT ![w] = "decrement"]
        /\ state' = [state EXCEPT ![s] = "Free"]
        /\ free' = free \cup {s}
        /\ UNCHANGED <<generation, ready, issued, finished, whandle>>
    BY DEF FreeSlot, WGoto, histVars
  <1>2. /\ \A v \in Workers : Runs(v)' = Runs(v)
        /\ \A v \in Workers \ {w} : Holds(v)' = Holds(v) /\ wpc'[v] = wpc[v]
        /\ wpc'[w] = "decrement" /\ Holds(w) /\ ~Holds(w)'
    <2>1. "decrement" \in Stages
      BY DEF Stages
    <2>2. /\ \A v \in Workers \ {w} : Holds(v)' = Holds(v) /\ Runs(v)' = Runs(v)
          /\ \A v \in Workers \ {w} : wpc'[v] = wpc[v]
          /\ wpc'[w] = "decrement"
      BY <1>1, <2>1, HoldersMove
    <2> QED BY <1>1, <2>2 DEF Holds, Runs
  <1>3. \A h \in ready : h.slot # s
    BY <1>2 DEF SlotInv
  <1>4. \A v \in Workers \ {w} : Holds(v) => whandle[v].slot # s
    BY <1>2 DEF SlotInv
  <1>5. SlotInv'
    <2>1. \A h \in ready' : h.slot \notin free' /\ h.gen = generation'[h.slot]
      BY <1>1, <1>3 DEF SlotInv
    <2>2. \A v \in Workers : Holds(v)' =>
             /\ whandle'[v].slot \notin free'
             /\ \A k \in ready' : k.slot # whandle'[v].slot
             /\ \A u \in Workers : Holds(u)' /\ u # v => whandle'[u].slot # whandle'[v].slot
             /\ generation'[whandle'[v].slot] =
                    IF Runs(v)' THEN whandle'[v].gen ELSE whandle'[v].gen + 1
      BY <1>1, <1>2, <1>4 DEF SlotInv
    <2>3. ASSUME NEW t \in Slots, state'[t] = "Completed"
          PROVE  \E v \in Workers : wpc'[v] \in {"bumpGeneration", "freeSlot"} /\ whandle'[v].slot = t
      <3>1. state[t] = "Completed" /\ t # s
        BY <2>3, <1>1 DEF PlaceInv, PoolType
      <3>2. PICK v \in Workers : wpc[v] \in {"bumpGeneration", "freeSlot"} /\ whandle[v].slot = t
        BY <3>1 DEF SlotInv
      <3> QED BY <3>1, <3>2, <1>1, <1>2
    <2> QED BY <2>1, <2>2, <2>3 DEF SlotInv
  <1>6. IssueInv'
    BY <1>1, <1>2 DEF IssueInv
  <1> QED BY <1>5, <1>6

(* SlotInv and IssueInv are kept by every step. *)
LEMMA PoolInvStep ==
    PlaceInv /\ SlotInv /\ ReservedInv /\ IssueInv /\ [Next]_vars => SlotInv' /\ IssueInv'
  BY PoolKeptStep, PoolInvKept, ReserveStep, PublishStep, ConstructThrowsStep, ExecuteStep,
     StoreCompletedStep, BumpGenerationStep, FreeSlotStep

(* Workers come and go, the slots they hold never those being filled.      *)
LEMMA ReservedWorkerStep ==
    ASSUME PlaceInv, SlotInv, ReservedInv, NEW w \in Workers,
           \/ \E h \in ready : Execute(w, h)
           \/ StoreCompleted(w) \/ BumpGeneration(w) \/ FreeSlot(w)
    PROVE  ReservedInv'
  <1>1. ASSUME NEW h \in ready, Execute(w, h) PROVE ReservedInv'
    <2>1. /\ ready' \subseteq ready /\ UNCHANGED <<generation, free, reserved>>
          /\ wpc' = [wpc EXCEPT ![w] = "body"] /\ whandle' = [whandle EXCEPT ![w] = h]
      BY <1>1 DEF Execute, WGoto
    <2>2. \A v \in Workers : Holds(v)' => (Holds(v) /\ whandle'[v] = whandle[v]) \/ whandle'[v] = h
      BY <2>1 DEF PlaceInv, WorkerType, Holds
    <2> QED BY <2>1, <2>2 DEF ReservedInv
  <1>2. ASSUME StoreCompleted(w) \/ BumpGeneration(w) \/ FreeSlot(w) PROVE ReservedInv'
    <2> DEFINE s == whandle[w].slot
    <2>1. /\ Holds(w) /\ UNCHANGED <<ready, reserved, whandle>>
          /\ free' \subseteq free \cup {s}
          /\ \/ generation' = generation
             \/ generation' = [generation EXCEPT ![s] = @ + 1]
      BY <1>2 DEF StoreCompleted, BumpGeneration, FreeSlot, Holds
    <2>2. \A v \in Workers : Holds(v)' => Holds(v)
      BY <1>2 DEF StoreCompleted, BumpGeneration, FreeSlot, WGoto, PlaceInv, WorkerType, Holds
    <2>3. \A e \in Threads : reserved[e] # Idle => reserved[e].slot \in Slots /\ reserved[e].slot # s
      BY <2>1 DEF ReservedInv, PlaceInv, PoolType, Handle
    <2>4. \A t \in Slots : t # s => generation'[t] = generation[t]
      BY <2>1 DEF PlaceInv, PoolType
    <2> HIDE DEF s
    <2> QED BY <2>1, <2>2, <2>3, <2>4 DEF ReservedInv
  <1> QED BY <1>1, <1>2

(* ReservedInv is kept by every step: a slot comes from the free list,     *)
(* where nobody else has it, and leaves for one place.                     *)
LEMMA ReservedStep ==
    PlaceInv /\ SlotInv /\ ReservedInv /\ [Next]_vars => ReservedInv'
  <1> SUFFICES ASSUME PlaceInv, SlotInv, ReservedInv, [Next]_vars PROVE ReservedInv'
    OBVIOUS
  <1>1. ASSUME NEW e \in Threads, NEW s \in Slots, Reserve(e, s) PROVE ReservedInv'
    <2> DEFINE h == [slot |-> s, gen |-> generation[s]]
    <2>1. /\ reserved' = [reserved EXCEPT ![e] = h] /\ s \in free /\ free' = free \ {s}
          /\ UNCHANGED <<generation, ready, wpc, whandle>>
          /\ h.slot = s /\ h.gen = generation[s]
      BY <1>1 DEF Reserve, workerVars
    <2> HIDE DEF h
    <2>2. /\ \A f \in Threads \ {e} : reserved'[f] = reserved[f]
          /\ reserved'[e] = h
      BY <2>1 DEF PlaceInv, PoolType
    <2>3. \A w \in Workers : Holds(w)' = Holds(w)
      BY <2>1 DEF Holds
    <2> QED BY <2>1, <2>2, <2>3 DEF ReservedInv, SlotInv
  <1>2. ASSUME NEW e \in Threads, Publish(e) PROVE ReservedInv'
    <2>1. /\ reserved' = [reserved EXCEPT ![e] = Idle] /\ ready' = ready \cup {reserved[e]}
          /\ UNCHANGED <<generation, free, wpc, whandle>>
      BY <1>2 DEF Publish, workerVars
    <2>2. /\ \A f \in Threads \ {e} : reserved'[f] = reserved[f]
          /\ reserved'[e] = Idle /\ reserved[e] # Idle
      BY <1>2, <2>1 DEF Publish, PlaceInv, PoolType, ThreadPlace
    <2>3. \A w \in Workers : Holds(w)' = Holds(w)
      BY <2>1 DEF Holds
    <2> QED BY <2>1, <2>2, <2>3 DEF ReservedInv
  <1>3. ASSUME NEW e \in Threads, ConstructThrows(e) PROVE ReservedInv'
    <2> DEFINE s == reserved[e].slot
    <2>1. /\ reserved' = [reserved EXCEPT ![e] = Idle] /\ free' = free \cup {s}
          /\ generation' = [generation EXCEPT ![s] = @ + 1]
          /\ UNCHANGED <<ready, wpc, whandle>>
      BY <1>3 DEF ConstructThrows, workerVars
    <2>2. /\ \A f \in Threads \ {e} : reserved'[f] = reserved[f]
          /\ reserved'[e] = Idle /\ reserved[e] # Idle
      BY <1>3, <2>1 DEF ConstructThrows, PlaceInv, PoolType, ThreadPlace
    <2>3. \A w \in Workers : Holds(w)' = Holds(w)
      BY <2>1 DEF Holds
    <2>4. \A f \in Threads \ {e} :
             reserved[f] # Idle => reserved[f].slot \in Slots /\ reserved[f].slot # s
      BY <2>2 DEF ReservedInv, PlaceInv, PoolType, Handle
    <2>5. \A t \in Slots : t # s => generation'[t] = generation[t]
      BY <2>1 DEF PlaceInv, PoolType
    <2> HIDE DEF s
    <2> QED BY <2>1, <2>2, <2>3, <2>4, <2>5 DEF ReservedInv
  <1>4. CASE PoolKept
    <2>1. UNCHANGED <<generation, free, ready, reserved>>
      BY <1>4 DEF PoolKept, poolVars
    <2>2. \A w \in Workers : Holds(w)' => Holds(w) /\ whandle'[w] = whandle[w]
      BY <1>4 DEF PoolKept, Holds
    <2> QED BY <2>1, <2>2 DEF ReservedInv
  <1> QED BY <1>1, <1>2, <1>3, <1>4, PoolKeptStep, ReservedWorkerStep

-----------------------------------------------------------------------------
(* The counters *)

WaiterCounts == handleWaiters = Cardinality(Counted) /\ allWaiters = Cardinality(AllCounted)

(* The step counts nobody in and nobody out. *)
CountedKept == Counted' = Counted /\ AllCounted' = AllCounted /\ UNCHANGED <<handleWaiters, allWaiters>>

(* Only the four increments and decrements of the waiter counts do. *)
LEMMA CountedKeptStep ==
    ASSUME PlaceInv, [Next]_vars,
           \A e \in Threads : ~CountWaiter(e) /\ ~UncountWaiter(e) /\ ~CountAllWaiter(e) /\ ~UncountAllWaiter(e)
    PROVE  CountedKept
  <1> USE NoneAssumption DEF PlaceInv, ThreadType, ThreadPlace, HandlePlaces, OtherPlaces, CountedKept, Counted, AllCounted,
          Blocked, Registered, InPredicate, waitVars, lockVars, threadVars, Goto, Return,
          AnswerYes, AnswerNo
  <1>1. ASSUME NEW e \in Threads, SubmitCount(e) PROVE CountedKept
    BY <1>1 DEF SubmitCount
  <1>2. ASSUME NEW e \in Threads, RunInline(e) PROVE CountedKept
    BY <1>2 DEF RunInline
  <1>3. ASSUME NEW e \in Threads, InlineCount(e) PROVE CountedKept
    BY <1>3 DEF InlineCount, UncountUntold
  <1>4. ASSUME NEW e \in Threads, CheckGeneration(e) PROVE CountedKept
    BY <1>4 DEF CheckGeneration
  <1>5. ASSUME NEW e \in Threads, CheckState(e) PROVE CountedKept
    BY <1>5 DEF CheckState
  <1>6. ASSUME NEW e \in Threads, RecheckGeneration(e) PROVE CountedKept
    BY <1>6 DEF RecheckGeneration
  <1>7. ASSUME NEW e \in Threads, RegisterTry(e) PROVE CountedKept
    BY <1>7 DEF RegisterTry
  <1>8. ASSUME NEW e \in Threads, RegisterOverflow(e) PROVE CountedKept
    BY <1>8 DEF RegisterOverflow
  <1>9. ASSUME NEW e \in Threads, Lock(e) PROVE CountedKept
    BY <1>9 DEF Lock
  <1>10. ASSUME NEW e \in Threads, Sleep(e) PROVE CountedKept
    BY <1>10 DEF Sleep
  <1>11. ASSUME NEW e \in Threads, SpuriousWakeup(e) PROVE CountedKept
    BY <1>11 DEF SpuriousWakeup
  <1>12. ASSUME NEW e \in Threads, Unregister(e) PROVE CountedKept
    BY <1>12 DEF Unregister
  <1>13. ASSUME NEW e \in Threads, WaitAll(e) PROVE CountedKept
    BY <1>13 DEF WaitAll
  <1>14. ASSUME NEW e \in Threads, CheckOutstanding(e) PROVE CountedKept
    BY <1>14 DEF CheckOutstanding
  <1>15. ASSUME NEW e \in Threads, NEW s \in Slots, Reserve(e, s) PROVE CountedKept
    BY <1>15 DEF Reserve
  <1>16. ASSUME NEW e \in Threads, NEW h \in issued, WaitHandle(e, h) PROVE CountedKept
    BY <1>16 DEF WaitHandle
  <1>17. ASSUME NEW w \in Workers, StoreCompleted(w) PROVE CountedKept
    BY <1>17 DEF StoreCompleted
  <1>18. ASSUME NEW w \in Workers, BumpGeneration(w) PROVE CountedKept
    BY <1>18 DEF BumpGeneration
  <1>19. ASSUME NEW w \in Workers, FreeSlot(w) PROVE CountedKept
    BY <1>19 DEF FreeSlot
  <1>20. ASSUME NEW w \in Workers, Decrement(w) PROVE CountedKept
    BY <1>20 DEF Decrement
  <1>21. ASSUME NEW w \in Workers, ReadHandleWaiters(w) PROVE CountedKept
    BY <1>21 DEF ReadHandleWaiters
  <1>22. ASSUME NEW w \in Workers, ReadOverflow(w) PROVE CountedKept
    BY <1>22 DEF ReadOverflow
  <1>23. ASSUME NEW w \in Workers, ScanWaiters(w) PROVE CountedKept
    BY <1>23 DEF ScanWaiters
  <1>24. ASSUME NEW w \in Workers, ReadAllWaiters(w) PROVE CountedKept
    BY <1>24 DEF ReadAllWaiters
  <1>25. ASSUME NEW w \in Workers, LockUnlock(w) PROVE CountedKept
    BY <1>25 DEF LockUnlock
  <1>26. ASSUME NEW w \in Workers, NotifyAll(w) PROVE CountedKept
    BY <1>26 DEF NotifyAll
  <1>27. ASSUME NEW w \in Workers, NEW h \in ready, Execute(w, h) PROVE CountedKept
    BY <1>27 DEF Execute
  <1>28. CASE UNCHANGED vars
    BY <1>28 DEF vars
  <1>29. ASSUME NEW e \in Threads, Publish(e) PROVE CountedKept
    BY <1>29 DEF Publish
  <1>30. ASSUME NEW e \in Threads, ConstructThrows(e) PROVE CountedKept
    BY <1>30 DEF ConstructThrows
  <1>31. ASSUME NEW e \in Threads, ConstructThrowsInline(e) PROVE CountedKept
    BY <1>31 DEF ConstructThrowsInline
  <1>32. ASSUME NEW e \in Threads, Rethrow(e) PROVE CountedKept
    BY <1>32 DEF Rethrow, UncountUntold
  <1> QED
    BY <1>1, <1>2, <1>3, <1>4, <1>5, <1>6, <1>7, <1>8, <1>9, <1>10, <1>11, <1>12, <1>13, <1>14, <1>15, <1>16, <1>17, <1>18, <1>19, <1>20, <1>21, <1>22, <1>23, <1>24, <1>25, <1>26, <1>27, <1>28, <1>29, <1>30, <1>31, <1>32
    DEF Next, ThreadCalls, ThreadStep, WorkerStep

(* handle_waiters_ and all_waiters_ count exactly the callers between the *)
(* increment and the decrement.                                            *)
LEMMA WaiterCountsStep == PlaceInv /\ WaiterCounts /\ [Next]_vars => WaiterCounts'
  <1> SUFFICES ASSUME PlaceInv, WaiterCounts, [Next]_vars PROVE WaiterCounts'
    OBVIOUS
  <1> USE DEF PlaceInv, ThreadType, ThreadPlace, HandlePlaces, OtherPlaces, Counted, AllCounted,
              Blocked, Registered, InPredicate, lockVars, Goto, Return
  <1>1. IsFiniteSet(Counted) /\ IsFiniteSet(AllCounted)
    BY FinitelyManyThreads, FS_Subset
  <1>2. ASSUME NEW e \in Threads, CountWaiter(e) PROVE WaiterCounts'
    <2>1. Counted' = Counted \cup {e} /\ e \notin Counted /\ AllCounted' = AllCounted
      BY <1>2 DEF CountWaiter
    <2>2. handleWaiters' = handleWaiters + 1 /\ allWaiters' = allWaiters
      BY <1>2 DEF CountWaiter
    <2> QED
      <3> HIDE DEF Counted, AllCounted
      <3> QED BY <1>1, <2>1, <2>2, FS_AddElement DEF WaiterCounts
  <1>3. ASSUME NEW e \in Threads, UncountWaiter(e) PROVE WaiterCounts'
    <2>1. Counted' = Counted \ {e} /\ e \in Counted /\ AllCounted' = AllCounted
      BY <1>3 DEF UncountWaiter
    <2>2. handleWaiters' = handleWaiters - 1 /\ allWaiters' = allWaiters
      BY <1>3 DEF UncountWaiter
    <2> QED
      <3> HIDE DEF Counted, AllCounted
      <3> QED BY <1>1, <2>1, <2>2, FS_RemoveElement DEF WaiterCounts
  <1>4. ASSUME NEW e \in Threads, CountAllWaiter(e) PROVE WaiterCounts'
    <2>1. AllCounted' = AllCounted \cup {e} /\ e \notin AllCounted /\ Counted' = Counted
      BY <1>4 DEF CountAllWaiter
    <2>2. handleWaiters' = handleWaiters /\ allWaiters' = allWaiters + 1
      BY <1>4 DEF CountAllWaiter
    <2> QED
      <3> HIDE DEF Counted, AllCounted
      <3> QED BY <1>1, <2>1, <2>2, FS_AddElement DEF WaiterCounts
  <1>5. ASSUME NEW e \in Threads, UncountAllWaiter(e) PROVE WaiterCounts'
    <2>1. AllCounted' = AllCounted \ {e} /\ e \in AllCounted /\ Counted' = Counted
      BY <1>5 DEF UncountAllWaiter
    <2>2. handleWaiters' = handleWaiters /\ allWaiters' = allWaiters - 1
      BY <1>5 DEF UncountAllWaiter
    <2> QED
      <3> HIDE DEF Counted, AllCounted
      <3> QED BY <1>1, <2>1, <2>2, FS_RemoveElement DEF WaiterCounts
  <1>6. CASE \A e \in Threads :
            ~CountWaiter(e) /\ ~UncountWaiter(e) /\ ~CountAllWaiter(e) /\ ~UncountAllWaiter(e)
    BY <1>6, CountedKeptStep DEF CountedKept, WaiterCounts
  <1> QED BY <1>2, <1>3, <1>4, <1>5, <1>6

OutstandingCount ==
    /\ IsFiniteSet(ready)
    /\ outstanding = Cardinality(Submitting) + Cardinality(ready) + Cardinality(Running)

(* The step starts no task, and moves none from one stage to the next. *)
OutstandingKept ==
    Submitting' = Submitting /\ Running' = Running /\ UNCHANGED <<ready, outstanding>>

(* Only the six steps that begin or end a stage of a task do. *)
LEMMA OutstandingKeptStep ==
    ASSUME PlaceInv, [Next]_vars,
           \A e \in Threads :
               ~SubmitCount(e) /\ ~Publish(e) /\ ~InlineCount(e) /\ ~Rethrow(e),
           \A w \in Workers : ~Decrement(w) /\ \A h \in ready : ~Execute(w, h)
    PROVE  OutstandingKept
  <1> USE DEF PlaceInv, ThreadType, ThreadPlace, HandlePlaces, OtherPlaces, WorkerType, OutstandingKept,
          Submitting, Running, poolVars, waitVars, lockVars, threadVars, workerVars, Goto, Return,
          WGoto, WReturn, AnswerYes, AnswerNo
  <1>1. ASSUME NEW e \in Threads, RunInline(e) PROVE OutstandingKept
    BY <1>1 DEF RunInline
  <1>2. ASSUME NEW e \in Threads, CheckGeneration(e) PROVE OutstandingKept
    BY <1>2 DEF CheckGeneration
  <1>3. ASSUME NEW e \in Threads, CheckState(e) PROVE OutstandingKept
    BY <1>3 DEF CheckState
  <1>4. ASSUME NEW e \in Threads, RecheckGeneration(e) PROVE OutstandingKept
    BY <1>4 DEF RecheckGeneration
  <1>5. ASSUME NEW e \in Threads, RegisterTry(e) PROVE OutstandingKept
    BY <1>5 DEF RegisterTry
  <1>6. ASSUME NEW e \in Threads, RegisterOverflow(e) PROVE OutstandingKept
    BY <1>6 DEF RegisterOverflow
  <1>7. ASSUME NEW e \in Threads, CountWaiter(e) PROVE OutstandingKept
    BY <1>7 DEF CountWaiter
  <1>8. ASSUME NEW e \in Threads, Lock(e) PROVE OutstandingKept
    BY <1>8 DEF Lock
  <1>9. ASSUME NEW e \in Threads, Sleep(e) PROVE OutstandingKept
    BY <1>9 DEF Sleep
  <1>10. ASSUME NEW e \in Threads, SpuriousWakeup(e) PROVE OutstandingKept
    BY <1>10 DEF SpuriousWakeup
  <1>11. ASSUME NEW e \in Threads, UncountWaiter(e) PROVE OutstandingKept
    BY <1>11 DEF UncountWaiter
  <1>12. ASSUME NEW e \in Threads, Unregister(e) PROVE OutstandingKept
    BY <1>12 DEF Unregister
  <1>13. ASSUME NEW e \in Threads, WaitAll(e) PROVE OutstandingKept
    BY <1>13 DEF WaitAll
  <1>14. ASSUME NEW e \in Threads, CountAllWaiter(e) PROVE OutstandingKept
    BY <1>14 DEF CountAllWaiter
  <1>15. ASSUME NEW e \in Threads, CheckOutstanding(e) PROVE OutstandingKept
    BY <1>15 DEF CheckOutstanding
  <1>16. ASSUME NEW e \in Threads, UncountAllWaiter(e) PROVE OutstandingKept
    BY <1>16 DEF UncountAllWaiter
  <1>17. ASSUME NEW e \in Threads, NEW h \in issued, WaitHandle(e, h) PROVE OutstandingKept
    BY <1>17 DEF WaitHandle
  <1>18. ASSUME NEW w \in Workers, StoreCompleted(w) PROVE OutstandingKept
    BY <1>18 DEF StoreCompleted
  <1>19. ASSUME NEW w \in Workers, BumpGeneration(w) PROVE OutstandingKept
    BY <1>19 DEF BumpGeneration
  <1>20. ASSUME NEW w \in Workers, FreeSlot(w) PROVE OutstandingKept
    BY <1>20 DEF FreeSlot
  <1>21. ASSUME NEW w \in Workers, ReadHandleWaiters(w) PROVE OutstandingKept
    BY <1>21 DEF ReadHandleWaiters
  <1>22. ASSUME NEW w \in Workers, ReadOverflow(w) PROVE OutstandingKept
    BY <1>22 DEF ReadOverflow
  <1>23. ASSUME NEW w \in Workers, ScanWaiters(w) PROVE OutstandingKept
    BY <1>23 DEF ScanWaiters
  <1>24. ASSUME NEW w \in Workers, ReadAllWaiters(w) PROVE OutstandingKept
    BY <1>24 DEF ReadAllWaiters
  <1>25. ASSUME NEW w \in Workers, LockUnlock(w) PROVE OutstandingKept
    BY <1>25 DEF LockUnlock
  <1>26. ASSUME NEW w \in Workers, NotifyAll(w) PROVE OutstandingKept
    BY <1>26 DEF NotifyAll
  <1>27. CASE UNCHANGED vars
    BY <1>27 DEF vars
  <1>28. ASSUME NEW e \in Threads, NEW s \in Slots, Reserve(e, s) PROVE OutstandingKept
    BY <1>28 DEF Reserve
  <1>29. ASSUME NEW e \in Threads, ConstructThrows(e) PROVE OutstandingKept
    BY <1>29 DEF ConstructThrows
  <1>30. ASSUME NEW e \in Threads, ConstructThrowsInline(e) PROVE OutstandingKept
    BY <1>30 DEF ConstructThrowsInline
  <1> QED
    BY <1>1, <1>2, <1>3, <1>4, <1>5, <1>6, <1>7, <1>8, <1>9, <1>10, <1>11, <1>12, <1>13, <1>14, <1>15, <1>16, <1>17, <1>18, <1>19, <1>20, <1>21, <1>22, <1>23, <1>24, <1>25, <1>26, <1>27, <1>28, <1>29, <1>30
    DEF Next, ThreadCalls, ThreadStep, WorkerStep

(* outstanding_ counts exactly the tasks between submit() and the          *)
(* decrement in complete(), run_inline() or a catch block.                 *)
LEMMA OutstandingStep ==
    PlaceInv /\ ReservedInv /\ OutstandingCount /\ [Next]_vars => OutstandingCount'
  <1> SUFFICES ASSUME PlaceInv, ReservedInv, OutstandingCount, [Next]_vars PROVE OutstandingCount'
    OBVIOUS
  <1> USE DEF PlaceInv, ThreadType, WorkerType, Goto, WGoto
  <1>1. /\ IsFiniteSet(Submitting) /\ IsFiniteSet(Running) /\ IsFiniteSet(ready)
        /\ Cardinality(Submitting) \in Nat /\ Cardinality(Running) \in Nat
        /\ Cardinality(ready) \in Nat
    BY FinitelyManyThreads, FS_Subset, FS_CardinalityType DEF Submitting, Running, OutstandingCount
  <1>2. ASSUME NEW e \in Threads, SubmitCount(e) PROVE OutstandingCount'
    <2>1. Submitting' = Submitting \cup {e} /\ e \notin Submitting /\ Running' = Running
      BY <1>2 DEF SubmitCount, Submitting, Running, workerVars
    <2>2. outstanding' = outstanding + 1 /\ ready' = ready
      BY <1>2 DEF SubmitCount, poolVars
    <2>3. Cardinality(Submitting') = Cardinality(Submitting) + 1
      BY <1>1, <2>1, FS_AddElement
    <2> QED BY <1>1, <2>1, <2>2, <2>3 DEF OutstandingCount
  <1>3. ASSUME NEW e \in Threads, InlineCount(e) \/ Rethrow(e) PROVE OutstandingCount'
    <2>1. Submitting' = Submitting \ {e} /\ e \in Submitting /\ Running' = Running
      BY <1>3 DEF InlineCount, Rethrow, UncountUntold, Submitting, Running, workerVars
    <2>2. outstanding' = outstanding - 1 /\ ready' = ready
      BY <1>3 DEF InlineCount, Rethrow, UncountUntold, poolVars
    <2>3. Cardinality(Submitting') = Cardinality(Submitting) - 1
      BY <1>1, <2>1, FS_RemoveElement
    <2> QED BY <1>1, <2>1, <2>2, <2>3 DEF OutstandingCount
  <1>4. ASSUME NEW e \in Threads, Publish(e) PROVE OutstandingCount'
    <2>1. Submitting' = Submitting \ {e} /\ e \in Submitting /\ Running' = Running
      BY <1>4 DEF Publish, Submitting, Running, workerVars
    <2>2. outstanding' = outstanding /\ ready' = ready \cup {reserved[e]} /\ reserved[e] # Idle
      BY <1>4 DEF Publish, ThreadPlace
    <2>3. reserved[e] \notin ready
      BY <2>2 DEF ReservedInv
    <2>4. Cardinality(Submitting') = Cardinality(Submitting) - 1
      BY <1>1, <2>1, FS_RemoveElement
    <2>5. IsFiniteSet(ready') /\ Cardinality(ready') = Cardinality(ready) + 1
      BY <1>1, <2>2, <2>3, FS_AddElement
    <2> QED BY <1>1, <2>1, <2>2, <2>4, <2>5 DEF OutstandingCount
  <1>5. ASSUME NEW w \in Workers, NEW h \in ready, Execute(w, h) PROVE OutstandingCount'
    <2>1. Running' = Running \cup {w} /\ w \notin Running /\ Submitting' = Submitting
      BY <1>5 DEF Execute, Submitting, Running, threadVars
    <2>2. outstanding' = outstanding /\ ready' = ready \ {h}
      BY <1>5 DEF Execute
    <2>3. Cardinality(Running') = Cardinality(Running) + 1
      BY <1>1, <2>1, FS_AddElement
    <2>4. IsFiniteSet(ready') /\ Cardinality(ready') = Cardinality(ready) - 1
      BY <1>1, <2>2, FS_RemoveElement
    <2> QED BY <1>1, <2>1, <2>2, <2>3, <2>4 DEF OutstandingCount
  <1>6. ASSUME NEW w \in Workers, Decrement(w) PROVE OutstandingCount'
    <2>1. Running' = Running \ {w} /\ w \in Running /\ Submitting' = Submitting
      BY <1>6 DEF Decrement, Submitting, Running, threadVars
    <2>2. outstanding' = outstanding - 1 /\ ready' = ready
      BY <1>6 DEF Decrement, poolVars
    <2>3. Cardinality(Running') = Cardinality(Running) - 1
      BY <1>1, <2>1, FS_RemoveElement
    <2> QED BY <1>1, <2>1, <2>2, <2>3 DEF OutstandingCount
  <1>7. CASE /\ \A e \in Threads :
                    ~SubmitCount(e) /\ ~Publish(e) /\ ~InlineCount(e) /\ ~Rethrow(e)
             /\ \A w \in Workers : ~Decrement(w) /\ \A h \in ready : ~Execute(w, h)
    BY <1>7, OutstandingKeptStep DEF OutstandingKept, OutstandingCount
  <1> QED BY <1>2, <1>3, <1>4, <1>5, <1>6, <1>7

-----------------------------------------------------------------------------
(* The answer of is_complete_internal() *)

(* No generation goes back, no handle is forgotten. *)
HistoryGrows ==
    /\ issued \subseteq issued' /\ finished \subseteq finished'
    /\ \A s \in Slots : generation[s] <= generation'[s]

(* No step takes back an issue, a finish or a generation. *)
LEMMA HistoryGrowsStep == PlaceInv /\ [Next]_vars => HistoryGrows
  <1> SUFFICES ASSUME PlaceInv, [Next]_vars PROVE HistoryGrows
    OBVIOUS
  <1> USE DEF PlaceInv, PoolType, HistoryGrows
  <1>1. ASSUME NEW w \in Workers, BumpGeneration(w) PROVE HistoryGrows
    BY <1>1 DEF BumpGeneration, histVars
  <1>2. ASSUME UNCHANGED generation, issued \subseteq issued', finished \subseteq finished'
        PROVE  HistoryGrows
    BY <1>2
  <1>6. ASSUME NEW e \in Threads, ConstructThrows(e) PROVE HistoryGrows
    BY <1>6 DEF ConstructThrows, histVars
  <1> HIDE DEF HistoryGrows
  <1>3. ASSUME NEW e \in Threads,
               \/ \E s \in Slots : Reserve(e, s)
               \/ Publish(e) \/ ConstructThrowsInline(e) \/ Rethrow(e)
               \/ \E h \in issued : WaitHandle(e, h)
               \/ SubmitCount(e) \/ RunInline(e) \/ InlineCount(e) \/ CheckGeneration(e)
               \/ CheckState(e) \/ RecheckGeneration(e) \/ RegisterTry(e)
               \/ RegisterOverflow(e) \/ CountWaiter(e) \/ Lock(e) \/ Sleep(e)
               \/ SpuriousWakeup(e) \/ UncountWaiter(e) \/ Unregister(e) \/ WaitAll(e)
               \/ CountAllWaiter(e) \/ CheckOutstanding(e) \/ UncountAllWaiter(e)
        PROVE  HistoryGrows
    BY <1>2, <1>3 DEF Reserve, Publish, ConstructThrowsInline, Rethrow, UncountUntold, WaitHandle, CheckGeneration,
                      CheckState, RecheckGeneration, SubmitCount, RunInline, InlineCount,
                      RegisterTry, RegisterOverflow, CountWaiter, Lock,
                      Sleep, SpuriousWakeup, UncountWaiter, Unregister, WaitAll,
                      CountAllWaiter, CheckOutstanding, UncountAllWaiter,
                      poolVars, histVars
  <1>4. ASSUME NEW w \in Workers,
               \/ \E h \in ready : Execute(w, h)
               \/ StoreCompleted(w) \/ FreeSlot(w) \/ Decrement(w) \/ ReadHandleWaiters(w)
               \/ ReadOverflow(w) \/ ScanWaiters(w) \/ ReadAllWaiters(w)
               \/ LockUnlock(w) \/ NotifyAll(w)
        PROVE  HistoryGrows
    BY <1>2, <1>4 DEF Execute, StoreCompleted, FreeSlot, Decrement, ReadHandleWaiters, ReadOverflow,
                      ScanWaiters, ReadAllWaiters, LockUnlock, NotifyAll, poolVars, histVars
  <1>5. CASE UNCHANGED vars
    BY <1>2, <1>5 DEF vars
  <1> QED BY <1>1, <1>3, <1>4, <1>5, <1>6 DEF Next, ThreadCalls, ThreadStep, WorkerStep

(* The step brings thread e to no conclusion. *)
NoAnswer(e) ==
    \/ target'[e] = Idle
    \/ /\ target'[e] = target[e]
       /\ epc'[e] \in {"leave", "unregister"} => epc[e] \in {"leave", "unregister"}
       /\ epc'[e] = "recheck" => epc[e] = "recheck" /\ seen'[e] = seen[e]

(* What was justified stays so as the history grows. *)
LEMMA JustifiedKept ==
    ASSUME PlaceInv, IssueInv, HistoryGrows, NEW e \in Threads, Justified(e), NoAnswer(e)
    PROVE  Justified(e)'
  <1>1. SUFFICES ASSUME target'[e] # Idle PROVE Justified(e)'
    BY DEF Justified
  <1>2. /\ target'[e] = target[e] /\ target[e] \in issued /\ target[e] \in issued'
        /\ target[e].slot \in Slots /\ target[e].gen \in Nat
        /\ target[e].gen <= generation[target[e].slot]
    BY <1>1 DEF NoAnswer, Justified, HistoryGrows, IssueInv, PlaceInv, PoolType, Handle
  <1>3. generation'[target[e].slot] = target[e].gen => generation[target[e].slot] = target[e].gen
    BY <1>2 DEF HistoryGrows, PlaceInv, PoolType
  <1> QED BY <1>1, <1>2, <1>3 DEF Justified, NoAnswer, HistoryGrows

(* The steps that bring no thread to a conclusion: all but those of        *)
(* is_complete_internal() and the call that begins it.                     *)
LEMMA NoAnswerStep ==
    ASSUME PlaceInv, [Next]_vars,
           \A e \in Threads :
               /\ ~CheckGeneration(e) /\ ~CheckState(e) /\ ~RecheckGeneration(e)
               /\ \A h \in issued : ~WaitHandle(e, h)
    PROVE  \A f \in Threads : NoAnswer(f)
  <1> TAKE f \in Threads
  <1> USE DEF PlaceInv, ThreadType, ThreadPlace, HandlePlaces, OtherPlaces, NoAnswer, lockVars,
              threadVars, Goto, Return, AnswerYes, AnswerNo
  <1>1. ASSUME NEW e \in Threads, SubmitCount(e) PROVE NoAnswer(f)
    BY <1>1 DEF SubmitCount
  <1>2. ASSUME NEW e \in Threads, RunInline(e) PROVE NoAnswer(f)
    BY <1>2 DEF RunInline
  <1>3. ASSUME NEW e \in Threads, InlineCount(e) PROVE NoAnswer(f)
    BY <1>3 DEF InlineCount, UncountUntold
  <1>4. ASSUME NEW e \in Threads, RegisterTry(e) PROVE NoAnswer(f)
    BY <1>4 DEF RegisterTry
  <1>5. ASSUME NEW e \in Threads, RegisterOverflow(e) PROVE NoAnswer(f)
    BY <1>5 DEF RegisterOverflow
  <1>6. ASSUME NEW e \in Threads, CountWaiter(e) PROVE NoAnswer(f)
    BY <1>6 DEF CountWaiter
  <1>7. ASSUME NEW e \in Threads, Lock(e) PROVE NoAnswer(f)
    BY <1>7 DEF Lock
  <1>8. ASSUME NEW e \in Threads, Sleep(e) PROVE NoAnswer(f)
    BY <1>8 DEF Sleep
  <1>9. ASSUME NEW e \in Threads, SpuriousWakeup(e) PROVE NoAnswer(f)
    BY <1>9 DEF SpuriousWakeup
  <1>10. ASSUME NEW e \in Threads, UncountWaiter(e) PROVE NoAnswer(f)
    BY <1>10 DEF UncountWaiter
  <1>11. ASSUME NEW e \in Threads, Unregister(e) PROVE NoAnswer(f)
    BY <1>11 DEF Unregister
  <1>12. ASSUME NEW e \in Threads, WaitAll(e) PROVE NoAnswer(f)
    BY <1>12 DEF WaitAll
  <1>13. ASSUME NEW e \in Threads, CountAllWaiter(e) PROVE NoAnswer(f)
    BY <1>13 DEF CountAllWaiter
  <1>14. ASSUME NEW e \in Threads, CheckOutstanding(e) PROVE NoAnswer(f)
    BY <1>14 DEF CheckOutstanding
  <1>15. ASSUME NEW e \in Threads, UncountAllWaiter(e) PROVE NoAnswer(f)
    BY <1>15 DEF UncountAllWaiter
  <1>16. ASSUME NEW e \in Threads, NEW s \in Slots, Reserve(e, s) PROVE NoAnswer(f)
    BY <1>16 DEF Reserve
  <1>17. ASSUME NEW w \in Workers, StoreCompleted(w) PROVE NoAnswer(f)
    BY <1>17 DEF StoreCompleted
  <1>18. ASSUME NEW w \in Workers, BumpGeneration(w) PROVE NoAnswer(f)
    BY <1>18 DEF BumpGeneration
  <1>19. ASSUME NEW w \in Workers, FreeSlot(w) PROVE NoAnswer(f)
    BY <1>19 DEF FreeSlot
  <1>20. ASSUME NEW w \in Workers, Decrement(w) PROVE NoAnswer(f)
    BY <1>20 DEF Decrement
  <1>21. ASSUME NEW w \in Workers, ReadHandleWaiters(w) PROVE NoAnswer(f)
    BY <1>21 DEF ReadHandleWaiters
  <1>22. ASSUME NEW w \in Workers, ReadOverflow(w) PROVE NoAnswer(f)
    BY <1>22 DEF ReadOverflow
  <1>23. ASSUME NEW w \in Workers, ScanWaiters(w) PROVE NoAnswer(f)
    BY <1>23 DEF ScanWaiters
  <1>24. ASSUME NEW w \in Workers, ReadAllWaiters(w) PROVE NoAnswer(f)
    BY <1>24 DEF ReadAllWaiters
  <1>25. ASSUME NEW w \in Workers, LockUnlock(w) PROVE NoAnswer(f)
    BY <1>25 DEF LockUnlock
  <1>26. ASSUME NEW w \in Workers, NotifyAll(w) PROVE NoAnswer(f)
    BY <1>26 DEF NotifyAll
  <1>27. ASSUME NEW w \in Workers, NEW h \in ready, Execute(w, h) PROVE NoAnswer(f)
    BY <1>27 DEF Execute
  <1>28. CASE UNCHANGED vars
    BY <1>28 DEF vars
  <1>29. ASSUME NEW e \in Threads, Publish(e) PROVE NoAnswer(f)
    BY <1>29 DEF Publish
  <1>30. ASSUME NEW e \in Threads, ConstructThrows(e) PROVE NoAnswer(f)
    BY <1>30 DEF ConstructThrows
  <1>31. ASSUME NEW e \in Threads, ConstructThrowsInline(e) PROVE NoAnswer(f)
    BY <1>31 DEF ConstructThrowsInline
  <1>32. ASSUME NEW e \in Threads, Rethrow(e) PROVE NoAnswer(f)
    BY <1>32 DEF Rethrow, UncountUntold
  <1> QED
    BY <1>1, <1>2, <1>3, <1>4, <1>5, <1>6, <1>7, <1>8, <1>9, <1>10, <1>11, <1>12, <1>13, <1>14, <1>15, <1>16, <1>17, <1>18, <1>19, <1>20, <1>21, <1>22, <1>23, <1>24, <1>25, <1>26, <1>27, <1>28, <1>29, <1>30, <1>31, <1>32
    DEF Next, ThreadCalls, ThreadStep, WorkerStep

(* The other threads conclude nothing while e does. *)
LEMMA OthersNoAnswer ==
    ASSUME PlaceInv, NEW e \in Threads, NEW f \in Threads, f # e,
           \/ CheckGeneration(e) \/ CheckState(e) \/ RecheckGeneration(e)
           \/ \E h \in issued : WaitHandle(e, h)
    PROVE  NoAnswer(f)
  BY DEF PlaceInv, ThreadType, NoAnswer, lockVars, threadVars, Goto, Return, AnswerYes, AnswerNo,
         CheckGeneration, CheckState, RecheckGeneration, WaitHandle

(* The generation has moved on: the task has finished. *)
LEMMA MovedOn ==
    ASSUME PlaceInv, IssueInv, NEW h \in issued, generation[h.slot] # h.gen
    PROVE  h \in finished
  <1>1. h.slot \in Slots /\ h.gen \in Nat /\ generation[h.slot] \in Nat
    BY DEF PlaceInv, PoolType, Handle
  <1> QED BY <1>1 DEF IssueInv

(* The slot is marked completed and the generation is still the handle's:  *)
(* its holder is the worker that has just finished that very task.         *)
LEMMA SeenCompleted ==
    ASSUME PlaceInv, SlotInv, IssueInv, NEW h \in issued,
           state[h.slot] = "Completed", generation[h.slot] = h.gen
    PROVE  h \in finished
  <1>1. h \in Handle /\ h.slot \in Slots /\ h.gen \in Nat
    BY DEF PlaceInv, PoolType, Handle
  <1>2. PICK w \in Workers : wpc[w] \in {"bumpGeneration", "freeSlot"} /\ whandle[w].slot = h.slot
    BY <1>1 DEF SlotInv
  <1>3. h \notin ready
    BY <1>2 DEF SlotInv, Holds
  <1>4. PICK v \in Workers : Runs(v) /\ whandle[v] = h
    BY <1>3 DEF IssueInv
  <1>5. v = w
    BY <1>2, <1>4 DEF SlotInv, Holds, Runs
  <1> QED BY <1>2, <1>4, <1>5 DEF IssueInv, Runs

(* Each question is answered truly. *)
LEMMA AnswerStep ==
    PlaceInv /\ SlotInv /\ IssueInv /\ AnswerInv /\ [Next]_vars => AnswerInv'
  <1> SUFFICES ASSUME PlaceInv, SlotInv, IssueInv, AnswerInv, [Next]_vars PROVE AnswerInv'
    OBVIOUS
  <1>1. HistoryGrows
    BY HistoryGrowsStep
  <1>2. ASSUME NEW e \in Threads,
               \/ CheckGeneration(e) \/ CheckState(e) \/ RecheckGeneration(e)
               \/ \E h \in issued : WaitHandle(e, h),
               Justified(e)'
        PROVE  AnswerInv'
    BY <1>1, <1>2, OthersNoAnswer, JustifiedKept DEF AnswerInv
  <1>3. ASSUME NEW e \in Threads, CheckGeneration(e) PROVE Justified(e)'
    <2>1. target[e] # Idle /\ target[e] \in issued /\ issued' = issued /\ finished' = finished
      BY <1>3 DEF CheckGeneration, PlaceInv, ThreadPlace, HandlePlaces, AnswerInv, Justified, histVars
    <2>2. CASE generation[target[e].slot] = target[e].gen
      <3>1. NoAnswer(e)
        BY <1>3, <2>2 DEF CheckGeneration, NoAnswer, Goto, PlaceInv, ThreadType
      <3> QED BY <3>1, <1>1, JustifiedKept DEF AnswerInv
    <2>3. CASE generation[target[e].slot] # target[e].gen
      <3>1. target[e] \in finished
        BY <2>1, <2>3, MovedOn
      <3>2. epc'[e] \in {"leave", "idle"} /\ target'[e] \in {target[e], Idle}
        BY <1>3, <2>3 DEF CheckGeneration, AnswerYes, Goto, Return, PlaceInv, ThreadType
      <3> QED BY <2>1, <3>1, <3>2 DEF Justified
    <2> QED BY <2>2, <2>3
  <1>4. ASSUME NEW e \in Threads, CheckState(e) PROVE Justified(e)'
    <2>1. /\ target[e] # Idle /\ target[e] \in issued
          /\ UNCHANGED <<issued, finished, generation, target>>
          /\ epc'[e] = "recheck" /\ seen'[e] = state[target[e].slot]
      BY <1>4 DEF CheckState, PlaceInv, ThreadType, ThreadPlace, HandlePlaces, AnswerInv, Justified,
                  Goto, histVars, poolVars
    <2> QED BY <2>1, SeenCompleted DEF Justified
  <1>5. ASSUME NEW e \in Threads, RecheckGeneration(e) PROVE Justified(e)'
    <2>1. /\ target[e] # Idle /\ target[e] \in issued /\ issued' = issued /\ finished' = finished
          /\ epc[e] = "recheck"
      BY <1>5 DEF RecheckGeneration, PlaceInv, ThreadPlace, HandlePlaces, AnswerInv, Justified, histVars
    <2>2. CASE generation[target[e].slot] # target[e].gen \/ seen[e] = "Completed"
      <3>1. target[e] \in finished
        BY <2>1, <2>2, MovedOn DEF AnswerInv, Justified
      <3>2. epc'[e] \in {"leave", "idle"} /\ target'[e] \in {target[e], Idle}
        BY <1>5, <2>2 DEF RecheckGeneration, AnswerYes, Goto, Return, PlaceInv, ThreadType
      <3> QED BY <2>1, <3>1, <3>2 DEF Justified
    <2>3. CASE ~(generation[target[e].slot] # target[e].gen \/ seen[e] = "Completed")
      <3>1. NoAnswer(e)
        BY <1>5, <2>3 DEF RecheckGeneration, AnswerNo, NoAnswer, Goto, PlaceInv, ThreadType
      <3> QED BY <3>1, <1>1, JustifiedKept DEF AnswerInv
    <2> QED BY <2>2, <2>3
  <1>6. ASSUME NEW e \in Threads, NEW h \in issued, WaitHandle(e, h) PROVE Justified(e)'
    BY <1>6 DEF WaitHandle, Justified, Goto, PlaceInv, ThreadType, histVars
  <1>7. CASE \A e \in Threads :
               /\ ~CheckGeneration(e) /\ ~CheckState(e) /\ ~RecheckGeneration(e)
               /\ \A h \in issued : ~WaitHandle(e, h)
    BY <1>1, <1>7, NoAnswerStep, JustifiedKept DEF AnswerInv
  <1> QED BY <1>2, <1>3, <1>4, <1>5, <1>6, <1>7

(* A call that lets go of its handle has been told the truth about it. *)
LEMMA WaitSoundStep ==
    ASSUME PlaceInv, SlotInv, IssueInv, AnswerInv, [Next]_vars, NEW e \in Threads,
           target[e] # Idle, target'[e] # target[e]
    PROVE  target[e] \in finished
  <1>1. target[e] \in issued
    BY DEF AnswerInv, Justified
  <1>2. CASE CheckGeneration(e)
    BY <1>1, <1>2, MovedOn DEF CheckGeneration
  <1>3. CASE RecheckGeneration(e)
    <2>1. generation[target[e].slot] # target[e].gen \/ seen[e] = "Completed"
      BY <1>3 DEF RecheckGeneration, AnswerNo
    <2> QED BY <1>1, <1>3, <2>1, MovedOn DEF RecheckGeneration, AnswerInv, Justified
  <1>4. CASE Unregister(e)
    BY <1>4 DEF Unregister, AnswerInv, Justified
  <1>5. ASSUME NEW f \in Threads, f # e,
               CheckGeneration(f) \/ RecheckGeneration(f) \/ Unregister(f)
        PROVE  FALSE
    BY <1>5 DEF CheckGeneration, RecheckGeneration, Unregister, AnswerYes, AnswerNo, Return,
                lockVars, PlaceInv, ThreadType
  <1>6. ASSUME NEW f \in Threads,
               CheckOutstanding(f) \/ UncountAllWaiter(f) \/ WaitAll(f)
               \/ \E h \in issued : WaitHandle(f, h)
        PROVE  FALSE
    BY <1>6 DEF CheckOutstanding, UncountAllWaiter, WaitAll, WaitHandle, AnswerYes, AnswerNo, Return,
                lockVars, PlaceInv, ThreadType, ThreadPlace, OtherPlaces
  <1>7. target' # target
    OBVIOUS
  <1>8. ASSUME NEW f \in Threads,
               \/ \E s \in Slots : Reserve(f, s)
               \/ Publish(f) \/ ConstructThrows(f) \/ ConstructThrowsInline(f) \/ Rethrow(f)
               \/ SubmitCount(f) \/ RunInline(f) \/ InlineCount(f) \/ CheckState(f)
               \/ RegisterTry(f) \/ RegisterOverflow(f) \/ CountWaiter(f) \/ Lock(f)
               \/ Sleep(f) \/ SpuriousWakeup(f) \/ UncountWaiter(f) \/ CountAllWaiter(f)
        PROVE  FALSE
    BY <1>7, <1>8 DEF Reserve, Publish, ConstructThrows, ConstructThrowsInline, Rethrow,
                UncountUntold, SubmitCount, RunInline, InlineCount, CheckState, RegisterTry,
                RegisterOverflow, CountWaiter, Lock, Sleep, SpuriousWakeup, UncountWaiter,
                CountAllWaiter
  <1>9. ASSUME NEW w \in Workers, WorkerStep(w) PROVE FALSE
    BY <1>7, <1>9 DEF WorkerStep, Execute, StoreCompleted, BumpGeneration, FreeSlot, Decrement,
                ReadHandleWaiters, ReadOverflow, ScanWaiters, ReadAllWaiters, LockUnlock, NotifyAll,
                threadVars
  <1> QED
    BY <1>2, <1>3, <1>4, <1>5, <1>6, <1>7, <1>8, <1>9
    DEF Next, ThreadCalls, ThreadStep, vars

-----------------------------------------------------------------------------
(* The notification *)

(* A thread that sleeps, or is about to, was already there before the step *)
(* and waits for the same thing.                                           *)
Settled(e) ==
    epc'[e] \in {"sleep", "asleep"} =>
        /\ epc[e] \in {"sleep", "asleep"}
        /\ epc'[e] = "sleep" => epc[e] = "sleep"
        /\ target'[e] = target[e] /\ reg'[e] = reg[e]

(* Only the two predicates of the condition variable send a thread to      *)
(* sleep, and no step of a thread touches a worker or completes a task.    *)
LEMMA ThreadStepSettled ==
    ASSUME PlaceInv, NEW e \in Threads, NEW f \in Threads,
           ThreadCalls(f) \/ ThreadStep(f) \/ SpuriousWakeup(f),
           e = f => ~RecheckGeneration(f) /\ ~CheckOutstanding(f)
    PROVE  Settled(e)
  <1> USE DEF PlaceInv, ThreadType, ThreadPlace, HandlePlaces, OtherPlaces, Settled, lockVars,
              threadVars, Goto, Return, AnswerYes, AnswerNo
  <1>1. CASE SubmitCount(f)
    BY <1>1 DEF SubmitCount
  <1>2. CASE RunInline(f)
    BY <1>2 DEF RunInline
  <1>3. CASE InlineCount(f)
    BY <1>3 DEF InlineCount, UncountUntold
  <1>4. CASE CheckGeneration(f)
    BY <1>4 DEF CheckGeneration
  <1>5. CASE CheckState(f)
    BY <1>5 DEF CheckState
  <1>6. CASE RecheckGeneration(f)
    BY <1>6 DEF RecheckGeneration
  <1>7. CASE RegisterTry(f)
    BY <1>7 DEF RegisterTry
  <1>8. CASE RegisterOverflow(f)
    BY <1>8 DEF RegisterOverflow
  <1>9. CASE CountWaiter(f)
    BY <1>9 DEF CountWaiter
  <1>10. CASE Lock(f)
    BY <1>10 DEF Lock
  <1>11. CASE Sleep(f)
    BY <1>11 DEF Sleep
  <1>12. CASE SpuriousWakeup(f)
    BY <1>12 DEF SpuriousWakeup
  <1>13. CASE UncountWaiter(f)
    BY <1>13 DEF UncountWaiter
  <1>14. CASE Unregister(f)
    BY <1>14 DEF Unregister
  <1>15. CASE WaitAll(f)
    BY <1>15 DEF WaitAll
  <1>16. CASE CountAllWaiter(f)
    BY <1>16 DEF CountAllWaiter
  <1>17. CASE CheckOutstanding(f)
    BY <1>17 DEF CheckOutstanding
  <1>18. CASE UncountAllWaiter(f)
    BY <1>18 DEF UncountAllWaiter
  <1>19. ASSUME NEW s \in Slots, Reserve(f, s) PROVE Settled(e)
    BY <1>19 DEF Reserve
  <1>20. ASSUME NEW h \in issued, WaitHandle(f, h) PROVE Settled(e)
    BY <1>20 DEF WaitHandle
  <1>21. CASE Publish(f)
    BY <1>21 DEF Publish
  <1>22. CASE ConstructThrows(f)
    BY <1>22 DEF ConstructThrows
  <1>23. CASE ConstructThrowsInline(f)
    BY <1>23 DEF ConstructThrowsInline
  <1>24. CASE Rethrow(f)
    BY <1>24 DEF Rethrow, UncountUntold
  <1> QED
    BY <1>1, <1>2, <1>3, <1>4, <1>5, <1>6, <1>7, <1>8, <1>9, <1>10, <1>11, <1>12, <1>13, <1>14, <1>15, <1>16, <1>17, <1>18, <1>19, <1>20, <1>21, <1>22, <1>23, <1>24
    DEF ThreadCalls, ThreadStep

(* A thread's step leaves the workers alone, and marks no slot completed.  *)
LEMMA ThreadStepFrame ==
    ASSUME PlaceInv, NEW f \in Threads, ThreadCalls(f) \/ ThreadStep(f) \/ SpuriousWakeup(f)
    PROVE  /\ UNCHANGED <<wpc, whandle, wremaining, wwake, wscan>>
           /\ \A s \in Slots : state'[s] = "Completed" => state[s] = "Completed"
  <1>1. CASE Publish(f)
    BY <1>1 DEF Publish, workerVars, PlaceInv, PoolType
  <1>2. ASSUME ~Publish(f)
        PROVE  UNCHANGED <<state, wpc, whandle, wremaining, wwake, wscan>>
    BY <1>2 DEF ThreadCalls, ThreadStep, poolVars, workerVars, WaitHandle, SubmitCount, Reserve,
                ConstructThrows, ConstructThrowsInline, Rethrow, UncountUntold, RunInline, InlineCount,
                CheckGeneration, CheckState, RecheckGeneration, RegisterTry, RegisterOverflow,
                CountWaiter, Lock, Sleep, SpuriousWakeup, UncountWaiter,
                Unregister, WaitAll, CountAllWaiter, CheckOutstanding, UncountAllWaiter
  <1> QED BY <1>1, <1>2

(* Nor does it complete a task: a generation it ends is no issued handle's.*)
LEMMA ThreadStepGenerations ==
    ASSUME PlaceInv, ReservedInv, IssueInv, NEW f \in Threads,
           ThreadCalls(f) \/ ThreadStep(f) \/ SpuriousWakeup(f),
           NEW h \in issued, generation[h.slot] = h.gen
    PROVE  generation'[h.slot] = h.gen
  <1>1. CASE ConstructThrows(f)
    <2>1. generation' = [generation EXCEPT ![reserved[f].slot] = @ + 1] /\ reserved[f] # Idle
      BY <1>1 DEF ConstructThrows, PlaceInv, ThreadPlace
    <2>2. h.slot # reserved[f].slot
      BY <2>1, ReservedUnissued
    <2> QED BY <2>1, <2>2 DEF PlaceInv, PoolType, Handle
  <1>2. ASSUME ~ConstructThrows(f)
        PROVE  UNCHANGED generation
    BY <1>2 DEF ThreadCalls, ThreadStep, poolVars, WaitHandle, SubmitCount, Reserve, Publish,
                ConstructThrowsInline, Rethrow, UncountUntold, RunInline, InlineCount,
                CheckGeneration, CheckState, RecheckGeneration, RegisterTry, RegisterOverflow,
                CountWaiter, Lock, Sleep, SpuriousWakeup, UncountWaiter,
                Unregister, WaitAll, CountAllWaiter, CheckOutstanding, UncountAllWaiter
  <1> QED BY <1>1, <1>2

(* A worker's step leaves the threads alone, except that it may wake them. *)
LEMMA WorkerStepSettled ==
    ASSUME PlaceInv, NEW w \in Workers, WorkerStep(w), NEW e \in Threads
    PROVE  Settled(e)
  <1>1. CASE NotifyAll(w)
    BY <1>1 DEF NotifyAll, Settled, PlaceInv, ThreadType
  <1>2. CASE ~NotifyAll(w)
    <2>1. UNCHANGED threadVars
      BY <1>2 DEF WorkerStep, Execute, StoreCompleted, BumpGeneration, FreeSlot, Decrement, ReadHandleWaiters,
                  ReadOverflow, ScanWaiters, ReadAllWaiters, LockUnlock
    <2> QED BY <2>1 DEF threadVars, Settled
  <1> QED BY <1>1, <1>2

(* What the other workers do is none of w's business. *)
LEMMA OtherWorkers ==
    ASSUME PlaceInv, NEW w \in Workers, WorkerStep(w), NEW v \in Workers \ {w}
    PROVE  /\ wpc'[v] = wpc[v] /\ whandle'[v] = whandle[v] /\ wremaining'[v] = wremaining[v]
           /\ wwake'[v] = wwake[v] /\ wscan'[v] = wscan[v]
  <1> USE DEF PlaceInv, WorkerType, WGoto, WReturn
  <1>1. CASE StoreCompleted(w)
    BY <1>1 DEF StoreCompleted
  <1>2. CASE BumpGeneration(w)
    BY <1>2 DEF BumpGeneration
  <1>3. CASE FreeSlot(w)
    BY <1>3 DEF FreeSlot
  <1>4. CASE Decrement(w)
    BY <1>4 DEF Decrement
  <1>5. CASE ReadHandleWaiters(w)
    BY <1>5 DEF ReadHandleWaiters
  <1>6. CASE ReadOverflow(w)
    BY <1>6 DEF ReadOverflow
  <1>7. CASE ScanWaiters(w)
    BY <1>7 DEF ScanWaiters
  <1>8. CASE ReadAllWaiters(w)
    BY <1>8 DEF ReadAllWaiters
  <1>9. CASE LockUnlock(w)
    BY <1>9 DEF LockUnlock
  <1>10. CASE NotifyAll(w)
    BY <1>10 DEF NotifyAll
  <1>11. ASSUME NEW h \in ready, Execute(w, h)
        PROVE  /\ wpc'[v] = wpc[v] /\ whandle'[v] = whandle[v] /\ wremaining'[v] = wremaining[v]
               /\ wwake'[v] = wwake[v] /\ wscan'[v] = wscan[v]
    BY <1>11 DEF Execute
  <1> QED
    BY <1>1, <1>2, <1>3, <1>4, <1>5, <1>6, <1>7, <1>8, <1>9, <1>10, <1>11 DEF WorkerStep

-----------------------------------------------------------------------------
(* The waiters of a handle *)

(* A sleeper, or a thread about to sleep, whose task has completed, and a  *)
(* worker that will wake it.                                               *)
Due(e) == epc[e] \in {"sleep", "asleep"} /\ target[e] # Idle /\ Complete(target[e])
Waker(w, e) == WillWake(w, e, target[e].slot) /\ (epc[e] = "sleep" => wpc[w] # "notify")

(* HandleInv, in the terms of the proofs. *)
LEMMA HandleInvParts == HandleInv <=> \A e \in Threads : Due(e) => \E w \in Workers : Waker(w, e)
  BY DEF HandleInv, Due, Waker

(* A pending wake-up stays pending while its worker stands still. *)
LEMMA WakerKept ==
    ASSUME NEW w \in Workers, NEW e \in Threads, Waker(w, e), Settled(e), Due(e)',
           wpc'[w] = wpc[w], whandle'[w] = whandle[w], wwake'[w] = wwake[w], wscan'[w] = wscan[w]
    PROVE  Waker(w, e)'
  BY DEF WillWake, Waker, Settled, Due

(* A thread that is due is registered, and counted by handle_waiters_. *)
LEMMA DueIsCounted ==
    ASSUME PlaceInv, WaiterCounts, NEW e \in Threads, Due(e)
    PROVE  e \in Blocked /\ target[e] \in Handle /\ target[e].slot \in Slots /\ handleWaiters # 0
  <1>1. e \in Blocked /\ e \in Counted /\ target[e] \in Handle
    BY DEF Due, Counted, Blocked, Registered, InPredicate, PlaceInv, ThreadType, ThreadPlace
  <1>2. IsFiniteSet(Counted)
    BY FinitelyManyThreads, FS_Subset DEF Counted, Blocked
  <1>3. Cardinality(Counted) # 0
    BY <1>1, <1>2, FS_EmptySet
  <1> QED BY <1>1, <1>3 DEF WaiterCounts, Handle

(* The steps of threads: one that is due was due before, or it has just    *)
(* looked, mutex held, and the completing worker has not even freed the    *)
(* slot.                                                                   *)
LEMMA ThreadHandleStep ==
    ASSUME PlaceInv, SlotInv, ReservedInv, IssueInv, AnswerInv, HandleInv, NEW f \in Threads,
           ThreadCalls(f) \/ ThreadStep(f) \/ SpuriousWakeup(f),
           NEW e \in Threads, Due(e)'
    PROVE  \E w \in Workers : Waker(w, e)'
  <1>1. /\ UNCHANGED <<wpc, whandle, wremaining, wwake, wscan>>
        /\ \A s \in Slots : state'[s] = "Completed" => state[s] = "Completed"
    BY ThreadStepFrame
  <1>2. CASE Settled(e)
    <2>1. Due(e)
      <3>1. target[e] \in Handle /\ target[e].slot \in Slots /\ target[e] \in issued
        BY <1>2 DEF Due, Settled, PlaceInv, ThreadType, Handle, AnswerInv, Justified
      <3>2. generation[target[e].slot] = target[e].gen => generation'[target[e].slot] = target[e].gen
        BY <3>1, ThreadStepGenerations
      <3> QED BY <1>1, <1>2, <3>1, <3>2 DEF Due, Settled, Complete
    <2>2. PICK w \in Workers : Waker(w, e)
      BY <2>1, HandleInvParts
    <2> QED BY <1>1, <1>2, <2>2, WakerKept
  <1>3. CASE e = f /\ RecheckGeneration(e)
    <2>1. /\ target'[e] = target[e] /\ target[e] # Idle /\ epc'[e] = "sleep"
          /\ UNCHANGED <<generation, state>>
          /\ generation[target[e].slot] = target[e].gen
      BY <1>3 DEF RecheckGeneration, AnswerYes, AnswerNo, Goto, Return, Due, PlaceInv, ThreadType,
                  poolVars
    <2>2. target[e].slot \in Slots /\ state[target[e].slot] = "Completed"
      BY <2>1 DEF Due, Complete, PlaceInv, ThreadType, Handle
    <2>3. PICK w \in Workers :
             wpc[w] \in {"bumpGeneration", "freeSlot"} /\ whandle[w].slot = target[e].slot
      BY <2>2 DEF SlotInv
    <2>4. whandle[w] # Idle
      BY <2>3 DEF PlaceInv, WorkerPlace
    <2> QED BY <1>1, <2>1, <2>3, <2>4 DEF Waker, WillWake
  <1>4. CASE e = f /\ CheckOutstanding(e)
    BY <1>4 DEF CheckOutstanding, AnswerYes, AnswerNo, Return, Due, PlaceInv, ThreadType, ThreadPlace,
                OtherPlaces
  <1> QED BY <1>2, <1>3, <1>4, ThreadStepSettled

(* A worker that will wake e goes on doing so at every step of complete(): *)
(* it finds the waiter count non-zero, then the overflow count or the      *)
(* waiter slot of e, and it gets past the mutex only once e sleeps.        *)
LEMMA WakerGoesOn ==
    ASSUME PlaceInv, BookInv, WaiterCounts, NEW w \in Workers, WorkerStep(w),
           NEW e \in Threads, Due(e), Due(e)', Waker(w, e)
    PROVE  Waker(w, e)'
  <1>1. /\ Settled(e) /\ target'[e] = target[e] /\ reg'[e] = reg[e]
        /\ e \in Blocked /\ target[e] \in Handle /\ target[e].slot \in Slots /\ handleWaiters # 0
        /\ epc[e] \in {"sleep", "asleep"} /\ (epc'[e] = "sleep" => epc[e] = "sleep")
    BY WorkerStepSettled, DueIsCounted DEF Settled, Due
  <1> USE DEF PlaceInv, WorkerType, Waker, WillWake, WGoto
  <1>2. CASE BumpGeneration(w) \/ FreeSlot(w) \/ Decrement(w)
    BY <1>1, <1>2 DEF BumpGeneration, FreeSlot, Decrement, threadVars
  <1>3. CASE ReadHandleWaiters(w)
    BY <1>1, <1>3 DEF ReadHandleWaiters
  <1>4. CASE ReadOverflow(w)
    <2>1. CASE overflow # 0
      BY <1>1, <1>4, <2>1 DEF ReadOverflow
    <2>2. CASE overflow = 0
      <3>1. IsFiniteSet(Overflowed)
        BY FinitelyManyThreads, FS_Subset DEF Overflowed, Blocked
      <3>2. Overflowed = {}
        BY <2>2, <3>1, FS_EmptySet DEF BookInv
      <3>3. reg[e] <= WaiterSlots
        BY <1>1, <3>2, BoundsAssumption DEF Overflowed, ThreadType, Index
      <3>4. wscan[w] = 1 /\ reg[e] \in Index
        BY <1>4 DEF ReadOverflow, WorkerPlace, EarlyStages, ThreadType
      <3>5. wpc'[w] = "scan" /\ UNCHANGED <<whandle, wscan, target, reg>>
        BY <1>4, <2>2 DEF ReadOverflow, threadVars
      <3> QED BY <1>1, <1>4, <3>3, <3>4, <3>5, BoundsAssumption DEF ReadOverflow, Index
    <2> QED BY <2>1, <2>2
  <1>5. CASE ScanWaiters(w)
    <2>1. /\ wpc[w] = "scan" /\ whandle[w] # Idle /\ whandle[w].slot = target[e].slot
          /\ reg[e] <= WaiterSlots /\ wscan[w] <= reg[e]
      BY <1>5 DEF ScanWaiters
    <2>2. waited[reg[e]] = target[e].slot
      BY <1>1, <2>1 DEF BookInv
    <2>3. wscan[w] \in Index /\ reg[e] \in Index /\ wscan[w] <= WaiterSlots
      BY <2>1, BoundsAssumption DEF ThreadType, Index
    <2>4. CASE waited[wscan[w]] = whandle[w].slot
      BY <1>1, <1>5, <2>3, <2>4 DEF ScanWaiters
    <2>5. CASE waited[wscan[w]] # whandle[w].slot
      <3>1. wscan[w] + 1 <= reg[e]
        BY <2>1, <2>2, <2>3, <2>5, BoundsAssumption DEF Index
      <3>2. wpc' = wpc /\ wscan'[w] = wscan[w] + 1 /\ whandle' = whandle
        BY <1>5, <2>3, <2>5 DEF ScanWaiters
      <3> QED BY <1>1, <2>1, <3>1, <3>2
    <2> QED BY <2>4, <2>5
  <1>6. CASE ReadAllWaiters(w)
    BY <1>1, <1>6 DEF ReadAllWaiters
  <1>7. CASE LockUnlock(w)
    <2>1. epc[e] # "sleep"
      BY <1>7, NoneAssumption DEF LockUnlock, ThreadPlace
    <2> QED BY <1>1, <1>7, <2>1 DEF LockUnlock, threadVars
  <1>8. CASE NotifyAll(w)
    <2>1. epc[e] = "asleep"
      BY <1>1, <1>8 DEF NotifyAll
    <2>2. epc'[e] = "lock"
      BY <1>8, <2>1 DEF NotifyAll, ThreadPlace
    <2> QED BY <2>2 DEF Due
  <1>9. CASE StoreCompleted(w) \/ \E h \in ready : Execute(w, h)
    BY <1>9 DEF StoreCompleted, Execute
  <1> QED BY <1>2, <1>3, <1>4, <1>5, <1>6, <1>7, <1>8, <1>9 DEF WorkerStep

(* A thread becomes due only by a step of the worker that completes its    *)
(* task.                                                                   *)
LEMMA BecomesDue ==
    ASSUME PlaceInv, NEW w \in Workers, WorkerStep(w), NEW e \in Threads, ~Due(e), Due(e)'
    PROVE  Waker(w, e)'
  <1>1. /\ target'[e] = target[e] /\ target[e] # Idle /\ epc[e] \in {"sleep", "asleep"}
        /\ target[e] \in Handle /\ target[e].slot \in Slots /\ target[e].gen \in Nat
    BY WorkerStepSettled DEF Settled, Due, PlaceInv, ThreadType, Handle
  <1>2. ~Complete(target[e]) /\ Complete(target[e])'
    BY <1>1 DEF Due
  <1> USE DEF PlaceInv, WorkerType, PoolType
  <1>3. CASE StoreCompleted(w)
    <2>1. state'[target[e].slot] = "Completed" /\ state[target[e].slot] # "Completed"
      BY <1>1, <1>2, <1>3 DEF StoreCompleted, Complete
    <2>2. whandle[w].slot = target[e].slot
      BY <1>1, <1>3, <2>1 DEF StoreCompleted
    <2>3. wpc'[w] = "bumpGeneration" /\ whandle'[w] = whandle[w] /\ whandle[w] # Idle
      BY <1>3 DEF StoreCompleted, WGoto, WorkerPlace
    <2> QED BY <1>1, <2>2, <2>3 DEF Waker, WillWake
  <1>4. CASE BumpGeneration(w)
    <2>1. generation'[target[e].slot] # generation[target[e].slot]
      BY <1>1, <1>2, <1>4 DEF BumpGeneration, Complete
    <2>2. whandle[w].slot = target[e].slot
      BY <1>1, <1>4, <2>1 DEF BumpGeneration
    <2>3. wpc'[w] = "freeSlot" /\ whandle'[w] = whandle[w] /\ whandle[w] # Idle
      BY <1>4 DEF BumpGeneration, WGoto, WorkerPlace
    <2> QED BY <1>1, <2>2, <2>3 DEF Waker, WillWake
  <1>5. CASE FreeSlot(w)
    BY <1>1, <1>2, <1>5 DEF FreeSlot, Complete
  <1>6. ASSUME NEW h \in ready, Execute(w, h) PROVE FALSE
    BY <1>1, <1>2, <1>6 DEF Execute, Complete
  <1>7. CASE Decrement(w) \/ ReadHandleWaiters(w) \/ ReadOverflow(w) \/ ScanWaiters(w)
             \/ ReadAllWaiters(w) \/ LockUnlock(w) \/ NotifyAll(w)
    <2>1. UNCHANGED <<generation, state>>
      BY <1>7 DEF Decrement, ReadHandleWaiters, ReadOverflow, ScanWaiters, ReadAllWaiters,
                  LockUnlock, NotifyAll, poolVars
    <2> QED BY <1>1, <1>2, <2>1 DEF Complete
  <1> QED BY <1>3, <1>4, <1>5, <1>6, <1>7 DEF WorkerStep

(* HandleInv is kept: a thread that is due stays so under its waker's eye, *)
(* and one that becomes due has the completing worker for its waker.       *)
LEMMA HandleStep ==
    PlaceInv /\ BookInv /\ WaiterCounts /\ SlotInv /\ ReservedInv /\ IssueInv /\ AnswerInv
    /\ HandleInv /\ [Next]_vars => HandleInv'
  <1> SUFFICES ASSUME PlaceInv, BookInv, WaiterCounts, SlotInv, ReservedInv, IssueInv, AnswerInv,
                      HandleInv, [Next]_vars,
                      NEW e \in Threads, Due(e)'
               PROVE  \E w \in Workers : Waker(w, e)'
    BY DEF HandleInv, Due, Waker
  <1>1. ASSUME NEW f \in Threads, ThreadCalls(f) \/ ThreadStep(f) \/ SpuriousWakeup(f)
        PROVE  \E w \in Workers : Waker(w, e)'
    BY <1>1, ThreadHandleStep
  <1>2. ASSUME NEW w \in Workers, WorkerStep(w)
        PROVE  \E v \in Workers : Waker(v, e)'
    <2>1. CASE ~Due(e)
      BY <1>2, <2>1, BecomesDue
    <2>2. CASE Due(e)
      <3>1. PICK v \in Workers : Waker(v, e)
        BY <2>2, HandleInvParts
      <3>2. CASE v = w
        BY <1>2, <2>2, <3>1, <3>2, WakerGoesOn
      <3>3. CASE v # w
        BY <1>2, <3>1, <3>3, OtherWorkers, WorkerStepSettled, WakerKept
      <3> QED BY <3>2, <3>3
    <2> QED BY <2>1, <2>2
  <1>3. CASE UNCHANGED vars
    BY <1>3, HandleInvParts DEF vars, Due, Waker, WillWake, Complete
  <1> QED BY <1>1, <1>2, <1>3 DEF Next

-----------------------------------------------------------------------------
(* The callers of wait_all() *)

IdleDue(e) ==
    epc[e] \in {"sleep", "asleep"} /\ target[e] = Idle /\ outstanding = 0 /\ ~untoldZero
IdleWaker(w, e) ==
    \/ wpc[w] = "lock"
    \/ wpc[w] = "notify" /\ epc[e] = "asleep"
    \/ wpc[w] \in {"readWaiters", "readOverflow", "scan", "readAll"} /\ wremaining[w] = 0

(* IdleInv, in the terms of the proofs. *)
LEMMA IdleInvParts ==
    IdleInv <=> \A e \in Threads : IdleDue(e) => \E w \in Workers : IdleWaker(w, e)
  BY DEF IdleInv, IdleDue, IdleWaker

(* No step of a thread makes outstanding_ zero, except those that tell nobody. *)
LEMMA ThreadStepOutstanding ==
    ASSUME PlaceInv, OutstandingCount, NEW f \in Threads,
           ThreadCalls(f) \/ ThreadStep(f) \/ SpuriousWakeup(f),
           outstanding' = 0, ~untoldZero'
    PROVE  outstanding = 0 /\ ~untoldZero
  <1>1. CASE SubmitCount(f)
    <2>1. /\ Cardinality(Submitting) \in Nat /\ Cardinality(ready) \in Nat
          /\ Cardinality(Running) \in Nat
      BY FinitelyManyThreads, FS_Subset, FS_CardinalityType
      DEF Submitting, Running, OutstandingCount
    <2> QED BY <1>1, <2>1 DEF SubmitCount, OutstandingCount
  <1>2. CASE InlineCount(f) \/ Rethrow(f)
    <2>1. outstanding = 1
      BY <1>2 DEF InlineCount, Rethrow, UncountUntold, PlaceInv, CountType
    <2>2. untoldZero' = (outstanding = 1)
      BY <1>2 DEF InlineCount, Rethrow, UncountUntold
    <2> QED BY <2>1, <2>2
  <1>3. CASE ~SubmitCount(f) /\ ~InlineCount(f) /\ ~Rethrow(f)
    <2>1. outstanding' = outstanding /\ untoldZero' = untoldZero
      BY <1>3 DEF ThreadCalls, ThreadStep, histVars, WaitHandle, Reserve, Publish,
                  ConstructThrows, ConstructThrowsInline,
                  RunInline, CheckGeneration, CheckState, RecheckGeneration, RegisterTry,
                  RegisterOverflow, CountWaiter, Lock, Sleep, SpuriousWakeup,
                  UncountWaiter, Unregister, WaitAll,
                  CountAllWaiter, CheckOutstanding, UncountAllWaiter
    <2> QED BY <2>1
  <1> QED BY <1>1, <1>2, <1>3

(* The steps of threads keep IdleInv. *)
LEMMA ThreadIdleStep ==
    ASSUME PlaceInv, OutstandingCount, IdleInv, NEW f \in Threads,
           ThreadCalls(f) \/ ThreadStep(f) \/ SpuriousWakeup(f),
           NEW e \in Threads, IdleDue(e)'
    PROVE  \E w \in Workers : IdleWaker(w, e)'
  <1>1. UNCHANGED <<wpc, wremaining>> /\ outstanding = 0 /\ ~untoldZero
    BY ThreadStepFrame, ThreadStepOutstanding DEF IdleDue
  <1>2. CASE Settled(e)
    <2>1. PICK w \in Workers : IdleWaker(w, e)
      BY <1>1, <1>2, IdleInvParts DEF IdleDue, Settled
    <2> QED BY <1>1, <1>2, <2>1 DEF IdleWaker, IdleDue, Settled
  <1>3. CASE e = f /\ RecheckGeneration(e)
    BY <1>3 DEF RecheckGeneration, AnswerYes, AnswerNo, Goto, Return, IdleDue, PlaceInv, ThreadType,
                ThreadPlace, HandlePlaces
  <1>4. CASE e = f /\ CheckOutstanding(e)
    BY <1>1, <1>4 DEF CheckOutstanding, AnswerYes, Goto, Return, IdleDue, PlaceInv, ThreadType
  <1> QED BY <1>2, <1>3, <1>4, ThreadStepSettled

(* A caller that is due is counted by all_waiters_. *)
LEMMA IdleDueIsCounted ==
    ASSUME PlaceInv, WaiterCounts, NEW e \in Threads, IdleDue(e)
    PROVE  allWaiters # 0
  <1>1. e \in AllCounted
    BY DEF IdleDue, AllCounted
  <1>2. IsFiniteSet(AllCounted)
    BY FinitelyManyThreads, FS_Subset DEF AllCounted
  <1> QED BY <1>1, <1>2, FS_EmptySet DEF WaiterCounts

(* The worker that took outstanding_ to zero goes on to the notification:  *)
(* the waiter count it reads last cannot be zero.                          *)
LEMMA IdleWakerGoesOn ==
    ASSUME PlaceInv, WaiterCounts, NEW w \in Workers, WorkerStep(w),
           NEW e \in Threads, IdleDue(e), IdleDue(e)', IdleWaker(w, e)
    PROVE  IdleWaker(w, e)'
  <1>1. /\ Settled(e) /\ allWaiters # 0
        /\ epc[e] \in {"sleep", "asleep"} /\ (epc'[e] = "sleep" => epc[e] = "sleep")
        /\ epc'[e] \in {"sleep", "asleep"}
    BY WorkerStepSettled, IdleDueIsCounted DEF Settled, IdleDue
  <1> USE DEF PlaceInv, WorkerType, IdleWaker, WGoto
  <1>2. CASE ReadHandleWaiters(w) \/ ReadOverflow(w)
    BY <1>1, <1>2 DEF ReadHandleWaiters, ReadOverflow
  <1>3. CASE ScanWaiters(w)
    BY <1>1, <1>3 DEF ScanWaiters
  <1>4. CASE ReadAllWaiters(w)
    BY <1>1, <1>4 DEF ReadAllWaiters
  <1>5. CASE LockUnlock(w)
    <2>1. epc[e] # "sleep" /\ epc' = epc
      BY <1>5, NoneAssumption DEF LockUnlock, ThreadPlace, threadVars
    <2> QED BY <1>1, <1>5, <2>1 DEF LockUnlock
  <1>6. CASE NotifyAll(w)
    <2>1. epc[e] = "asleep"
      BY <1>1, <1>6 DEF NotifyAll
    <2>2. epc'[e] = "lock"
      BY <1>6, <2>1 DEF NotifyAll, ThreadPlace
    <2> QED BY <1>1, <2>2
  <1>7. CASE StoreCompleted(w) \/ BumpGeneration(w) \/ FreeSlot(w) \/ Decrement(w)
             \/ \E h \in ready : Execute(w, h)
    BY <1>7 DEF StoreCompleted, BumpGeneration, FreeSlot, Decrement, Execute
  <1> QED BY <1>2, <1>3, <1>4, <1>5, <1>6, <1>7 DEF WorkerStep

(* The steps of workers keep IdleInv. *)
LEMMA WorkerIdleStep ==
    ASSUME PlaceInv, WaiterCounts, IdleInv, NEW w \in Workers, WorkerStep(w),
           NEW e \in Threads, IdleDue(e)'
    PROVE  \E v \in Workers : IdleWaker(v, e)'
  <1>1. CASE Decrement(w)
    <2>1. wpc'[w] = "readWaiters" /\ wremaining'[w] = outstanding'
      BY <1>1 DEF Decrement, WGoto, PlaceInv, WorkerType
    <2> QED BY <2>1 DEF IdleWaker, IdleDue
  <1>2. CASE ~Decrement(w)
    <2>1. outstanding' = outstanding /\ untoldZero' = untoldZero
      BY <1>2 DEF WorkerStep, Execute, StoreCompleted, BumpGeneration, FreeSlot, ReadHandleWaiters,
                  ReadOverflow, ScanWaiters, ReadAllWaiters, LockUnlock, NotifyAll, histVars
    <2>2. IdleDue(e)
      BY <2>1, WorkerStepSettled DEF IdleDue, Settled
    <2>3. PICK v \in Workers : IdleWaker(v, e)
      BY <2>2, IdleInvParts
    <2>4. CASE v = w
      BY <2>2, <2>3, <2>4, IdleWakerGoesOn
    <2>5. CASE v # w
      BY <2>3, <2>5, OtherWorkers, WorkerStepSettled DEF IdleWaker, IdleDue, Settled
    <2> QED BY <2>4, <2>5
  <1> QED BY <1>1, <1>2

(* IdleInv is kept by every step. *)
LEMMA IdleStep ==
    PlaceInv /\ WaiterCounts /\ OutstandingCount /\ IdleInv /\ [Next]_vars => IdleInv'
  <1> SUFFICES ASSUME PlaceInv, WaiterCounts, OutstandingCount, IdleInv, [Next]_vars,
                      NEW e \in Threads, IdleDue(e)'
               PROVE  \E w \in Workers : IdleWaker(w, e)'
    BY DEF IdleInv, IdleDue, IdleWaker
  <1>1. CASE UNCHANGED vars
    BY <1>1, IdleInvParts DEF vars, IdleDue, IdleWaker
  <1> QED BY <1>1, ThreadIdleStep, WorkerIdleStep DEF Next

-----------------------------------------------------------------------------
(* The theorems *)

IInv ==
    /\ PlaceInv /\ BookInv /\ SlotInv /\ ReservedInv /\ IssueInv /\ WaiterCounts
    /\ OutstandingCount
    /\ AnswerInv /\ HandleInv /\ IdleInv

(* Init establishes every layer. *)
LEMMA InitIInv == Init => IInv
  <1> SUFFICES ASSUME Init PROVE IInv
    OBVIOUS
  <1>1. PlaceInv
    BY InitPlace
  <1>2. Blocked = {} /\ Counted = {} /\ AllCounted = {} /\ Submitting = {} /\ Running = {}
        /\ Overflowed = {}
    BY NoneAssumption
    DEF Init, Blocked, Counted, AllCounted, Submitting, Running, Overflowed, Registered, InPredicate
  <1>3. BookInv
    BY <1>2, FS_EmptySet DEF Init, BookInv
  <1>4. SlotInv /\ ReservedInv /\ IssueInv
    BY DEF Init, SlotInv, ReservedInv, IssueInv, Holds, Runs
  <1>5. WaiterCounts /\ OutstandingCount
    BY <1>2, FS_EmptySet DEF Init, WaiterCounts, OutstandingCount
  <1>6. AnswerInv /\ HandleInv /\ IdleInv
    BY DEF Init, AnswerInv, Justified, HandleInv, IdleInv
  <1> QED BY <1>1, <1>3, <1>4, <1>5, <1>6 DEF IInv

(* Every step keeps every layer. *)
LEMMA NextIInv == IInv /\ [Next]_vars => IInv'
  BY PlaceStep, BookStep, PoolInvStep, ReservedStep, WaiterCountsStep, OutstandingStep, AnswerStep, HandleStep,
     IdleStep
  DEF IInv

(* The conjunction of the layers is an invariant of the runtime's waiting. *)
THEOREM Invariance == Spec => []IInv
  BY InitIInv, NextIInv, PTL DEF Spec

(* Every blocked waiter of a handle is findable by complete(), and no      *)
(* registration outlives its waiter.                                       *)
THEOREM WaiterBookkeepingHolds == Spec => []WaiterBookkeeping
  <1>1. IInv => WaiterBookkeeping
    BY BookkeepingParts DEF IInv
  <1> QED BY <1>1, Invariance, PTL

(* No thread sleeps in wait(handle) on a finished task without a worker    *)
(* that is about to notify it.                                             *)
THEOREM NoLostHandleWakeupHolds == Spec => []NoLostHandleWakeup
  <1>1. IInv => NoLostHandleWakeup
    BY DEF IInv, PlaceInv, ThreadPlace, ThreadType, HandleInv, NoLostHandleWakeup
  <1> QED BY <1>1, Invariance, PTL

(* No thread sleeps in wait_all() on an idle runtime without a worker that *)
(* is about to notify it, unless outstanding_ became zero by one of the    *)
(* three decrements that look for no waiter: the end of run_inline() and   *)
(* the catch blocks of submit_emplace().                                   *)
THEOREM NoLostIdleWakeupHolds == Spec => []NoLostIdleWakeup
  <1>1. IInv => NoLostIdleWakeup
    BY DEF IInv, PlaceInv, ThreadPlace, ThreadType, IdleInv, NoLostIdleWakeup
  <1> QED BY <1>1, Invariance, PTL

(* wait(handle) returns only once the body of that very task has returned, *)
(* whatever becomes of its slot meanwhile.                                 *)
THEOREM WaitSoundHolds == Spec => WaitSound
  <1>1. IInv /\ [Next]_vars =>
            [\A e \in Threads :
                target[e] # Idle /\ target'[e] # target[e] => target[e] \in finished]_vars
    BY WaitSoundStep DEF IInv
  <1> QED BY <1>1, Invariance, PTL DEF Spec, WaitSound

=============================================================================
