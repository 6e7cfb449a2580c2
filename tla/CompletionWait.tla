--------------------------- MODULE CompletionWait ----------------------------
(***************************************************************************)
(* How runtime/RuntimeBase.cpp blocks and wakes external threads: wait(),  *)
(* wait_all(), is_complete_internal(), the registration of waiters, and    *)
(* the end of complete(), which decides without a lock whether anybody has *)
(* to be woken.  A step is one access to shared memory; accesses           *)
(* interleave sequentially consistently, which is what the fence in        *)
(* complete() and the seq_cst increments of the waiters are there for.     *)
(*                                                                         *)
(* The condition variable is the C++ one: wait() releases the mutex and    *)
(* sleeps in one step, notify_all() wakes those asleep and is not          *)
(* remembered, and a sleeper may wake without a reason.                    *)
(*                                                                         *)
(* submit() and submit_emplace() are here for what they do to outstanding_ *)
(* and the slots.  Three of their ways out, run_inline() and the two catch *)
(* blocks of submit_emplace(), decrement outstanding_ as complete() does   *)
(* but look for no waiter; untoldZero remembers that one of them was the   *)
(* last to do so.                                                          *)
(*                                                                         *)
(* Abstracted: dependencies (TaskLifecycle), which task a worker takes     *)
(* next, and waiters that are workers, who help instead of blocking.       *)
(***************************************************************************)
EXTENDS Integers, FiniteSets

CONSTANTS Workers,       \* threads that execute and complete tasks
          Threads,       \* external threads: they submit and wait
          Slots,         \* the slots of the pool
          ThreadCache,   \* free slots may be in other threads' caches
          ConstructorsThrow, \* copying a callable into its task may throw
          MaxSubmits,    \* bound: tasks submitted in all
          WaiterSlots,   \* kMaxHandleWaiterSlots
          Idle,          \* the target of wait_all()
          Nobody,        \* mutex not held
          NoIndex        \* kNoWaitedIndex

ASSUME BoundsAssumption ==
    /\ ThreadCache \in BOOLEAN /\ ConstructorsThrow \in BOOLEAN
    /\ MaxSubmits \in Nat /\ WaiterSlots \in Nat

ASSUME FinitelyManyThreads == IsFiniteSet(Threads) /\ IsFiniteSet(Workers)

VARIABLES generation, state,   \* per slot of the pool
          free, ready,         \* free slots; handles queued for the workers
          reserved,            \* per external thread: the slot it fills, as a handle
          outstanding,         \* outstanding_
          handleWaiters,       \* handle_waiters_
          allWaiters,          \* all_waiters_
          overflow,            \* handle_waiter_overflow_count_
          waited,              \* handle_waiter_slots_[i].task_index
          mutex,               \* who holds completion_mutex_
          asleep,              \* threads inside completion_cv_.wait()
          epc,                 \* where each external thread is
          target,              \* the handle it waits for, or Idle
          seen,                \* the state it read for that handle
          reg,                 \* the waiter slot it tries or holds
          wpc,                 \* where each worker is
          whandle,             \* the task it runs
          wremaining,          \* remaining, in complete()
          wwake,               \* wake_handle_waiters
          wscan,               \* the waiter slot it reads next
          submitted,           \* number of submissions so far
          issued,              \* handles returned by submit()
          finished,            \* handles whose body has returned
          untoldZero           \* history: outstanding_ is zero, and the decrement that
                               \* made it so looked for no waiter

poolVars   == <<generation, state, free, ready, reserved>>
waitVars   == <<handleWaiters, allWaiters, overflow, waited>>
lockVars   == <<mutex, asleep>>
threadVars == <<epc, target, seen, reg>>
workerVars == <<wpc, whandle, wremaining, wwake, wscan>>
histVars   == <<submitted, issued, finished, untoldZero>>
vars == <<generation, state, free, ready, reserved, outstanding, handleWaiters, allWaiters,
          overflow, waited, mutex, asleep, epc, target, seen, reg, wpc, whandle, wremaining, wwake, wscan,
          submitted, issued, finished, untoldZero>>

Handle == [slot : Slots, gen : Nat]

(* The values that stand for "none" are none of the others. *)
ASSUME NoneAssumption == Nobody \notin Threads /\ NoIndex \notin Slots /\ Idle \notin Handle

Init ==
    /\ generation = [s \in Slots |-> 0]
    /\ state = [s \in Slots |-> "Free"]
    /\ free = Slots
    /\ ready = {}
    /\ reserved = [e \in Threads |-> Idle]
    /\ outstanding = 0
    /\ handleWaiters = 0
    /\ allWaiters = 0
    /\ overflow = 0
    /\ waited = [i \in 1 .. WaiterSlots |-> NoIndex]
    /\ mutex = Nobody
    /\ asleep = {}
    /\ epc = [e \in Threads |-> "idle"]
    /\ target = [e \in Threads |-> Idle]
    /\ seen = [e \in Threads |-> "Free"]
    /\ reg = [e \in Threads |-> 1]
    /\ wpc = [w \in Workers |-> "idle"]
    /\ whandle = [w \in Workers |-> Idle]
    /\ wremaining = [w \in Workers |-> 0]
    /\ wwake = [w \in Workers |-> FALSE]
    /\ wscan = [w \in Workers |-> 1]
    /\ submitted = 0
    /\ issued = {}
    /\ finished = {}
    /\ untoldZero = FALSE

Goto(e, l) == epc' = [epc EXCEPT ![e] = l]

(* The call returns; its locals are gone. *)
Return(e) ==
    /\ Goto(e, "idle")
    /\ target' = [target EXCEPT ![e] = Idle]
    /\ seen' = [seen EXCEPT ![e] = "Free"]
    /\ reg' = [reg EXCEPT ![e] = 1]

WGoto(w, l) == wpc' = [wpc EXCEPT ![w] = l]

(* complete() returns; its locals are gone. *)
WReturn(w) ==
    /\ WGoto(w, "idle")
    /\ whandle' = [whandle EXCEPT ![w] = Idle]
    /\ wremaining' = [wremaining EXCEPT ![w] = 0]
    /\ wwake' = [wwake EXCEPT ![w] = FALSE]
    /\ wscan' = [wscan EXCEPT ![w] = 1]

-----------------------------------------------------------------------------
(* submit(), submit_emplace() *)

SubmitCount(e) ==
    /\ epc[e] = "idle"
    /\ submitted < MaxSubmits
    /\ submitted' = submitted + 1
    /\ outstanding' = outstanding + 1
    /\ untoldZero' = FALSE
    /\ Goto(e, "acquire")
    /\ UNCHANGED <<poolVars, waitVars, lockVars, target, seen, reg, workerVars, issued, finished>>

(* TaskPool::reserve() or acquire(): the slot is off the free list, nobody *)
(* else has its handle, and its state is not Completed.                    *)
Reserve(e, s) ==
    /\ epc[e] = "acquire"
    /\ s \in free
    /\ free' = free \ {s}
    /\ reserved' = [reserved EXCEPT ![e] = [slot |-> s, gen |-> generation[s]]]
    /\ Goto(e, "construct")
    /\ UNCHANGED <<generation, state, ready, outstanding, waitVars, lockVars, target, seen, reg,
                   workerVars, histVars>>

(* Faulty variant: the handle carries the slot's next generation *)
PublishNextGeneration(e) ==
    LET h == [reserved[e] EXCEPT !.gen = @ + 1] IN
    /\ epc[e] = "construct"
    /\ state' = [state EXCEPT ![h.slot] = "Queued"]
    /\ ready' = ready \cup {h}
    /\ issued' = issued \cup {h}
    /\ reserved' = [reserved EXCEPT ![e] = Idle]
    /\ Goto(e, "idle")
    /\ UNCHANGED <<generation, free, outstanding, waitVars, lockVars, target, seen, reg,
                   workerVars, submitted, finished, untoldZero>>

(* The body is in its slot: publish() and enqueue_ready().  Until the      *)
(* handle is returned, no other thread can wait for it.                    *)
Publish(e) ==
    LET h == reserved[e] IN
    /\ epc[e] = "construct"
    /\ state' = [state EXCEPT ![h.slot] = "Queued"]
    /\ ready' = ready \cup {h}
    /\ issued' = issued \cup {h}
    /\ reserved' = [reserved EXCEPT ![e] = Idle]
    /\ Goto(e, "idle")
    /\ UNCHANGED <<generation, free, outstanding, waitVars, lockVars, target, seen, reg,
                   workerVars, submitted, finished, untoldZero>>

(* Copying the callable threw: TaskPool::release(), in one step because    *)
(* the handle was given to nobody ...                                      *)
ConstructThrows(e) ==
    LET h == reserved[e] IN
    /\ ConstructorsThrow
    /\ epc[e] = "construct"
    /\ generation' = [generation EXCEPT ![h.slot] = @ + 1]
    /\ free' = free \cup {h.slot}
    /\ reserved' = [reserved EXCEPT ![e] = Idle]
    /\ Goto(e, "rethrow")
    /\ UNCHANGED <<state, ready, outstanding, waitVars, lockVars, target, seen, reg, workerVars,
                   histVars>>

Exhausted == free = {} \/ ThreadCache

(* ... or there was no slot for this thread, and nothing to release *)
ConstructThrowsInline(e) ==
    /\ ConstructorsThrow
    /\ epc[e] = "acquire"
    /\ Exhausted
    /\ Goto(e, "rethrow")
    /\ UNCHANGED <<poolVars, outstanding, waitVars, lockVars, target, seen, reg, workerVars,
                   histVars>>

(* The pool is exhausted for this thread: run_inline() *)
RunInline(e) ==
    /\ epc[e] = "acquire"
    /\ Exhausted
    /\ Goto(e, "inline")
    /\ UNCHANGED <<poolVars, outstanding, waitVars, lockVars, target, seen, reg, workerVars,
                   histVars>>

(* The count is given back, and no waiter is looked for. *)
UncountUntold(e) ==
    /\ outstanding' = outstanding - 1
    /\ untoldZero' = (outstanding = 1)
    /\ Goto(e, "idle")
    /\ UNCHANGED <<poolVars, waitVars, lockVars, target, seen, reg, workerVars, submitted,
                   issued, finished>>

(* the end of run_inline() *)
InlineCount(e) == epc[e] = "inline" /\ UncountUntold(e)

(* the end of both catch blocks, before the caller sees the exception *)
Rethrow(e) == epc[e] = "rethrow" /\ UncountUntold(e)

-----------------------------------------------------------------------------
(* is_complete_internal(), both as the fast test of wait() and, with the   *)
(* mutex held, as the predicate of the condition variable.                 *)

WaitHandle(e, h) ==
    /\ epc[e] = "idle"
    /\ h \in issued
    /\ target' = [target EXCEPT ![e] = h]
    /\ Goto(e, "generation")
    /\ UNCHANGED <<poolVars, outstanding, waitVars, lockVars, seen, reg, workerVars, histVars>>

(* The answer is yes: wait() returns at once, or, when the test was the    *)
(* predicate, releases the mutex and leaves the condition variable.        *)
AnswerYes(e) ==
    IF mutex = e
    THEN mutex' = Nobody /\ Goto(e, "leave") /\ UNCHANGED <<asleep, target, seen, reg>>
    ELSE Return(e) /\ UNCHANGED lockVars

(* The answer is no: register first, or, mutex still held, go to sleep. *)
AnswerNo(e) ==
    /\ seen' = [seen EXCEPT ![e] = "Free"]
    /\ Goto(e, IF mutex = e THEN "sleep" ELSE "register")
    /\ UNCHANGED <<lockVars, target, reg>>

CheckGeneration(e) ==
    /\ epc[e] = "generation"
    /\ IF generation[target[e].slot] = target[e].gen
       THEN Goto(e, "state") /\ UNCHANGED <<lockVars, target, seen, reg>>
       ELSE AnswerYes(e)
    /\ UNCHANGED <<poolVars, outstanding, waitVars, workerVars, histVars>>

CheckState(e) ==
    /\ epc[e] = "state"
    /\ seen' = [seen EXCEPT ![e] = state[target[e].slot]]
    /\ Goto(e, "recheck")
    /\ UNCHANGED <<poolVars, outstanding, waitVars, lockVars, target, reg, workerVars, histVars>>

(* the slot may have changed hands since: look at the generation again *)
RecheckGeneration(e) ==
    /\ epc[e] = "recheck"
    /\ IF generation[target[e].slot] # target[e].gen \/ seen[e] = "Completed"
       THEN AnswerYes(e)
       ELSE AnswerNo(e)
    /\ UNCHANGED <<poolVars, outstanding, waitVars, workerVars, histVars>>

-----------------------------------------------------------------------------
(* wait() *)

(* register_handle_waiter(): the first waiter slot whose CAS succeeds,     *)
(* the overflow count when there is none                                   *)
RegisterTry(e) ==
    /\ epc[e] = "register"
    /\ reg[e] <= WaiterSlots
    /\ IF waited[reg[e]] = NoIndex
       THEN /\ waited' = [waited EXCEPT ![reg[e]] = target[e].slot]
            /\ Goto(e, "count")
            /\ UNCHANGED reg
       ELSE reg' = [reg EXCEPT ![e] = @ + 1] /\ UNCHANGED <<waited, epc>>
    /\ UNCHANGED <<poolVars, outstanding, handleWaiters, allWaiters, overflow, lockVars,
                   target, seen, workerVars, histVars>>

RegisterOverflow(e) ==
    /\ epc[e] = "register"
    /\ reg[e] > WaiterSlots
    /\ overflow' = overflow + 1
    /\ Goto(e, "count")
    /\ UNCHANGED <<poolVars, outstanding, handleWaiters, allWaiters, waited, lockVars,
                   target, seen, reg, workerVars, histVars>>

CountWaiter(e) ==
    /\ epc[e] = "count"
    /\ handleWaiters' = handleWaiters + 1
    /\ Goto(e, "lock")
    /\ UNCHANGED <<poolVars, outstanding, allWaiters, overflow, waited, lockVars, target, seen,
                   reg, workerVars, histVars>>

(* Take completion_mutex_, for the first time or again after waking, and   *)
(* evaluate the predicate.                                                 *)
Lock(e) ==
    /\ epc[e] = "lock"
    /\ mutex = Nobody
    /\ mutex' = e
    /\ Goto(e, IF target[e] = Idle THEN "outstanding" ELSE "generation")
    /\ UNCHANGED <<poolVars, outstanding, waitVars, asleep, target, seen, reg, workerVars,
                   histVars>>

(* the predicate was false: sleep, and release the mutex in the same step *)
Sleep(e) ==
    /\ epc[e] = "sleep"
    /\ mutex' = Nobody
    /\ asleep' = asleep \cup {e}
    /\ Goto(e, "asleep")
    /\ UNCHANGED <<poolVars, outstanding, waitVars, target, seen, reg, workerVars, histVars>>

SpuriousWakeup(e) ==
    /\ e \in asleep
    /\ asleep' = asleep \ {e}
    /\ Goto(e, "lock")
    /\ UNCHANGED <<poolVars, outstanding, waitVars, mutex, target, seen, reg, workerVars,
                   histVars>>

(* Faulty variant: the waiter slot stays taken *)
LeaveRegistered(e) ==
    /\ epc[e] = "unregister"
    /\ Return(e)
    /\ UNCHANGED <<poolVars, outstanding, waitVars, lockVars, workerVars, histVars>>

UncountWaiter(e) ==
    /\ epc[e] = "leave"
    /\ target[e] # Idle
    /\ handleWaiters' = handleWaiters - 1
    /\ Goto(e, "unregister")
    /\ UNCHANGED <<poolVars, outstanding, allWaiters, overflow, waited, lockVars, target, seen,
                   reg, workerVars, histVars>>

(* unregister_handle_waiter() *)
Unregister(e) ==
    /\ epc[e] = "unregister"
    /\ IF reg[e] <= WaiterSlots
       THEN waited' = [waited EXCEPT ![reg[e]] = NoIndex] /\ UNCHANGED overflow
       ELSE overflow' = overflow - 1 /\ UNCHANGED waited
    /\ Return(e)
    /\ UNCHANGED <<poolVars, outstanding, handleWaiters, allWaiters, lockVars, workerVars, histVars>>

-----------------------------------------------------------------------------
(* wait_all() *)

WaitAll(e) ==
    /\ epc[e] = "idle"
    /\ outstanding # 0
    /\ target' = [target EXCEPT ![e] = Idle]
    /\ Goto(e, "countAll")
    /\ UNCHANGED <<poolVars, outstanding, waitVars, lockVars, seen, reg, workerVars, histVars>>

CountAllWaiter(e) ==
    /\ epc[e] = "countAll"
    /\ allWaiters' = allWaiters + 1
    /\ Goto(e, "lock")
    /\ UNCHANGED <<poolVars, outstanding, handleWaiters, overflow, waited, lockVars, target, seen,
                   reg, workerVars, histVars>>

CheckOutstanding(e) ==
    /\ epc[e] = "outstanding"
    /\ IF outstanding = 0 THEN AnswerYes(e) ELSE AnswerNo(e)
    /\ UNCHANGED <<poolVars, outstanding, waitVars, workerVars, histVars>>

UncountAllWaiter(e) ==
    /\ epc[e] = "leave"
    /\ target[e] = Idle
    /\ allWaiters' = allWaiters - 1
    /\ Return(e)
    /\ UNCHANGED <<poolVars, outstanding, handleWaiters, overflow, waited, lockVars, workerVars, histVars>>

-----------------------------------------------------------------------------
(* A worker: execute(), then complete() *)

Execute(w, h) ==
    /\ wpc[w] = "idle"
    /\ h \in ready
    /\ ready' = ready \ {h}
    /\ state' = [state EXCEPT ![h.slot] = "Executing"]
    /\ whandle' = [whandle EXCEPT ![w] = h]
    /\ WGoto(w, "body")
    /\ UNCHANGED <<generation, free, reserved, outstanding, waitVars, lockVars, threadVars, wremaining,
                   wwake, wscan, histVars>>

(* The body returns (or throws, and is caught); take_successors(); the     *)
(* task is marked complete.                                                *)
StoreCompleted(w) ==
    /\ wpc[w] = "body"
    /\ finished' = finished \cup {whandle[w]}
    /\ state' = [state EXCEPT ![whandle[w].slot] = "Completed"]
    /\ WGoto(w, "bumpGeneration")
    /\ UNCHANGED <<generation, free, ready, reserved, outstanding, waitVars, lockVars, threadVars,
                   whandle, wremaining, wwake, wscan, submitted, issued, untoldZero>>

BumpGeneration(w) ==
    /\ wpc[w] = "bumpGeneration"
    /\ generation' = [generation EXCEPT ![whandle[w].slot] = @ + 1]
    /\ WGoto(w, "freeSlot")
    /\ UNCHANGED <<state, free, ready, reserved, outstanding, waitVars, lockVars, threadVars,
                   whandle, wremaining, wwake, wscan, histVars>>

FreeSlot(w) ==
    /\ wpc[w] = "freeSlot"
    /\ state' = [state EXCEPT ![whandle[w].slot] = "Free"]
    /\ free' = free \cup {whandle[w].slot}
    /\ WGoto(w, "decrement")
    /\ UNCHANGED <<generation, ready, reserved, outstanding, waitVars, lockVars, threadVars,
                   whandle, wremaining, wwake, wscan, histVars>>

Decrement(w) ==
    /\ wpc[w] = "decrement"
    /\ outstanding' = outstanding - 1
    /\ wremaining' = [wremaining EXCEPT ![w] = outstanding - 1]
    /\ WGoto(w, "readWaiters")
    /\ UNCHANGED <<poolVars, waitVars, lockVars, threadVars, whandle, wwake, wscan, histVars>>

ReadHandleWaiters(w) ==
    /\ wpc[w] = "readWaiters"
    /\ WGoto(w, IF handleWaiters # 0 THEN "readOverflow" ELSE "readAll")
    /\ UNCHANGED <<poolVars, outstanding, waitVars, lockVars, threadVars, whandle, wremaining,
                   wwake, wscan, histVars>>

ReadOverflow(w) ==
    /\ wpc[w] = "readOverflow"
    /\ wwake' = [wwake EXCEPT ![w] = overflow # 0]
    /\ WGoto(w, IF overflow # 0 THEN "readAll" ELSE "scan")
    /\ UNCHANGED <<poolVars, outstanding, waitVars, lockVars, threadVars, whandle, wremaining,
                   wscan, histVars>>

(* Faulty variant: the last waiter slot is not looked at *)
ScanWaitersOffByOne(w) ==
    LET inRange == wscan[w] < WaiterSlots
        match == inRange /\ waited[wscan[w]] = whandle[w].slot
    IN  /\ wpc[w] = "scan"
        /\ wwake' = [wwake EXCEPT ![w] = match]
        /\ wscan' = IF inRange THEN [wscan EXCEPT ![w] = @ + 1] ELSE wscan
        /\ IF match \/ ~inRange THEN WGoto(w, "readAll") ELSE UNCHANGED wpc
        /\ UNCHANGED <<poolVars, outstanding, waitVars, lockVars, threadVars, whandle, wremaining,
                       histVars>>

(* one round of the loop over handle_waiter_slots_, which a match ends *)
ScanWaiters(w) ==
    LET inRange == wscan[w] <= WaiterSlots
        match == inRange /\ waited[wscan[w]] = whandle[w].slot
    IN  /\ wpc[w] = "scan"
        /\ wwake' = [wwake EXCEPT ![w] = match]
        /\ wscan' = IF inRange THEN [wscan EXCEPT ![w] = @ + 1] ELSE wscan
        /\ IF match \/ ~inRange THEN WGoto(w, "readAll") ELSE UNCHANGED wpc
        /\ UNCHANGED <<poolVars, outstanding, waitVars, lockVars, threadVars, whandle, wremaining,
                       histVars>>

(* Faulty variant: looks for wait_all() callers only when a handle matched *)
ReadAllWaitersNested(w) ==
    /\ wpc[w] = "readAll"
    /\ IF wwake[w]
       THEN WGoto(w, "lock") /\ UNCHANGED <<whandle, wremaining, wwake, wscan>>
       ELSE WReturn(w)
    /\ UNCHANGED <<poolVars, outstanding, waitVars, lockVars, threadVars, histVars>>

ReadAllWaiters(w) ==
    /\ wpc[w] = "readAll"
    /\ IF wwake[w] \/ (wremaining[w] = 0 /\ allWaiters # 0)
       THEN WGoto(w, "lock") /\ UNCHANGED <<whandle, wremaining, wwake, wscan>>
       ELSE WReturn(w)
    /\ UNCHANGED <<poolVars, outstanding, waitVars, lockVars, threadVars, histVars>>

(* Faulty variant: notifies without ever having held the mutex *)
NotifyWithoutLock(w) ==
    /\ wpc[w] = "lock"
    /\ WGoto(w, "notify")
    /\ UNCHANGED <<poolVars, outstanding, waitVars, lockVars, threadVars, whandle, wremaining,
                   wwake, wscan, histVars>>

(* the mutex is taken and released with nothing in between *)
LockUnlock(w) ==
    /\ wpc[w] = "lock"
    /\ mutex = Nobody
    /\ WGoto(w, "notify")
    /\ UNCHANGED <<poolVars, outstanding, waitVars, lockVars, threadVars, whandle, wremaining,
                   wwake, wscan, histVars>>

NotifyAll(w) ==
    /\ wpc[w] = "notify"
    /\ epc' = [e \in Threads |-> IF e \in asleep THEN "lock" ELSE epc[e]]
    /\ asleep' = {}
    /\ WReturn(w)
    /\ UNCHANGED <<poolVars, outstanding, waitVars, mutex, target, seen, reg, histVars>>

-----------------------------------------------------------------------------
ThreadStep(e) ==
    \/ \E s \in Slots : Reserve(e, s)
    \/ Publish(e) \/ ConstructThrows(e) \/ ConstructThrowsInline(e) \/ Rethrow(e)
    \/ RunInline(e) \/ InlineCount(e)
    \/ CheckGeneration(e) \/ CheckState(e) \/ RecheckGeneration(e)
    \/ RegisterTry(e) \/ RegisterOverflow(e) \/ CountWaiter(e) \/ Lock(e)
    \/ Sleep(e) \/ UncountWaiter(e) \/ Unregister(e)
    \/ CountAllWaiter(e) \/ CheckOutstanding(e) \/ UncountAllWaiter(e)

ThreadCalls(e) == SubmitCount(e) \/ WaitAll(e) \/ \E h \in issued : WaitHandle(e, h)

WorkerStep(w) ==
    \/ \E h \in ready : Execute(w, h)
    \/ StoreCompleted(w) \/ BumpGeneration(w) \/ FreeSlot(w)
    \/ Decrement(w) \/ ReadHandleWaiters(w) \/ ReadOverflow(w) \/ ScanWaiters(w)
    \/ ReadAllWaiters(w) \/ LockUnlock(w) \/ NotifyAll(w)

Next ==
    \/ \E e \in Threads : ThreadCalls(e) \/ ThreadStep(e) \/ SpuriousWakeup(e)
    \/ \E w \in Workers : WorkerStep(w)

(* A thread inside a call, and a worker that has a task or finds one, keep *)
(* running and get a mutex that is free again and again: a thread is at    *)
(* one place at a time, so strong fairness of its steps is strong fairness *)
(* of taking the mutex and weak fairness of the rest.  Nothing is assumed  *)
(* of callers or of spurious wake-ups.                                     *)
Spec ==
    /\ Init
    /\ [][Next]_vars
    /\ \A e \in Threads : SF_vars(ThreadStep(e))
    /\ \A w \in Workers : SF_vars(WorkerStep(w))

-----------------------------------------------------------------------------
Complete(h) == generation[h.slot] # h.gen \/ state[h.slot] = "Completed"

(* Worker w, completing the task of slot s, has yet to decide whether to   *)
(* wake thread e, and will decide to, or has decided and not yet notified. *)
WillWake(w, e, s) ==
    \/ wpc[w] \in {"lock", "notify"}
    \/ wpc[w] = "readAll" /\ wwake[w]
    \/ /\ whandle[w] # Idle
       /\ whandle[w].slot = s
       /\ \/ wpc[w] \in {"bumpGeneration", "freeSlot", "decrement", "readWaiters", "readOverflow"}
          \/ wpc[w] = "scan" /\ reg[e] <= WaiterSlots /\ wscan[w] <= reg[e]

(* A thread asleep in wait(handle) whose task has completed is about to be *)
(* woken: the completing worker cannot have skipped the notification,      *)
(* whatever the registration, the unlocked reads of the waiter counts and  *)
(* the recycling of the slot interleave.                                   *)
NoLostHandleWakeup ==
    \A e \in asleep :
        target[e] # Idle /\ Complete(target[e]) =>
            \E w \in Workers : WillWake(w, e, target[e].slot)

(* The same for wait_all(): a sleeper that could leave is about to be      *)
(* woken, unless outstanding_ got to zero by a decrement that tells nobody *)
(* (run_inline(), or a submit_emplace() undone by an exception).           *)
NoLostIdleWakeup ==
    \A e \in asleep :
        target[e] = Idle /\ outstanding = 0 /\ ~untoldZero =>
            \E w \in Workers :
                \/ wpc[w] \in {"lock", "notify"}
                \/ /\ wpc[w] \in {"readWaiters", "readOverflow", "scan", "readAll"}
                   /\ wremaining[w] = 0

(* wait(handle) returns, on its fast path or after sleeping, only once the *)
(* body of that very task has returned.                                    *)
WaitSound ==
    [][\A e \in Threads :
        target[e] # Idle /\ target'[e] # target[e] => target[e] \in finished]_vars

Registered(e) == target[e] # Idle /\ epc[e] \in {"count", "lock", "asleep", "leave", "unregister"}
InPredicate(e) == target[e] # Idle /\ mutex = e

(* Every blocked handle waiter is findable: it alone owns a waiter slot    *)
(* holding its task's index, or it is one of those the overflow count      *)
(* stands for; and no slot and no count outlives its waiter.               *)
WaiterBookkeeping ==
    LET R == {e \in Threads : Registered(e) \/ InPredicate(e)} IN
    /\ \A e \in R : reg[e] <= WaiterSlots => waited[reg[e]] = target[e].slot
    /\ \A e, f \in R : e # f /\ reg[e] <= WaiterSlots => reg[e] # reg[f]
    /\ \A i \in 1 .. WaiterSlots : waited[i] # NoIndex => \E e \in R : reg[e] = i
    /\ overflow = Cardinality({e \in R : reg[e] > WaiterSlots})

(* Every wait(handle) returns, on the fast path, after a notification or   *)
(* woken for another waiter: nobody is left asleep on a finished task.     *)
WaitOf(e) == (epc[e] # "idle" /\ target[e] # Idle) ~> (epc[e] = "idle" \/ target[e] = Idle)
WaitReturns == \A e \in Threads : WaitOf(e)

(* inside wait_all(), past the test of outstanding_ that needs no waiting *)
WaitingAll(e) ==
    target[e] = Idle /\ epc[e] \in {"countAll", "lock", "outstanding", "sleep", "asleep", "leave"}

(* Every wait_all() returns once the callers have stopped submitting,      *)
(* which is what ITaskRuntime promises.                                    *)
WaitAllReturns == \A e \in Threads : WaitingAll(e) ~> ~WaitingAll(e)

(* What holds of it: only a caller that is asleep while outstanding_ is    *)
(* zero by a decrement that tells nobody may stay.                         *)
WaitAllToldOf(e) == WaitingAll(e) ~> (~WaitingAll(e) \/ (untoldZero /\ e \in asleep))

=============================================================================
