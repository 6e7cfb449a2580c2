---------------------------- MODULE WorkerParking ----------------------------
(***************************************************************************)
(* runtime/ThunderboltRuntime.cpp: how a worker finds its next task, when  *)
(* it goes to sleep, who wakes it, and how the destructor stops it.  A     *)
(* step is one access to shared memory or one short critical section       *)
(* (a queue operation under the queue's own mutex).                        *)
(*                                                                         *)
(* The mode is the scheduler: "Stealing" (own deque, global queue, the     *)
(* others' deques) or "Static" (own inbox only).  The deques are sequences *)
(* whose operations are single steps, which is what AbpDeque implements; a *)
(* thief may come back empty-handed from a last element whose owner is     *)
(* inside pop().                                                           *)
(*                                                                         *)
(* Abstracted: priorities and aging (all tasks are equal), what execute()  *)
(* does to a task (TaskLifecycle), and help-on-wait.  A body, and the      *)
(* release of dependents after it, may enqueue further tasks.              *)
(***************************************************************************)
EXTENDS Integers, SequencesExt, FiniteSets

CONSTANTS NumWorkers,      \* worker_count_
          Submitters,      \* external threads calling enqueue_ready()
          Tasks,           \* the handles that get enqueued, once each
          Modes,           \* the values of config().scheduler
          DrainBatch,      \* kGlobalDrainBatch
          DequeCapacity,   \* per_queue_capacity
          SpinLimit,       \* kSpinsBeforePark
          Nobody,          \* sleep_mutex_ is free
          NoTask           \* no task in hand

ASSUME ParkingAssumption ==
    /\ NumWorkers \in Nat \ {0}
    /\ Modes \subseteq {"Stealing", "Static"}
    /\ DrainBatch \in Nat \ {0} /\ DequeCapacity \in Nat \ {0} /\ SpinLimit \in Nat \ {0}

Workers == 0 .. NumWorkers - 1

ASSUME NoneAssumption == Nobody \notin Workers /\ NoTask \notin Tasks

VARIABLES mode,          \* config().scheduler, fixed at construction
          global,        \* GlobalQueue
          deque,         \* each worker's AbpDeque, top first
          inbox,         \* each worker's static-mode inbox
          cursor,        \* static_cursor_ modulo worker_count_
          sleeping,      \* sleeping_
          mutex,         \* who holds sleep_mutex_
          asleep,        \* workers inside sleep_cv_.wait()
          running,       \* running_
          wpc,           \* where each worker is
          hand,          \* the task it acquired
          extra,         \* a further task it moves from global to its deque
          drained,       \* tasks taken in this drain_global()
          aim,           \* the victim and the task its thief is about to CAS for
          toScan,        \* the workers whose queues it has yet to look at
          spins,         \* idle_spins
          spc,           \* where each submitter is in enqueue_ready()
          dpc,           \* where the destructor is
          enqueued,      \* history: tasks given to enqueue_ready()
          runs           \* history: how often each task was executed

queueVars == <<global, deque, inbox>>
sleepVars == <<sleeping, mutex, asleep>>
localVars == <<hand, extra, drained, aim, toScan, spins>>
otherVars == <<mode, running, spc, dpc>>
vars == <<mode, global, deque, inbox, cursor, sleeping, mutex, asleep, running, wpc, hand, extra,
          drained, aim, toScan, spins, spc, dpc, enqueued, runs>>

NoAim == << >>

Init ==
    /\ mode \in Modes
    /\ global = << >>
    /\ deque = [w \in Workers |-> << >>]
    /\ inbox = [w \in Workers |-> << >>]
    /\ cursor = 0
    /\ sleeping = 0
    /\ mutex = Nobody
    /\ asleep = {}
    /\ running = TRUE
    /\ wpc = [w \in Workers |-> "loop"]
    /\ hand = [w \in Workers |-> NoTask]
    /\ extra = [w \in Workers |-> NoTask]
    /\ drained = [w \in Workers |-> 0]
    /\ aim = [w \in Workers |-> NoAim]
    /\ toScan = [w \in Workers |-> {}]
    /\ spins = [w \in Workers |-> 0]
    /\ spc = [s \in Submitters |-> "idle"]
    /\ dpc = "alive"
    /\ enqueued = {}
    /\ runs = [t \in Tasks |-> 0]

Goto(w, l) == wpc' = [wpc EXCEPT ![w] = l]

(* The tasks that are waiting in some queue. *)
Queued == ToSet(global) \cup UNION {ToSet(deque[w]) \cup ToSet(inbox[w]) : w \in Workers}

-----------------------------------------------------------------------------
(* enqueue_ready(): publish the task ... *)

(* round-robin over the inboxes; nobody else will ever take it from there *)
EnqueueStatic(t) ==
    /\ inbox' = [inbox EXCEPT ![cursor] = Append(@, t)]
    /\ cursor' = (cursor + 1) % NumWorkers
    /\ UNCHANGED <<global, deque>>

EnqueueGlobal(t) == global' = Append(global, t) /\ UNCHANGED <<deque, inbox, cursor>>

(* from a worker: its own deque, the global queue when that is full *)
EnqueueLocal(w, t) ==
    IF Len(deque[w]) < DequeCapacity
    THEN deque' = [deque EXCEPT ![w] = Append(@, t)] /\ UNCHANGED <<global, inbox, cursor>>
    ELSE EnqueueGlobal(t)

Enqueue(s, t) ==
    /\ spc[s] = "idle"
    /\ dpc = "alive"
    /\ t \notin enqueued
    /\ enqueued' = enqueued \cup {t}
    /\ IF mode = "Static" THEN EnqueueStatic(t) ELSE EnqueueGlobal(t)
    /\ spc' = [spc EXCEPT ![s] = "readSleeping"]
    /\ UNCHANGED <<mode, sleepVars, running, wpc, localVars, dpc, runs>>

(* ... then wake_one_worker(): the unlocked look at sleeping_ ... *)
ReadSleeping(s) ==
    /\ spc[s] = "readSleeping"
    /\ spc' = [spc EXCEPT ![s] = IF sleeping = 0 THEN "idle" ELSE "lock"]
    /\ UNCHANGED <<mode, queueVars, cursor, sleepVars, running, wpc, localVars, dpc, enqueued, runs>>

(* ... the mutex, taken and released ... *)
LockUnlock(s) ==
    /\ spc[s] = "lock"
    /\ mutex = Nobody
    /\ spc' = [spc EXCEPT ![s] = "notify"]
    /\ UNCHANGED <<mode, queueVars, cursor, sleepVars, running, wpc, localVars, dpc, enqueued, runs>>

(* notify_one(): any one of those asleep, if there is one *)
WakeOne(rest) ==
    IF asleep = {}
    THEN wpc' = rest /\ UNCHANGED asleep
    ELSE \E v \in asleep : asleep' = asleep \ {v} /\ wpc' = [rest EXCEPT ![v] = "woken"]

NotifyOne(s) ==
    /\ spc[s] = "notify"
    /\ WakeOne(wpc)
    /\ spc' = [spc EXCEPT ![s] = "idle"]
    /\ UNCHANGED <<mode, queueVars, cursor, sleeping, mutex, running, localVars, dpc, enqueued, runs>>

(* the same steps when the caller is a worker, inside a body *)
Spawn(w, t) ==
    /\ wpc[w] = "body"
    /\ t \notin enqueued
    /\ enqueued' = enqueued \cup {t}
    /\ IF mode = "Static" THEN EnqueueStatic(t) ELSE EnqueueLocal(w, t)
    /\ Goto(w, "spawnReadSleeping")
    /\ UNCHANGED <<sleepVars, localVars, otherVars, runs>>

SpawnReadSleeping(w) ==
    /\ wpc[w] = "spawnReadSleeping"
    /\ Goto(w, IF sleeping = 0 THEN "body" ELSE "spawnLock")
    /\ UNCHANGED <<queueVars, cursor, sleepVars, localVars, otherVars, enqueued, runs>>

SpawnLockUnlock(w) ==
    /\ wpc[w] = "spawnLock"
    /\ mutex = Nobody
    /\ Goto(w, "spawnNotify")
    /\ UNCHANGED <<queueVars, cursor, sleepVars, localVars, otherVars, enqueued, runs>>

SpawnNotify(w) ==
    /\ wpc[w] = "spawnNotify"
    /\ WakeOne([wpc EXCEPT ![w] = "body"])
    /\ UNCHANGED <<queueVars, cursor, sleeping, mutex, localVars, otherVars, enqueued, runs>>

-----------------------------------------------------------------------------
(* worker_loop(), acquire_next() *)

LoopTop(w) ==
    /\ wpc[w] = "loop"
    /\ Goto(w, IF ~running THEN "exited" ELSE IF mode = "Static" THEN "inbox" ELSE "local")
    /\ UNCHANGED <<queueVars, cursor, sleepVars, localVars, otherVars, enqueued, runs>>

(* A task is found: execute() it. *)
Run(w, t) ==
    /\ hand' = [hand EXCEPT ![w] = t]
    /\ runs' = [runs EXCEPT ![t] = @ + 1]
    /\ spins' = [spins EXCEPT ![w] = 0]
    /\ Goto(w, "body")

(* No task anywhere: another round, or park. *)
FoundNothing(w) ==
    /\ spins' = [spins EXCEPT ![w] = (@ + 1) % SpinLimit]
    /\ Goto(w, IF spins[w] + 1 < SpinLimit THEN "loop" ELSE "park")
    /\ UNCHANGED <<hand, runs>>

(* Faulty variant: runs the task and leaves it in the inbox *)
PopInboxKept(w) ==
    /\ wpc[w] = "inbox"
    /\ IF inbox[w] # << >> THEN Run(w, Head(inbox[w])) ELSE FoundNothing(w)
    /\ UNCHANGED <<queueVars, cursor, sleepVars, extra, drained, toScan, aim, otherVars, enqueued>>

PopInbox(w) ==
    /\ wpc[w] = "inbox"
    /\ IF inbox[w] # << >>
       THEN Run(w, Head(inbox[w])) /\ inbox' = [inbox EXCEPT ![w] = Tail(@)]
       ELSE FoundNothing(w) /\ UNCHANGED inbox
    /\ UNCHANGED <<global, deque, cursor, sleepVars, extra, drained, toScan, aim, otherVars, enqueued>>

PopLocal(w) ==
    /\ wpc[w] = "local"
    /\ IF deque[w] # << >>
       THEN Run(w, Last(deque[w])) /\ deque' = [deque EXCEPT ![w] = Front(@)]
       ELSE Goto(w, "global") /\ UNCHANGED <<deque, hand, spins, runs>>
    /\ UNCHANGED <<global, inbox, cursor, sleepVars, extra, drained, toScan, aim, otherVars, enqueued>>

(* drain_global(): the first task is for this worker ... *)
DrainFirst(w) ==
    /\ wpc[w] = "global"
    /\ IF global # << >>
       THEN /\ hand' = [hand EXCEPT ![w] = Head(global)]
            /\ global' = Tail(global)
            /\ drained' = [drained EXCEPT ![w] = 1]
            /\ Goto(w, "drain")
            /\ UNCHANGED toScan
       ELSE /\ toScan' = [toScan EXCEPT ![w] = Workers \ {w}]
            /\ Goto(w, "steal")
            /\ UNCHANGED <<global, hand, drained>>
    /\ UNCHANGED <<deque, inbox, cursor, sleepVars, extra, spins, aim, otherVars, enqueued, runs>>

(* ... the others move to its deque, one at a time: out of the global      *)
(* queue, and for a moment in no queue at all ...                          *)
DrainTake(w) ==
    /\ wpc[w] = "drain"
    /\ drained[w] < DrainBatch
    /\ global # << >>
    /\ extra' = [extra EXCEPT ![w] = Head(global)]
    /\ global' = Tail(global)
    /\ drained' = [drained EXCEPT ![w] = @ + 1]
    /\ Goto(w, "drainPush")
    /\ UNCHANGED <<deque, inbox, cursor, sleepVars, hand, toScan, spins, aim, otherVars, enqueued,
                   runs>>

(* Faulty variant: the task that did not fit is dropped *)
DrainPushDropped(w) ==
    LET fits == Len(deque[w]) < DequeCapacity IN
    /\ wpc[w] = "drainPush"
    /\ IF fits
       THEN deque' = [deque EXCEPT ![w] = Append(@, extra[w])] /\ UNCHANGED <<global, drained>>
       ELSE drained' = [drained EXCEPT ![w] = DrainBatch] /\ UNCHANGED <<deque, global>>
    /\ extra' = [extra EXCEPT ![w] = NoTask]
    /\ Goto(w, "drain")
    /\ UNCHANGED <<inbox, cursor, sleepVars, hand, toScan, spins, aim, otherVars, enqueued, runs>>

(* ... or back to the global queue, which ends the drain *)
DrainPush(w) ==
    LET fits == Len(deque[w]) < DequeCapacity IN
    /\ wpc[w] = "drainPush"
    /\ IF fits
       THEN deque' = [deque EXCEPT ![w] = Append(@, extra[w])] /\ UNCHANGED <<global, drained>>
       ELSE /\ global' = Append(global, extra[w])
            /\ drained' = [drained EXCEPT ![w] = DrainBatch]
            /\ UNCHANGED deque
    /\ extra' = [extra EXCEPT ![w] = NoTask]
    /\ Goto(w, "drain")
    /\ UNCHANGED <<inbox, cursor, sleepVars, hand, toScan, spins, aim, otherVars, enqueued, runs>>

DrainDone(w) ==
    /\ wpc[w] = "drain"
    /\ drained[w] = DrainBatch \/ global = << >>
    /\ Run(w, hand[w])
    /\ drained' = [drained EXCEPT ![w] = 0]
    /\ UNCHANGED <<queueVars, cursor, sleepVars, extra, toScan, aim, otherVars, enqueued>>

(* steal_from_others(): every other worker once, from a random one on.     *)
(* steal() reads the oldest element ...                                    *)
StealRead(w, v) ==
    /\ wpc[w] = "steal"
    /\ v \in toScan[w]
    /\ deque[v] # << >>
    /\ aim' = [aim EXCEPT ![w] = <<v, Head(deque[v])>>]
    /\ Goto(w, "stealCas")
    /\ UNCHANGED <<queueVars, cursor, sleepVars, hand, extra, drained, toScan, spins, otherVars,
                   enqueued, runs>>

(* ... and has it if it is still the oldest when the CAS is made ... *)
StealWon(w) ==
    /\ wpc[w] = "stealCas"
    /\ LET v == aim[w][1]
           t == aim[w][2]
       IN  /\ deque[v] # << >> /\ Head(deque[v]) = t
           /\ Run(w, t)
           /\ deque' = [deque EXCEPT ![v] = Tail(@)]
    /\ aim' = [aim EXCEPT ![w] = NoAim]
    /\ toScan' = [toScan EXCEPT ![w] = {}]
    /\ UNCHANGED <<global, inbox, cursor, sleepVars, extra, drained, otherVars, enqueued>>

(* ... otherwise, as from an empty deque, it comes back with nothing and   *)
(* goes on to the next victim                                              *)
StealAborted(w) ==
    /\ wpc[w] = "stealCas"
    /\ LET v == aim[w][1] IN
       /\ deque[v] # << >> => Head(deque[v]) # aim[w][2]
       /\ toScan' = [toScan EXCEPT ![w] = @ \ {v}]
    /\ aim' = [aim EXCEPT ![w] = NoAim]
    /\ Goto(w, "steal")
    /\ UNCHANGED <<queueVars, cursor, sleepVars, hand, extra, drained, spins, otherVars,
                   enqueued, runs>>

StealNothing(w, v) ==
    /\ wpc[w] = "steal"
    /\ v \in toScan[w]
    /\ deque[v] = << >> \/ (Len(deque[v]) = 1 /\ wpc[v] = "local")
    /\ toScan' = [toScan EXCEPT ![w] = @ \ {v}]
    /\ UNCHANGED <<queueVars, cursor, sleepVars, wpc, hand, extra, drained, aim, spins, otherVars,
                   enqueued, runs>>

StealFailed(w) ==
    /\ wpc[w] = "steal"
    /\ toScan[w] = {}
    /\ FoundNothing(w)
    /\ UNCHANGED <<queueVars, cursor, sleepVars, extra, drained, toScan, aim, otherVars, enqueued>>

BodyReturn(w) ==
    /\ wpc[w] = "body"
    /\ hand' = [hand EXCEPT ![w] = NoTask]
    /\ Goto(w, "loop")
    /\ UNCHANGED <<queueVars, cursor, sleepVars, extra, drained, toScan, spins, aim, otherVars,
                   enqueued, runs>>

-----------------------------------------------------------------------------
(* park_worker() *)

(* Faulty variant: looks for work first and counts itself only then *)
ParkUncounted(w) ==
    /\ wpc[w] = "park"
    /\ mutex = Nobody
    /\ mutex' = w
    /\ Goto(w, "parkRunning")
    /\ UNCHANGED <<queueVars, cursor, sleeping, asleep, localVars, otherVars, enqueued, runs>>

(* lock, and count oneself as asleep before the last look around ... *)
ParkCount(w) ==
    /\ wpc[w] = "park"
    /\ mutex = Nobody
    /\ mutex' = w
    /\ sleeping' = sleeping + 1
    /\ Goto(w, "parkRunning")
    /\ UNCHANGED <<queueVars, cursor, asleep, localVars, otherVars, enqueued, runs>>

Unpark(w) ==
    /\ sleeping' = sleeping - 1
    /\ mutex' = Nobody
    /\ toScan' = [toScan EXCEPT ![w] = {}]
    /\ Goto(w, "loop")
    /\ UNCHANGED asleep

(* Faulty variant: goes to sleep without looking at running_ *)
ParkIgnoresStop(w) ==
    /\ wpc[w] = "parkRunning"
    /\ Goto(w, "parkGlobal")
    /\ UNCHANGED <<sleepVars, toScan>>
    /\ UNCHANGED <<queueVars, cursor, hand, extra, drained, spins, aim, otherVars, enqueued, runs>>

ParkRunning(w) ==
    /\ wpc[w] = "parkRunning"
    /\ IF running THEN Goto(w, "parkGlobal") /\ UNCHANGED <<sleepVars, toScan>> ELSE Unpark(w)
    /\ UNCHANGED <<queueVars, cursor, hand, extra, drained, spins, aim, otherVars, enqueued, runs>>

(* Faulty variant: sleeps without a last look at the queues *)
ParkWithoutLooking(w) ==
    /\ wpc[w] = "parkGlobal"
    /\ Goto(w, "parkScan")
    /\ UNCHANGED <<queueVars, cursor, sleepVars, localVars, otherVars, enqueued, runs>>

(* ... any_work_available(): the global queue, then every worker in turn   *)
ParkGlobal(w) ==
    /\ wpc[w] = "parkGlobal"
    /\ IF global # << >>
       THEN Unpark(w)
       ELSE /\ toScan' = [toScan EXCEPT ![w] = Workers]
            /\ Goto(w, "parkScan")
            /\ UNCHANGED sleepVars
    /\ UNCHANGED <<queueVars, cursor, hand, extra, drained, spins, aim, otherVars, enqueued, runs>>

ParkScan(w) ==
    /\ wpc[w] = "parkScan"
    /\ toScan[w] # {}
    /\ LET v == CHOOSE u \in toScan[w] : \A x \in toScan[w] : u <= x
           work == (IF mode = "Static" THEN inbox ELSE deque)[v] # << >>
       IN  \/ work /\ Unpark(w)
           \/ /\ ~work \/ (mode = "Stealing" /\ Len(deque[v]) = 1 /\ wpc[v] = "local")
              /\ toScan' = [toScan EXCEPT ![w] = @ \ {v}]
              /\ UNCHANGED <<sleepVars, wpc>>
    /\ UNCHANGED <<queueVars, cursor, hand, extra, drained, spins, aim, otherVars, enqueued, runs>>

(* ... and sleep, releasing the mutex *)
Sleep(w) ==
    /\ wpc[w] = "parkScan"
    /\ toScan[w] = {}
    /\ mutex' = Nobody
    /\ asleep' = asleep \cup {w}
    /\ Goto(w, "asleep")
    /\ UNCHANGED <<queueVars, cursor, sleeping, localVars, otherVars, enqueued, runs>>

(* awake: the mutex again, and no longer counted *)
Woken(w) ==
    /\ wpc[w] = "woken"
    /\ mutex = Nobody
    /\ sleeping' = sleeping - 1
    /\ Goto(w, "loop")
    /\ UNCHANGED <<queueVars, cursor, mutex, asleep, localVars, otherVars, enqueued, runs>>

SpuriousWakeup(w) ==
    /\ w \in asleep
    /\ asleep' = asleep \ {w}
    /\ Goto(w, "woken")
    /\ UNCHANGED <<queueVars, cursor, sleeping, mutex, localVars, otherVars, enqueued, runs>>

-----------------------------------------------------------------------------
(* ~ThunderboltRuntime(): wait_all(), stop, wake everyone, join.  By its   *)
(* contract nobody submits any more.                                       *)

Busy == \E w \in Workers : hand[w] # NoTask \/ extra[w] # NoTask

(* Faulty variant: empty queues are taken for no outstanding task *)
DestroyQueuesEmpty ==
    /\ dpc = "alive"
    /\ \A s \in Submitters : spc[s] = "idle"
    /\ Queued = {}
    /\ dpc' = "stop"
    /\ UNCHANGED <<mode, queueVars, cursor, sleepVars, running, wpc, localVars, spc, enqueued, runs>>

DestroyDrained ==
    /\ dpc = "alive"
    /\ \A s \in Submitters : spc[s] = "idle"
    /\ Queued = {}
    /\ ~Busy
    /\ dpc' = "stop"
    /\ UNCHANGED <<mode, queueVars, cursor, sleepVars, running, wpc, localVars, spc, enqueued, runs>>

DestroyStop ==
    /\ dpc = "stop"
    /\ running' = FALSE
    /\ dpc' = "notify"
    /\ UNCHANGED <<mode, queueVars, cursor, sleepVars, wpc, localVars, spc, enqueued, runs>>

DestroyNotify ==
    /\ dpc = "notify"
    /\ mutex = Nobody
    /\ asleep' = {}
    /\ wpc' = [w \in Workers |-> IF w \in asleep THEN "woken" ELSE wpc[w]]
    /\ dpc' = "join"
    /\ UNCHANGED <<mode, queueVars, cursor, sleeping, mutex, running, localVars, spc, enqueued, runs>>

DestroyJoin ==
    /\ dpc = "join"
    /\ \A w \in Workers : wpc[w] = "exited"
    /\ dpc' = "gone"
    /\ UNCHANGED <<mode, queueVars, cursor, sleepVars, running, wpc, localVars, spc, enqueued, runs>>

Gone == dpc = "gone" /\ UNCHANGED vars

-----------------------------------------------------------------------------
SubmitterStep(s) == ReadSleeping(s) \/ LockUnlock(s) \/ NotifyOne(s)

WorkerStep(w) ==
    \/ LoopTop(w) \/ PopInbox(w) \/ PopLocal(w)
    \/ DrainFirst(w) \/ DrainTake(w) \/ DrainPush(w) \/ DrainDone(w)
    \/ \E v \in Workers : StealRead(w, v) \/ StealNothing(w, v)
    \/ StealWon(w) \/ StealAborted(w) \/ StealFailed(w) \/ BodyReturn(w)
    \/ SpawnReadSleeping(w) \/ SpawnLockUnlock(w) \/ SpawnNotify(w)
    \/ ParkCount(w) \/ ParkRunning(w) \/ ParkGlobal(w) \/ ParkScan(w) \/ Sleep(w) \/ Woken(w)

DestructorStep == DestroyStop \/ DestroyNotify \/ DestroyJoin

Next ==
    \/ \E s \in Submitters : SubmitterStep(s) \/ \E t \in Tasks : Enqueue(s, t)
    \/ \E w \in Workers :
        \/ WorkerStep(w)
        \/ SpuriousWakeup(w)
        \/ \E t \in Tasks : Spawn(w, t)
    \/ DestroyDrained \/ DestructorStep
    \/ Gone

(* Threads inside the runtime keep running and get a mutex that is free    *)
(* again and again: a thread is at one place at a time, so strong fairness *)
(* of its steps is strong fairness of taking the mutex and weak fairness   *)
(* of the rest.  Nothing is assumed of spurious wake-ups.                  *)
Spec ==
    /\ Init
    /\ [][Next]_vars
    /\ \A s \in Submitters : SF_vars(SubmitterStep(s))
    /\ \A w \in Workers : SF_vars(WorkerStep(w))
    /\ SF_vars(DestructorStep)

-----------------------------------------------------------------------------
(* Every variable stays in its range; sleeping_ in particular never counts *)
(* below zero.                                                             *)
TypeOK ==
    /\ mode \in Modes
    /\ cursor \in Workers
    /\ sleeping \in 0 .. NumWorkers
    /\ mutex \in Workers \cup {Nobody}
    /\ asleep \subseteq Workers
    /\ running \in BOOLEAN
    /\ hand \in [Workers -> Tasks \cup {NoTask}]
    /\ extra \in [Workers -> Tasks \cup {NoTask}]
    /\ drained \in [Workers -> 0 .. DrainBatch]
    /\ \A w \in Workers : aim[w] = NoAim \/ aim[w] \in Workers \X Tasks
    /\ toScan \in [Workers -> SUBSET Workers]
    /\ spins \in [Workers -> 0 .. SpinLimit - 1]
    /\ \A w \in Workers : Len(deque[w]) <= DequeCapacity

(* No task is lost or duplicated on its way: from enqueue_ready() to       *)
(* execute() it is in exactly one queue or one worker's hands, through     *)
(* draining, overflowing, putting back and stealing, and it is executed    *)
(* once.                                                                   *)
Places(t) ==
    {<<"global", i>> : i \in {j \in DOMAIN global : global[j] = t}}
    \cup (UNION {{<<"deque", w, i>> : i \in {j \in DOMAIN deque[w] : deque[w][j] = t}} : w \in Workers})
    \cup (UNION {{<<"inbox", w, i>> : i \in {j \in DOMAIN inbox[w] : inbox[w][j] = t}} : w \in Workers})
    \cup {<<"extra", w>> : w \in {v \in Workers : extra[v] = t}}
    \cup {<<"hand", w>> : w \in {v \in Workers : hand[v] = t /\ wpc[v] \in {"drain", "drainPush"}}}

TaskConservation ==
    \A t \in Tasks :
        IF t \in enqueued THEN Cardinality(Places(t)) + runs[t] = 1
                          ELSE Places(t) = {} /\ runs[t] = 0

(* Some thread is on its way to wake a sleeper. *)
WakeupPending ==
    \/ \E s \in Submitters : spc[s] \in {"readSleeping", "lock", "notify"}
    \/ \E w \in Workers : wpc[w] \in {"spawnReadSleeping", "spawnLock", "spawnNotify"}

(* The runtime is never asleep as a whole with work in a queue.            *)
NotAllAsleep == Queued # {} /\ asleep = Workers => WakeupPending

(* Shutdown discards nothing: when running_ is cleared, every task that    *)
(* was enqueued has been executed.                                         *)
NothingDiscarded == ~running => \A t \in enqueued : runs[t] = 1

(* Every task given to enqueue_ready() is executed: what static mode, too, *)
(* is tested to do.                                                        *)
EveryTaskRuns == \A t \in Tasks : t \in enqueued ~> runs[t] = 1

(* In the stealing modes every task given to enqueue_ready() is executed:  *)
(* the handshake between wake_one_worker() and park_worker() loses no      *)
(* wakeup, and no task stays behind in a deque or the global queue.        *)
StealingRunsEveryTask ==
    \A t \in Tasks : (mode = "Stealing" /\ t \in enqueued) ~> runs[t] = 1

(* The destructor returns once it has seen the runtime drained: no worker  *)
(* sleeps through the stop.                                                *)
ShutdownReturns == (dpc = "stop") ~> (dpc = "gone")

=============================================================================
