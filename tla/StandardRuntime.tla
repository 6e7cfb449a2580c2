--------------------------- MODULE StandardRuntime ---------------------------
(***************************************************************************)
(* runtime/StandardRuntime.cpp, the baseline: one queue under one mutex,   *)
(* workers that sleep on a condition variable until it has a task or the   *)
(* runtime stops.  A step is one access to shared memory outside the       *)
(* mutex, or one critical section; a worker's predicate and its falling    *)
(* asleep are two steps under the mutex, because running_ changes without  *)
(* it.                                                                     *)
(*                                                                         *)
(* A body may enqueue further tasks and wait() for them.  A worker that    *)
(* waits helps (RuntimeBase.cpp): it runs other tasks on top of the frame  *)
(* that waits, and that frame goes on only when those above it are done.   *)
(* submit_after() in a body waits as well, for the dependencies it was     *)
(* given, when the pool is exhausted.                                      *)
(*                                                                         *)
(* Abstracted: the five FIFOs by priority (a pop takes any queued task),   *)
(* and the rest of what execute() does to a task (TaskLifecycle).          *)
(***************************************************************************)
EXTENDS Integers, SequencesExt

CONSTANTS Workers,       \* the worker threads
          Submitters,    \* external threads calling enqueue_ready()
          Tasks,         \* the handles that get enqueued, once each
          Nobody,        \* queue_mutex_ is free
          NoTask         \* no task in hand

ASSUME NoneAssumption == Nobody \notin Workers /\ NoTask \notin Tasks

VARIABLES exhausted,     \* can the pool run dry in this behaviour?
          queue,         \* ready_, of size queued_count_
          mutex,         \* who holds queue_mutex_
          asleep,        \* workers inside queue_cv_.wait()
          running,       \* running_
          wpc,           \* where each worker is
          frames,        \* its stack: the tasks it executes, the innermost last
          awaits,        \* per task, what its body waits for
          finished,      \* tasks completed
          spc,           \* where each submitter is in enqueue_ready()
          dpc,           \* where the destructor is
          enqueued,      \* history: tasks given to enqueue_ready()
          parent,        \* history: the task whose body submitted each
          runs           \* history: how often each task was executed

taskVars == <<awaits, finished, parent, exhausted>>
vars == <<exhausted, queue, mutex, asleep, running, wpc, frames, awaits, finished, spc, dpc,
          enqueued, parent, runs>>

Init ==
    /\ exhausted \in BOOLEAN
    /\ queue = {}
    /\ mutex = Nobody
    /\ asleep = {}
    /\ running = TRUE
    /\ wpc = [w \in Workers |-> "loop"]
    /\ frames = [w \in Workers |-> << >>]
    /\ awaits = [t \in Tasks |-> NoTask]
    /\ finished = {}
    /\ parent = [t \in Tasks |-> NoTask]
    /\ spc = [s \in Submitters |-> "idle"]
    /\ dpc = "alive"
    /\ enqueued = {}
    /\ runs = [t \in Tasks |-> 0]

Goto(w, l) == wpc' = [wpc EXCEPT ![w] = l]
Top(w) == Last(frames[w])

-----------------------------------------------------------------------------
(* enqueue_ready(): push under the mutex ... *)

Push(t) ==
    /\ mutex = Nobody
    /\ t \notin enqueued
    /\ enqueued' = enqueued \cup {t}
    /\ queue' = queue \cup {t}

Enqueue(s, t) ==
    /\ spc[s] = "idle"
    /\ dpc = "alive"
    /\ Push(t)
    /\ spc' = [spc EXCEPT ![s] = "notify"]
    /\ UNCHANGED <<mutex, asleep, running, wpc, frames, taskVars, dpc, runs>>

(* ... then notify_one(): any one of those asleep, if there is one *)
WakeOne(rest) ==
    IF asleep = {}
    THEN wpc' = rest /\ UNCHANGED asleep
    ELSE \E v \in asleep : asleep' = asleep \ {v} /\ wpc' = [rest EXCEPT ![v] = "lock"]

NotifyOne(s) ==
    /\ spc[s] = "notify"
    /\ WakeOne(wpc)
    /\ spc' = [spc EXCEPT ![s] = "idle"]
    /\ UNCHANGED <<queue, mutex, running, frames, taskVars, dpc, enqueued, runs>>

(* the same from a worker, inside a body *)
Spawn(w, t) ==
    /\ wpc[w] = "body"
    /\ Push(t)
    /\ parent' = [parent EXCEPT ![t] = Top(w)]
    /\ Goto(w, "spawnNotify")
    /\ UNCHANGED <<exhausted, mutex, asleep, running, frames, awaits, finished, spc, dpc, runs>>

SpawnNotify(w) ==
    /\ wpc[w] = "spawnNotify"
    /\ WakeOne([wpc EXCEPT ![w] = "body"])
    /\ UNCHANGED <<queue, mutex, running, frames, taskVars, spc, dpc, enqueued, runs>>

-----------------------------------------------------------------------------
(* worker_loop() *)

LoopTop(w) ==
    /\ wpc[w] = "loop"
    /\ Goto(w, IF running THEN "lock" ELSE "exited")
    /\ UNCHANGED <<queue, mutex, asleep, running, frames, taskVars, spc, dpc, enqueued, runs>>

(* the mutex, for the first time or again after waking *)
Lock(w) ==
    /\ wpc[w] = "lock"
    /\ mutex = Nobody
    /\ mutex' = w
    /\ Goto(w, "predicate")
    /\ UNCHANGED <<queue, asleep, running, frames, taskVars, spc, dpc, enqueued, runs>>

(* Faulty variant: the task stays queued *)
PopKept(w, t) ==
    /\ t \in queue
    /\ UNCHANGED queue
    /\ frames' = [frames EXCEPT ![w] = Append(@, t)]
    /\ runs' = [runs EXCEPT ![t] = IF @ = 0 THEN 1 ELSE 2]
    /\ Goto(w, "body")

(* pop_locked(), and the start of execute() on what it returns *)
Pop(w, t) ==
    /\ t \in queue
    /\ queue' = queue \ {t}
    /\ frames' = [frames EXCEPT ![w] = Append(@, t)]
    /\ runs' = [runs EXCEPT ![t] = @ + 1]
    /\ Goto(w, "body")

(* The predicate holds: leave the critical section with a task, or, when   *)
(* there is none, for good.                                                *)
PopTask(w) ==
    /\ wpc[w] = "predicate"
    /\ \E t \in Tasks : Pop(w, t)
    /\ mutex' = Nobody
    /\ UNCHANGED <<asleep, running, taskVars, spc, dpc, enqueued>>

WokenForShutdown(w) ==
    /\ wpc[w] = "predicate"
    /\ queue = {} /\ ~running
    /\ mutex' = Nobody
    /\ Goto(w, "exited")
    /\ UNCHANGED <<queue, asleep, running, frames, taskVars, spc, dpc, enqueued, runs>>

(* It does not: sleep, releasing the mutex in the same step. *)
PredicateFalse(w) ==
    /\ wpc[w] = "predicate"
    /\ queue = {} /\ running
    /\ Goto(w, "sleep")
    /\ UNCHANGED <<queue, mutex, asleep, running, frames, taskVars, spc, dpc, enqueued, runs>>

Sleep(w) ==
    /\ wpc[w] = "sleep"
    /\ mutex' = Nobody
    /\ asleep' = asleep \cup {w}
    /\ Goto(w, "asleep")
    /\ UNCHANGED <<queue, running, frames, taskVars, spc, dpc, enqueued, runs>>

SpuriousWakeup(w) ==
    /\ w \in asleep
    /\ asleep' = asleep \ {w}
    /\ Goto(w, "lock")
    /\ UNCHANGED <<queue, mutex, running, frames, taskVars, spc, dpc, enqueued, runs>>

(* The task completes; a frame it was run on top of looks whether its wait *)
(* is over.                                                                *)
BodyReturn(w) ==
    /\ wpc[w] = "body"
    /\ finished' = finished \cup {Top(w)}
    /\ frames' = [frames EXCEPT ![w] = Front(@)]
    /\ Goto(w, IF Len(frames[w]) = 1 THEN "loop" ELSE "waiting")
    /\ UNCHANGED <<exhausted, queue, mutex, asleep, running, awaits, spc, dpc, enqueued, parent,
                   runs>>

-----------------------------------------------------------------------------
(* RuntimeBase::wait() in a body *)

Await(w, t) ==
    /\ wpc[w] = "body"
    /\ t \in enqueued \ (finished \cup {Top(w)})
    /\ awaits' = [awaits EXCEPT ![Top(w)] = t]
    /\ Goto(w, "waiting")
    /\ UNCHANGED <<exhausted, queue, mutex, asleep, running, frames, finished, spc, dpc, enqueued,
                   parent, runs>>

(* A body waits for a task it has submitted itself.                        *)
WaitCall(w, t) == Await(w, t) /\ parent[t] = Top(w)

(* submit_after() finds no slot: it waits for a dependency, which can be   *)
(* any task whose handle the body has, then runs the new task inline.      *)
DependencyWait(w, t) == exhausted /\ Await(w, t)

(* is_complete_internal() *)
WaitCheck(w) ==
    /\ wpc[w] = "waiting"
    /\ IF awaits[Top(w)] \in finished
       THEN awaits' = [awaits EXCEPT ![Top(w)] = NoTask] /\ Goto(w, "body")
       ELSE Goto(w, "help") /\ UNCHANGED awaits
    /\ UNCHANGED <<exhausted, queue, mutex, asleep, running, frames, finished, spc, dpc, enqueued,
                   parent, runs>>

(* Faulty variant: the worker only yields until the task is complete       *)
YieldOnly(w) ==
    /\ wpc[w] = "help"
    /\ mutex = Nobody
    /\ Goto(w, "waiting")
    /\ UNCHANGED <<queue, frames, runs, mutex, asleep, running, taskVars, spc, dpc, enqueued>>

(* try_execute_one(): run a queued task on top, or yield.                  *)
Help(w) ==
    /\ wpc[w] = "help"
    /\ mutex = Nobody
    /\ \/ \E t \in Tasks : Pop(w, t)
       \/ queue = {} /\ Goto(w, "waiting") /\ UNCHANGED <<queue, frames, runs>>
    /\ UNCHANGED <<mutex, asleep, running, taskVars, spc, dpc, enqueued>>

-----------------------------------------------------------------------------
(* ~StandardRuntime(): wait_all(), stop, wake everyone, join.  By its      *)
(* contract nobody submits any more.                                       *)

(* Faulty variant: an empty queue is taken for no outstanding task *)
DestroyQueueEmpty ==
    /\ dpc = "alive"
    /\ \A s \in Submitters : spc[s] = "idle"
    /\ queue = {}
    /\ dpc' = "stop"
    /\ UNCHANGED <<queue, mutex, asleep, running, wpc, frames, taskVars, spc, enqueued, runs>>

DestroyDrained ==
    /\ dpc = "alive"
    /\ \A s \in Submitters : spc[s] = "idle"
    /\ queue = {}
    /\ \A w \in Workers : frames[w] = << >>
    /\ dpc' = "stop"
    /\ UNCHANGED <<queue, mutex, asleep, running, wpc, frames, taskVars, spc, enqueued, runs>>

DestroyStop ==
    /\ dpc = "stop"
    /\ running' = FALSE
    /\ dpc' = "notify"
    /\ UNCHANGED <<queue, mutex, asleep, wpc, frames, taskVars, spc, enqueued, runs>>

(* Faulty variant: notify_all() without the mutex *)
DestroyNotifyUnlocked ==
    /\ dpc = "notify"
    /\ asleep' = {}
    /\ wpc' = [w \in Workers |-> IF w \in asleep THEN "lock" ELSE wpc[w]]
    /\ dpc' = "join"
    /\ UNCHANGED <<queue, mutex, running, frames, taskVars, spc, enqueued, runs>>

DestroyNotify ==
    /\ dpc = "notify"
    /\ mutex = Nobody
    /\ asleep' = {}
    /\ wpc' = [w \in Workers |-> IF w \in asleep THEN "lock" ELSE wpc[w]]
    /\ dpc' = "join"
    /\ UNCHANGED <<queue, mutex, running, frames, taskVars, spc, enqueued, runs>>

DestroyJoin ==
    /\ dpc = "join"
    /\ \A w \in Workers : wpc[w] = "exited"
    /\ dpc' = "gone"
    /\ UNCHANGED <<queue, mutex, asleep, running, wpc, frames, taskVars, spc, enqueued, runs>>

Gone == dpc = "gone" /\ UNCHANGED vars

-----------------------------------------------------------------------------
WorkerStep(w) ==
    \/ LoopTop(w) \/ Lock(w) \/ PopTask(w) \/ WokenForShutdown(w) \/ PredicateFalse(w)
    \/ Sleep(w) \/ SpawnNotify(w) \/ WaitCheck(w) \/ Help(w) \/ BodyReturn(w)

DestructorStep == DestroyStop \/ DestroyNotify \/ DestroyJoin

Next ==
    \/ \E s \in Submitters : NotifyOne(s) \/ \E t \in Tasks : Enqueue(s, t)
    \/ \E w \in Workers : WorkerStep(w) \/ SpuriousWakeup(w)
    \/ \E w \in Workers, t \in Tasks : Spawn(w, t) \/ WaitCall(w, t) \/ DependencyWait(w, t)
    \/ DestroyDrained \/ DestructorStep
    \/ Gone

(* Threads inside the runtime keep running and get a mutex that is free    *)
(* again and again (see WorkerParking).  Nothing is assumed of spurious    *)
(* wake-ups.                                                               *)
Spec ==
    /\ Init
    /\ [][Next]_vars
    /\ \A s \in Submitters : WF_vars(NotifyOne(s))
    /\ \A w \in Workers : SF_vars(WorkerStep(w))
    /\ SF_vars(DestructorStep)

-----------------------------------------------------------------------------
(* Shutdown discards nothing: when running_ is cleared, every task that    *)
(* was enqueued has been executed, once.                                   *)
NothingDiscarded == ~running => \A t \in enqueued : runs[t] = 1 /\ t \in finished

(* A task that waits is stuck behind the task it waits for, and behind the *)
(* one on top of it on its worker's stack.                                 *)
Behind(t, u) ==
    \/ awaits[t] = u /\ u \notin finished
    \/ \E w \in Workers : \E i \in 1 .. Len(frames[w]) - 1 :
          frames[w][i] = t /\ frames[w][i + 1] = u

(* "Nothing runnable, but our task is still outstanding, so another worker *)
(* holds it": as long as bodies wait for their own children only, no ring  *)
(* of waits and stacks ever closes, whatever tasks the helpers pick up.    *)
NoRingOfWaits ==
    ~exhausted =>
        \A S \in (SUBSET Tasks) \ {{}} : \E t \in S : \A u \in S : ~Behind(t, u)

(* Under the same condition every task given to enqueue_ready() ends,      *)
(* whatever waits its body makes.                                          *)
TaskEnds(t) == ~exhausted => (t \in enqueued ~> t \in finished)

(* "Wait for the predecessors first, then run inline.  Safe from a worker  *)
(* because wait() helps rather than parking": the waits of an exhausted    *)
(* submit_after() return too.                                              *)
WaitsReturn == \A t \in Tasks : awaits[t] # NoTask ~> awaits[t] = NoTask

(* The destructor returns once it has seen the runtime drained: no worker  *)
(* sleeps through the stop.                                                *)
ShutdownReturns == (dpc = "stop") ~> (dpc = "gone")

=============================================================================
