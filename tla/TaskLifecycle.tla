---------------------------- MODULE TaskLifecycle ----------------------------
(***************************************************************************)
(* The life of a task in runtime/RuntimeBase.cpp: submit(), submit_after(),*)
(* run_inline(), execute() and complete(), over the slots of TaskPool and  *)
(* the successor list of Task.  A step is one access to shared memory or   *)
(* one critical section.                                                   *)
(*                                                                         *)
(* Abstracted: which free slot the pool hands out (TaskPool), in which     *)
(* order a scheduler serves its ready tasks (AbpDeque, the runtimes), and  *)
(* the wake-up of waiters that ends complete() (CompletionWait).           *)
(***************************************************************************)
EXTENDS Integers, FiniteSets, SequencesExt

CONSTANTS Workers,       \* threads that run execute()
          Clients,       \* threads that call submit() and submit_after()
          Tasks,         \* the submissions the program makes
          Slots,         \* the slots of the pool
          MaxDeps,       \* most handles given to one submit_after()
          ThreadCache    \* kOptThreadCache: free slots may be hidden in
                         \* the cache of another thread

ASSUME SizeAssumption == MaxDeps \in Nat /\ ThreadCache \in BOOLEAN

CONSTANTS Invalid,       \* the handle of a task that ran inline
          NoTask,        \* no task
          Unsubmitted    \* no handle yet: submit() has not returned

VARIABLES generation,    \* Task::generation, per slot
          state,         \* Task::state, per slot
          pending,       \* Task::pending_dependencies, per slot
          closed,        \* Task::successors_closed_, per slot
          successors,    \* the successor list, per slot
          body,          \* which submission's function is in the slot
          free,          \* slots on the free lists
          ready,         \* handles in the scheduler's queues
          outstanding,   \* RuntimeBase::outstanding_
          handle,        \* the handle submit() returned, per task
          cpc, ctask, chandle, cdeps,      \* per client: position and locals
          wpc, whandle, wsucc, wdep,       \* per worker: position and locals
          phase, after,  \* history: what happened to each task, and the
                         \* tasks it was submitted after
          threw          \* history: submissions whose callable threw when
                         \* it was copied into the slot

slotVars   == <<generation, state, pending, closed, successors, body>>
clientVars == <<cpc, ctask, chandle, cdeps>>
workerVars == <<wpc, whandle, wsucc, wdep>>
vars == <<generation, state, pending, closed, successors, body, free, ready, outstanding,
          handle, cpc, ctask, chandle, cdeps, wpc, whandle, wsucc, wdep, phase, after, threw>>

Handle == [slot : Slots, gen : Nat]

ASSUME NoneAssumption ==
    NoTask \notin Tasks /\ Invalid \notin Handle /\ Unsubmitted \notin Handle \cup {Invalid}

(* The handle of the task that is in slot s. *)
HandleOf(s) == [slot |-> s, gen |-> generation[s]]

(* TaskPool::get(): the handle still names the occupant of its slot *)
Resolves(h) == h # Invalid /\ generation[h.slot] = h.gen

(* is_complete_internal().  Its two looks at the generation are one here:  *)
(* CompletionWait takes them apart.                                        *)
IsComplete(h) == Resolves(h) => state[h.slot] = "Completed"

DepSeqs == UNION {[1 .. n -> {t \in Tasks : handle[t] # Unsubmitted}] : n \in 0 .. MaxDeps}

Init ==
    /\ generation = [s \in Slots |-> 0]
    /\ state = [s \in Slots |-> "Free"]
    /\ pending = [s \in Slots |-> 0]
    /\ closed = [s \in Slots |-> FALSE]
    /\ successors = [s \in Slots |-> << >>]
    /\ body = [s \in Slots |-> NoTask]
    /\ free = Slots
    /\ ready = {}
    /\ outstanding = 0
    /\ handle = [t \in Tasks |-> Unsubmitted]
    /\ cpc = [c \in Clients |-> "idle"]
    /\ ctask = [c \in Clients |-> NoTask]
    /\ chandle = [c \in Clients |-> Invalid]
    /\ cdeps = [c \in Clients |-> << >>]
    /\ wpc = [w \in Workers |-> "idle"]
    /\ whandle = [w \in Workers |-> Invalid]
    /\ wsucc = [w \in Workers |-> << >>]
    /\ wdep = [w \in Workers |-> Invalid]
    /\ phase = [t \in Tasks |-> "none"]
    /\ after = [t \in Tasks |-> {}]
    /\ threw = {}

-----------------------------------------------------------------------------
(* submit(), submit_after() *)

Goto(c, l) == cpc' = [cpc EXCEPT ![c] = l]

(* nobody has submitted t yet *)
Fresh(t) ==
    /\ phase[t] = "none"
    /\ t \notin threw
    /\ \A c \in Clients : cpc[c] = "idle" \/ ctask[c] # t

Accepted(c) ==
    /\ phase' = [phase EXCEPT ![ctask[c]] = "submitted"]
    /\ after' = [after EXCEPT ![ctask[c]] = ToSet(cdeps[c])]

(* Faulty variant: the task is never counted *)
SubmitUncounted(c, t, deps) ==
    /\ cpc[c] = "idle"
    /\ Fresh(t)
    /\ ctask' = [ctask EXCEPT ![c] = t]
    /\ cdeps' = [cdeps EXCEPT ![c] = deps]
    /\ Goto(c, "acquire")
    /\ UNCHANGED <<slotVars, free, ready, outstanding, handle, chandle, workerVars,
                   phase, after, threw>>

(* outstanding_ is raised before anything of the task can be seen *)
SubmitCount(c, t, deps) ==
    /\ cpc[c] = "idle"
    /\ Fresh(t)
    /\ outstanding' = outstanding + 1
    /\ ctask' = [ctask EXCEPT ![c] = t]
    /\ cdeps' = [cdeps EXCEPT ![c] = deps]
    /\ Goto(c, "acquire")
    /\ UNCHANGED <<slotVars, free, ready, handle, chandle, workerVars, phase, after, threw>>

(* TaskPool::acquire(), and the state the caller gives the slot at once.   *)
(* With dependencies the count starts at their number plus the guard.      *)
Acquire(c, s) ==
    LET n == Len(cdeps[c]) IN
    /\ cpc[c] = "acquire"
    /\ s \in free
    /\ free' = free \ {s}
    /\ body' = [body EXCEPT ![s] = ctask[c]]
    /\ closed' = [closed EXCEPT ![s] = FALSE]
    /\ successors' = [successors EXCEPT ![s] = << >>]
    /\ pending' = [pending EXCEPT ![s] = IF n = 0 THEN 0 ELSE n + 1]
    /\ state' = [state EXCEPT ![s] = IF n = 0 THEN "Queued" ELSE "Waiting"]
    /\ chandle' = [chandle EXCEPT ![c] = HandleOf(s)]
    /\ Goto(c, IF n = 0 THEN "enqueue" ELSE "register")
    /\ Accepted(c)
    /\ UNCHANGED <<generation, ready, outstanding, handle, ctask, cdeps, workerVars, threw>>

(* submit_emplace(): TaskPool::reserve(), then the callable is built in    *)
(* the slot, which is published only after that.                           *)
Reserve(c, s) ==
    /\ cpc[c] = "acquire"
    /\ cdeps[c] = << >>
    /\ s \in free
    /\ free' = free \ {s}
    /\ closed' = [closed EXCEPT ![s] = FALSE]
    /\ successors' = [successors EXCEPT ![s] = << >>]
    /\ pending' = [pending EXCEPT ![s] = 0]
    /\ chandle' = [chandle EXCEPT ![c] = HandleOf(s)]
    /\ Goto(c, "construct")
    /\ UNCHANGED <<generation, state, body, ready, outstanding, handle, ctask, cdeps, workerVars,
                   phase, after, threw>>

Publish(c) ==
    LET s == chandle[c].slot IN
    /\ cpc[c] = "construct"
    /\ body' = [body EXCEPT ![s] = ctask[c]]
    /\ state' = [state EXCEPT ![s] = "Queued"]
    /\ Goto(c, "enqueue")
    /\ Accepted(c)
    /\ UNCHANGED <<generation, pending, closed, successors, free, ready, outstanding, handle,
                   ctask, chandle, cdeps, workerVars, threw>>

(* Copying the callable threw: the slot goes back (TaskPool::release()) ... *)
ConstructThrows(c) ==
    LET s == chandle[c].slot IN
    /\ cpc[c] = "construct"
    /\ generation' = [generation EXCEPT ![s] = @ + 1]
    /\ closed' = [closed EXCEPT ![s] = TRUE]
    /\ free' = free \cup {s}
    /\ Goto(c, "rethrow")
    /\ UNCHANGED <<state, pending, successors, body, ready, outstanding, handle, ctask, chandle,
                   cdeps, workerVars, phase, after, threw>>

(* ... there was none to give back ... *)
ConstructThrowsInline(c) ==
    /\ cpc[c] = "acquire"
    /\ cdeps[c] = << >>
    /\ free = {} \/ ThreadCache
    /\ Goto(c, "rethrow")
    /\ UNCHANGED <<slotVars, free, ready, outstanding, handle, ctask, chandle, cdeps, workerVars,
                   phase, after, threw>>

(* ... and so does the count, before the caller sees the exception *)
Rethrow(c) ==
    /\ cpc[c] = "rethrow"
    /\ outstanding' = outstanding - 1
    /\ threw' = threw \cup {ctask[c]}
    /\ Goto(c, "idle")
    /\ UNCHANGED <<slotVars, free, ready, handle, ctask, chandle, cdeps, workerVars,
                   phase, after>>

(* Pool exhausted: the task will run on this thread, its dependencies      *)
(* waited for first.  A thread's view of the pool does not include slots   *)
(* cached by others.                                                       *)
Exhausted(c) ==
    /\ cpc[c] = "acquire"
    /\ free = {} \/ ThreadCache
    /\ chandle' = [chandle EXCEPT ![c] = Invalid]
    /\ Goto(c, "inlineWait")
    /\ Accepted(c)
    /\ UNCHANGED <<slotVars, free, ready, outstanding, handle, ctask, cdeps, workerVars, threw>>

InlineWait(c) ==
    /\ cpc[c] = "inlineWait"
    /\ cdeps[c] # << >>
    /\ IsComplete(handle[Head(cdeps[c])])
    /\ cdeps' = [cdeps EXCEPT ![c] = Tail(@)]
    /\ UNCHANGED <<slotVars, free, ready, outstanding, handle, cpc, ctask, chandle, workerVars,
                   phase, after, threw>>

(* run_inline(): the body, which may throw and is caught ... *)
InlineStart(c) ==
    /\ cpc[c] = "inlineWait"
    /\ cdeps[c] = << >>
    /\ phase' = [phase EXCEPT ![ctask[c]] = "running"]
    /\ Goto(c, "inline")
    /\ UNCHANGED <<slotVars, free, ready, outstanding, handle, ctask, chandle, cdeps,
                   workerVars, after, threw>>

InlineFinish(c) ==
    /\ cpc[c] = "inline"
    /\ phase' = [phase EXCEPT ![ctask[c]] = "finished"]
    /\ Goto(c, "inlineCount")
    /\ UNCHANGED <<slotVars, free, ready, outstanding, handle, ctask, chandle, cdeps,
                   workerVars, after, threw>>

(* Faulty variant: both run_inline() and its caller give the count back *)
InlineCountTwice(c) ==
    /\ cpc[c] = "inlineCount"
    /\ outstanding' = outstanding - 2
    /\ handle' = [handle EXCEPT ![ctask[c]] = Invalid]
    /\ Goto(c, "idle")
    /\ UNCHANGED <<slotVars, free, ready, ctask, chandle, cdeps, workerVars, phase, after, threw>>

(* ... then the count is given back and the caller gets the empty handle   *)
InlineCount(c) ==
    /\ cpc[c] = "inlineCount"
    /\ outstanding' = outstanding - 1
    /\ handle' = [handle EXCEPT ![ctask[c]] = Invalid]
    /\ Goto(c, "idle")
    /\ UNCHANGED <<slotVars, free, ready, ctask, chandle, cdeps, workerVars, phase, after, threw>>

(* the lookup of one dependency: a stale handle is a finished task *)
RegisterLookup(c) ==
    /\ cpc[c] = "register"
    /\ cdeps[c] # << >>
    /\ Goto(c, IF Resolves(handle[Head(cdeps[c])]) THEN "addSuccessor" ELSE "preSatisfied")
    /\ UNCHANGED <<slotVars, free, ready, outstanding, handle, ctask, chandle, cdeps,
                   workerVars, phase, after, threw>>

(* Task::try_add_successor(), under the slot's spin lock *)
AddSuccessor(c) ==
    LET h == handle[Head(cdeps[c])]
        s == h.slot
        usable == ~closed[s] /\ generation[s] = h.gen
    IN  /\ cpc[c] = "addSuccessor"
        /\ successors' = IF usable
                         THEN [successors EXCEPT ![s] = Append(@, chandle[c])]
                         ELSE successors
        /\ cdeps' = IF usable THEN [cdeps EXCEPT ![c] = Tail(@)] ELSE cdeps
        /\ Goto(c, IF usable THEN "register" ELSE "preSatisfied")
        /\ UNCHANGED <<generation, state, pending, closed, body, free, ready, outstanding,
                       handle, ctask, chandle, workerVars, phase, after, threw>>

PreSatisfied(c) ==
    /\ cpc[c] = "preSatisfied"
    /\ pending' = [pending EXCEPT ![chandle[c].slot] = @ - 1]
    /\ cdeps' = [cdeps EXCEPT ![c] = Tail(@)]
    /\ Goto(c, "register")
    /\ UNCHANGED <<generation, state, closed, successors, body, free, ready, outstanding,
                   handle, ctask, chandle, workerVars, phase, after, threw>>

(* Take the guard off.  Whoever brings the count to zero enqueues.         *)
RemoveGuard(c) ==
    LET s == chandle[c].slot IN
    /\ cpc[c] = "register"
    /\ cdeps[c] = << >>
    /\ pending' = [pending EXCEPT ![s] = @ - 1]
    /\ IF pending[s] = 1
       THEN Goto(c, "enqueue") /\ state' = [state EXCEPT ![s] = "Queued"] /\ UNCHANGED handle
       ELSE Goto(c, "idle") /\ handle' = [handle EXCEPT ![ctask[c]] = chandle[c]]
            /\ UNCHANGED state
    /\ UNCHANGED <<generation, closed, successors, body, free, ready, outstanding,
                   ctask, chandle, cdeps, workerVars, phase, after, threw>>

Enqueue(c) ==
    /\ cpc[c] = "enqueue"
    /\ ready' = ready \cup {chandle[c]}
    /\ handle' = [handle EXCEPT ![ctask[c]] = chandle[c]]
    /\ Goto(c, "idle")
    /\ UNCHANGED <<slotVars, free, outstanding, ctask, chandle, cdeps, workerVars, phase, after, threw>>

-----------------------------------------------------------------------------
(* execute(), complete() *)

WGoto(w, l) == wpc' = [wpc EXCEPT ![w] = l]

(* The scheduler hands the worker a ready task; execute() marks the slot   *)
(* and calls the body.                                                     *)
Execute(w, h) ==
    /\ wpc[w] = "idle"
    /\ h \in ready
    /\ ready' = ready \ {h}
    /\ whandle' = [whandle EXCEPT ![w] = h]
    /\ state' = [state EXCEPT ![h.slot] = "Executing"]
    /\ phase' = [phase EXCEPT ![body[h.slot]] = "running"]
    /\ WGoto(w, "body")
    /\ UNCHANGED <<generation, pending, closed, successors, body, free, outstanding, handle,
                   clientVars, wsucc, wdep, after, threw>>

(* The body returns, or throws and is caught: complete() follows either way *)
BodyReturn(w) ==
    /\ wpc[w] = "body"
    /\ phase' = [phase EXCEPT ![body[whandle[w].slot]] = "finished"]
    /\ WGoto(w, "take")
    /\ UNCHANGED <<slotVars, free, ready, outstanding, handle, clientVars, whandle, wsucc, wdep,
                   after, threw>>

(* Faulty variant: hands out the list but leaves it open *)
TakeSuccessorsLeftOpen(w) ==
    LET s == whandle[w].slot IN
    /\ wpc[w] = "take"
    /\ wsucc' = [wsucc EXCEPT ![w] = successors[s]]
    /\ successors' = [successors EXCEPT ![s] = << >>]
    /\ WGoto(w, "storeCompleted")
    /\ UNCHANGED <<generation, state, pending, closed, body, free, ready, outstanding, handle,
                   clientVars, whandle, wdep, phase, after, threw>>

(* Task::take_successors(), under the slot's spin lock *)
TakeSuccessors(w) ==
    LET s == whandle[w].slot IN
    /\ wpc[w] = "take"
    /\ closed' = [closed EXCEPT ![s] = TRUE]
    /\ wsucc' = [wsucc EXCEPT ![w] = successors[s]]
    /\ successors' = [successors EXCEPT ![s] = << >>]
    /\ WGoto(w, "storeCompleted")
    /\ UNCHANGED <<generation, state, pending, body, free, ready, outstanding, handle,
                   clientVars, whandle, wdep, phase, after, threw>>

StoreCompleted(w) ==
    /\ wpc[w] = "storeCompleted"
    /\ state' = [state EXCEPT ![whandle[w].slot] = "Completed"]
    /\ WGoto(w, "bumpGeneration")
    /\ UNCHANGED <<generation, pending, closed, successors, body, free, ready, outstanding,
                   handle, clientVars, whandle, wsucc, wdep, phase, after, threw>>

(* Faulty variant: the slot goes back with its generation unchanged *)
BumpGenerationForgotten(w) ==
    /\ wpc[w] = "bumpGeneration"
    /\ WGoto(w, "freeSlot")
    /\ UNCHANGED <<slotVars, free, ready, outstanding, handle, clientVars, whandle, wsucc, wdep,
                   phase, after, threw>>

(* TaskPool::release(): the generation first ... *)
BumpGeneration(w) ==
    /\ wpc[w] = "bumpGeneration"
    /\ generation' = [generation EXCEPT ![whandle[w].slot] = @ + 1]
    /\ WGoto(w, "freeSlot")
    /\ UNCHANGED <<state, pending, closed, successors, body, free, ready, outstanding, handle,
                   clientVars, whandle, wsucc, wdep, phase, after, threw>>

(* ... then the list, still closed, the state, and the free list *)
FreeSlot(w) ==
    LET s == whandle[w].slot IN
    /\ wpc[w] = "freeSlot"
    /\ closed' = [closed EXCEPT ![s] = TRUE]
    /\ successors' = [successors EXCEPT ![s] = << >>]
    /\ state' = [state EXCEPT ![s] = "Free"]
    /\ body' = [body EXCEPT ![s] = NoTask]
    /\ free' = free \cup {s}
    /\ WGoto(w, "release")
    /\ UNCHANGED <<generation, pending, ready, outstanding, handle, clientVars, whandle, wsucc,
                   wdep, phase, after, threw>>

(* Faulty variant: every predecessor that finishes enqueues the dependent *)
ReleaseDependentAlways(w) ==
    LET d == Head(wsucc[w]) IN
    /\ wpc[w] = "release"
    /\ wsucc[w] # << >>
    /\ wsucc' = [wsucc EXCEPT ![w] = Tail(@)]
    /\ pending' = [pending EXCEPT ![d.slot] = @ - 1]
    /\ state' = [state EXCEPT ![d.slot] = "Queued"]
    /\ wdep' = [wdep EXCEPT ![w] = d]
    /\ WGoto(w, "enqueueDependent")
    /\ UNCHANGED <<generation, closed, successors, body, free, ready, outstanding, handle,
                   clientVars, whandle, phase, after, threw>>

(* release_dependent(): whoever brings the count to zero enqueues *)
ReleaseDependent(w) ==
    LET d == Head(wsucc[w])
        last == Resolves(d) /\ pending[d.slot] = 1
    IN  /\ wpc[w] = "release"
        /\ wsucc[w] # << >>
        /\ wsucc' = [wsucc EXCEPT ![w] = Tail(@)]
        /\ pending' = IF Resolves(d) THEN [pending EXCEPT ![d.slot] = @ - 1] ELSE pending
        /\ state' = IF last THEN [state EXCEPT ![d.slot] = "Queued"] ELSE state
        /\ wdep' = IF last THEN [wdep EXCEPT ![w] = d] ELSE wdep
        /\ IF last THEN WGoto(w, "enqueueDependent") ELSE UNCHANGED wpc
        /\ UNCHANGED <<generation, closed, successors, body, free, ready, outstanding, handle,
                       clientVars, whandle, phase, after, threw>>

EnqueueDependent(w) ==
    /\ wpc[w] = "enqueueDependent"
    /\ ready' = ready \cup {wdep[w]}
    /\ WGoto(w, "release")
    /\ UNCHANGED <<slotVars, free, outstanding, handle, clientVars, whandle, wsucc, wdep,
                   phase, after, threw>>

CompleteCount(w) ==
    /\ wpc[w] = "release"
    /\ wsucc[w] = << >>
    /\ outstanding' = outstanding - 1
    /\ WGoto(w, "idle")
    /\ UNCHANGED <<slotVars, free, ready, handle, clientVars, whandle, wsucc, wdep, phase, after, threw>>

-----------------------------------------------------------------------------
ClientStep(c) ==
    \/ \E s \in Slots : Acquire(c, s) \/ Reserve(c, s)
    \/ Publish(c) \/ ConstructThrows(c) \/ ConstructThrowsInline(c) \/ Rethrow(c)
    \/ Exhausted(c) \/ InlineWait(c) \/ InlineStart(c) \/ InlineFinish(c) \/ InlineCount(c)
    \/ RegisterLookup(c) \/ AddSuccessor(c) \/ PreSatisfied(c) \/ RemoveGuard(c)
    \/ Enqueue(c)

WorkerStep(w) ==
    \/ \E h \in ready : Execute(w, h)
    \/ BodyReturn(w) \/ TakeSuccessors(w) \/ StoreCompleted(w) \/ BumpGeneration(w)
    \/ FreeSlot(w) \/ ReleaseDependent(w) \/ EnqueueDependent(w) \/ CompleteCount(w)

Submits(c) == \E t \in Tasks, deps \in DepSeqs : SubmitCount(c, t, deps)

(* The program has submitted all it had and the runtime is at rest. *)
AtRest ==
    /\ \A t \in Tasks : phase[t] = "finished" \/ t \in threw
    /\ \A c \in Clients : cpc[c] = "idle"
    /\ \A w \in Workers : wpc[w] = "idle"
    /\ UNCHANGED vars

Next ==
    \/ \E c \in Clients : Submits(c) \/ ClientStep(c)
    \/ \E w \in Workers : WorkerStep(w)
    \/ AtRest

(* A thread inside the runtime keeps running (the operating system's       *)
(* scheduler), and a body returns.  Nobody has to submit anything.         *)
Spec ==
    /\ Init
    /\ [][Next]_vars
    /\ \A c \in Clients : WF_vars(ClientStep(c))
    /\ \A w \in Workers : WF_vars(WorkerStep(w))

-----------------------------------------------------------------------------
TaskStates == {"Free", "Waiting", "Queued", "Executing", "Completed"}
Handles == Handle \cup {Invalid}

(* Every variable stays in its range; in particular no count goes below    *)
(* zero (they are unsigned in the code).                                   *)
TypeOK ==
    /\ generation \in [Slots -> Nat]
    /\ state \in [Slots -> TaskStates]
    /\ pending \in [Slots -> Nat]
    /\ closed \in [Slots -> BOOLEAN]
    /\ \A s \in Slots : \A i \in 1 .. Len(successors[s]) : successors[s][i] \in Handle
    /\ body \in [Slots -> Tasks \cup {NoTask}]
    /\ free \subseteq Slots
    /\ ready \subseteq Handle
    /\ outstanding \in Nat
    /\ handle \in [Tasks -> Handles \cup {Unsubmitted}]
    /\ ctask \in [Clients -> Tasks \cup {NoTask}]
    /\ chandle \in [Clients -> Handles]
    /\ whandle \in [Workers -> Handles]
    /\ wdep \in [Workers -> Handles]

(* Where handle h stands in list l. *)
PositionsOf(h, l) == {i \in 1 .. Len(l) : l[i] = h}

(* submit_after() is registering the dependencies of a task in a slot. *)
Registering(c) == cpc[c] \in {"register", "addSuccessor", "preSatisfied"}

(* The notifications the task with handle h has still to get: edges in     *)
(* the lists of unfinished tasks, edges a completing worker has taken and  *)
(* not yet served, and, while submit_after() runs, the dependencies it has *)
(* not looked at plus the guard.                                           *)
Notifications(h) ==
    (UNION {{<<"edge", s, i>> : i \in PositionsOf(h, successors[s])} : s \in Slots})
    \cup (UNION {{<<"taken", w, i>> : i \in PositionsOf(h, wsucc[w])} : w \in Workers})
    \cup (UNION {{<<"call", c, i>> : i \in 0 .. Len(cdeps[c])} :
                  c \in {d \in Clients : Registering(d) /\ chandle[d] = h}})

(* pending_dependencies of a waiting task is exactly the number of         *)
(* notifications still to come.  One too few and the task hangs, one too   *)
(* many and it runs early.                                                 *)
PendingAccount ==
    \A s \in Slots :
        state[s] = "Waiting" =>
            pending[s] = Cardinality(Notifications(HandleOf(s)))

(* A handle means the task it was issued for, for ever: while it resolves, *)
(* that task is in the slot, and when it reads as complete, that task's    *)
(* body has returned, however often the slot was recycled since.           *)
HandleNamesTask ==
    \A t \in Tasks :
        handle[t] # Unsubmitted =>
            /\ Resolves(handle[t]) => body[handle[t].slot] = t
            /\ IsComplete(handle[t]) => phase[t] = "finished"

(* outstanding_ never under-counts: when wait_all() sees zero, every task  *)
(* that was submitted has finished and its slot is free again.             *)
WaitAllSound ==
    outstanding = 0 =>
        /\ \A t \in Tasks : phase[t] \in {"none", "finished"}
        /\ free = Slots
        /\ ready = {}

(* The runtime takes only steps of TaskRuntimeSpec: each task runs once,   *)
(* after all its dependencies, whatever the registration in submit_after() *)
(* and the completion of a predecessor interleave.  (That every submitted  *)
(* task does run is checked as absence of deadlock: short of AtRest some   *)
(* thread always has a step.)                                              *)
TR == INSTANCE TaskRuntimeSpec

ImplementsTaskRuntime == TR!Safety

=============================================================================
