-------------------------- MODULE TaskLifecycleProofs --------------------------
(***************************************************************************)
(* Theorems about TaskLifecycle for every set of workers, clients, tasks   *)
(* and slots.                                                              *)
(*                                                                         *)
(* The inductive invariant:                                                *)
(*   TypeInv     the ranges                                                *)
(*   ClientInv   what a thread inside submit() knows of its task           *)
(*   SlotInv     who has a slot: the free lists, a client, or a task       *)
(*   WorkerInv   what a thread inside execute() and complete() knows       *)
(*   ReadyInv    a ready task is enqueued once                             *)
(*   PhaseInv    what state, body and closed say about a task's life       *)
(*   HandleInv   a handle is current, or its task has finished             *)
(*   EdgeInv     an edge leads to a waiting task                           *)
(*   DepInv      an unfinished dependency will still notify                *)
(*   CountInv    pending_dependencies counts the notifications to come     *)
(*   UnitInv     outstanding_ counts the tasks on their way                *)
(***************************************************************************)
EXTENDS TaskLifecycle, FiniteSetTheorems, TLAPS

Inline == {"inlineWait", "inline", "inlineCount"}
Registration == {"register", "addSuccessor", "preSatisfied"}
ClientStates == {"idle", "acquire", "construct", "rethrow", "enqueue"} \cup Inline \cup Registration

Closing == {"storeCompleted", "bumpGeneration", "freeSlot"}
Executes == {"body", "take"} \cup Closing
WorkerStates == {"idle", "release", "enqueueDependent"} \cup Executes

Phases == {"none", "submitted", "running", "finished"}

SlotType ==
    /\ generation \in [Slots -> Nat]
    /\ state \in [Slots -> TaskStates]
    /\ pending \in [Slots -> Int]
    /\ closed \in [Slots -> BOOLEAN]
    /\ successors \in [Slots -> Seq(Handle)]
    /\ body \in [Slots -> Tasks \cup {NoTask}]

TaskType ==
    /\ free \subseteq Slots
    /\ ready \subseteq Handle
    /\ outstanding \in Int
    /\ handle \in [Tasks -> Handles \cup {Unsubmitted}]
    /\ phase \in [Tasks -> Phases]
    /\ after \in [Tasks -> SUBSET Tasks]
    /\ threw \subseteq Tasks \cup {NoTask}

ClientType ==
    /\ cpc \in [Clients -> ClientStates]
    /\ ctask \in [Clients -> Tasks \cup {NoTask}]
    /\ chandle \in [Clients -> Handles]
    /\ cdeps \in [Clients -> Seq(Tasks)]

WorkerType ==
    /\ wpc \in [Workers -> WorkerStates]
    /\ whandle \in [Workers -> Handles]
    /\ wsucc \in [Workers -> Seq(Handle)]
    /\ wdep \in [Workers -> Handles]

TypeInv == SlotType /\ TaskType /\ ClientType /\ WorkerType

Issued(t) == handle[t] # Unsubmitted
Finished(t) == phase[t] = "finished"

Depends(c, t) == \E i \in 1 .. Len(cdeps[c]) : cdeps[c][i] = t

ClientOk(c) ==
    /\ cpc[c] # "idle" => ctask[c] \in Tasks /\ ~Issued(ctask[c])
    /\ cpc[c] # "idle" => \A d \in Tasks : Depends(c, d) => Issued(d)
    /\ cpc[c] \in {"acquire", "construct", "rethrow"} => phase[ctask[c]] = "none"
    /\ cpc[c] \in Registration \cup {"enqueue", "inlineWait"} => phase[ctask[c]] = "submitted"
    /\ cpc[c] = "inline" => phase[ctask[c]] = "running"
    /\ cpc[c] = "inlineCount" => Finished(ctask[c])
    /\ cpc[c] = "construct" => cdeps[c] = << >>
    /\ cpc[c] \in {"addSuccessor", "preSatisfied"} => cdeps[c] # << >>
    /\ cpc[c] = "addSuccessor" => handle[Head(cdeps[c])] # Invalid
    /\ cpc[c] = "preSatisfied" => Finished(Head(cdeps[c]))

ClientInv ==
    /\ \A c \in Clients : ClientOk(c)
    /\ \A c, d \in Clients : cpc[c] # "idle" /\ cpc[d] # "idle" /\ ctask[c] = ctask[d] => c = d
    /\ \A t \in Tasks : Issued(t) => phase[t] # "none"

(* Handle h names the task that is in its slot now. *)
Current(h) == h \in Handle /\ h.gen = generation[h.slot]

(* Client c has put its task into slot s and not returned yet. *)
Holds(c) == cpc[c] \in Registration \cup {"enqueue"}
HasSlot(c, s) == Holds(c) /\ chandle[c].slot = s

(* Client c is building a callable in slot s. *)
Constructs(c, s) == cpc[c] = "construct" /\ chandle[c].slot = s

FreeInv ==
    \A s \in Slots :
        /\ s \in free => state[s] = "Free" /\ successors[s] = << >>
        /\ state[s] = "Free" <=> body[s] = NoTask
        /\ s \notin free /\ state[s] = "Free" => \E c \in Clients : Constructs(c, s)

OwnInv == \A s, r \in Slots : body[s] = body[r] /\ body[s] # NoTask => s = r

ConstructInv ==
    /\ \A c \in Clients :
        cpc[c] = "construct" =>
            LET s == chandle[c].slot IN
            /\ Current(chandle[c])
            /\ s \notin free /\ state[s] = "Free" /\ successors[s] = << >> /\ ~closed[s]
    /\ \A c, d \in Clients :
        cpc[c] = "construct" /\ cpc[d] = "construct" /\ chandle[c].slot = chandle[d].slot => c = d

HolderOk(c) ==
    LET s == chandle[c].slot IN
    /\ Current(chandle[c])
    /\ body[s] = ctask[c]
    /\ state[s] = IF cpc[c] = "enqueue" THEN "Queued" ELSE "Waiting"

HolderInv ==
    /\ \A c \in Clients : Holds(c) => HolderOk(c)
    /\ \A s \in Slots : body[s] # NoTask /\ ~Issued(body[s]) => \E c \in Clients : HasSlot(c, s)

SlotInv == FreeInv /\ OwnInv /\ ConstructInv /\ HolderInv

(* Worker w is between execute() and the end of TaskPool::release() on s. *)
Runs(w, s) == wpc[w] \in Executes /\ whandle[w].slot = s

WorkerOk(w) ==
    wpc[w] \in Executes =>
        LET s == whandle[w].slot IN
        /\ whandle[w] \in Handle
        /\ generation[s] = IF wpc[w] = "freeSlot" THEN whandle[w].gen + 1 ELSE whandle[w].gen
        /\ state[s] = IF wpc[w] \in {"bumpGeneration", "freeSlot"} THEN "Completed" ELSE "Executing"
        /\ phase[body[s]] = IF wpc[w] = "body" THEN "running" ELSE "finished"
        /\ wpc[w] \in Closing => closed[s] /\ successors[s] = << >>

WorkerInv ==
    /\ \A w \in Workers : WorkerOk(w)
    /\ \A w, v \in Workers :
        wpc[w] \in Executes /\ wpc[v] \in Executes /\ whandle[w].slot = whandle[v].slot => w = v
    /\ \A w \in Workers : wpc[w] \in {"idle", "body", "take"} => wsucc[w] = << >>

(* h is the handle of a task that nobody is submitting any more and that   *)
(* nothing keeps waiting.                                                  *)
Runnable(h) == Current(h) /\ state[h.slot] = "Queued" /\ Issued(body[h.slot])

ReadyInv ==
    /\ \A h \in ready : Runnable(h)
    /\ \A w \in Workers : wpc[w] = "enqueueDependent" => Runnable(wdep[w]) /\ wdep[w] \notin ready
    /\ \A w, v \in Workers :
        wpc[w] = "enqueueDependent" /\ wpc[v] = "enqueueDependent" /\ wdep[w] = wdep[v] => w = v

InlineBy(c, t) == cpc[c] \in Inline /\ ctask[c] = t

SlotPhase ==
    \A s \in Slots :
        /\ state[s] \in {"Waiting", "Queued"} => phase[body[s]] = "submitted"
        /\ state[s] = "Executing" => phase[body[s]] \in {"running", "finished"}
        /\ state[s] = "Completed" => Finished(body[s])
        /\ state[s] # "Free" /\ closed[s] => Finished(body[s])

TaskHome ==
    \A t \in Tasks :
        phase[t] \in {"submitted", "running"} =>
            (\E s \in Slots : body[s] = t) \/ (\E c \in Clients : InlineBy(c, t))

PhaseInv == SlotPhase /\ TaskHome

HandleOk(t) ==
    /\ handle[t] = Invalid => Finished(t)
    /\ handle[t] \in Handle =>
        LET h == handle[t] IN
        /\ h.gen <= generation[h.slot]
        /\ h.gen < generation[h.slot] => Finished(t)
        /\ h.gen = generation[h.slot] =>
            body[h.slot] = t /\ \A w \in Workers : wpc[w] = "freeSlot" => whandle[w].slot # h.slot

HandleInv == \A t \in Tasks : HandleOk(t)

Waits(h) == Current(h) /\ state[h.slot] = "Waiting"

EdgeInv ==
    /\ \A s \in Slots : \A i \in 1 .. Len(successors[s]) : Waits(successors[s][i])
    /\ \A w \in Workers : \A i \in 1 .. Len(wsucc[w]) : Waits(wsucc[w][i])

(* There is an edge from task d to the task in slot s. *)
Edge(d, s) ==
    /\ handle[d] \in Handle
    /\ \E i \in 1 .. Len(successors[handle[d].slot]) : successors[handle[d].slot][i].slot = s

DepIssued == \A t \in Tasks : \A d \in after[t] : Issued(d)

SlotDeps(s) ==
    /\ state[s] = "Waiting" =>
        \A d \in after[body[s]] :
            \/ Finished(d)
            \/ Edge(d, s)
            \/ \E c \in Clients : Registering(c) /\ HasSlot(c, s) /\ Depends(c, d)
    /\ state[s] = "Queued" => \A d \in after[body[s]] : Finished(d)

InlineDeps(c) == cpc[c] = "inlineWait" => \A d \in after[ctask[c]] : Finished(d) \/ Depends(c, d)

SlotDepsInv == \A s \in Slots : SlotDeps(s)
InlineDepsInv == \A c \in Clients : InlineDeps(c)

DepInv == DepIssued /\ SlotDepsInv /\ InlineDepsInv

(* The notifications owed to the task in slot s: Notifications, by slot.   *)
OwedEdges(s) ==
    UNION {{<<"edge", p, i>> : i \in {j \in 1 .. Len(successors[p]) : successors[p][j].slot = s}} : p \in Slots}
OwedTaken(s) ==
    UNION {{<<"taken", w, i>> : i \in {j \in 1 .. Len(wsucc[w]) : wsucc[w][j].slot = s}} : w \in Workers}
OwedCalls(s) ==
    UNION {{<<"call", c, i>> : i \in 0 .. Len(cdeps[c])} : c \in {d \in Clients : Registering(d) /\ chandle[d].slot = s}}
Owed(s) == OwedEdges(s) \cup OwedTaken(s) \cup OwedCalls(s)

CountInv ==
    /\ \A s \in Slots : pending[s] \in Nat
    /\ \A s \in Slots :
        state[s] = "Waiting" => IsFiniteSet(Owed(s)) /\ pending[s] = Cardinality(Owed(s))

(* Whose task outstanding_ counts: a client's that has no slot for it, a   *)
(* slot's, and a worker's that has given the slot back.                    *)
ClientUnits == {"acquire", "construct", "rethrow"} \cup Inline
WorkerUnits == {"release", "enqueueDependent"}
Units ==
    {<<"client", c>> : c \in {d \in Clients : cpc[d] \in ClientUnits}}
    \cup {<<"slot", s>> : s \in {r \in Slots : state[r] # "Free"}}
    \cup {<<"worker", w>> : w \in {v \in Workers : wpc[v] \in WorkerUnits}}

UnitInv == IsFiniteSet(Units) /\ outstanding = Cardinality(Units)

PlaceInv == TypeInv /\ ClientInv /\ SlotInv /\ WorkerInv /\ ReadyInv /\ PhaseInv /\ HandleInv /\ EdgeInv

IInv == PlaceInv /\ DepInv /\ CountInv /\ UnitInv

-----------------------------------------------------------------------------
(* Handles, sequences, and the ranges *)

(* The handle of a slot's task, and the other way round. *)
LEMMA HandleFacts ==
    ASSUME TypeInv
    PROVE  /\ \A s \in Slots : HandleOf(s) \in Handle /\ HandleOf(s).slot = s /\ HandleOf(s).gen = generation[s]
           /\ \A h \in Handle : h.slot \in Slots /\ h.gen \in Nat
           /\ \A h \in Handle : h = HandleOf(h.slot) <=> h.gen = generation[h.slot]
           /\ \A h \in Handle : h # Invalid /\ h # Unsubmitted /\ h \in Handles
           /\ Invalid \in Handles /\ Invalid # Unsubmitted
  BY NoneAssumption DEF TypeInv, SlotType, HandleOf, Handle, Handles

(* The tasks a submission can wait for have been issued. *)
LEMMA DepSeqsAre ==
    ASSUME NEW deps \in DepSeqs
    PROVE  deps \in Seq(Tasks) /\ \A i \in 1 .. Len(deps) : Issued(deps[i])
  BY SizeAssumption DEF DepSeqs, Issued

(* The dependencies a client has still to look at, as a set. *)
LEMMA DependsSet ==
    ASSUME TypeInv, NEW c \in Clients
    PROVE  ToSet(cdeps[c]) = {d \in Tasks : Depends(c, d)}
  <1>1. cdeps[c] \in Seq(Tasks)
    BY DEF TypeInv, ClientType
  <1> QED BY <1>1 DEF ToSet, Depends

(* What a client inside submit() holds ... *)
LEMMA ClientHolds ==
    ASSUME TypeInv, SlotInv, NEW c \in Clients, cpc[c] \in Registration \cup {"enqueue", "construct"}
    PROVE  /\ chandle[c] \in Handle /\ chandle[c].slot \in Slots
           /\ chandle[c].gen = generation[chandle[c].slot]
           /\ chandle[c] = HandleOf(chandle[c].slot)
           /\ cpc[c] = "construct" =>
                /\ chandle[c].slot \notin free /\ state[chandle[c].slot] = "Free"
                /\ body[chandle[c].slot] = NoTask
                /\ successors[chandle[c].slot] = << >> /\ ~closed[chandle[c].slot]
           /\ cpc[c] # "construct" =>
                /\ body[chandle[c].slot] = ctask[c]
                /\ state[chandle[c].slot] = IF cpc[c] = "enqueue" THEN "Queued" ELSE "Waiting"
  <1>1. CASE cpc[c] = "construct"
    BY <1>1, HandleFacts DEF SlotInv, FreeInv, ConstructInv, Current
  <1>2. CASE cpc[c] # "construct"
    BY <1>2, HandleFacts DEF SlotInv, HolderInv, HolderOk, Holds, Current
  <1> QED BY <1>1, <1>2

(* ... and a worker inside execute() or complete(). *)
LEMMA WorkerHolds ==
    ASSUME TypeInv, WorkerInv, ReadyInv, NEW w \in Workers
    PROVE  /\ wpc[w] \in Executes => whandle[w] \in Handle /\ whandle[w].slot \in Slots
           /\ wpc[w] = "enqueueDependent" => wdep[w] \in Handle /\ wdep[w].slot \in Slots
  BY HandleFacts DEF WorkerInv, WorkerOk, ReadyInv, Runnable, Current

(* The ranges of the slots' variables. *)
LEMMA SlotTypeStep == PlaceInv /\ [Next]_vars => SlotType'
  <1> SUFFICES ASSUME PlaceInv, [Next]_vars PROVE SlotType'
    OBVIOUS
  <1> USE DEF TypeInv, slotVars, clientVars, workerVars, Goto, WGoto, PlaceInv, SlotType, TaskStates
  <1>1. ASSUME NEW c \in Clients, NEW t \in Tasks, NEW deps \in DepSeqs, SubmitCount(c, t, deps) PROVE SlotType'
    BY <1>1 DEF SubmitCount
  <1>2. ASSUME NEW c \in Clients, NEW s \in Slots, Acquire(c, s) PROVE SlotType'
    BY <1>2 DEF Acquire, ClientType
  <1>3. ASSUME NEW c \in Clients, NEW s \in Slots, Reserve(c, s) PROVE SlotType'
    BY <1>3 DEF Reserve
  <1>4. ASSUME NEW c \in Clients, Publish(c) PROVE SlotType'
    <2>1. chandle[c].slot \in Slots /\ ctask[c] \in Tasks \cup {NoTask}
      BY <1>4, ClientHolds DEF Publish, ClientType
    <2> QED BY <1>4, <2>1 DEF Publish
  <1>5. ASSUME NEW c \in Clients, ConstructThrows(c) PROVE SlotType'
    <2>1. chandle[c].slot \in Slots /\ generation[chandle[c].slot] + 1 \in Nat
      BY <1>5, ClientHolds DEF ConstructThrows
    <2> QED BY <1>5, <2>1 DEF ConstructThrows
  <1>6. ASSUME NEW c \in Clients, ConstructThrowsInline(c) PROVE SlotType'
    BY <1>6 DEF ConstructThrowsInline
  <1>7. ASSUME NEW c \in Clients, Rethrow(c) PROVE SlotType'
    BY <1>7 DEF Rethrow
  <1>8. ASSUME NEW c \in Clients, Exhausted(c) PROVE SlotType'
    BY <1>8 DEF Exhausted
  <1>9. ASSUME NEW c \in Clients, InlineWait(c) PROVE SlotType'
    BY <1>9 DEF InlineWait
  <1>10. ASSUME NEW c \in Clients, InlineStart(c) PROVE SlotType'
    BY <1>10 DEF InlineStart
  <1>11. ASSUME NEW c \in Clients, InlineFinish(c) PROVE SlotType'
    BY <1>11 DEF InlineFinish
  <1>12. ASSUME NEW c \in Clients, InlineCount(c) PROVE SlotType'
    BY <1>12 DEF InlineCount
  <1>13. ASSUME NEW c \in Clients, RegisterLookup(c) PROVE SlotType'
    BY <1>13 DEF RegisterLookup
  <1>14. ASSUME NEW c \in Clients, AddSuccessor(c) PROVE SlotType'
    <2>1. chandle[c] \in Handle
      BY <1>14, ClientHolds DEF AddSuccessor, Registration
    <2>2. \A s \in Slots : Append(successors[s], chandle[c]) \in Seq(Handle)
      BY <2>1
    <2> QED BY <1>14, <2>2 DEF AddSuccessor
  <1>15. ASSUME NEW c \in Clients, PreSatisfied(c) PROVE SlotType'
    BY <1>15, HandleFacts, ClientHolds DEF PreSatisfied, Registration
  <1>16. ASSUME NEW c \in Clients, RemoveGuard(c) PROVE SlotType'
    <2>1. chandle[c].slot \in Slots
      BY <1>16, ClientHolds DEF RemoveGuard, Registration
    <2>2. UNCHANGED <<generation, closed, successors, body>>
          /\ pending' = [pending EXCEPT ![chandle[c].slot] = @ - 1]
          /\ (state' = state \/ state' = [state EXCEPT ![chandle[c].slot] = "Queued"])
      BY <1>16 DEF RemoveGuard
    <2>3. pending' \in [Slots -> Int]
      BY <2>1, <2>2
    <2>4. state' \in [Slots -> TaskStates]
      BY <2>2
    <2> QED BY <2>2, <2>3, <2>4
  <1>17. ASSUME NEW c \in Clients, Enqueue(c) PROVE SlotType'
    BY <1>17, HandleFacts, ClientHolds DEF Enqueue, Registration
  <1>18. ASSUME NEW w \in Workers, NEW h \in ready, Execute(w, h) PROVE SlotType'
    BY <1>18, HandleFacts, WorkerHolds DEF Execute, Executes, Closing
  <1>19. ASSUME NEW w \in Workers, BodyReturn(w) PROVE SlotType'
    BY <1>19, HandleFacts, WorkerHolds DEF BodyReturn, Executes, Closing
  <1>20. ASSUME NEW w \in Workers, TakeSuccessors(w) PROVE SlotType'
    BY <1>20, HandleFacts, WorkerHolds DEF TakeSuccessors, Executes, Closing
  <1>21. ASSUME NEW w \in Workers, StoreCompleted(w) PROVE SlotType'
    BY <1>21, HandleFacts, WorkerHolds DEF StoreCompleted, Executes, Closing
  <1>22. ASSUME NEW w \in Workers, BumpGeneration(w) PROVE SlotType'
    BY <1>22, HandleFacts, WorkerHolds DEF BumpGeneration, Executes, Closing
  <1>23. ASSUME NEW w \in Workers, FreeSlot(w) PROVE SlotType'
    BY <1>23, HandleFacts, WorkerHolds DEF FreeSlot, Executes, Closing
  <1>24. ASSUME NEW w \in Workers, ReleaseDependent(w) PROVE SlotType'
    <2>1. wsucc[w] # << >> /\ Head(wsucc[w]) \in Handle /\ Tail(wsucc[w]) \in Seq(Handle)
      BY <1>24 DEF ReleaseDependent, WorkerType
    <2> QED BY <1>24, <2>1, HandleFacts DEF ReleaseDependent
  <1>25. ASSUME NEW w \in Workers, EnqueueDependent(w) PROVE SlotType'
    BY <1>25, HandleFacts, WorkerHolds DEF EnqueueDependent, Executes, Closing
  <1>26. ASSUME NEW w \in Workers, CompleteCount(w) PROVE SlotType'
    BY <1>26 DEF CompleteCount
  <1>27. CASE UNCHANGED vars
    BY <1>27 DEF vars
  <1> QED
    BY <1>1, <1>2, <1>3, <1>4, <1>5, <1>6, <1>7, <1>8, <1>9, <1>10, <1>11, <1>12, <1>13,
       <1>14, <1>15, <1>16, <1>17, <1>18, <1>19, <1>20, <1>21, <1>22, <1>23, <1>24, <1>25,
       <1>26, <1>27
    DEF Next, Submits, ClientStep, WorkerStep, AtRest

(* ... of the tasks' and the pool's. *)
LEMMA TaskTypeStep == PlaceInv /\ [Next]_vars => TaskType'
  <1> SUFFICES ASSUME PlaceInv, [Next]_vars PROVE TaskType'
    OBVIOUS
  <1> USE DEF TypeInv, slotVars, clientVars, workerVars, Goto, WGoto, PlaceInv, TaskType, ClientType, Phases
  <1>1. ASSUME NEW c \in Clients, NEW t \in Tasks, NEW deps \in DepSeqs, SubmitCount(c, t, deps) PROVE TaskType'
    BY <1>1 DEF SubmitCount
  <1>2. ASSUME NEW c \in Clients, NEW s \in Slots, Acquire(c, s) PROVE TaskType'
    <2>1. ToSet(cdeps[c]) \in SUBSET Tasks
      BY DependsSet
    <2>2. /\ [phase EXCEPT ![ctask[c]] = "submitted"] \in [Tasks -> Phases]
          /\ [after EXCEPT ![ctask[c]] = ToSet(cdeps[c])] \in [Tasks -> SUBSET Tasks]
      BY <2>1
    <2>3. phase' \in [Tasks -> Phases] /\ after' \in [Tasks -> SUBSET Tasks]
      BY <1>2, <2>2 DEF Acquire, Accepted
    <2>4. UNCHANGED <<ready, outstanding, handle, threw>> /\ free' \subseteq free
      BY <1>2 DEF Acquire
    <2> QED BY <2>3, <2>4
  <1>3. ASSUME NEW c \in Clients, NEW s \in Slots, Reserve(c, s) PROVE TaskType'
    BY <1>3 DEF Reserve
  <1>4. ASSUME NEW c \in Clients, Publish(c) PROVE TaskType'
    <2>1. ToSet(cdeps[c]) \in SUBSET Tasks
      BY DependsSet
    <2>2. /\ [phase EXCEPT ![ctask[c]] = "submitted"] \in [Tasks -> Phases]
          /\ [after EXCEPT ![ctask[c]] = ToSet(cdeps[c])] \in [Tasks -> SUBSET Tasks]
      BY <2>1
    <2>3. phase' \in [Tasks -> Phases] /\ after' \in [Tasks -> SUBSET Tasks]
      BY <1>4, <2>2 DEF Publish, Accepted
    <2>4. UNCHANGED <<ready, outstanding, handle, threw>> /\ free' \subseteq free
      BY <1>4 DEF Publish
    <2> QED BY <2>3, <2>4
  <1>5. ASSUME NEW c \in Clients, ConstructThrows(c) PROVE TaskType'
    BY <1>5, HandleFacts, ClientHolds DEF ConstructThrows, Registration
  <1>6. ASSUME NEW c \in Clients, ConstructThrowsInline(c) PROVE TaskType'
    BY <1>6 DEF ConstructThrowsInline
  <1>7. ASSUME NEW c \in Clients, Rethrow(c) PROVE TaskType'
    BY <1>7 DEF Rethrow
  <1>8. ASSUME NEW c \in Clients, Exhausted(c) PROVE TaskType'
    <2>1. ToSet(cdeps[c]) \in SUBSET Tasks
      BY DependsSet
    <2>2. /\ [phase EXCEPT ![ctask[c]] = "submitted"] \in [Tasks -> Phases]
          /\ [after EXCEPT ![ctask[c]] = ToSet(cdeps[c])] \in [Tasks -> SUBSET Tasks]
      BY <2>1
    <2>3. phase' \in [Tasks -> Phases] /\ after' \in [Tasks -> SUBSET Tasks]
      BY <1>8, <2>2 DEF Exhausted, Accepted
    <2>4. UNCHANGED <<ready, outstanding, handle, threw>> /\ free' \subseteq free
      BY <1>8 DEF Exhausted
    <2> QED BY <2>3, <2>4
  <1>9. ASSUME NEW c \in Clients, InlineWait(c) PROVE TaskType'
    BY <1>9 DEF InlineWait
  <1>10. ASSUME NEW c \in Clients, InlineStart(c) PROVE TaskType'
    BY <1>10 DEF InlineStart
  <1>11. ASSUME NEW c \in Clients, InlineFinish(c) PROVE TaskType'
    BY <1>11 DEF InlineFinish
  <1>12. ASSUME NEW c \in Clients, InlineCount(c) PROVE TaskType'
    <2>1. Invalid \in Handles
      BY HandleFacts
    <2>2. UNCHANGED <<free, ready, phase, after, threw>> /\ outstanding' \in Int
          /\ handle' = [handle EXCEPT ![ctask[c]] = Invalid]
      BY <1>12 DEF InlineCount
    <2> QED BY <2>1, <2>2
  <1>13. ASSUME NEW c \in Clients, RegisterLookup(c) PROVE TaskType'
    BY <1>13 DEF RegisterLookup
  <1>14. ASSUME NEW c \in Clients, AddSuccessor(c) PROVE TaskType'
    BY <1>14, HandleFacts, ClientHolds DEF AddSuccessor, Registration
  <1>15. ASSUME NEW c \in Clients, PreSatisfied(c) PROVE TaskType'
    BY <1>15, HandleFacts, ClientHolds DEF PreSatisfied, Registration
  <1>16. ASSUME NEW c \in Clients, RemoveGuard(c) PROVE TaskType'
    <2>1. UNCHANGED <<free, ready, outstanding, phase, after, threw>>
          /\ (handle' = handle \/ handle' = [handle EXCEPT ![ctask[c]] = chandle[c]])
      BY <1>16 DEF RemoveGuard
    <2>2. chandle[c] \in Handles
      BY DEF ClientType
    <2> QED BY <2>1, <2>2
  <1>17. ASSUME NEW c \in Clients, Enqueue(c) PROVE TaskType'
    <2>1. chandle[c] \in Handle /\ chandle[c] \in Handles
      BY <1>17, HandleFacts, ClientHolds DEF Enqueue
    <2> QED BY <1>17, <2>1 DEF Enqueue
  <1>18. ASSUME NEW w \in Workers, NEW h \in ready, Execute(w, h) PROVE TaskType'
    BY <1>18, HandleFacts, WorkerHolds DEF Execute, Executes, Closing
  <1>19. ASSUME NEW w \in Workers, BodyReturn(w) PROVE TaskType'
    BY <1>19, HandleFacts, WorkerHolds DEF BodyReturn, Executes, Closing
  <1>20. ASSUME NEW w \in Workers, TakeSuccessors(w) PROVE TaskType'
    BY <1>20, HandleFacts, WorkerHolds DEF TakeSuccessors, Executes, Closing
  <1>21. ASSUME NEW w \in Workers, StoreCompleted(w) PROVE TaskType'
    BY <1>21, HandleFacts, WorkerHolds DEF StoreCompleted, Executes, Closing
  <1>22. ASSUME NEW w \in Workers, BumpGeneration(w) PROVE TaskType'
    BY <1>22, HandleFacts, WorkerHolds DEF BumpGeneration, Executes, Closing
  <1>23. ASSUME NEW w \in Workers, FreeSlot(w) PROVE TaskType'
    BY <1>23, HandleFacts, WorkerHolds DEF FreeSlot, Executes, Closing
  <1>24. ASSUME NEW w \in Workers, ReleaseDependent(w) PROVE TaskType'
    BY <1>24 DEF ReleaseDependent
  <1>25. ASSUME NEW w \in Workers, EnqueueDependent(w) PROVE TaskType'
    BY <1>25, HandleFacts, WorkerHolds DEF EnqueueDependent, Executes, Closing
  <1>26. ASSUME NEW w \in Workers, CompleteCount(w) PROVE TaskType'
    BY <1>26 DEF CompleteCount
  <1>27. CASE UNCHANGED vars
    BY <1>27 DEF vars
  <1> QED
    BY <1>1, <1>2, <1>3, <1>4, <1>5, <1>6, <1>7, <1>8, <1>9, <1>10, <1>11, <1>12, <1>13,
       <1>14, <1>15, <1>16, <1>17, <1>18, <1>19, <1>20, <1>21, <1>22, <1>23, <1>24, <1>25,
       <1>26, <1>27
    DEF Next, Submits, ClientStep, WorkerStep, AtRest

(* ... of the clients' ... *)
LEMMA ClientTypeStep == PlaceInv /\ [Next]_vars => ClientType'
  <1> SUFFICES ASSUME PlaceInv, [Next]_vars PROVE ClientType'
    OBVIOUS
  <1> USE DEF TypeInv, slotVars, clientVars, workerVars, Goto, WGoto, PlaceInv, ClientInv, ClientOk, ClientType, ClientStates, Inline, Registration
  <1>1. ASSUME NEW c \in Clients, NEW t \in Tasks, NEW deps \in DepSeqs, SubmitCount(c, t, deps) PROVE ClientType'
    BY <1>1, DepSeqsAre DEF SubmitCount
  <1>2. ASSUME NEW c \in Clients, NEW s \in Slots, Acquire(c, s) PROVE ClientType'
    BY <1>2, HandleFacts DEF Acquire
  <1>3. ASSUME NEW c \in Clients, NEW s \in Slots, Reserve(c, s) PROVE ClientType'
    BY <1>3, HandleFacts DEF Reserve
  <1>4. ASSUME NEW c \in Clients, Publish(c) PROVE ClientType'
    BY <1>4, HandleFacts, ClientHolds DEF Publish, Registration
  <1>5. ASSUME NEW c \in Clients, ConstructThrows(c) PROVE ClientType'
    BY <1>5, HandleFacts, ClientHolds DEF ConstructThrows, Registration
  <1>6. ASSUME NEW c \in Clients, ConstructThrowsInline(c) PROVE ClientType'
    BY <1>6 DEF ConstructThrowsInline
  <1>7. ASSUME NEW c \in Clients, Rethrow(c) PROVE ClientType'
    BY <1>7 DEF Rethrow
  <1>8. ASSUME NEW c \in Clients, Exhausted(c) PROVE ClientType'
    BY <1>8, HandleFacts DEF Exhausted
  <1>9. ASSUME NEW c \in Clients, InlineWait(c) PROVE ClientType'
    BY <1>9 DEF InlineWait
  <1>10. ASSUME NEW c \in Clients, InlineStart(c) PROVE ClientType'
    BY <1>10 DEF InlineStart
  <1>11. ASSUME NEW c \in Clients, InlineFinish(c) PROVE ClientType'
    BY <1>11 DEF InlineFinish
  <1>12. ASSUME NEW c \in Clients, InlineCount(c) PROVE ClientType'
    BY <1>12 DEF InlineCount
  <1>13. ASSUME NEW c \in Clients, RegisterLookup(c) PROVE ClientType'
    BY <1>13 DEF RegisterLookup
  <1>14. ASSUME NEW c \in Clients, AddSuccessor(c) PROVE ClientType'
    BY <1>14, HandleFacts, ClientHolds DEF AddSuccessor, Registration
  <1>15. ASSUME NEW c \in Clients, PreSatisfied(c) PROVE ClientType'
    BY <1>15, HandleFacts, ClientHolds DEF PreSatisfied, Registration
  <1>16. ASSUME NEW c \in Clients, RemoveGuard(c) PROVE ClientType'
    <2>1. UNCHANGED <<ctask, chandle, cdeps>>
          /\ (cpc' = [cpc EXCEPT ![c] = "enqueue"] \/ cpc' = [cpc EXCEPT ![c] = "idle"])
      BY <1>16 DEF RemoveGuard
    <2> QED BY <2>1
  <1>17. ASSUME NEW c \in Clients, Enqueue(c) PROVE ClientType'
    BY <1>17, HandleFacts, ClientHolds DEF Enqueue, Registration
  <1>18. ASSUME NEW w \in Workers, NEW h \in ready, Execute(w, h) PROVE ClientType'
    BY <1>18, HandleFacts, WorkerHolds DEF Execute, Executes, Closing
  <1>19. ASSUME NEW w \in Workers, BodyReturn(w) PROVE ClientType'
    BY <1>19, HandleFacts, WorkerHolds DEF BodyReturn, Executes, Closing
  <1>20. ASSUME NEW w \in Workers, TakeSuccessors(w) PROVE ClientType'
    BY <1>20, HandleFacts, WorkerHolds DEF TakeSuccessors, Executes, Closing
  <1>21. ASSUME NEW w \in Workers, StoreCompleted(w) PROVE ClientType'
    BY <1>21, HandleFacts, WorkerHolds DEF StoreCompleted, Executes, Closing
  <1>22. ASSUME NEW w \in Workers, BumpGeneration(w) PROVE ClientType'
    BY <1>22, HandleFacts, WorkerHolds DEF BumpGeneration, Executes, Closing
  <1>23. ASSUME NEW w \in Workers, FreeSlot(w) PROVE ClientType'
    BY <1>23, HandleFacts, WorkerHolds DEF FreeSlot, Executes, Closing
  <1>24. ASSUME NEW w \in Workers, ReleaseDependent(w) PROVE ClientType'
    BY <1>24 DEF ReleaseDependent
  <1>25. ASSUME NEW w \in Workers, EnqueueDependent(w) PROVE ClientType'
    BY <1>25, HandleFacts, WorkerHolds DEF EnqueueDependent, Executes, Closing
  <1>26. ASSUME NEW w \in Workers, CompleteCount(w) PROVE ClientType'
    BY <1>26 DEF CompleteCount
  <1>27. CASE UNCHANGED vars
    BY <1>27 DEF vars
  <1> QED
    BY <1>1, <1>2, <1>3, <1>4, <1>5, <1>6, <1>7, <1>8, <1>9, <1>10, <1>11, <1>12, <1>13,
       <1>14, <1>15, <1>16, <1>17, <1>18, <1>19, <1>20, <1>21, <1>22, <1>23, <1>24, <1>25,
       <1>26, <1>27
    DEF Next, Submits, ClientStep, WorkerStep, AtRest

(* ... and of the workers' variables. *)
LEMMA WorkerTypeStep == PlaceInv /\ [Next]_vars => WorkerType'
  <1> SUFFICES ASSUME PlaceInv, [Next]_vars PROVE WorkerType'
    OBVIOUS
  <1> USE DEF TypeInv, slotVars, clientVars, workerVars, Goto, WGoto, PlaceInv, WorkerType, WorkerStates, Closing, Executes
  <1>1. ASSUME NEW c \in Clients, NEW t \in Tasks, NEW deps \in DepSeqs, SubmitCount(c, t, deps) PROVE WorkerType'
    BY <1>1 DEF SubmitCount
  <1>2. ASSUME NEW c \in Clients, NEW s \in Slots, Acquire(c, s) PROVE WorkerType'
    BY <1>2 DEF Acquire
  <1>3. ASSUME NEW c \in Clients, NEW s \in Slots, Reserve(c, s) PROVE WorkerType'
    BY <1>3 DEF Reserve
  <1>4. ASSUME NEW c \in Clients, Publish(c) PROVE WorkerType'
    BY <1>4, HandleFacts, ClientHolds DEF Publish, Registration
  <1>5. ASSUME NEW c \in Clients, ConstructThrows(c) PROVE WorkerType'
    BY <1>5, HandleFacts, ClientHolds DEF ConstructThrows, Registration
  <1>6. ASSUME NEW c \in Clients, ConstructThrowsInline(c) PROVE WorkerType'
    BY <1>6 DEF ConstructThrowsInline
  <1>7. ASSUME NEW c \in Clients, Rethrow(c) PROVE WorkerType'
    BY <1>7 DEF Rethrow
  <1>8. ASSUME NEW c \in Clients, Exhausted(c) PROVE WorkerType'
    BY <1>8 DEF Exhausted
  <1>9. ASSUME NEW c \in Clients, InlineWait(c) PROVE WorkerType'
    BY <1>9 DEF InlineWait
  <1>10. ASSUME NEW c \in Clients, InlineStart(c) PROVE WorkerType'
    BY <1>10 DEF InlineStart
  <1>11. ASSUME NEW c \in Clients, InlineFinish(c) PROVE WorkerType'
    BY <1>11 DEF InlineFinish
  <1>12. ASSUME NEW c \in Clients, InlineCount(c) PROVE WorkerType'
    BY <1>12 DEF InlineCount
  <1>13. ASSUME NEW c \in Clients, RegisterLookup(c) PROVE WorkerType'
    BY <1>13 DEF RegisterLookup
  <1>14. ASSUME NEW c \in Clients, AddSuccessor(c) PROVE WorkerType'
    BY <1>14, HandleFacts, ClientHolds DEF AddSuccessor, Registration
  <1>15. ASSUME NEW c \in Clients, PreSatisfied(c) PROVE WorkerType'
    BY <1>15, HandleFacts, ClientHolds DEF PreSatisfied, Registration
  <1>16. ASSUME NEW c \in Clients, RemoveGuard(c) PROVE WorkerType'
    BY <1>16, HandleFacts, ClientHolds DEF RemoveGuard, Registration
  <1>17. ASSUME NEW c \in Clients, Enqueue(c) PROVE WorkerType'
    BY <1>17, HandleFacts, ClientHolds DEF Enqueue, Registration
  <1>18. ASSUME NEW w \in Workers, NEW h \in ready, Execute(w, h) PROVE WorkerType'
    BY <1>18, HandleFacts DEF Execute, TaskType
  <1>19. ASSUME NEW w \in Workers, BodyReturn(w) PROVE WorkerType'
    BY <1>19, HandleFacts, WorkerHolds DEF BodyReturn, Executes, Closing
  <1>20. ASSUME NEW w \in Workers, TakeSuccessors(w) PROVE WorkerType'
    BY <1>20, HandleFacts, WorkerHolds DEF TakeSuccessors, SlotType
  <1>21. ASSUME NEW w \in Workers, StoreCompleted(w) PROVE WorkerType'
    BY <1>21, HandleFacts, WorkerHolds DEF StoreCompleted, Executes, Closing
  <1>22. ASSUME NEW w \in Workers, BumpGeneration(w) PROVE WorkerType'
    BY <1>22, HandleFacts, WorkerHolds DEF BumpGeneration, Executes, Closing
  <1>23. ASSUME NEW w \in Workers, FreeSlot(w) PROVE WorkerType'
    BY <1>23, HandleFacts, WorkerHolds DEF FreeSlot, Executes, Closing
  <1>24. ASSUME NEW w \in Workers, ReleaseDependent(w) PROVE WorkerType'
    <2>1. wsucc[w] # << >> /\ Head(wsucc[w]) \in Handle /\ Tail(wsucc[w]) \in Seq(Handle)
      BY <1>24 DEF ReleaseDependent, WorkerType
    <2> QED BY <1>24, <2>1, HandleFacts DEF ReleaseDependent
  <1>25. ASSUME NEW w \in Workers, EnqueueDependent(w) PROVE WorkerType'
    BY <1>25, HandleFacts, WorkerHolds DEF EnqueueDependent, Executes, Closing
  <1>26. ASSUME NEW w \in Workers, CompleteCount(w) PROVE WorkerType'
    BY <1>26 DEF CompleteCount
  <1>27. CASE UNCHANGED vars
    BY <1>27 DEF vars
  <1> QED
    BY <1>1, <1>2, <1>3, <1>4, <1>5, <1>6, <1>7, <1>8, <1>9, <1>10, <1>11, <1>12, <1>13,
       <1>14, <1>15, <1>16, <1>17, <1>18, <1>19, <1>20, <1>21, <1>22, <1>23, <1>24, <1>25,
       <1>26, <1>27
    DEF Next, Submits, ClientStep, WorkerStep, AtRest

-----------------------------------------------------------------------------
(* What the parts say together *)

(* A worker executes a task that nobody is submitting any more. *)
LEMMA ExecutedIsIssued ==
    ASSUME PlaceInv, NEW w \in Workers, wpc[w] \in Executes
    PROVE  LET s == whandle[w].slot IN s \in Slots /\ body[s] \in Tasks /\ Issued(body[s])
  <1> DEFINE s == whandle[w].slot
  <1>1. s \in Slots /\ state[s] \in {"Executing", "Completed"}
    BY WorkerHolds DEF PlaceInv, WorkerInv, WorkerOk
  <1>2. body[s] \in Tasks
    BY <1>1 DEF PlaceInv, SlotInv, FreeInv, TypeInv, SlotType
  <1>3. ASSUME NEW c \in Clients, HasSlot(c, s) PROVE FALSE
    BY <1>1, <1>3, ClientHolds DEF PlaceInv, HasSlot, Holds, Registration
  <1>4. Issued(body[s])
    BY <1>1, <1>2, <1>3, NoneAssumption DEF PlaceInv, SlotInv, FreeInv, HolderInv
  <1> QED BY <1>1, <1>2, <1>4

(* ... and so is a task that is handed to a worker. *)
LEMMA RunnableIsTask ==
    ASSUME PlaceInv, NEW h \in Handle, Runnable(h)
    PROVE  h.slot \in Slots /\ body[h.slot] \in Tasks /\ Issued(body[h.slot])
  BY HandleFacts DEF PlaceInv, SlotInv, FreeInv, TypeInv, SlotType, Runnable, Current

(* is_complete_internal() is right ... *)
LEMMA CompleteIsFinished ==
    ASSUME PlaceInv, NEW t \in Tasks, Issued(t), IsComplete(handle[t])
    PROVE  Finished(t)
  <1>1. CASE handle[t] = Invalid
    BY <1>1 DEF PlaceInv, HandleInv, HandleOk
  <1>2. CASE handle[t] # Invalid
    <2>1. handle[t] \in Handle
      BY <1>2 DEF PlaceInv, TypeInv, TaskType, Handles, Issued
    <2>2. handle[t].slot \in Slots /\ handle[t].gen \in Nat /\ generation[handle[t].slot] \in Nat
      BY <2>1, HandleFacts DEF PlaceInv, TypeInv, SlotType
    <2>3. CASE handle[t].gen = generation[handle[t].slot]
      BY <1>2, <2>1, <2>2, <2>3, HandleFacts DEF PlaceInv, HandleInv, HandleOk, PhaseInv, SlotPhase, TaskHome, IsComplete, Resolves
    <2>4. CASE handle[t].gen # generation[handle[t].slot]
      BY <2>1, <2>2, <2>4 DEF PlaceInv, HandleInv, HandleOk
    <2> QED BY <2>3, <2>4
  <1> QED BY <1>1, <1>2

(* ... and so is TaskPool::get() when it finds nothing. *)
LEMMA StaleIsFinished ==
    ASSUME PlaceInv, NEW t \in Tasks, Issued(t), ~Resolves(handle[t])
    PROVE  Finished(t)
  BY CompleteIsFinished DEF IsComplete

(* The handle of an unfinished dependency. *)
LEMMA CurrentHandle ==
    ASSUME PlaceInv, NEW t \in Tasks, Issued(t), Resolves(handle[t])
    PROVE  /\ handle[t] \in Handle /\ handle[t].slot \in Slots
           /\ handle[t] = HandleOf(handle[t].slot)
           /\ body[handle[t].slot] = t
           /\ closed[handle[t].slot] => Finished(t)
  <1>1. handle[t] \in Handle /\ handle[t].slot \in Slots /\ handle[t] = HandleOf(handle[t].slot)
    BY HandleFacts DEF PlaceInv, TypeInv, TaskType, Handles, Issued, Resolves
  <1>2. body[handle[t].slot] = t
    BY <1>1, HandleFacts DEF PlaceInv, HandleInv, HandleOk
  <1>3. state[handle[t].slot] # "Free"
    BY <1>1, <1>2, NoneAssumption DEF PlaceInv, SlotInv, FreeInv, HolderInv
  <1> QED BY <1>1, <1>2, <1>3 DEF PlaceInv, PhaseInv, SlotPhase, TaskHome

-----------------------------------------------------------------------------

(* The dependency a client looks at next. *)
LEMMA NextDependency ==
    ASSUME PlaceInv, NEW c \in Clients, cpc[c] # "idle", cdeps[c] # << >>
    PROVE  /\ Head(cdeps[c]) \in Tasks /\ Issued(Head(cdeps[c]))
           /\ Tail(cdeps[c]) \in Seq(Tasks)
           /\ \A i \in 1 .. Len(Tail(cdeps[c])) : Tail(cdeps[c])[i] = cdeps[c][i + 1]
           /\ Len(cdeps[c]) \in Nat \ {0} /\ Len(Tail(cdeps[c])) = Len(cdeps[c]) - 1
           /\ \A d \in Tasks : Depends(c, d) => d = Head(cdeps[c]) \/ \E i \in 1 .. Len(Tail(cdeps[c])) : Tail(cdeps[c])[i] = d
  <1> DEFINE q == cdeps[c]
             n == Len(q)
  <1>1. q \in Seq(Tasks) /\ q # << >>
    BY DEF PlaceInv, TypeInv, ClientType
  <1>2. n \in Nat \ {0} /\ Head(q) = q[1] /\ Head(q) \in Tasks
    BY <1>1
  <1>3. /\ Tail(q) \in Seq(Tasks) /\ Len(Tail(q)) = n - 1
        /\ \A i \in 1 .. n - 1 : Tail(q)[i] = q[i + 1]
    BY <1>1
  <1>4. Depends(c, Head(q))
    BY <1>2 DEF Depends
  <1>5. Issued(Head(q))
    BY <1>2, <1>4 DEF PlaceInv, ClientInv, ClientOk
  <1>6. ASSUME NEW d \in Tasks, Depends(c, d)
        PROVE  d = Head(q) \/ \E i \in 1 .. Len(Tail(q)) : Tail(q)[i] = d
    <2>1. PICK i \in 1 .. n : q[i] = d
      BY <1>6 DEF Depends
    <2>2. CASE i = 1
      BY <1>2, <2>1, <2>2
    <2>3. CASE i # 1
      <3>1. i - 1 \in 1 .. n - 1 /\ (i - 1) + 1 = i
        BY <1>2, <2>3
      <3> QED BY <1>3, <2>1, <3>1
    <2> QED BY <2>2, <2>3
  <1> QED BY <1>2, <1>3, <1>5, <1>6

(* What a client knows of its task. *)
LEMMA ClientInvStep == PlaceInv /\ [Next]_vars => ClientInv'
  <1> SUFFICES ASSUME PlaceInv, [Next]_vars PROVE ClientInv'
    OBVIOUS
  <1> USE DEF PlaceInv, TypeInv, TaskType, ClientType, ClientInv, ClientOk, Issued, Finished, Depends, Registration,
         Inline, slotVars, clientVars, workerVars, Goto, WGoto, Accepted
  <1>1. ASSUME NEW c \in Clients, NEW t \in Tasks, NEW deps \in DepSeqs, SubmitCount(c, t, deps) PROVE ClientInv'
    BY <1>1, DepSeqsAre DEF SubmitCount, Fresh
  <1>2. ASSUME NEW c \in Clients, NEW s \in Slots, Acquire(c, s) PROVE ClientInv'
    BY <1>2 DEF Acquire
  <1>3. ASSUME NEW c \in Clients, NEW s \in Slots, Reserve(c, s) PROVE ClientInv'
    BY <1>3 DEF Reserve
  <1>4. ASSUME NEW c \in Clients, Publish(c) PROVE ClientInv'
    BY <1>4 DEF Publish
  <1>5. ASSUME NEW c \in Clients, ConstructThrows(c) PROVE ClientInv'
    BY <1>5 DEF ConstructThrows
  <1>6. ASSUME NEW c \in Clients, ConstructThrowsInline(c) PROVE ClientInv'
    BY <1>6 DEF ConstructThrowsInline
  <1>7. ASSUME NEW c \in Clients, Rethrow(c) PROVE ClientInv'
    BY <1>7 DEF Rethrow
  <1>8. ASSUME NEW c \in Clients, Exhausted(c) PROVE ClientInv'
    BY <1>8 DEF Exhausted
  <1>9. ASSUME NEW c \in Clients, InlineWait(c) PROVE ClientInv'
    BY <1>9 DEF InlineWait
  <1>10. ASSUME NEW c \in Clients, InlineStart(c) PROVE ClientInv'
    BY <1>10 DEF InlineStart
  <1>11. ASSUME NEW c \in Clients, InlineFinish(c) PROVE ClientInv'
    BY <1>11 DEF InlineFinish
  <1>12. ASSUME NEW c \in Clients, InlineCount(c) PROVE ClientInv'
    BY <1>12 DEF InlineCount
  <1>13. ASSUME NEW c \in Clients, RegisterLookup(c) PROVE ClientInv'
    <2>1. Head(cdeps[c]) \in Tasks /\ Issued(Head(cdeps[c]))
      BY <1>13, NextDependency DEF RegisterLookup
    <2>2. IF Resolves(handle[Head(cdeps[c])]) THEN handle[Head(cdeps[c])] # Invalid
                                              ELSE Finished(Head(cdeps[c]))
      BY <2>1, StaleIsFinished DEF Resolves
    <2> QED BY <1>13, <2>2 DEF RegisterLookup
  <1>14. ASSUME NEW c \in Clients, AddSuccessor(c) PROVE ClientInv'
    <2> DEFINE d == Head(cdeps[c])
               usable == ~closed[handle[d].slot] /\ generation[handle[d].slot] = handle[d].gen
    <2>1. d \in Tasks /\ Issued(d) /\ cpc[c] = "addSuccessor" /\ cdeps[c] # << >>
      BY <1>14, NextDependency DEF AddSuccessor
    <2>2. UNCHANGED <<handle, phase, ctask>>
      BY <1>14 DEF AddSuccessor
    <2>3. CASE usable
      <3>1. cdeps' = [cdeps EXCEPT ![c] = Tail(@)] /\ cpc' = [cpc EXCEPT ![c] = "register"]
        BY <1>14, <2>3 DEF AddSuccessor
      <3> QED BY <2>1, <2>2, <3>1
    <2>4. CASE ~usable
      <3>1. Finished(d)
        <4>1. CASE Resolves(handle[d])
          BY <2>1, <2>4, <4>1, CurrentHandle DEF Resolves
        <4>2. CASE ~Resolves(handle[d])
          BY <2>1, <4>2, StaleIsFinished
        <4> QED BY <4>1, <4>2
      <3>2. UNCHANGED cdeps /\ cpc' = [cpc EXCEPT ![c] = "preSatisfied"]
        BY <1>14, <2>4 DEF AddSuccessor
      <3> QED BY <2>1, <2>2, <3>1, <3>2
    <2> QED BY <2>3, <2>4
  <1>15. ASSUME NEW c \in Clients, PreSatisfied(c) PROVE ClientInv'
    BY <1>15 DEF PreSatisfied
  <1>16. ASSUME NEW c \in Clients, RemoveGuard(c) PROVE ClientInv'
    <2>1. cpc[c] = "register" /\ chandle[c] # Unsubmitted
      BY <1>16, HandleFacts, ClientHolds DEF RemoveGuard
    <2>2. UNCHANGED <<phase, ctask, cdeps>>
      BY <1>16 DEF RemoveGuard
    <2>3. CASE handle' = handle /\ cpc' = [cpc EXCEPT ![c] = "enqueue"]
      BY <2>1, <2>2, <2>3
    <2>4. CASE handle' = [handle EXCEPT ![ctask[c]] = chandle[c]] /\ cpc' = [cpc EXCEPT ![c] = "idle"]
      BY <2>1, <2>2, <2>4
    <2> QED BY <1>16, <2>3, <2>4 DEF RemoveGuard
  <1>17. ASSUME NEW c \in Clients, Enqueue(c) PROVE ClientInv'
    BY <1>17 DEF Enqueue
  <1>18. ASSUME NEW w \in Workers, NEW h \in ready, Execute(w, h) PROVE ClientInv'
    <2>1. body[h.slot] \in Tasks /\ Issued(body[h.slot]) /\ phase[body[h.slot]] = "submitted"
      BY RunnableIsTask DEF ReadyInv, Runnable, PhaseInv, SlotPhase, TaskHome, Handle
    <2> QED BY <1>18, <2>1 DEF Execute
  <1>19. ASSUME NEW w \in Workers, BodyReturn(w) PROVE ClientInv'
    <2>1. body[whandle[w].slot] \in Tasks /\ Issued(body[whandle[w].slot])
      BY <1>19, ExecutedIsIssued DEF BodyReturn, Executes
    <2> QED BY <1>19, <2>1 DEF BodyReturn
  <1>20. ASSUME NEW w \in Workers, TakeSuccessors(w) PROVE ClientInv'
    BY <1>20 DEF TakeSuccessors
  <1>21. ASSUME NEW w \in Workers, StoreCompleted(w) PROVE ClientInv'
    BY <1>21 DEF StoreCompleted
  <1>22. ASSUME NEW w \in Workers, BumpGeneration(w) PROVE ClientInv'
    BY <1>22 DEF BumpGeneration
  <1>23. ASSUME NEW w \in Workers, FreeSlot(w) PROVE ClientInv'
    BY <1>23 DEF FreeSlot
  <1>24. ASSUME NEW w \in Workers, ReleaseDependent(w) PROVE ClientInv'
    BY <1>24 DEF ReleaseDependent
  <1>25. ASSUME NEW w \in Workers, EnqueueDependent(w) PROVE ClientInv'
    BY <1>25 DEF EnqueueDependent
  <1>26. ASSUME NEW w \in Workers, CompleteCount(w) PROVE ClientInv'
    BY <1>26 DEF CompleteCount
  <1>27. CASE UNCHANGED vars
    BY <1>27 DEF vars
  <1> QED
    BY <1>1, <1>2, <1>3, <1>4, <1>5, <1>6, <1>7, <1>8, <1>9, <1>10, <1>11, <1>12, <1>13,
       <1>14, <1>15, <1>16, <1>17, <1>18, <1>19, <1>20, <1>21, <1>22, <1>23, <1>24, <1>25,
       <1>26, <1>27
    DEF Next, Submits, ClientStep, WorkerStep, AtRest


-----------------------------------------------------------------------------
(* What the steps that read before they write do. *)

(* try_add_successor(): an edge from the task in slot p, or none because   *)
(* the dependency has finished.                                            *)
AddsEdge(c, p) ==
    /\ p \in Slots /\ body[p] = Head(cdeps[c]) /\ state[p] # "Free" /\ ~closed[p]
    /\ handle[Head(cdeps[c])] \in Handle /\ handle[Head(cdeps[c])].slot = p
    /\ successors' = [successors EXCEPT ![p] = Append(@, chandle[c])]
    /\ cdeps' = [cdeps EXCEPT ![c] = Tail(@)]
    /\ cpc' = [cpc EXCEPT ![c] = "register"]

FindsFinished(c) ==
    /\ Finished(Head(cdeps[c]))
    /\ UNCHANGED <<successors, cdeps>>
    /\ cpc' = [cpc EXCEPT ![c] = "preSatisfied"]

(* Linking to a predecessor adds an edge or finds it finished.             *)
LEMMA AddSuccessorEffect ==
    ASSUME PlaceInv, NEW c \in Clients, AddSuccessor(c)
    PROVE  /\ Head(cdeps[c]) \in Tasks /\ cpc[c] = "addSuccessor" /\ cdeps[c] # << >>
           /\ (\E p \in Slots : AddsEdge(c, p)) \/ FindsFinished(c)
           /\ UNCHANGED <<generation, state, pending, closed, body, free, ready, outstanding,
                          handle, ctask, chandle, workerVars, phase, after, threw>>
  <1> DEFINE d == Head(cdeps[c])
             p == handle[d].slot
             usable == ~closed[p] /\ generation[p] = handle[d].gen
  <1>1. d \in Tasks /\ Issued(d) /\ cpc[c] = "addSuccessor" /\ cdeps[c] # << >>
    <2>1. cpc[c] = "addSuccessor"
      BY DEF AddSuccessor
    <2>2. cdeps[c] # << >>
      BY <2>1 DEF PlaceInv, ClientInv, ClientOk
    <2> QED BY <2>1, <2>2, NextDependency
  <1>2. handle[d] # Invalid
    BY <1>1 DEF PlaceInv, ClientInv, ClientOk
  <1>3. CASE usable
    <2>1. Resolves(handle[d])
      BY <1>2, <1>3 DEF Resolves
    <2>2. handle[d] \in Handle /\ p \in Slots /\ body[p] = d
      BY <1>1, <2>1, CurrentHandle
    <2>3. state[p] # "Free"
      BY <1>1, <2>2, NoneAssumption DEF PlaceInv, SlotInv, FreeInv
    <2>4. AddsEdge(c, p)
      BY <1>3, <2>2, <2>3 DEF AddSuccessor, Goto, AddsEdge
    <2> QED BY <1>1, <2>2, <2>4 DEF AddSuccessor
  <1>4. CASE ~usable
    <2>1. Finished(d)
      <3>1. CASE Resolves(handle[d])
        BY <1>1, <1>4, <3>1, CurrentHandle DEF Resolves
      <3>2. CASE ~Resolves(handle[d])
        BY <1>1, <3>2, StaleIsFinished
      <3> QED BY <3>1, <3>2
    <2>2. FindsFinished(c)
      BY <1>4, <2>1 DEF AddSuccessor, Goto, FindsFinished
    <2> QED BY <1>1, <2>2 DEF AddSuccessor
  <1> QED BY <1>3, <1>4

(* release_dependent(): the task in slot s loses one notification, and is  *)
(* this worker's to enqueue if that was the last.                          *)
Releases(w, s) ==
    /\ s \in Slots /\ state[s] = "Waiting" /\ HandleOf(s) = Head(wsucc[w])
    /\ Head(wsucc[w]) \in Handle /\ Current(Head(wsucc[w])) /\ Head(wsucc[w]).slot = s
    /\ pending' = [pending EXCEPT ![s] = @ - 1]
    /\ IF pending[s] = 1
       THEN /\ state' = [state EXCEPT ![s] = "Queued"]
            /\ wdep' = [wdep EXCEPT ![w] = Head(wsucc[w])]
            /\ wpc' = [wpc EXCEPT ![w] = "enqueueDependent"]
       ELSE UNCHANGED <<state, wdep, wpc>>

(* Releasing a dependent takes it from the list and decrements its count.  *)
LEMMA ReleaseEffect ==
    ASSUME PlaceInv, NEW w \in Workers, ReleaseDependent(w)
    PROVE  /\ wpc[w] = "release" /\ wsucc[w] # << >> /\ wsucc[w] \in Seq(Handle)
           /\ wsucc' = [wsucc EXCEPT ![w] = Tail(@)]
           /\ \E s \in Slots : Releases(w, s)
           /\ UNCHANGED <<generation, closed, successors, body, free, ready, outstanding, handle,
                          clientVars, whandle, phase, after, threw>>
  <1> DEFINE d == Head(wsucc[w])
             s == d.slot
  <1>1. /\ wpc[w] = "release" /\ wsucc[w] # << >> /\ wsucc[w] \in Seq(Handle)
        /\ wsucc' = [wsucc EXCEPT ![w] = Tail(@)]
        /\ UNCHANGED <<generation, closed, successors, body, free, ready, outstanding, handle,
                       clientVars, whandle, phase, after, threw>>
    BY DEF ReleaseDependent, PlaceInv, TypeInv, WorkerType
  <1>2. 1 \in 1 .. Len(wsucc[w]) /\ d = wsucc[w][1] /\ d \in Handle
    BY <1>1
  <1>3. Waits(d)
    BY <1>2 DEF PlaceInv, EdgeInv
  <1>4. Resolves(d) /\ s \in Slots /\ state[s] = "Waiting" /\ Current(d) /\ d = HandleOf(s)
    BY <1>2, <1>3, HandleFacts DEF PlaceInv, Waits, Current, Resolves
  <1>5. Releases(w, s)
    BY <1>2, <1>4 DEF Releases, ReleaseDependent, WGoto
  <1> QED BY <1>1, <1>4, <1>5

(* execute() gets a task that waits for nothing any more. *)
LEMMA ExecuteEffect ==
    ASSUME PlaceInv, NEW w \in Workers, NEW h \in ready, Execute(w, h)
    PROVE  /\ h \in Handle /\ h.slot \in Slots /\ Current(h) /\ h = HandleOf(h.slot)
           /\ state[h.slot] = "Queued"
           /\ body[h.slot] \in Tasks /\ Issued(body[h.slot]) /\ phase[body[h.slot]] = "submitted"
           /\ \A c \in Clients : ~HasSlot(c, h.slot)
  <1>1. h \in Handle /\ Runnable(h)
    BY DEF PlaceInv, ReadyInv, TypeInv, TaskType
  <1>2. /\ h.slot \in Slots /\ body[h.slot] \in Tasks /\ Issued(body[h.slot])
        /\ Current(h) /\ state[h.slot] = "Queued" /\ h = HandleOf(h.slot)
    BY <1>1, RunnableIsTask, HandleFacts DEF Runnable, Current, PlaceInv
  <1>3. phase[body[h.slot]] = "submitted"
    BY <1>2 DEF PlaceInv, PhaseInv, SlotPhase, TaskHome
  <1>4. ASSUME NEW c \in Clients, HasSlot(c, h.slot) PROVE FALSE
    <2>1. body[h.slot] = ctask[c] /\ cpc[c] # "idle"
      BY <1>4, ClientHolds DEF HasSlot, Holds, PlaceInv, Registration
    <2> QED BY <1>2, <2>1 DEF PlaceInv, ClientInv, ClientOk
  <1> QED BY <1>1, <1>2, <1>3, <1>4

-----------------------------------------------------------------------------
(* Counting *)

(* A finite set that loses, gains or exchanges an element. *)
LEMMA Loses ==
    ASSUME NEW S, IsFiniteSet(S), NEW x \in S
    PROVE  /\ IsFiniteSet(S \ {x}) /\ Cardinality(S \ {x}) = Cardinality(S) - 1
           /\ Cardinality(S) \in Nat \ {0}
           /\ Cardinality(S) = 1 => S = {x}
  <1>1. IsFiniteSet(S \ {x}) /\ Cardinality(S \ {x}) = Cardinality(S) - 1
    BY FS_RemoveElement
  <1>2. Cardinality(S) \in Nat /\ Cardinality(S) # 0
    BY FS_CardinalityType, FS_EmptySet
  <1>3. ASSUME Cardinality(S) = 1 PROVE S = {x}
    BY <1>3, FS_Singleton
  <1> QED BY <1>1, <1>2, <1>3

(* A finite set with one element more, ...                                 *)
LEMMA Gains ==
    ASSUME NEW S, IsFiniteSet(S), NEW x, x \notin S
    PROVE  /\ IsFiniteSet(S \cup {x}) /\ Cardinality(S \cup {x}) = Cardinality(S) + 1
           /\ Cardinality(S) \in Nat
  BY FS_AddElement, FS_CardinalityType

(* ... or with one exchanged for another.                                  *)
LEMMA Exchanges ==
    ASSUME NEW S, IsFiniteSet(S), NEW x \in S, NEW y, y \notin S
    PROVE  /\ IsFiniteSet((S \ {x}) \cup {y}) /\ Cardinality((S \ {x}) \cup {y}) = Cardinality(S)
           /\ Cardinality(S) \in Nat
  <1>1. y \notin S \ {x}
    OBVIOUS
  <1>2. IsFiniteSet(S \ {x}) /\ Cardinality(S \ {x}) = Cardinality(S) - 1 /\ Cardinality(S) \in Nat
    BY Loses
  <1> QED BY <1>1, <1>2, Gains

(* Two sets whose elements correspond one to one. *)
LEMMA SameSize ==
    ASSUME NEW S, NEW T, IsFiniteSet(S), NEW f \in [S -> T],
           \A a, b \in S : f[a] = f[b] => a = b, \A t \in T : \E a \in S : f[a] = t
    PROVE  IsFiniteSet(T) /\ Cardinality(T) = Cardinality(S)
  <1>1. f \in Bijection(S, T)
    BY DEF Bijection, Injection, Surjection, IsInjective
  <1> QED BY <1>1, FS_Bijection DEF ExistsBijection

(* The notifications, by where they are. *)
IsEdge(x, s) == \E p \in Slots : \E i \in 1 .. Len(successors[p]) : successors[p][i].slot = s /\ x = <<"edge", p, i>>
IsTaken(x, s) == \E w \in Workers : \E i \in 1 .. Len(wsucc[w]) : wsucc[w][i].slot = s /\ x = <<"taken", w, i>>
IsCall(x, s) ==
    \E c \in Clients :
        /\ Registering(c) /\ chandle[c].slot = s
        /\ \E i \in 0 .. Len(cdeps[c]) : x = <<"call", c, i>>

(* What a waiting slot is owed, by kind, ...                               *)
LEMMA OwedIs ==
    ASSUME NEW s
    PROVE  \A x : x \in Owed(s) <=> IsEdge(x, s) \/ IsTaken(x, s) \/ IsCall(x, s)
  <1>1. \A x : x \in OwedEdges(s) <=> IsEdge(x, s)
    BY DEF OwedEdges, IsEdge
  <1>2. \A x : x \in OwedTaken(s) <=> IsTaken(x, s)
    BY DEF OwedTaken, IsTaken
  <1>3. \A x : x \in OwedCalls(s) <=> IsCall(x, s)
    BY DEF OwedCalls, IsCall
  <1> QED BY <1>1, <1>2, <1>3 DEF Owed

(* ... and after a step.                                                   *)
LEMMA OwedIsNext ==
    ASSUME NEW s
    PROVE  \A x : x \in Owed(s)' <=> IsEdge(x, s)' \/ IsTaken(x, s)' \/ IsCall(x, s)'
  <1>1. \A x : x \in OwedEdges(s)' <=> IsEdge(x, s)'
    BY DEF OwedEdges, IsEdge
  <1>2. \A x : x \in OwedTaken(s)' <=> IsTaken(x, s)'
    BY DEF OwedTaken, IsTaken
  <1>3. \A x : x \in OwedCalls(s)' <=> IsCall(x, s)'
    BY DEF OwedCalls, IsCall
  <1> QED BY <1>1, <1>2, <1>3 DEF Owed

(* Three notifications of one kind each differ, and so do two of one kind  *)
(* in different places.                                                    *)
LEMMA TokensDiffer ==
    /\ \A a, b, i, j : <<"edge", a, i>> # <<"taken", b, j>>
    /\ \A a, b, i, j : <<"edge", a, i>> # <<"call", b, j>>
    /\ \A a, b, i, j : <<"taken", a, i>> # <<"call", b, j>>
    /\ \A a, b, i, j, k : <<k, a, i>> = <<k, b, j>> => a = b /\ i = j
  OBVIOUS

(* Who gets the last notification ... *)
LEMMA LastNotification ==
    ASSUME PlaceInv, CountInv, NEW s \in Slots, state[s] = "Waiting", pending[s] = 1, NEW x \in Owed(s)
    PROVE  Owed(s) = {x}
  BY Loses DEF CountInv

(* ... has no other to wait for. *)
LEMMA LastIsAlone ==
    ASSUME PlaceInv, CountInv, NEW w \in Workers, NEW s \in Slots, wpc[w] = "release", wsucc[w] # << >>,
           Releases(w, s), pending[s] = 1
    PROVE  /\ \A c \in Clients : ~HasSlot(c, s)
           /\ \A p \in Slots : \A i \in 1 .. Len(successors[p]) : successors[p][i].slot # s
           /\ \A v \in Workers : \A i \in 1 .. Len(wsucc[v]) : wsucc[v][i].slot = s => v = w /\ i = 1
  <1>1. wsucc[w] \in Seq(Handle) /\ 1 \in 1 .. Len(wsucc[w]) /\ wsucc[w][1] = Head(wsucc[w])
    BY DEF PlaceInv, TypeInv, WorkerType
  <1>2. <<"taken", w, 1>> \in Owed(s)
    BY <1>1, OwedIs DEF Releases, IsTaken
  <1>3. \A x : x \in Owed(s) => x = <<"taken", w, 1>>
    BY <1>2, LastNotification DEF Releases
  <1>4. ASSUME NEW c \in Clients, HasSlot(c, s) PROVE FALSE
    <2>1. cpc[c] # "enqueue"
      BY <1>4, ClientHolds DEF HasSlot, Holds, Releases, PlaceInv, Registration
    <2>2. Registering(c) /\ chandle[c].slot = s /\ 0 \in 0 .. Len(cdeps[c])
      BY <1>4, <2>1 DEF HasSlot, Holds, Registering, Registration, PlaceInv, TypeInv, ClientType
    <2>3. IsCall(<<"call", c, 0>>, s)
      BY <2>2 DEF IsCall
    <2>4. <<"call", c, 0>> = <<"taken", w, 1>>
      BY <1>3, <2>3, OwedIs
    <2> QED BY <2>4, TokensDiffer
  <1>5. ASSUME NEW p \in Slots, NEW i \in 1 .. Len(successors[p]), successors[p][i].slot = s PROVE FALSE
    <2>1. <<"edge", p, i>> = <<"taken", w, 1>>
      BY <1>3, <1>5, OwedIs DEF IsEdge
    <2> QED BY <2>1, TokensDiffer
  <1>6. ASSUME NEW v \in Workers, NEW i \in 1 .. Len(wsucc[v]), wsucc[v][i].slot = s PROVE v = w /\ i = 1
    <2>1. <<"taken", v, i>> = <<"taken", w, 1>>
      BY <1>3, <1>6, OwedIs DEF IsTaken
    <2> QED BY <2>1, TokensDiffer
  <1> QED BY <1>4, <1>5, <1>6

-----------------------------------------------------------------------------
(* Who has a slot. *)
LEMMA FreeInvStep == PlaceInv /\ [Next]_vars => FreeInv'
  <1> SUFFICES ASSUME PlaceInv, [Next]_vars PROVE FreeInv'
    OBVIOUS
  <1> USE NoneAssumption DEF PlaceInv, TypeInv, SlotType, ClientType, SlotInv, FreeInv, Constructs,
         Inline, slotVars, clientVars, workerVars, Goto, WGoto
  <1>1. ASSUME NEW c \in Clients, NEW t \in Tasks, NEW deps \in DepSeqs, SubmitCount(c, t, deps) PROVE FreeInv'
    BY <1>1 DEF SubmitCount
  <1>2. ASSUME NEW c \in Clients, NEW s \in Slots, Acquire(c, s) PROVE FreeInv'
    <2>1. ctask[c] \in Tasks
      BY <1>2 DEF Acquire, ClientInv, ClientOk
    <2> QED BY <1>2, <2>1 DEF Acquire
  <1>3. ASSUME NEW c \in Clients, NEW s \in Slots, Reserve(c, s) PROVE FreeInv'
    <2>1. HandleOf(s).slot = s
      BY HandleFacts
    <2> QED BY <1>3, <2>1 DEF Reserve
  <1>4. ASSUME NEW c \in Clients, Publish(c) PROVE FreeInv'
    <2> DEFINE s == chandle[c].slot
    <2>1. /\ s \in Slots /\ cpc[c] = "construct" /\ s \notin free
          /\ ctask[c] \in Tasks
      BY <1>4, ClientHolds DEF Publish, ClientInv, ClientOk
    <2>2. /\ body' = [body EXCEPT ![s] = ctask[c]] /\ state' = [state EXCEPT ![s] = "Queued"]
          /\ cpc' = [cpc EXCEPT ![c] = "enqueue"] /\ UNCHANGED <<chandle, free, successors>>
      BY <1>4 DEF Publish
    <2>3. ASSUME NEW r \in Slots, r # s, r \notin free, state[r] = "Free"
          PROVE  \E e \in Clients : Constructs(e, r)'
      <3>1. PICK e \in Clients : Constructs(e, r)
        BY <2>3
      <3>2. e # c
        BY <2>3, <3>1
      <3> QED BY <2>2, <3>1, <3>2
    <2> HIDE DEF s
    <2> QED BY <2>1, <2>2, <2>3
  <1>5. ASSUME NEW c \in Clients, ConstructThrows(c) PROVE FreeInv'
    <2> DEFINE s == chandle[c].slot
    <2>1. /\ s \in Slots /\ cpc[c] = "construct" => s \notin free /\ state[s] = "Free" /\ body[s] = NoTask /\ successors[s] = << >>
          /\ cpc[c] # "construct" => body[s] = ctask[c] /\ state[s] = IF cpc[c] = "enqueue" THEN "Queued" ELSE "Waiting"
      BY <1>5, ClientHolds DEF ConstructThrows, Registration
    <2> QED BY <1>5, <2>1 DEF ConstructThrows
  <1>6. ASSUME NEW c \in Clients, ConstructThrowsInline(c) PROVE FreeInv'
    BY <1>6 DEF ConstructThrowsInline
  <1>7. ASSUME NEW c \in Clients, Rethrow(c) PROVE FreeInv'
    BY <1>7 DEF Rethrow
  <1>8. ASSUME NEW c \in Clients, Exhausted(c) PROVE FreeInv'
    BY <1>8 DEF Exhausted
  <1>9. ASSUME NEW c \in Clients, InlineWait(c) PROVE FreeInv'
    BY <1>9 DEF InlineWait
  <1>10. ASSUME NEW c \in Clients, InlineStart(c) PROVE FreeInv'
    BY <1>10 DEF InlineStart
  <1>11. ASSUME NEW c \in Clients, InlineFinish(c) PROVE FreeInv'
    BY <1>11 DEF InlineFinish
  <1>12. ASSUME NEW c \in Clients, InlineCount(c) PROVE FreeInv'
    BY <1>12 DEF InlineCount
  <1>13. ASSUME NEW c \in Clients, RegisterLookup(c) PROVE FreeInv'
    BY <1>13 DEF RegisterLookup
  <1>14. ASSUME NEW c \in Clients, AddSuccessor(c) PROVE FreeInv'
    <2>1. UNCHANGED <<generation, state, closed, body, free, handle, ctask, chandle>> /\ cpc[c] = "addSuccessor"
      BY <1>14, AddSuccessorEffect
    <2>2. ASSUME NEW p \in Slots, AddsEdge(c, p) PROVE FreeInv'
      BY <2>1, <2>2 DEF AddsEdge
    <2>3. CASE FindsFinished(c)
      BY <2>1, <2>3 DEF FindsFinished
    <2> QED BY <1>14, <2>2, <2>3, AddSuccessorEffect
  <1>15. ASSUME NEW c \in Clients, PreSatisfied(c) PROVE FreeInv'
    <2> DEFINE s == chandle[c].slot
    <2>1. /\ s \in Slots /\ cpc[c] = "construct" => s \notin free /\ state[s] = "Free" /\ body[s] = NoTask /\ successors[s] = << >>
          /\ cpc[c] # "construct" => body[s] = ctask[c] /\ state[s] = IF cpc[c] = "enqueue" THEN "Queued" ELSE "Waiting"
      BY <1>15, ClientHolds DEF PreSatisfied, Registration
    <2> QED BY <1>15, <2>1 DEF PreSatisfied
  <1>16. ASSUME NEW c \in Clients, RemoveGuard(c) PROVE FreeInv'
    <2> DEFINE s == chandle[c].slot
    <2>1. /\ s \in Slots /\ cpc[c] = "construct" => s \notin free /\ state[s] = "Free" /\ body[s] = NoTask /\ successors[s] = << >>
          /\ cpc[c] # "construct" => body[s] = ctask[c] /\ state[s] = IF cpc[c] = "enqueue" THEN "Queued" ELSE "Waiting"
      BY <1>16, ClientHolds DEF RemoveGuard, Registration
    <2> QED BY <1>16, <2>1 DEF RemoveGuard
  <1>17. ASSUME NEW c \in Clients, Enqueue(c) PROVE FreeInv'
    <2> DEFINE s == chandle[c].slot
    <2>1. /\ s \in Slots /\ cpc[c] = "construct" => s \notin free /\ state[s] = "Free" /\ body[s] = NoTask /\ successors[s] = << >>
          /\ cpc[c] # "construct" => body[s] = ctask[c] /\ state[s] = IF cpc[c] = "enqueue" THEN "Queued" ELSE "Waiting"
      BY <1>17, ClientHolds DEF Enqueue, Registration
    <2> QED BY <1>17, <2>1 DEF Enqueue
  <1>18. ASSUME NEW w \in Workers, NEW h \in ready, Execute(w, h) PROVE FreeInv'
    <2>1. h.slot \in Slots /\ state[h.slot] = "Queued" /\ state' = [state EXCEPT ![h.slot] = "Executing"]
      BY <1>18, ExecuteEffect DEF Execute
    <2>2. UNCHANGED <<free, body, successors, cpc, chandle>>
      BY <1>18 DEF Execute
    <2> QED BY <2>1, <2>2
  <1>19. ASSUME NEW w \in Workers, BodyReturn(w) PROVE FreeInv'
    BY <1>19, WorkerHolds, ExecutedIsIssued DEF BodyReturn, WorkerInv, WorkerOk, Executes, Closing
  <1>20. ASSUME NEW w \in Workers, TakeSuccessors(w) PROVE FreeInv'
    BY <1>20, WorkerHolds, ExecutedIsIssued DEF TakeSuccessors, WorkerInv, WorkerOk, Executes, Closing
  <1>21. ASSUME NEW w \in Workers, StoreCompleted(w) PROVE FreeInv'
    BY <1>21, WorkerHolds, ExecutedIsIssued DEF StoreCompleted, WorkerInv, WorkerOk, Executes, Closing
  <1>22. ASSUME NEW w \in Workers, BumpGeneration(w) PROVE FreeInv'
    BY <1>22, WorkerHolds, ExecutedIsIssued DEF BumpGeneration, WorkerInv, WorkerOk, Executes, Closing
  <1>23. ASSUME NEW w \in Workers, FreeSlot(w) PROVE FreeInv'
    BY <1>23, WorkerHolds, ExecutedIsIssued DEF FreeSlot, WorkerInv, WorkerOk, Executes, Closing
  <1>24. ASSUME NEW w \in Workers, ReleaseDependent(w) PROVE FreeInv'
    <2>1. PICK s \in Slots : Releases(w, s)
      BY <1>24, ReleaseEffect
    <2>2. UNCHANGED <<generation, closed, successors, body, free, handle, cpc, ctask, chandle>>
      BY <1>24, ReleaseEffect
    <2>3. CASE pending[s] = 1
      BY <2>1, <2>2, <2>3 DEF Releases
    <2>4. CASE pending[s] # 1
      BY <2>1, <2>2, <2>4 DEF Releases
    <2> QED BY <2>3, <2>4
  <1>25. ASSUME NEW w \in Workers, EnqueueDependent(w) PROVE FreeInv'
    BY <1>25 DEF EnqueueDependent
  <1>26. ASSUME NEW w \in Workers, CompleteCount(w) PROVE FreeInv'
    BY <1>26 DEF CompleteCount
  <1>27. CASE UNCHANGED vars
    BY <1>27 DEF vars
  <1> QED
    BY <1>1, <1>2, <1>3, <1>4, <1>5, <1>6, <1>7, <1>8, <1>9, <1>10, <1>11, <1>12, <1>13,
       <1>14, <1>15, <1>16, <1>17, <1>18, <1>19, <1>20, <1>21, <1>22, <1>23, <1>24, <1>25,
       <1>26, <1>27
    DEF Next, Submits, ClientStep, WorkerStep, AtRest


(* A task that was not accepted yet is in no slot. *)
LEMMA NewHasNoSlot ==
    ASSUME PlaceInv, NEW t \in Tasks, phase[t] = "none"
    PROVE  \A s \in Slots : body[s] # t
  <1> SUFFICES ASSUME NEW s \in Slots, body[s] = t PROVE FALSE
    OBVIOUS
  <1>1. state[s] \in {"Waiting", "Queued", "Executing", "Completed"}
    BY NoneAssumption DEF PlaceInv, SlotInv, FreeInv, TypeInv, SlotType, TaskStates
  <1> QED BY <1>1 DEF PlaceInv, PhaseInv, SlotPhase, Finished

(* A task is in one slot. *)
LEMMA OwnInvStep == PlaceInv /\ [Next]_vars => OwnInv'
  <1> SUFFICES ASSUME PlaceInv, [Next]_vars PROVE OwnInv'
    OBVIOUS
  <1> USE DEF PlaceInv, TypeInv, SlotType, SlotInv, OwnInv, slotVars, clientVars, workerVars
  <1>1. ASSUME NEW c \in Clients, NEW t \in Tasks, NEW deps \in DepSeqs, SubmitCount(c, t, deps) PROVE OwnInv'
    BY <1>1 DEF SubmitCount
  <1>2. ASSUME NEW c \in Clients, NEW s \in Slots, Acquire(c, s) PROVE OwnInv'
    <2>1. ctask[c] \in Tasks /\ phase[ctask[c]] = "none"
      BY <1>2 DEF Acquire, PlaceInv, ClientInv, ClientOk
    <2>2. \A s1 \in Slots : body[s1] # ctask[c]
      BY <2>1, NewHasNoSlot
    <2>3. body' = [body EXCEPT ![s] = ctask[c]]
      BY <1>2 DEF Acquire
    <2> QED BY <2>2, <2>3
  <1>3. ASSUME NEW c \in Clients, NEW s \in Slots, Reserve(c, s) PROVE OwnInv'
    BY <1>3 DEF Reserve
  <1>4. ASSUME NEW c \in Clients, Publish(c) PROVE OwnInv'
    <2>1. ctask[c] \in Tasks /\ phase[ctask[c]] = "none"
      BY <1>4 DEF Publish, PlaceInv, ClientInv, ClientOk
    <2>2. \A s1 \in Slots : body[s1] # ctask[c]
      BY <2>1, NewHasNoSlot
    <2>3. body' = [body EXCEPT ![chandle[c].slot] = ctask[c]]
      BY <1>4 DEF Publish
    <2> QED BY <2>2, <2>3
  <1>5. ASSUME NEW c \in Clients, ConstructThrows(c) PROVE OwnInv'
    BY <1>5 DEF ConstructThrows
  <1>6. ASSUME NEW c \in Clients, ConstructThrowsInline(c) PROVE OwnInv'
    BY <1>6 DEF ConstructThrowsInline
  <1>7. ASSUME NEW c \in Clients, Rethrow(c) PROVE OwnInv'
    BY <1>7 DEF Rethrow
  <1>8. ASSUME NEW c \in Clients, Exhausted(c) PROVE OwnInv'
    BY <1>8 DEF Exhausted
  <1>9. ASSUME NEW c \in Clients, InlineWait(c) PROVE OwnInv'
    BY <1>9 DEF InlineWait
  <1>10. ASSUME NEW c \in Clients, InlineStart(c) PROVE OwnInv'
    BY <1>10 DEF InlineStart
  <1>11. ASSUME NEW c \in Clients, InlineFinish(c) PROVE OwnInv'
    BY <1>11 DEF InlineFinish
  <1>12. ASSUME NEW c \in Clients, InlineCount(c) PROVE OwnInv'
    BY <1>12 DEF InlineCount
  <1>13. ASSUME NEW c \in Clients, RegisterLookup(c) PROVE OwnInv'
    BY <1>13 DEF RegisterLookup
  <1>14. ASSUME NEW c \in Clients, AddSuccessor(c) PROVE OwnInv'
    BY <1>14 DEF AddSuccessor
  <1>15. ASSUME NEW c \in Clients, PreSatisfied(c) PROVE OwnInv'
    BY <1>15 DEF PreSatisfied
  <1>16. ASSUME NEW c \in Clients, RemoveGuard(c) PROVE OwnInv'
    BY <1>16 DEF RemoveGuard
  <1>17. ASSUME NEW c \in Clients, Enqueue(c) PROVE OwnInv'
    BY <1>17 DEF Enqueue
  <1>18. ASSUME NEW w \in Workers, NEW h \in ready, Execute(w, h) PROVE OwnInv'
    BY <1>18 DEF Execute
  <1>19. ASSUME NEW w \in Workers, BodyReturn(w) PROVE OwnInv'
    BY <1>19 DEF BodyReturn
  <1>20. ASSUME NEW w \in Workers, TakeSuccessors(w) PROVE OwnInv'
    BY <1>20 DEF TakeSuccessors
  <1>21. ASSUME NEW w \in Workers, StoreCompleted(w) PROVE OwnInv'
    BY <1>21 DEF StoreCompleted
  <1>22. ASSUME NEW w \in Workers, BumpGeneration(w) PROVE OwnInv'
    BY <1>22 DEF BumpGeneration
  <1>23. ASSUME NEW w \in Workers, FreeSlot(w) PROVE OwnInv'
    BY <1>23, NoneAssumption DEF FreeSlot
  <1>24. ASSUME NEW w \in Workers, ReleaseDependent(w) PROVE OwnInv'
    BY <1>24 DEF ReleaseDependent
  <1>25. ASSUME NEW w \in Workers, EnqueueDependent(w) PROVE OwnInv'
    BY <1>25 DEF EnqueueDependent
  <1>26. ASSUME NEW w \in Workers, CompleteCount(w) PROVE OwnInv'
    BY <1>26 DEF CompleteCount
  <1>27. CASE UNCHANGED vars
    BY <1>27 DEF vars
  <1> QED
    BY <1>1, <1>2, <1>3, <1>4, <1>5, <1>6, <1>7, <1>8, <1>9, <1>10, <1>11, <1>12, <1>13,
       <1>14, <1>15, <1>16, <1>17, <1>18, <1>19, <1>20, <1>21, <1>22, <1>23, <1>24, <1>25,
       <1>26, <1>27
    DEF Next, Submits, ClientStep, WorkerStep, AtRest


(* A client builds a callable in a slot of its own. *)
LEMMA ConstructInvStep == PlaceInv /\ [Next]_vars => ConstructInv'
  <1> SUFFICES ASSUME PlaceInv, [Next]_vars PROVE ConstructInv'
    OBVIOUS
  <1> USE DEF PlaceInv, TypeInv, SlotType, ClientType, SlotInv, ConstructInv, Current,
         slotVars, clientVars, workerVars, Goto, WGoto
  <1>1. ASSUME NEW c \in Clients, NEW t \in Tasks, NEW deps \in DepSeqs, SubmitCount(c, t, deps) PROVE ConstructInv'
    BY <1>1 DEF SubmitCount
  <1>2. ASSUME NEW c \in Clients, NEW s \in Slots, Acquire(c, s) PROVE ConstructInv'
    <2>1. HandleOf(s).slot = s /\ HandleOf(s).gen = generation[s] /\ HandleOf(s) \in Handle
      BY HandleFacts
    <2> QED BY <1>2, <2>1 DEF Acquire
  <1>3. ASSUME NEW c \in Clients, NEW s \in Slots, Reserve(c, s) PROVE ConstructInv'
    <2>1. HandleOf(s).slot = s /\ HandleOf(s).gen = generation[s] /\ HandleOf(s) \in Handle
      BY HandleFacts
    <2>2. /\ s \in free /\ state[s] = "Free" /\ successors[s] = << >> /\ cpc[c] = "acquire"
          /\ \A e \in Clients : cpc[e] = "construct" => chandle[e].slot # s
      BY <1>3 DEF Reserve, FreeInv
    <2>3. /\ free' = free \ {s} /\ closed' = [closed EXCEPT ![s] = FALSE]
          /\ successors' = [successors EXCEPT ![s] = << >>]
          /\ chandle' = [chandle EXCEPT ![c] = HandleOf(s)] /\ cpc' = [cpc EXCEPT ![c] = "construct"]
          /\ UNCHANGED <<generation, state>>
      BY <1>3 DEF Reserve
    <2> HIDE DEF HandleOf
    <2> QED BY <2>1, <2>2, <2>3
  <1>4. ASSUME NEW c \in Clients, Publish(c) PROVE ConstructInv'
    <2> DEFINE s == chandle[c].slot
    <2>1. /\ s \in Slots /\ cpc[c] \in Registration \cup {"enqueue", "construct"}
          /\ cpc[c] = "construct" => s \notin free /\ state[s] = "Free"
          /\ cpc[c] # "construct" => state[s] # "Free"
      BY <1>4, ClientHolds DEF Publish, Registration
    <2> QED BY <1>4, <2>1 DEF Publish, Registration
  <1>5. ASSUME NEW c \in Clients, ConstructThrows(c) PROVE ConstructInv'
    <2> DEFINE s == chandle[c].slot
    <2>1. /\ s \in Slots /\ cpc[c] \in Registration \cup {"enqueue", "construct"}
          /\ cpc[c] = "construct" => s \notin free /\ state[s] = "Free"
          /\ cpc[c] # "construct" => state[s] # "Free"
      BY <1>5, ClientHolds DEF ConstructThrows, Registration
    <2> QED BY <1>5, <2>1 DEF ConstructThrows, Registration
  <1>6. ASSUME NEW c \in Clients, ConstructThrowsInline(c) PROVE ConstructInv'
    BY <1>6 DEF ConstructThrowsInline
  <1>7. ASSUME NEW c \in Clients, Rethrow(c) PROVE ConstructInv'
    BY <1>7 DEF Rethrow
  <1>8. ASSUME NEW c \in Clients, Exhausted(c) PROVE ConstructInv'
    BY <1>8 DEF Exhausted
  <1>9. ASSUME NEW c \in Clients, InlineWait(c) PROVE ConstructInv'
    BY <1>9 DEF InlineWait
  <1>10. ASSUME NEW c \in Clients, InlineStart(c) PROVE ConstructInv'
    BY <1>10 DEF InlineStart
  <1>11. ASSUME NEW c \in Clients, InlineFinish(c) PROVE ConstructInv'
    BY <1>11 DEF InlineFinish
  <1>12. ASSUME NEW c \in Clients, InlineCount(c) PROVE ConstructInv'
    BY <1>12 DEF InlineCount
  <1>13. ASSUME NEW c \in Clients, RegisterLookup(c) PROVE ConstructInv'
    BY <1>13 DEF RegisterLookup
  <1>14. ASSUME NEW c \in Clients, AddSuccessor(c) PROVE ConstructInv'
    <2>1. UNCHANGED <<generation, state, closed, body, free, handle, ctask, chandle>> /\ cpc[c] = "addSuccessor"
      BY <1>14, AddSuccessorEffect
    <2>2. ASSUME NEW p \in Slots, AddsEdge(c, p) PROVE ConstructInv'
      BY <2>1, <2>2 DEF AddsEdge
    <2>3. CASE FindsFinished(c)
      BY <2>1, <2>3 DEF FindsFinished
    <2> QED BY <1>14, <2>2, <2>3, AddSuccessorEffect
  <1>15. ASSUME NEW c \in Clients, PreSatisfied(c) PROVE ConstructInv'
    <2> DEFINE s == chandle[c].slot
    <2>1. /\ s \in Slots /\ cpc[c] \in Registration \cup {"enqueue", "construct"}
          /\ cpc[c] = "construct" => s \notin free /\ state[s] = "Free"
          /\ cpc[c] # "construct" => state[s] # "Free"
      BY <1>15, ClientHolds DEF PreSatisfied, Registration
    <2> QED BY <1>15, <2>1 DEF PreSatisfied, Registration
  <1>16. ASSUME NEW c \in Clients, RemoveGuard(c) PROVE ConstructInv'
    <2> DEFINE s == chandle[c].slot
    <2>1. s \in Slots /\ state[s] # "Free"
      BY <1>16, ClientHolds DEF RemoveGuard, Registration
    <2>2. /\ UNCHANGED <<generation, free, closed, successors, chandle>> /\ cpc[c] = "register"
          /\ cpc' = [cpc EXCEPT ![c] = "enqueue"] \/ cpc' = [cpc EXCEPT ![c] = "idle"]
          /\ state' = state \/ state' = [state EXCEPT ![s] = "Queued"]
      BY <1>16 DEF RemoveGuard
    <2> HIDE DEF s
    <2>3. ASSUME NEW e \in Clients
          PROVE  /\ cpc'[e] = "construct" <=> cpc[e] = "construct"
                 /\ cpc[e] = "construct" => chandle[e].slot # s /\ chandle[e].slot \in Slots
      BY <2>1, <2>2, ClientHolds
    <2>4. \A r \in Slots : r # s => state'[r] = state[r]
      BY <2>2
    <2> QED BY <2>2, <2>3, <2>4
  <1>17. ASSUME NEW c \in Clients, Enqueue(c) PROVE ConstructInv'
    <2> DEFINE s == chandle[c].slot
    <2>1. /\ s \in Slots /\ cpc[c] \in Registration \cup {"enqueue", "construct"}
          /\ cpc[c] = "construct" => s \notin free /\ state[s] = "Free"
          /\ cpc[c] # "construct" => state[s] # "Free"
      BY <1>17, ClientHolds DEF Enqueue, Registration
    <2> QED BY <1>17, <2>1 DEF Enqueue, Registration
  <1>18. ASSUME NEW w \in Workers, NEW h \in ready, Execute(w, h) PROVE ConstructInv'
    <2>1. h.slot \in Slots /\ state[h.slot] = "Queued" /\ state' = [state EXCEPT ![h.slot] = "Executing"]
      BY <1>18, ExecuteEffect DEF Execute
    <2>2. UNCHANGED <<generation, closed, free, body, successors, cpc, chandle>>
      BY <1>18 DEF Execute
    <2> QED BY <2>1, <2>2
  <1>19. ASSUME NEW w \in Workers, BodyReturn(w) PROVE ConstructInv'
    BY <1>19 DEF BodyReturn
  <1>20. ASSUME NEW w \in Workers, TakeSuccessors(w) PROVE ConstructInv'
    <2>1. LET s == whandle[w].slot IN s \in Slots /\ state[s] # "Free"
      BY <1>20, WorkerHolds DEF TakeSuccessors, WorkerInv, WorkerOk, Executes, Closing
    <2> QED BY <1>20, <2>1 DEF TakeSuccessors
  <1>21. ASSUME NEW w \in Workers, StoreCompleted(w) PROVE ConstructInv'
    <2>1. LET s == whandle[w].slot IN s \in Slots /\ state[s] # "Free"
      BY <1>21, WorkerHolds DEF StoreCompleted, WorkerInv, WorkerOk, Executes, Closing
    <2> QED BY <1>21, <2>1 DEF StoreCompleted
  <1>22. ASSUME NEW w \in Workers, BumpGeneration(w) PROVE ConstructInv'
    <2>1. LET s == whandle[w].slot IN s \in Slots /\ state[s] # "Free"
      BY <1>22, WorkerHolds DEF BumpGeneration, WorkerInv, WorkerOk, Executes, Closing
    <2> QED BY <1>22, <2>1 DEF BumpGeneration
  <1>23. ASSUME NEW w \in Workers, FreeSlot(w) PROVE ConstructInv'
    <2>1. LET s == whandle[w].slot IN s \in Slots /\ state[s] # "Free"
      BY <1>23, WorkerHolds DEF FreeSlot, WorkerInv, WorkerOk, Executes, Closing
    <2> QED BY <1>23, <2>1 DEF FreeSlot
  <1>24. ASSUME NEW w \in Workers, ReleaseDependent(w) PROVE ConstructInv'
    <2>1. PICK s \in Slots : Releases(w, s)
      BY <1>24, ReleaseEffect
    <2>2. UNCHANGED <<generation, closed, successors, body, free, handle, cpc, ctask, chandle>>
      BY <1>24, ReleaseEffect
    <2>3. /\ state' = state \/ state' = [state EXCEPT ![s] = "Queued"]
          /\ state[s] = "Waiting"
      BY <2>1 DEF Releases
    <2>4. \A e \in Clients : cpc[e] = "construct" => chandle[e].slot # s /\ chandle[e].slot \in Slots
      BY <2>3, ClientHolds
    <2>5. \A r \in Slots : r # s => state'[r] = state[r]
      BY <2>3
    <2> QED BY <2>2, <2>4, <2>5
  <1>25. ASSUME NEW w \in Workers, EnqueueDependent(w) PROVE ConstructInv'
    BY <1>25 DEF EnqueueDependent
  <1>26. ASSUME NEW w \in Workers, CompleteCount(w) PROVE ConstructInv'
    BY <1>26 DEF CompleteCount
  <1>27. CASE UNCHANGED vars
    BY <1>27 DEF vars
  <1> QED
    BY <1>1, <1>2, <1>3, <1>4, <1>5, <1>6, <1>7, <1>8, <1>9, <1>10, <1>11, <1>12, <1>13,
       <1>14, <1>15, <1>16, <1>17, <1>18, <1>19, <1>20, <1>21, <1>22, <1>23, <1>24, <1>25,
       <1>26, <1>27
    DEF Next, Submits, ClientStep, WorkerStep, AtRest


(* A client's task stays in its slot until submit() returns. *)
LEMMA HolderInvStep == PlaceInv /\ CountInv /\ [Next]_vars => HolderInv'
  <1> SUFFICES ASSUME PlaceInv, CountInv, [Next]_vars PROVE HolderInv'
    OBVIOUS
  <1> USE DEF PlaceInv, TypeInv, TaskType, SlotType, ClientType, SlotInv, HolderInv, HolderOk, Holds, HasSlot, Issued, Registration, Current,
         slotVars, clientVars, workerVars, Goto, WGoto
  <1>1. ASSUME NEW c \in Clients, NEW t \in Tasks, NEW deps \in DepSeqs, SubmitCount(c, t, deps) PROVE HolderInv'
    BY <1>1 DEF SubmitCount
  <1>2. ASSUME NEW c \in Clients, NEW s \in Slots, Acquire(c, s) PROVE HolderInv'
    <2>1. /\ cpc[c] = "acquire" /\ s \in Slots /\ state[s] = "Free" /\ body[s] = NoTask
          /\ ctask[c] \in Tasks /\ ~Issued(ctask[c])
      BY <1>2, ClientHolds DEF Acquire, FreeInv, ClientInv, ClientOk
    <2>2. \A e \in Clients : Holds(e) => e # c /\ chandle[e].slot # s /\ chandle[e].slot \in Slots
      BY <2>1, ClientHolds DEF Holds, Registration
    <2>3. HandleOf(s).slot = s /\ HandleOf(s).gen = generation[s] /\ HandleOf(s) \in Handle
      BY HandleFacts
    <2>4. /\ body' = [body EXCEPT ![s] = ctask[c]] /\ chandle' = [chandle EXCEPT ![c] = HandleOf(s)]
          /\ UNCHANGED <<generation, handle, ctask>>
      BY <1>2 DEF Acquire
    <2>5. \/ state' = [state EXCEPT ![s] = "Queued"] /\ cpc' = [cpc EXCEPT ![c] = "enqueue"]
          \/ state' = [state EXCEPT ![s] = "Waiting"] /\ cpc' = [cpc EXCEPT ![c] = "register"]
      BY <1>2 DEF Acquire
    <2> HIDE DEF HandleOf
    <2>6. \A e \in Clients : Holds(e)' => HolderOk(e)'
      BY <2>1, <2>2, <2>3, <2>4, <2>5
    <2>7. HasSlot(c, s)'
      BY <2>3, <2>4, <2>5
    <2>8. \A r \in Slots : \A e \in Clients : r # s /\ HasSlot(e, r) => HasSlot(e, r)'
      BY <2>2, <2>4, <2>5
    <2> QED BY <2>1, <2>4, <2>6, <2>7, <2>8
  <1>3. ASSUME NEW c \in Clients, NEW s \in Slots, Reserve(c, s) PROVE HolderInv'
    BY <1>3 DEF Reserve
  <1>4. ASSUME NEW c \in Clients, Publish(c) PROVE HolderInv'
    <2> DEFINE s == chandle[c].slot
    <2>1. /\ cpc[c] = "construct" /\ s \in Slots /\ state[s] = "Free" /\ body[s] = NoTask
          /\ ctask[c] \in Tasks /\ ~Issued(ctask[c])
      BY <1>4, ClientHolds DEF Publish, FreeInv, ClientInv, ClientOk
    <2>2. \A e \in Clients : Holds(e) => e # c /\ chandle[e].slot # s /\ chandle[e].slot \in Slots
      BY <2>1, ClientHolds DEF Holds, Registration
    <2>3. Current(chandle[c])
      BY <1>4, ClientHolds DEF Publish
    <2>4. /\ body' = [body EXCEPT ![s] = ctask[c]] /\ state' = [state EXCEPT ![s] = "Queued"]
          /\ cpc' = [cpc EXCEPT ![c] = "enqueue"] /\ UNCHANGED <<generation, handle, ctask, chandle>>
      BY <1>4 DEF Publish
    <2>5. \A e \in Clients : Holds(e)' => HolderOk(e)'
      BY <2>1, <2>2, <2>3, <2>4
    <2>6. \A r \in Slots : r = s => HasSlot(c, r)'
      BY <2>4
    <2>7. \A r \in Slots : \A e \in Clients : r # s /\ HasSlot(e, r) => HasSlot(e, r)'
      BY <2>2, <2>4
    <2> HIDE DEF s
    <2> QED BY <2>1, <2>4, <2>5, <2>6, <2>7
  <1>5. ASSUME NEW c \in Clients, ConstructThrows(c) PROVE HolderInv'
    <2> DEFINE s == chandle[c].slot
    <2>1. /\ cpc[c] = "construct" /\ s \in Slots /\ state[s] = "Free" /\ body[s] = NoTask
          /\ ctask[c] \in Tasks /\ ~Issued(ctask[c])
      BY <1>5, ClientHolds DEF ConstructThrows, FreeInv, ClientInv, ClientOk
    <2>2. \A e \in Clients : Holds(e) => e # c /\ chandle[e].slot # s /\ chandle[e].slot \in Slots
      BY <2>1, ClientHolds DEF Holds, Registration
    <2>3. /\ generation' = [generation EXCEPT ![s] = @ + 1] /\ cpc' = [cpc EXCEPT ![c] = "rethrow"]
          /\ UNCHANGED <<state, body, handle, ctask, chandle>>
      BY <1>5 DEF ConstructThrows
    <2>4. \A r \in Slots : r # s => generation'[r] = generation[r]
      BY <2>3
    <2> HIDE DEF s
    <2>5. \A e \in Clients : Holds(e)' => HolderOk(e)'
      BY <2>1, <2>2, <2>3, <2>4
    <2>6. \A r \in Slots : \A e \in Clients : HasSlot(e, r) => HasSlot(e, r)'
      BY <2>1, <2>3
    <2> QED BY <2>1, <2>3, <2>5, <2>6
  <1>6. ASSUME NEW c \in Clients, ConstructThrowsInline(c) PROVE HolderInv'
    BY <1>6 DEF ConstructThrowsInline
  <1>7. ASSUME NEW c \in Clients, Rethrow(c) PROVE HolderInv'
    BY <1>7 DEF Rethrow
  <1>8. ASSUME NEW c \in Clients, Exhausted(c) PROVE HolderInv'
    BY <1>8 DEF Exhausted
  <1>9. ASSUME NEW c \in Clients, InlineWait(c) PROVE HolderInv'
    BY <1>9 DEF InlineWait
  <1>10. ASSUME NEW c \in Clients, InlineStart(c) PROVE HolderInv'
    BY <1>10 DEF InlineStart
  <1>11. ASSUME NEW c \in Clients, InlineFinish(c) PROVE HolderInv'
    BY <1>11 DEF InlineFinish
  <1>12. ASSUME NEW c \in Clients, InlineCount(c) PROVE HolderInv'
    <2>1. \A t \in Tasks : Issued(t) => Issued(t)'
      BY <1>12, HandleFacts DEF InlineCount
    <2>2. /\ cpc' = [cpc EXCEPT ![c] = "idle"] /\ cpc[c] = "inlineCount"
          /\ UNCHANGED <<generation, state, body, ctask, chandle>>
      BY <1>12 DEF InlineCount
    <2>3. \A e \in Clients : Holds(e)' => HolderOk(e)'
      BY <2>2
    <2>4. \A r \in Slots : \A e \in Clients : HasSlot(e, r) => HasSlot(e, r)'
      BY <2>2
    <2> QED BY <2>1, <2>2, <2>3, <2>4
  <1>13. ASSUME NEW c \in Clients, RegisterLookup(c) PROVE HolderInv'
    BY <1>13 DEF RegisterLookup
  <1>14. ASSUME NEW c \in Clients, AddSuccessor(c) PROVE HolderInv'
    BY <1>14 DEF AddSuccessor
  <1>15. ASSUME NEW c \in Clients, PreSatisfied(c) PROVE HolderInv'
    <2> DEFINE s == chandle[c].slot
    <2>1. /\ s \in Slots /\ cpc[c] \in Registration \cup {"enqueue", "construct"}
          /\ cpc[c] = "construct" => s \notin free /\ state[s] = "Free"
          /\ cpc[c] # "construct" => body[s] = ctask[c]
      BY <1>15, ClientHolds DEF PreSatisfied, Registration
    <2> QED BY <1>15, <2>1 DEF PreSatisfied, Registration
  <1>16. ASSUME NEW c \in Clients, RemoveGuard(c) PROVE HolderInv'
    <2> DEFINE s == chandle[c].slot
    <2>1. /\ s \in Slots /\ body[s] = ctask[c] /\ ctask[c] \in Tasks /\ Holds(c) /\ chandle[c] # Unsubmitted
      BY <1>16, HandleFacts, ClientHolds DEF RemoveGuard, ClientInv, ClientOk
    <2>2. ASSUME NEW e \in Clients, Holds(e), chandle[e].slot = s PROVE e = c
      <3>1. cpc[e] # "idle" /\ cpc[c] # "idle" /\ body[s] = ctask[e]
        BY <2>1, <2>2, ClientHolds
      <3> QED BY <2>1, <3>1 DEF ClientInv
    <2>3. UNCHANGED <<generation, body, ctask, chandle>>
      BY <1>16 DEF RemoveGuard
    <2> HIDE DEF s
    <2>4. CASE UNCHANGED state /\ handle' = [handle EXCEPT ![ctask[c]] = chandle[c]] /\ cpc' = [cpc EXCEPT ![c] = "idle"]
      <3>1. \A t \in Tasks : Issued(t)' <=> Issued(t) \/ t = ctask[c]
        BY <2>1, <2>4
      <3>2. \A e \in Clients : Holds(e)' => HolderOk(e)'
        BY <2>1, <2>3, <2>4
      <3>3. \A r \in Slots : \A e \in Clients : r # s /\ HasSlot(e, r) => HasSlot(e, r)'
        BY <2>3, <2>4 DEF s
      <3> QED BY <2>1, <2>3, <3>1, <3>2, <3>3
    <2>5. CASE /\ state' = [state EXCEPT ![s] = "Queued"] /\ UNCHANGED handle
               /\ cpc' = [cpc EXCEPT ![c] = "enqueue"]
      <3>1. \A e \in Clients : Holds(e)' => Holds(e) /\ (e # c => chandle[e].slot # s) /\ chandle[e].slot \in Slots
        BY <2>1, <2>2, <2>5, ClientHolds DEF Registration, Holds
      <3>2. \A e \in Clients : Holds(e)' => HolderOk(e)'
        BY <2>1, <2>3, <2>5, <3>1 DEF s
      <3>3. \A r \in Slots : \A e \in Clients : HasSlot(e, r) => HasSlot(e, r)'
        BY <2>3, <2>5
      <3> QED BY <2>3, <2>5, <3>2, <3>3
    <2> QED BY <1>16, <2>4, <2>5 DEF RemoveGuard, s
  <1>17. ASSUME NEW c \in Clients, Enqueue(c) PROVE HolderInv'
    <2> DEFINE s == chandle[c].slot
    <2>1. /\ s \in Slots /\ body[s] = ctask[c] /\ ctask[c] \in Tasks /\ Holds(c) /\ chandle[c] # Unsubmitted
      BY <1>17, HandleFacts, ClientHolds DEF Enqueue, ClientInv, ClientOk
    <2>2. ASSUME NEW e \in Clients, Holds(e), chandle[e].slot = s PROVE e = c
      <3>1. cpc[e] # "idle" /\ cpc[c] # "idle" /\ body[s] = ctask[e]
        BY <2>1, <2>2, ClientHolds
      <3> QED BY <2>1, <3>1 DEF ClientInv
    <2>3. UNCHANGED <<generation, body, ctask, chandle>>
      BY <1>17 DEF Enqueue
    <2> HIDE DEF s
    <2>4. CASE UNCHANGED state /\ handle' = [handle EXCEPT ![ctask[c]] = chandle[c]] /\ cpc' = [cpc EXCEPT ![c] = "idle"]
      <3>1. \A t \in Tasks : Issued(t)' <=> Issued(t) \/ t = ctask[c]
        BY <2>1, <2>4
      <3>2. \A e \in Clients : Holds(e)' => HolderOk(e)'
        BY <2>1, <2>3, <2>4
      <3>3. \A r \in Slots : \A e \in Clients : r # s /\ HasSlot(e, r) => HasSlot(e, r)'
        BY <2>3, <2>4 DEF s
      <3> QED BY <2>1, <2>3, <3>1, <3>2, <3>3
    <2> QED BY <1>17, <2>4 DEF Enqueue
  <1>18. ASSUME NEW w \in Workers, NEW h \in ready, Execute(w, h) PROVE HolderInv'
    <2>1. h.slot \in Slots /\ \A e \in Clients : ~HasSlot(e, h.slot)
      BY <1>18, ExecuteEffect
    <2>2. /\ state' = [state EXCEPT ![h.slot] = "Executing"]
          /\ UNCHANGED <<generation, body, handle, cpc, ctask, chandle>>
      BY <1>18 DEF Execute
    <2>3. \A e \in Clients : Holds(e) => chandle[e].slot # h.slot /\ chandle[e].slot \in Slots
      BY <2>1, ClientHolds
    <2>4. \A r \in Slots : r # h.slot => state'[r] = state[r]
      BY <2>2
    <2>5. \A e \in Clients : Holds(e)' => HolderOk(e)'
      BY <2>2, <2>3, <2>4
    <2> QED BY <2>2, <2>5
  <1>19. ASSUME NEW w \in Workers, BodyReturn(w) PROVE HolderInv'
    BY <1>19 DEF BodyReturn
  <1>20. ASSUME NEW w \in Workers, TakeSuccessors(w) PROVE HolderInv'
    <2>1. LET s == whandle[w].slot IN s \in Slots /\ state[s] \in {"Executing", "Completed"} /\ Issued(body[s])
      BY <1>20, WorkerHolds, ExecutedIsIssued DEF TakeSuccessors, WorkerInv, WorkerOk, Executes, Closing
    <2> QED BY <1>20, <2>1 DEF TakeSuccessors
  <1>21. ASSUME NEW w \in Workers, StoreCompleted(w) PROVE HolderInv'
    <2>1. LET s == whandle[w].slot IN s \in Slots /\ state[s] \in {"Executing", "Completed"} /\ Issued(body[s])
      BY <1>21, WorkerHolds, ExecutedIsIssued DEF StoreCompleted, WorkerInv, WorkerOk, Executes, Closing
    <2> QED BY <1>21, <2>1 DEF StoreCompleted
  <1>22. ASSUME NEW w \in Workers, BumpGeneration(w) PROVE HolderInv'
    <2>1. LET s == whandle[w].slot IN s \in Slots /\ state[s] \in {"Executing", "Completed"} /\ Issued(body[s])
      BY <1>22, WorkerHolds, ExecutedIsIssued DEF BumpGeneration, WorkerInv, WorkerOk, Executes, Closing
    <2> QED BY <1>22, <2>1 DEF BumpGeneration
  <1>23. ASSUME NEW w \in Workers, FreeSlot(w) PROVE HolderInv'
    <2>1. LET s == whandle[w].slot IN s \in Slots /\ state[s] \in {"Executing", "Completed"} /\ Issued(body[s])
      BY <1>23, WorkerHolds, ExecutedIsIssued DEF FreeSlot, WorkerInv, WorkerOk, Executes, Closing
    <2> QED BY <1>23, <2>1 DEF FreeSlot
  <1>24. ASSUME NEW w \in Workers, ReleaseDependent(w) PROVE HolderInv'
    <2>1. PICK s \in Slots : Releases(w, s)
      BY <1>24, ReleaseEffect
    <2>2. UNCHANGED <<generation, body, handle, cpc, ctask, chandle>>
      BY <1>24, ReleaseEffect
    <2>3. \/ state' = state
          \/ state' = [state EXCEPT ![s] = "Queued"] /\ \A e \in Clients : ~HasSlot(e, s)
      <3>1. CASE pending[s] = 1
        <4>1. wpc[w] = "release" /\ wsucc[w] # << >>
          BY <1>24, ReleaseEffect
        <4>2. \A e \in Clients : ~HasSlot(e, s)
          BY <2>1, <3>1, <4>1, LastIsAlone
        <4>3. state' = [state EXCEPT ![s] = "Queued"]
          BY <2>1, <3>1 DEF Releases
        <4> QED BY <4>2, <4>3
      <3>2. CASE pending[s] # 1
        BY <2>1, <3>2 DEF Releases
      <3> QED BY <3>1, <3>2
    <2>4. \A e \in Clients : Holds(e) => chandle[e].slot \in Slots
      BY ClientHolds
    <2>5. \A e \in Clients : Holds(e) => state'[chandle[e].slot] = state[chandle[e].slot]
      BY <2>3, <2>4
    <2>6. \A e \in Clients : Holds(e)' => HolderOk(e)'
      BY <2>2, <2>5
    <2> QED BY <2>2, <2>6
  <1>25. ASSUME NEW w \in Workers, EnqueueDependent(w) PROVE HolderInv'
    BY <1>25 DEF EnqueueDependent
  <1>26. ASSUME NEW w \in Workers, CompleteCount(w) PROVE HolderInv'
    BY <1>26 DEF CompleteCount
  <1>27. CASE UNCHANGED vars
    BY <1>27 DEF vars
  <1> QED
    BY <1>1, <1>2, <1>3, <1>4, <1>5, <1>6, <1>7, <1>8, <1>9, <1>10, <1>11, <1>12, <1>13,
       <1>14, <1>15, <1>16, <1>17, <1>18, <1>19, <1>20, <1>21, <1>22, <1>23, <1>24, <1>25,
       <1>26, <1>27
    DEF Next, Submits, ClientStep, WorkerStep, AtRest


-----------------------------------------------------------------------------

(* The slots that are being executed are nobody else's. *)
LEMMA ExecutedSlots ==
    ASSUME PlaceInv
    PROVE  \A v \in Workers :
               wpc[v] \in Executes =>
                   LET s == whandle[v].slot IN
                   /\ s \in Slots /\ state[s] \in {"Executing", "Completed"}
                   /\ body[s] \in Tasks /\ Issued(body[s])
                   /\ \A c \in Clients : cpc[c] # "idle" => body[s] # ctask[c]
                   /\ \A r \in Slots : r # s => body[r] # body[s]
  <1> SUFFICES ASSUME NEW v \in Workers, wpc[v] \in Executes
               PROVE  LET s == whandle[v].slot IN
                      /\ s \in Slots /\ state[s] \in {"Executing", "Completed"}
                      /\ body[s] \in Tasks /\ Issued(body[s])
                      /\ \A c \in Clients : cpc[c] # "idle" => body[s] # ctask[c]
                      /\ \A r \in Slots : r # s => body[r] # body[s]
    OBVIOUS
  <1> DEFINE s == whandle[v].slot
  <1>1. s \in Slots /\ state[s] \in {"Executing", "Completed"}
    BY WorkerHolds DEF PlaceInv, WorkerInv, WorkerOk
  <1>2. body[s] \in Tasks /\ Issued(body[s])
    BY ExecutedIsIssued
  <1>3. \A c \in Clients : cpc[c] # "idle" => body[s] # ctask[c]
    BY <1>2 DEF PlaceInv, ClientInv, ClientOk
  <1>4. \A r \in Slots : r # s => body[r] # body[s]
    BY <1>1, <1>2, NoneAssumption DEF PlaceInv, SlotInv, OwnInv
  <1> QED BY <1>1, <1>2, <1>3, <1>4

(* A step that leaves a worker and its slot alone. *)
WorkerKept(v) ==
    LET s == whandle[v].slot IN
    /\ wpc'[v] = wpc[v] /\ whandle'[v] = whandle[v]
    /\ generation'[s] = generation[s] /\ state'[s] = state[s]
    /\ body'[s] = body[s] /\ phase'[body[s]] = phase[body[s]]
    /\ closed[s] => closed'[s] /\ successors'[s] = successors[s]

(* A worker that stands still knows what it knew.                          *)
LEMMA WorkerOkKept ==
    ASSUME PlaceInv, NEW v \in Workers, wpc'[v] = wpc[v], wpc[v] \in Executes => WorkerKept(v)
    PROVE  WorkerOk(v)'
  BY DEF PlaceInv, WorkerInv, WorkerOk, WorkerKept, Closing

(* What a worker knows of the task it runs. *)
LEMMA WorkerInvStep == PlaceInv /\ [Next]_vars => WorkerInv'
  <1> SUFFICES ASSUME PlaceInv, [Next]_vars PROVE WorkerInv'
    OBVIOUS
  <1> USE DEF workerVars, Goto, WGoto
  <1>1. ASSUME NEW c \in Clients, NEW t \in Tasks, NEW deps \in DepSeqs, SubmitCount(c, t, deps) PROVE WorkerInv'
    <2>1. UNCHANGED <<generation, state, body, closed, successors, phase, workerVars>>
      BY <1>1 DEF SubmitCount, slotVars
    <2>2. ASSUME NEW v \in Workers, wpc[v] \in Executes PROVE WorkerKept(v)
      BY <2>1 DEF WorkerKept, slotVars
    <2> QED BY <2>1, <2>2, WorkerOkKept DEF WorkerInv, PlaceInv
  <1>2. ASSUME NEW c \in Clients, NEW s \in Slots, Acquire(c, s) PROVE WorkerInv'
    <2>1. s \in Slots /\ state[s] \in {"Free", "Waiting"} /\ cpc[c] # "idle"
      BY <1>2, ClientHolds DEF Acquire, PlaceInv, SlotInv, FreeInv, TypeInv, TaskType
    <2>2. /\ body' = [body EXCEPT ![s] = ctask[c]]
          /\ \/ state' = [state EXCEPT ![s] = "Queued"]
             \/ state' = [state EXCEPT ![s] = "Waiting"]
          /\ closed' = [closed EXCEPT ![s] = FALSE]
          /\ successors' = [successors EXCEPT ![s] = << >>]
          /\ phase' = [phase EXCEPT ![ctask[c]] = "submitted"]
          /\ UNCHANGED <<generation, workerVars>>
      BY <1>2 DEF Acquire, Accepted, slotVars
    <2>3. ASSUME NEW v \in Workers, wpc[v] \in Executes PROVE WorkerKept(v)
      <3>1. LET p == whandle[v].slot IN p \in Slots /\ state[p] \in {"Executing", "Completed"} /\ body[p] # ctask[c]
        BY <2>1, <2>3, ExecutedSlots
      <3>2. state'[whandle[v].slot] = state[whandle[v].slot]
        BY <2>1, <2>2, <3>1 DEF PlaceInv, TypeInv, SlotType, slotVars
      <3> QED BY <2>1, <2>2, <3>1, <3>2 DEF WorkerKept, slotVars
    <2> QED BY <2>2, <2>3, WorkerOkKept DEF WorkerInv, PlaceInv
  <1>3. ASSUME NEW c \in Clients, NEW s \in Slots, Reserve(c, s) PROVE WorkerInv'
    <2>1. s \in Slots /\ state[s] \in {"Free", "Waiting"} /\ cpc[c] # "idle"
      BY <1>3, ClientHolds DEF Reserve, PlaceInv, SlotInv, FreeInv, TypeInv, TaskType
    <2>2. /\ closed' = [closed EXCEPT ![s] = FALSE]
          /\ successors' = [successors EXCEPT ![s] = << >>]
          /\ UNCHANGED <<generation, state, body, phase, workerVars>>
      BY <1>3 DEF Reserve, Accepted, slotVars
    <2>3. ASSUME NEW v \in Workers, wpc[v] \in Executes PROVE WorkerKept(v)
      <3>1. LET p == whandle[v].slot IN p \in Slots /\ state[p] \in {"Executing", "Completed"} /\ body[p] # ctask[c]
        BY <2>1, <2>3, ExecutedSlots
      <3>2. state'[whandle[v].slot] = state[whandle[v].slot]
        BY <2>1, <2>2, <3>1 DEF PlaceInv, TypeInv, SlotType, slotVars
      <3> QED BY <2>1, <2>2, <3>1, <3>2 DEF WorkerKept, slotVars
    <2> QED BY <2>2, <2>3, WorkerOkKept DEF WorkerInv, PlaceInv
  <1>4. ASSUME NEW c \in Clients, Publish(c) PROVE WorkerInv'
    <2> DEFINE s == chandle[c].slot
    <2>1. s \in Slots /\ state[s] \in {"Free", "Waiting"} /\ cpc[c] # "idle"
      BY <1>4, ClientHolds DEF Publish, PlaceInv, SlotInv, Registration
    <2>2. /\ body' = [body EXCEPT ![s] = ctask[c]]
          /\ state' = [state EXCEPT ![s] = "Queued"]
          /\ phase' = [phase EXCEPT ![ctask[c]] = "submitted"]
          /\ UNCHANGED <<generation, closed, successors, workerVars>>
      BY <1>4 DEF Publish, Accepted, slotVars
    <2> HIDE DEF s
    <2>3. ASSUME NEW v \in Workers, wpc[v] \in Executes PROVE WorkerKept(v)
      <3>1. LET p == whandle[v].slot IN p \in Slots /\ state[p] \in {"Executing", "Completed"} /\ body[p] # ctask[c]
        BY <2>1, <2>3, ExecutedSlots
      <3>2. state'[whandle[v].slot] = state[whandle[v].slot]
        BY <2>1, <2>2, <3>1 DEF PlaceInv, TypeInv, SlotType, slotVars
      <3> QED BY <2>1, <2>2, <3>1, <3>2 DEF WorkerKept, slotVars
    <2> QED BY <2>2, <2>3, WorkerOkKept DEF WorkerInv, PlaceInv
  <1>5. ASSUME NEW c \in Clients, ConstructThrows(c) PROVE WorkerInv'
    <2> DEFINE s == chandle[c].slot
    <2>1. s \in Slots /\ state[s] \in {"Free", "Waiting"} /\ cpc[c] # "idle"
      BY <1>5, ClientHolds DEF ConstructThrows, PlaceInv, SlotInv, Registration
    <2>2. /\ generation' = [generation EXCEPT ![s] = @ + 1]
          /\ closed' = [closed EXCEPT ![s] = TRUE]
          /\ UNCHANGED <<state, body, successors, phase, workerVars>>
      BY <1>5 DEF ConstructThrows, Accepted, slotVars
    <2> HIDE DEF s
    <2>3. ASSUME NEW v \in Workers, wpc[v] \in Executes PROVE WorkerKept(v)
      <3>1. LET p == whandle[v].slot IN p \in Slots /\ state[p] \in {"Executing", "Completed"} /\ body[p] # ctask[c]
        BY <2>1, <2>3, ExecutedSlots
      <3>2. state'[whandle[v].slot] = state[whandle[v].slot]
        BY <2>1, <2>2, <3>1 DEF PlaceInv, TypeInv, SlotType, slotVars
      <3> QED BY <2>1, <2>2, <3>1, <3>2 DEF WorkerKept, slotVars
    <2> QED BY <2>2, <2>3, WorkerOkKept DEF WorkerInv, PlaceInv
  <1>6. ASSUME NEW c \in Clients, ConstructThrowsInline(c) PROVE WorkerInv'
    <2>1. UNCHANGED <<generation, state, body, closed, successors, phase, workerVars>>
      BY <1>6 DEF ConstructThrowsInline, slotVars
    <2>2. ASSUME NEW v \in Workers, wpc[v] \in Executes PROVE WorkerKept(v)
      BY <2>1 DEF WorkerKept, slotVars
    <2> QED BY <2>1, <2>2, WorkerOkKept DEF WorkerInv, PlaceInv
  <1>7. ASSUME NEW c \in Clients, Rethrow(c) PROVE WorkerInv'
    <2>1. UNCHANGED <<generation, state, body, closed, successors, phase, workerVars>>
      BY <1>7 DEF Rethrow, slotVars
    <2>2. ASSUME NEW v \in Workers, wpc[v] \in Executes PROVE WorkerKept(v)
      BY <2>1 DEF WorkerKept, slotVars
    <2> QED BY <2>1, <2>2, WorkerOkKept DEF WorkerInv, PlaceInv
  <1>8. ASSUME NEW c \in Clients, Exhausted(c) PROVE WorkerInv'
    <2>1. cpc[c] # "idle"
      BY <1>8 DEF Exhausted
    <2>2. /\ phase' = [phase EXCEPT ![ctask[c]] = "submitted"]
          /\ UNCHANGED <<slotVars, workerVars>>
      BY <1>8 DEF Exhausted, Accepted, slotVars
    <2>3. ASSUME NEW v \in Workers, wpc[v] \in Executes PROVE WorkerKept(v)
      <3>1. LET p == whandle[v].slot IN p \in Slots /\ state[p] \in {"Executing", "Completed"} /\ body[p] # ctask[c]
        BY <2>1, <2>3, ExecutedSlots
      <3>2. state'[whandle[v].slot] = state[whandle[v].slot]
        BY <2>1, <2>2, <3>1 DEF PlaceInv, TypeInv, SlotType, slotVars
      <3> QED BY <2>1, <2>2, <3>1, <3>2 DEF WorkerKept, slotVars
    <2> QED BY <2>2, <2>3, WorkerOkKept DEF WorkerInv, PlaceInv
  <1>9. ASSUME NEW c \in Clients, InlineWait(c) PROVE WorkerInv'
    <2>1. UNCHANGED <<generation, state, body, closed, successors, phase, workerVars>>
      BY <1>9 DEF InlineWait, slotVars
    <2>2. ASSUME NEW v \in Workers, wpc[v] \in Executes PROVE WorkerKept(v)
      BY <2>1 DEF WorkerKept, slotVars
    <2> QED BY <2>1, <2>2, WorkerOkKept DEF WorkerInv, PlaceInv
  <1>10. ASSUME NEW c \in Clients, InlineStart(c) PROVE WorkerInv'
    <2>1. cpc[c] # "idle"
      BY <1>10 DEF InlineStart
    <2>2. /\ phase' = [phase EXCEPT ![ctask[c]] = "running"]
          /\ UNCHANGED <<slotVars, workerVars>>
      BY <1>10 DEF InlineStart, Accepted, slotVars
    <2>3. ASSUME NEW v \in Workers, wpc[v] \in Executes PROVE WorkerKept(v)
      <3>1. LET p == whandle[v].slot IN p \in Slots /\ state[p] \in {"Executing", "Completed"} /\ body[p] # ctask[c]
        BY <2>1, <2>3, ExecutedSlots
      <3>2. state'[whandle[v].slot] = state[whandle[v].slot]
        BY <2>1, <2>2, <3>1 DEF PlaceInv, TypeInv, SlotType, slotVars
      <3> QED BY <2>1, <2>2, <3>1, <3>2 DEF WorkerKept, slotVars
    <2> QED BY <2>2, <2>3, WorkerOkKept DEF WorkerInv, PlaceInv
  <1>11. ASSUME NEW c \in Clients, InlineFinish(c) PROVE WorkerInv'
    <2>1. cpc[c] # "idle"
      BY <1>11 DEF InlineFinish
    <2>2. /\ phase' = [phase EXCEPT ![ctask[c]] = "finished"]
          /\ UNCHANGED <<slotVars, workerVars>>
      BY <1>11 DEF InlineFinish, Accepted, slotVars
    <2>3. ASSUME NEW v \in Workers, wpc[v] \in Executes PROVE WorkerKept(v)
      <3>1. LET p == whandle[v].slot IN p \in Slots /\ state[p] \in {"Executing", "Completed"} /\ body[p] # ctask[c]
        BY <2>1, <2>3, ExecutedSlots
      <3>2. state'[whandle[v].slot] = state[whandle[v].slot]
        BY <2>1, <2>2, <3>1 DEF PlaceInv, TypeInv, SlotType, slotVars
      <3> QED BY <2>1, <2>2, <3>1, <3>2 DEF WorkerKept, slotVars
    <2> QED BY <2>2, <2>3, WorkerOkKept DEF WorkerInv, PlaceInv
  <1>12. ASSUME NEW c \in Clients, InlineCount(c) PROVE WorkerInv'
    <2>1. UNCHANGED <<generation, state, body, closed, successors, phase, workerVars>>
      BY <1>12 DEF InlineCount, slotVars
    <2>2. ASSUME NEW v \in Workers, wpc[v] \in Executes PROVE WorkerKept(v)
      BY <2>1 DEF WorkerKept, slotVars
    <2> QED BY <2>1, <2>2, WorkerOkKept DEF WorkerInv, PlaceInv
  <1>13. ASSUME NEW c \in Clients, RegisterLookup(c) PROVE WorkerInv'
    <2>1. UNCHANGED <<generation, state, body, closed, successors, phase, workerVars>>
      BY <1>13 DEF RegisterLookup, slotVars
    <2>2. ASSUME NEW v \in Workers, wpc[v] \in Executes PROVE WorkerKept(v)
      BY <2>1 DEF WorkerKept, slotVars
    <2> QED BY <2>1, <2>2, WorkerOkKept DEF WorkerInv, PlaceInv
  <1>14. ASSUME NEW c \in Clients, AddSuccessor(c) PROVE WorkerInv'
    <2>1. UNCHANGED <<generation, state, closed, body, phase, workerVars>>
      BY <1>14, AddSuccessorEffect
    <2>2. ASSUME NEW v \in Workers, wpc[v] \in Executes PROVE WorkerKept(v)
      <3>1. CASE \E p \in Slots : AddsEdge(c, p)
        BY <2>1, <3>1 DEF AddsEdge, WorkerKept
      <3>2. CASE FindsFinished(c)
        BY <2>1, <3>2 DEF FindsFinished, WorkerKept
      <3> QED BY <1>14, <3>1, <3>2, AddSuccessorEffect
    <2> QED BY <2>1, <2>2, WorkerOkKept DEF WorkerInv, PlaceInv
  <1>15. ASSUME NEW c \in Clients, PreSatisfied(c) PROVE WorkerInv'
    <2>1. UNCHANGED <<generation, state, body, closed, successors, phase, workerVars>>
      BY <1>15 DEF PreSatisfied, slotVars
    <2>2. ASSUME NEW v \in Workers, wpc[v] \in Executes PROVE WorkerKept(v)
      BY <2>1 DEF WorkerKept, slotVars
    <2> QED BY <2>1, <2>2, WorkerOkKept DEF WorkerInv, PlaceInv
  <1>16. ASSUME NEW c \in Clients, RemoveGuard(c) PROVE WorkerInv'
    <2> DEFINE s == chandle[c].slot
    <2>1. s \in Slots /\ state[s] \in {"Free", "Waiting"} /\ cpc[c] # "idle"
      BY <1>16, ClientHolds DEF RemoveGuard, PlaceInv, SlotInv, Registration
    <2>2. /\ state' = state \/ state' = [state EXCEPT ![s] = "Queued"]
          /\ UNCHANGED <<generation, body, closed, successors, phase, workerVars>>
      BY <1>16 DEF RemoveGuard, Accepted, slotVars
    <2> HIDE DEF s
    <2>3. ASSUME NEW v \in Workers, wpc[v] \in Executes PROVE WorkerKept(v)
      <3>1. LET p == whandle[v].slot IN p \in Slots /\ state[p] \in {"Executing", "Completed"} /\ body[p] # ctask[c]
        BY <2>1, <2>3, ExecutedSlots
      <3>2. state'[whandle[v].slot] = state[whandle[v].slot]
        BY <2>1, <2>2, <3>1 DEF PlaceInv, TypeInv, SlotType, slotVars
      <3> QED BY <2>1, <2>2, <3>1, <3>2 DEF WorkerKept, slotVars
    <2> QED BY <2>2, <2>3, WorkerOkKept DEF WorkerInv, PlaceInv
  <1>17. ASSUME NEW c \in Clients, Enqueue(c) PROVE WorkerInv'
    <2>1. UNCHANGED <<generation, state, body, closed, successors, phase, workerVars>>
      BY <1>17 DEF Enqueue, slotVars
    <2>2. ASSUME NEW v \in Workers, wpc[v] \in Executes PROVE WorkerKept(v)
      BY <2>1 DEF WorkerKept, slotVars
    <2> QED BY <2>1, <2>2, WorkerOkKept DEF WorkerInv, PlaceInv
  <1>18. ASSUME NEW w \in Workers, NEW h \in ready, Execute(w, h) PROVE WorkerInv'
    <2>1. /\ h \in Handle /\ h.slot \in Slots /\ h.gen = generation[h.slot] /\ state[h.slot] = "Queued"
          /\ body[h.slot] \in Tasks /\ wpc[w] = "idle"
      BY <1>18, ExecuteEffect DEF Execute, Current
    <2>2. /\ state' = [state EXCEPT ![h.slot] = "Executing"]
          /\ phase' = [phase EXCEPT ![body[h.slot]] = "running"]
          /\ whandle' = [whandle EXCEPT ![w] = h] /\ wpc' = [wpc EXCEPT ![w] = "body"]
          /\ UNCHANGED <<generation, closed, successors, body, wsucc>>
      BY <1>18 DEF Execute
    <2>3. ASSUME NEW v \in Workers, wpc[v] \in Executes PROVE v # w /\ WorkerKept(v) /\ whandle[v].slot # h.slot
      <3>1. LET p == whandle[v].slot IN p \in Slots /\ p # h.slot /\ body[p] # body[h.slot] /\ v # w
        BY <2>1, <2>3, ExecutedSlots DEF Executes, Closing
      <3> QED BY <2>1, <2>2, <3>1 DEF WorkerKept
    <2>4. WorkerOk(w)'
      BY <2>1, <2>2 DEF WorkerOk, PlaceInv, TypeInv, WorkerType, SlotType, TaskType, Closing
    <2>5. \A v \in Workers : v # w => WorkerOk(v)'
      BY <2>2, <2>3, WorkerOkKept DEF PlaceInv, TypeInv, WorkerType
    <2> QED BY <2>1, <2>2, <2>3, <2>4, <2>5 DEF WorkerInv, PlaceInv, TypeInv, WorkerType
  <1>19. ASSUME NEW w \in Workers, BodyReturn(w) PROVE WorkerInv'
    <2> DEFINE s == whandle[w].slot
    <2>1. /\ s \in Slots /\ whandle[w] \in Handle /\ wpc[w] = "body" /\ body[s] \in Tasks
          /\ \A r \in Slots : r # s => body[r] # body[s]
      BY <1>19, WorkerHolds, ExecutedSlots DEF BodyReturn, Executes, Closing, PlaceInv
    <2>2. /\ phase' = [phase EXCEPT ![body[s]] = "finished"]
          /\ UNCHANGED <<slotVars, whandle, wsucc>>
      BY <1>19 DEF BodyReturn, slotVars
    <2>3. wpc' = [wpc EXCEPT ![w] = "take"]
      BY <1>19 DEF BodyReturn
    <2>4. WorkerOk(w)'
      BY <2>1, <2>2, <2>3 DEF WorkerOk, PlaceInv, WorkerInv, TypeInv, WorkerType, SlotType, TaskType, Closing, Executes, slotVars
    <2>5. \A v \in Workers : v # w /\ wpc[v] \in Executes => whandle[v].slot # s
      BY <2>1 DEF WorkerInv, PlaceInv, Executes, Closing
    <2> HIDE DEF s
    <2>6. ASSUME NEW v \in Workers, v # w, wpc[v] \in Executes PROVE WorkerKept(v)
      BY <2>1, <2>2, <2>3, <2>5, <2>6, ExecutedSlots DEF WorkerKept, slotVars
    <2>7. \A v \in Workers : v # w => WorkerOk(v)'
      BY <2>3, <2>6, WorkerOkKept DEF PlaceInv, TypeInv, WorkerType
    <2> QED BY <2>1, <2>2, <2>3, <2>4, <2>7 DEF WorkerInv, PlaceInv, TypeInv, WorkerType, Executes, Closing
  <1>20. ASSUME NEW w \in Workers, TakeSuccessors(w) PROVE WorkerInv'
    <2> DEFINE s == whandle[w].slot
    <2>1. /\ s \in Slots /\ whandle[w] \in Handle /\ wpc[w] = "take" /\ body[s] \in Tasks
          /\ \A r \in Slots : r # s => body[r] # body[s]
      BY <1>20, WorkerHolds, ExecutedSlots DEF TakeSuccessors, Executes, Closing, PlaceInv
    <2>2. /\ closed' = [closed EXCEPT ![s] = TRUE]
          /\ successors' = [successors EXCEPT ![s] = << >>]
          /\ wsucc' = [wsucc EXCEPT ![w] = successors[s]]
          /\ UNCHANGED <<generation, state, body, phase, whandle>>
      BY <1>20 DEF TakeSuccessors, slotVars
    <2>3. wpc' = [wpc EXCEPT ![w] = "storeCompleted"]
      BY <1>20 DEF TakeSuccessors
    <2>4. WorkerOk(w)'
      BY <2>1, <2>2, <2>3 DEF WorkerOk, PlaceInv, WorkerInv, TypeInv, WorkerType, SlotType, TaskType, Closing, Executes, slotVars
    <2>5. \A v \in Workers : v # w /\ wpc[v] \in Executes => whandle[v].slot # s
      BY <2>1 DEF WorkerInv, PlaceInv, Executes, Closing
    <2> HIDE DEF s
    <2>6. ASSUME NEW v \in Workers, v # w, wpc[v] \in Executes PROVE WorkerKept(v)
      BY <2>1, <2>2, <2>3, <2>5, <2>6, ExecutedSlots DEF WorkerKept, slotVars
    <2>7. \A v \in Workers : v # w => WorkerOk(v)'
      BY <2>3, <2>6, WorkerOkKept DEF PlaceInv, TypeInv, WorkerType
    <2> QED BY <2>1, <2>2, <2>3, <2>4, <2>7 DEF WorkerInv, PlaceInv, TypeInv, WorkerType, Executes, Closing
  <1>21. ASSUME NEW w \in Workers, StoreCompleted(w) PROVE WorkerInv'
    <2> DEFINE s == whandle[w].slot
    <2>1. /\ s \in Slots /\ whandle[w] \in Handle /\ wpc[w] = "storeCompleted" /\ body[s] \in Tasks
          /\ \A r \in Slots : r # s => body[r] # body[s]
      BY <1>21, WorkerHolds, ExecutedSlots DEF StoreCompleted, Executes, Closing, PlaceInv
    <2>2. /\ state' = [state EXCEPT ![s] = "Completed"]
          /\ UNCHANGED <<generation, closed, successors, body, phase, whandle, wsucc>>
      BY <1>21 DEF StoreCompleted, slotVars
    <2>3. wpc' = [wpc EXCEPT ![w] = "bumpGeneration"]
      BY <1>21 DEF StoreCompleted
    <2>4. WorkerOk(w)'
      BY <2>1, <2>2, <2>3 DEF WorkerOk, PlaceInv, WorkerInv, TypeInv, WorkerType, SlotType, TaskType, Closing, Executes, slotVars
    <2>5. \A v \in Workers : v # w /\ wpc[v] \in Executes => whandle[v].slot # s
      BY <2>1 DEF WorkerInv, PlaceInv, Executes, Closing
    <2> HIDE DEF s
    <2>6. ASSUME NEW v \in Workers, v # w, wpc[v] \in Executes PROVE WorkerKept(v)
      BY <2>1, <2>2, <2>3, <2>5, <2>6, ExecutedSlots DEF WorkerKept, slotVars
    <2>7. \A v \in Workers : v # w => WorkerOk(v)'
      BY <2>3, <2>6, WorkerOkKept DEF PlaceInv, TypeInv, WorkerType
    <2> QED BY <2>1, <2>2, <2>3, <2>4, <2>7 DEF WorkerInv, PlaceInv, TypeInv, WorkerType, Executes, Closing
  <1>22. ASSUME NEW w \in Workers, BumpGeneration(w) PROVE WorkerInv'
    <2> DEFINE s == whandle[w].slot
    <2>1. /\ s \in Slots /\ whandle[w] \in Handle /\ wpc[w] = "bumpGeneration" /\ body[s] \in Tasks
          /\ \A r \in Slots : r # s => body[r] # body[s]
      BY <1>22, WorkerHolds, ExecutedSlots DEF BumpGeneration, Executes, Closing, PlaceInv
    <2>2. /\ generation' = [generation EXCEPT ![s] = @ + 1]
          /\ UNCHANGED <<state, closed, successors, body, phase, whandle, wsucc>>
      BY <1>22 DEF BumpGeneration, slotVars
    <2>3. wpc' = [wpc EXCEPT ![w] = "freeSlot"]
      BY <1>22 DEF BumpGeneration
    <2>4. WorkerOk(w)'
      BY <2>1, <2>2, <2>3 DEF WorkerOk, PlaceInv, WorkerInv, TypeInv, WorkerType, SlotType, TaskType, Closing, Executes, slotVars
    <2>5. \A v \in Workers : v # w /\ wpc[v] \in Executes => whandle[v].slot # s
      BY <2>1 DEF WorkerInv, PlaceInv, Executes, Closing
    <2> HIDE DEF s
    <2>6. ASSUME NEW v \in Workers, v # w, wpc[v] \in Executes PROVE WorkerKept(v)
      BY <2>1, <2>2, <2>3, <2>5, <2>6, ExecutedSlots DEF WorkerKept, slotVars
    <2>7. \A v \in Workers : v # w => WorkerOk(v)'
      BY <2>3, <2>6, WorkerOkKept DEF PlaceInv, TypeInv, WorkerType
    <2> QED BY <2>1, <2>2, <2>3, <2>4, <2>7 DEF WorkerInv, PlaceInv, TypeInv, WorkerType, Executes, Closing
  <1>23. ASSUME NEW w \in Workers, FreeSlot(w) PROVE WorkerInv'
    <2> DEFINE s == whandle[w].slot
    <2>1. /\ s \in Slots /\ whandle[w] \in Handle /\ wpc[w] = "freeSlot" /\ body[s] \in Tasks
          /\ \A r \in Slots : r # s => body[r] # body[s]
      BY <1>23, WorkerHolds, ExecutedSlots DEF FreeSlot, Executes, Closing, PlaceInv
    <2>2. /\ closed' = [closed EXCEPT ![s] = TRUE]
          /\ successors' = [successors EXCEPT ![s] = << >>]
          /\ state' = [state EXCEPT ![s] = "Free"]
          /\ body' = [body EXCEPT ![s] = NoTask]
          /\ UNCHANGED <<generation, phase, whandle, wsucc>>
      BY <1>23 DEF FreeSlot, slotVars
    <2>3. wpc' = [wpc EXCEPT ![w] = "release"]
      BY <1>23 DEF FreeSlot
    <2>4. WorkerOk(w)'
      BY <2>1, <2>2, <2>3 DEF WorkerOk, PlaceInv, WorkerInv, TypeInv, WorkerType, SlotType, TaskType, Closing, Executes, slotVars
    <2>5. \A v \in Workers : v # w /\ wpc[v] \in Executes => whandle[v].slot # s
      BY <2>1 DEF WorkerInv, PlaceInv, Executes, Closing
    <2> HIDE DEF s
    <2>6. ASSUME NEW v \in Workers, v # w, wpc[v] \in Executes PROVE WorkerKept(v)
      BY <2>1, <2>2, <2>3, <2>5, <2>6, ExecutedSlots DEF WorkerKept, slotVars
    <2>7. \A v \in Workers : v # w => WorkerOk(v)'
      BY <2>3, <2>6, WorkerOkKept DEF PlaceInv, TypeInv, WorkerType
    <2> QED BY <2>1, <2>2, <2>3, <2>4, <2>7 DEF WorkerInv, PlaceInv, TypeInv, WorkerType, Executes, Closing
  <1>24. ASSUME NEW w \in Workers, ReleaseDependent(w) PROVE WorkerInv'
    <2>1. PICK s \in Slots : Releases(w, s)
      BY <1>24, ReleaseEffect
    <2>2. /\ UNCHANGED <<generation, closed, successors, body, phase, whandle>>
          /\ wpc[w] = "release" /\ wsucc' = [wsucc EXCEPT ![w] = Tail(@)]
      BY <1>24, ReleaseEffect
    <2>3. /\ state' = state \/ state' = [state EXCEPT ![s] = "Queued"]
          /\ wpc' = wpc \/ wpc' = [wpc EXCEPT ![w] = "enqueueDependent"]
          /\ state[s] = "Waiting"
      BY <2>1 DEF Releases
    <2>4. ASSUME NEW v \in Workers, wpc[v] \in Executes PROVE v # w /\ WorkerKept(v)
      <3>1. LET p == whandle[v].slot IN p \in Slots /\ p # s /\ v # w
        BY <2>2, <2>3, <2>4, ExecutedSlots DEF Executes, Closing
      <3>2. state'[whandle[v].slot] = state[whandle[v].slot] /\ wpc'[v] = wpc[v]
        BY <2>3, <3>1 DEF PlaceInv, TypeInv, SlotType, WorkerType
      <3> QED BY <2>2, <3>1, <3>2 DEF WorkerKept
    <2>5. \A v \in Workers : (wpc'[v] = wpc[v] /\ wsucc'[v] = wsucc[v]) \/ (v = w /\ wpc'[v] \in WorkerUnits)
      BY <2>2, <2>3 DEF PlaceInv, TypeInv, WorkerType, WorkerUnits
    <2>6. \A v \in Workers : WorkerOk(v)'
      <3> SUFFICES ASSUME NEW v \in Workers PROVE WorkerOk(v)'
        OBVIOUS
      <3>1. CASE wpc'[v] = wpc[v]
        BY <2>4, <3>1, WorkerOkKept
      <3>2. CASE wpc'[v] \in WorkerUnits
        BY <3>2 DEF WorkerOk, WorkerUnits, Executes, Closing
      <3> QED BY <2>5, <3>1, <3>2
    <2> QED BY <2>2, <2>5, <2>6 DEF WorkerInv, PlaceInv, WorkerUnits, Executes, Closing
  <1>25. ASSUME NEW w \in Workers, EnqueueDependent(w) PROVE WorkerInv'
    <2>1. /\ wpc' = [wpc EXCEPT ![w] = "release"] /\ wpc[w] = "enqueueDependent" /\ UNCHANGED <<slotVars, phase, whandle, wsucc>>
          /\ "release" = "idle" => wsucc[w] = << >>
      BY <1>25 DEF EnqueueDependent
    <2>2. ASSUME NEW v \in Workers, v # w PROVE WorkerOk(v)'
      BY <2>1, <2>2, WorkerOkKept DEF WorkerKept, slotVars, PlaceInv, TypeInv, WorkerType
    <2>3. WorkerOk(w)'
      BY <2>1 DEF WorkerOk, Executes, Closing, PlaceInv, TypeInv, WorkerType
    <2> QED BY <2>1, <2>2, <2>3 DEF WorkerInv, PlaceInv, TypeInv, WorkerType, Executes, Closing
  <1>26. ASSUME NEW w \in Workers, CompleteCount(w) PROVE WorkerInv'
    <2>1. /\ wpc' = [wpc EXCEPT ![w] = "idle"] /\ wpc[w] = "release" /\ UNCHANGED <<slotVars, phase, whandle, wsucc>>
          /\ "idle" = "idle" => wsucc[w] = << >>
      BY <1>26 DEF CompleteCount
    <2>2. ASSUME NEW v \in Workers, v # w PROVE WorkerOk(v)'
      BY <2>1, <2>2, WorkerOkKept DEF WorkerKept, slotVars, PlaceInv, TypeInv, WorkerType
    <2>3. WorkerOk(w)'
      BY <2>1 DEF WorkerOk, Executes, Closing, PlaceInv, TypeInv, WorkerType
    <2> QED BY <2>1, <2>2, <2>3 DEF WorkerInv, PlaceInv, TypeInv, WorkerType, Executes, Closing
  <1>27. CASE UNCHANGED vars
    <2>1. UNCHANGED <<generation, state, body, closed, successors, phase, workerVars>>
      BY <1>27 DEF vars, slotVars
    <2>2. ASSUME NEW v \in Workers, wpc[v] \in Executes PROVE WorkerKept(v)
      BY <2>1 DEF WorkerKept, slotVars
    <2> QED BY <2>1, <2>2, WorkerOkKept DEF WorkerInv, PlaceInv
  <1> QED
    BY <1>1, <1>2, <1>3, <1>4, <1>5, <1>6, <1>7, <1>8, <1>9, <1>10, <1>11, <1>12, <1>13,
       <1>14, <1>15, <1>16, <1>17, <1>18, <1>19, <1>20, <1>21, <1>22, <1>23, <1>24, <1>25,
       <1>26, <1>27
    DEF Next, Submits, ClientStep, WorkerStep, AtRest


-----------------------------------------------------------------------------

(* A runnable task stays runnable while its slot is left alone. *)
LEMMA RunnableKept ==
    ASSUME PlaceInv, NEW s \in Slots, state[s] # "Queued",
           \A r \in Slots : r # s => generation'[r] = generation[r] /\ state'[r] = state[r] /\ body'[r] = body[r],
           \A t \in Tasks : Issued(t) => Issued(t)',
           NEW h \in Handle, Runnable(h)
    PROVE  Runnable(h)'
  <1>1. h.slot \in Slots /\ body[h.slot] \in Tasks /\ Issued(body[h.slot]) /\ h.slot # s
    BY RunnableIsTask DEF Runnable
  <1> QED BY <1>1 DEF Runnable, Current, Issued

(* What may run may still run if no slot is reused or changes state.       *)
LEMMA RunnableStays ==
    ASSUME PlaceInv, UNCHANGED <<generation, state, body>>, \A t \in Tasks : Issued(t) => Issued(t)',
           NEW h \in Handle, Runnable(h)
    PROVE  Runnable(h)'
  BY RunnableIsTask DEF Runnable, Current, Issued

(* A step that hands out no task. *)
LEMMA ReadyKept ==
    ASSUME PlaceInv, \A h \in Handle : Runnable(h) => Runnable(h)',
           UNCHANGED <<ready, wdep>>, \A v \in Workers : wpc'[v] = "enqueueDependent" => wpc[v] = "enqueueDependent"
    PROVE  ReadyInv'
  BY DEF PlaceInv, ReadyInv, TypeInv, TaskType, Runnable, Current

(* A task is handed to the scheduler once. *)
LEMMA ReadyInvStep == PlaceInv /\ CountInv /\ [Next]_vars => ReadyInv'
  <1> SUFFICES ASSUME PlaceInv, CountInv, [Next]_vars PROVE ReadyInv'
    OBVIOUS
  <1> USE DEF workerVars, Goto, WGoto
  <1>1. ASSUME NEW c \in Clients, NEW t \in Tasks, NEW deps \in DepSeqs, SubmitCount(c, t, deps) PROVE ReadyInv'
    <2>1. UNCHANGED <<generation, state, body>> /\ UNCHANGED <<ready, wpc, wdep>>
      BY <1>1 DEF SubmitCount, slotVars
    <2>2. UNCHANGED handle
      BY <1>1 DEF SubmitCount
    <2>3. \A h \in Handle : Runnable(h) => Runnable(h)'
      BY <2>1, <2>2, RunnableStays DEF Issued
    <2> QED BY <2>1, <2>3, ReadyKept DEF PlaceInv, TypeInv, WorkerType
  <1>2. ASSUME NEW c \in Clients, NEW s \in Slots, Acquire(c, s) PROVE ReadyInv'
    <2>1. s \in Slots /\ state[s] # "Queued"
      BY <1>2 DEF Acquire, PlaceInv, SlotInv, FreeInv, TypeInv, TaskType
    <2>2. /\ body' = [body EXCEPT ![s] = ctask[c]]
          /\ state' = [state EXCEPT ![s] = "Queued"] \/ state' = [state EXCEPT ![s] = "Waiting"]
          /\ UNCHANGED generation
      BY <1>2 DEF Acquire
    <2>3. UNCHANGED handle
      BY <1>2 DEF Acquire
    <2>4. \A r \in Slots : r # s => generation'[r] = generation[r] /\ state'[r] = state[r] /\ body'[r] = body[r]
      BY <2>1, <2>2 DEF PlaceInv, TypeInv, SlotType
    <2>5. \A h \in Handle : Runnable(h) => Runnable(h)'
      BY <2>1, <2>3, <2>4, RunnableKept DEF Issued
    <2>6. UNCHANGED <<ready, wpc, wdep>>
      BY <1>2 DEF Acquire
    <2> QED BY <2>5, <2>6, ReadyKept DEF PlaceInv, TypeInv, WorkerType
  <1>3. ASSUME NEW c \in Clients, NEW s \in Slots, Reserve(c, s) PROVE ReadyInv'
    <2>1. UNCHANGED <<generation, state, body>> /\ UNCHANGED <<ready, wpc, wdep>>
      BY <1>3 DEF Reserve, slotVars
    <2>2. UNCHANGED handle
      BY <1>3 DEF Reserve
    <2>3. \A h \in Handle : Runnable(h) => Runnable(h)'
      BY <2>1, <2>2, RunnableStays DEF Issued
    <2> QED BY <2>1, <2>3, ReadyKept DEF PlaceInv, TypeInv, WorkerType
  <1>4. ASSUME NEW c \in Clients, Publish(c) PROVE ReadyInv'
    <2> DEFINE s == chandle[c].slot
    <2>1. s \in Slots /\ state[s] # "Queued"
      BY <1>4, ClientHolds DEF Publish, PlaceInv, Registration
    <2>2. /\ body' = [body EXCEPT ![s] = ctask[c]] /\ state' = [state EXCEPT ![s] = "Queued"]
          /\ UNCHANGED generation
      BY <1>4 DEF Publish
    <2>3. UNCHANGED handle
      BY <1>4 DEF Publish
    <2> HIDE DEF s
    <2>4. \A r \in Slots : r # s => generation'[r] = generation[r] /\ state'[r] = state[r] /\ body'[r] = body[r]
      BY <2>1, <2>2 DEF PlaceInv, TypeInv, SlotType
    <2>5. \A h \in Handle : Runnable(h) => Runnable(h)'
      BY <2>1, <2>3, <2>4, RunnableKept DEF Issued
    <2>6. UNCHANGED <<ready, wpc, wdep>>
      BY <1>4 DEF Publish
    <2> QED BY <2>5, <2>6, ReadyKept DEF PlaceInv, TypeInv, WorkerType
  <1>5. ASSUME NEW c \in Clients, ConstructThrows(c) PROVE ReadyInv'
    <2> DEFINE s == chandle[c].slot
    <2>1. s \in Slots /\ state[s] # "Queued"
      BY <1>5, ClientHolds DEF ConstructThrows, PlaceInv, Registration
    <2>2. generation' = [generation EXCEPT ![s] = @ + 1] /\ UNCHANGED <<state, body>>
      BY <1>5 DEF ConstructThrows
    <2>3. UNCHANGED handle
      BY <1>5 DEF ConstructThrows
    <2> HIDE DEF s
    <2>4. \A r \in Slots : r # s => generation'[r] = generation[r] /\ state'[r] = state[r] /\ body'[r] = body[r]
      BY <2>1, <2>2 DEF PlaceInv, TypeInv, SlotType
    <2>5. \A h \in Handle : Runnable(h) => Runnable(h)'
      BY <2>1, <2>3, <2>4, RunnableKept DEF Issued
    <2>6. UNCHANGED <<ready, wpc, wdep>>
      BY <1>5 DEF ConstructThrows
    <2> QED BY <2>5, <2>6, ReadyKept DEF PlaceInv, TypeInv, WorkerType
  <1>6. ASSUME NEW c \in Clients, ConstructThrowsInline(c) PROVE ReadyInv'
    <2>1. UNCHANGED <<generation, state, body>> /\ UNCHANGED <<ready, wpc, wdep>>
      BY <1>6 DEF ConstructThrowsInline, slotVars
    <2>2. UNCHANGED handle
      BY <1>6 DEF ConstructThrowsInline
    <2>3. \A h \in Handle : Runnable(h) => Runnable(h)'
      BY <2>1, <2>2, RunnableStays DEF Issued
    <2> QED BY <2>1, <2>3, ReadyKept DEF PlaceInv, TypeInv, WorkerType
  <1>7. ASSUME NEW c \in Clients, Rethrow(c) PROVE ReadyInv'
    <2>1. UNCHANGED <<generation, state, body>> /\ UNCHANGED <<ready, wpc, wdep>>
      BY <1>7 DEF Rethrow, slotVars
    <2>2. UNCHANGED handle
      BY <1>7 DEF Rethrow
    <2>3. \A h \in Handle : Runnable(h) => Runnable(h)'
      BY <2>1, <2>2, RunnableStays DEF Issued
    <2> QED BY <2>1, <2>3, ReadyKept DEF PlaceInv, TypeInv, WorkerType
  <1>8. ASSUME NEW c \in Clients, Exhausted(c) PROVE ReadyInv'
    <2>1. UNCHANGED <<generation, state, body>> /\ UNCHANGED <<ready, wpc, wdep>>
      BY <1>8 DEF Exhausted, slotVars
    <2>2. UNCHANGED handle
      BY <1>8 DEF Exhausted
    <2>3. \A h \in Handle : Runnable(h) => Runnable(h)'
      BY <2>1, <2>2, RunnableStays DEF Issued
    <2> QED BY <2>1, <2>3, ReadyKept DEF PlaceInv, TypeInv, WorkerType
  <1>9. ASSUME NEW c \in Clients, InlineWait(c) PROVE ReadyInv'
    <2>1. UNCHANGED <<generation, state, body>> /\ UNCHANGED <<ready, wpc, wdep>>
      BY <1>9 DEF InlineWait, slotVars
    <2>2. UNCHANGED handle
      BY <1>9 DEF InlineWait
    <2>3. \A h \in Handle : Runnable(h) => Runnable(h)'
      BY <2>1, <2>2, RunnableStays DEF Issued
    <2> QED BY <2>1, <2>3, ReadyKept DEF PlaceInv, TypeInv, WorkerType
  <1>10. ASSUME NEW c \in Clients, InlineStart(c) PROVE ReadyInv'
    <2>1. UNCHANGED <<generation, state, body>> /\ UNCHANGED <<ready, wpc, wdep>>
      BY <1>10 DEF InlineStart, slotVars
    <2>2. UNCHANGED handle
      BY <1>10 DEF InlineStart
    <2>3. \A h \in Handle : Runnable(h) => Runnable(h)'
      BY <2>1, <2>2, RunnableStays DEF Issued
    <2> QED BY <2>1, <2>3, ReadyKept DEF PlaceInv, TypeInv, WorkerType
  <1>11. ASSUME NEW c \in Clients, InlineFinish(c) PROVE ReadyInv'
    <2>1. UNCHANGED <<generation, state, body>> /\ UNCHANGED <<ready, wpc, wdep>>
      BY <1>11 DEF InlineFinish, slotVars
    <2>2. UNCHANGED handle
      BY <1>11 DEF InlineFinish
    <2>3. \A h \in Handle : Runnable(h) => Runnable(h)'
      BY <2>1, <2>2, RunnableStays DEF Issued
    <2> QED BY <2>1, <2>3, ReadyKept DEF PlaceInv, TypeInv, WorkerType
  <1>12. ASSUME NEW c \in Clients, InlineCount(c) PROVE ReadyInv'
    <2>1. UNCHANGED <<generation, state, body>> /\ UNCHANGED <<ready, wpc, wdep>>
      BY <1>12 DEF InlineCount, slotVars
    <2>2. \A t \in Tasks : Issued(t) => Issued(t)'
      BY <1>12, HandleFacts DEF InlineCount, Issued, PlaceInv, TypeInv, TaskType
    <2>3. \A h \in Handle : Runnable(h) => Runnable(h)'
      BY <2>1, <2>2, RunnableStays DEF Issued
    <2> QED BY <2>1, <2>3, ReadyKept DEF PlaceInv, TypeInv, WorkerType
  <1>13. ASSUME NEW c \in Clients, RegisterLookup(c) PROVE ReadyInv'
    <2>1. UNCHANGED <<generation, state, body>> /\ UNCHANGED <<ready, wpc, wdep>>
      BY <1>13 DEF RegisterLookup, slotVars
    <2>2. UNCHANGED handle
      BY <1>13 DEF RegisterLookup
    <2>3. \A h \in Handle : Runnable(h) => Runnable(h)'
      BY <2>1, <2>2, RunnableStays DEF Issued
    <2> QED BY <2>1, <2>3, ReadyKept DEF PlaceInv, TypeInv, WorkerType
  <1>14. ASSUME NEW c \in Clients, AddSuccessor(c) PROVE ReadyInv'
    <2>1. UNCHANGED <<generation, state, body, handle, ready, wdep, wpc>>
      BY <1>14, AddSuccessorEffect DEF workerVars
    <2> QED BY <2>1, RunnableStays, ReadyKept DEF Issued
  <1>15. ASSUME NEW c \in Clients, PreSatisfied(c) PROVE ReadyInv'
    <2>1. UNCHANGED <<generation, state, body>> /\ UNCHANGED <<ready, wpc, wdep>>
      BY <1>15 DEF PreSatisfied, slotVars
    <2>2. UNCHANGED handle
      BY <1>15 DEF PreSatisfied
    <2>3. \A h \in Handle : Runnable(h) => Runnable(h)'
      BY <2>1, <2>2, RunnableStays DEF Issued
    <2> QED BY <2>1, <2>3, ReadyKept DEF PlaceInv, TypeInv, WorkerType
  <1>16. ASSUME NEW c \in Clients, RemoveGuard(c) PROVE ReadyInv'
    <2> DEFINE s == chandle[c].slot
    <2>1. s \in Slots /\ state[s] # "Queued"
      BY <1>16, ClientHolds DEF RemoveGuard, PlaceInv, Registration
    <2>2. /\ state' = state \/ state' = [state EXCEPT ![s] = "Queued"]
          /\ UNCHANGED <<generation, body>>
      BY <1>16 DEF RemoveGuard
    <2>3. \A t \in Tasks : Issued(t) => Issued(t)'
      <3>1. chandle[c] # Unsubmitted
        BY <1>16, HandleFacts, ClientHolds DEF RemoveGuard, PlaceInv, Registration
      <3>2. handle' = handle \/ handle' = [handle EXCEPT ![ctask[c]] = chandle[c]]
        BY <1>16 DEF RemoveGuard
      <3> QED BY <3>1, <3>2 DEF Issued, PlaceInv, TypeInv, TaskType
    <2> HIDE DEF s
    <2>4. \A r \in Slots : r # s => generation'[r] = generation[r] /\ state'[r] = state[r] /\ body'[r] = body[r]
      BY <2>1, <2>2 DEF PlaceInv, TypeInv, SlotType
    <2>5. \A h \in Handle : Runnable(h) => Runnable(h)'
      BY <2>1, <2>3, <2>4, RunnableKept DEF Issued
    <2>6. UNCHANGED <<ready, wpc, wdep>>
      BY <1>16 DEF RemoveGuard
    <2> QED BY <2>5, <2>6, ReadyKept DEF PlaceInv, TypeInv, WorkerType
  <1>17. ASSUME NEW c \in Clients, Enqueue(c) PROVE ReadyInv'
    <2> DEFINE s == chandle[c].slot
    <2>1. /\ chandle[c] \in Handle /\ s \in Slots /\ Current(chandle[c]) /\ state[s] = "Queued"
          /\ body[s] = ctask[c] /\ ctask[c] \in Tasks /\ ~Issued(ctask[c]) /\ chandle[c] # Unsubmitted
      BY <1>17, HandleFacts, ClientHolds DEF Enqueue, PlaceInv, ClientInv, ClientOk, Current
    <2>2. ~Runnable(chandle[c])
      BY <2>1 DEF Runnable
    <2>3. /\ UNCHANGED <<generation, state, body, wpc, wdep>>
          /\ ready' = ready \cup {chandle[c]} /\ handle' = [handle EXCEPT ![ctask[c]] = chandle[c]]
      BY <1>17 DEF Enqueue, slotVars
    <2>4. \A t \in Tasks : Issued(t) => Issued(t)'
      BY <2>1, <2>3 DEF Issued, PlaceInv, TypeInv, TaskType
    <2>5. \A g \in Handle : Runnable(g) => Runnable(g)'
      BY <2>3, <2>4, RunnableStays
    <2>6. handle'[ctask[c]] # Unsubmitted
      BY <2>1, <2>3 DEF Issued, PlaceInv, TypeInv, TaskType
    <2>7. \A g \in Handle : g = chandle[c] => Runnable(g)'
      BY <2>1, <2>3, <2>6 DEF Runnable, Current, Issued
    <2>8. \A g \in ready : g \in Handle
      BY DEF PlaceInv, TypeInv, TaskType
    <2>9. \A v \in Workers : wpc[v] = "enqueueDependent" => wdep[v] \in Handle /\ Runnable(wdep[v]) /\ wdep[v] \notin ready
      BY DEF PlaceInv, ReadyInv, Runnable, Current
    <2>10. \A g \in ready' : Runnable(g)'
      BY <2>1, <2>3, <2>5, <2>7, <2>8 DEF PlaceInv, ReadyInv
    <2>11. \A v \in Workers : wpc'[v] = "enqueueDependent" => Runnable(wdep[v])' /\ wdep'[v] \notin ready'
      BY <2>2, <2>3, <2>5, <2>9
    <2> QED BY <2>3, <2>10, <2>11 DEF PlaceInv, ReadyInv
  <1>18. ASSUME NEW w \in Workers, NEW h \in ready, Execute(w, h) PROVE ReadyInv'
    <2>1. h \in Handle /\ h.slot \in Slots /\ Current(h) /\ h = HandleOf(h.slot)
      BY <1>18, ExecuteEffect
    <2>2. /\ state' = [state EXCEPT ![h.slot] = "Executing"] /\ ready' = ready \ {h}
          /\ wpc' = [wpc EXCEPT ![w] = "body"] /\ UNCHANGED <<generation, body, handle, wdep>>
      BY <1>18 DEF Execute
    <2>3. ASSUME NEW g \in Handle, Runnable(g), g # h PROVE Runnable(g)'
      <3>1. g = HandleOf(g.slot) /\ g.slot \in Slots
        BY <2>3, HandleFacts DEF PlaceInv, Runnable, Current
      <3>2. g.slot # h.slot
        BY <2>1, <2>3, <3>1
      <3> QED BY <2>2, <2>3, <3>1, <3>2 DEF Runnable, Current, Issued, PlaceInv, TypeInv, SlotType
    <2>4. \A v \in Workers : wpc'[v] = "enqueueDependent" => wpc[v] = "enqueueDependent"
      BY <2>2 DEF PlaceInv, TypeInv, WorkerType
    <2>5. \A g \in ready : g \in Handle /\ Runnable(g)
      BY DEF PlaceInv, ReadyInv, TypeInv, TaskType
    <2>6. \A v \in Workers : wpc[v] = "enqueueDependent" => wdep[v] \in Handle /\ Runnable(wdep[v]) /\ wdep[v] \notin ready
      BY DEF PlaceInv, ReadyInv, Runnable, Current
    <2>7. \A g \in ready' : Runnable(g)'
      BY <2>2, <2>3, <2>5
    <2>8. \A v \in Workers : wpc'[v] = "enqueueDependent" => Runnable(wdep[v])' /\ wdep'[v] \notin ready'
      <3> SUFFICES ASSUME NEW v \in Workers, wpc[v] = "enqueueDependent" PROVE Runnable(wdep[v])' /\ wdep'[v] \notin ready'
        BY <2>4
      <3>1. \A g \in Handle : g = wdep[v] => Runnable(g)'
        BY <2>3, <2>6
      <3>2. Runnable(wdep[v])'
        BY <2>2, <2>6, <3>1 DEF Runnable, Current
      <3> QED BY <2>2, <2>6, <3>2
    <2> QED BY <2>2, <2>4, <2>7, <2>8 DEF PlaceInv, ReadyInv
  <1>19. ASSUME NEW w \in Workers, BodyReturn(w) PROVE ReadyInv'
    <2>1. UNCHANGED <<generation, state, body>> /\ wpc' = [wpc EXCEPT ![w] = "take"] /\ UNCHANGED <<ready, wdep>>
      BY <1>19 DEF BodyReturn, slotVars
    <2>2. UNCHANGED handle
      BY <1>19 DEF BodyReturn
    <2>3. \A h \in Handle : Runnable(h) => Runnable(h)'
      BY <2>1, <2>2, RunnableStays DEF Issued
    <2> QED BY <2>1, <2>3, ReadyKept DEF PlaceInv, TypeInv, WorkerType
  <1>20. ASSUME NEW w \in Workers, TakeSuccessors(w) PROVE ReadyInv'
    <2>1. UNCHANGED <<generation, state, body>> /\ wpc' = [wpc EXCEPT ![w] = "storeCompleted"] /\ UNCHANGED <<ready, wdep>>
      BY <1>20 DEF TakeSuccessors, slotVars
    <2>2. UNCHANGED handle
      BY <1>20 DEF TakeSuccessors
    <2>3. \A h \in Handle : Runnable(h) => Runnable(h)'
      BY <2>1, <2>2, RunnableStays DEF Issued
    <2> QED BY <2>1, <2>3, ReadyKept DEF PlaceInv, TypeInv, WorkerType
  <1>21. ASSUME NEW w \in Workers, StoreCompleted(w) PROVE ReadyInv'
    <2> DEFINE s == whandle[w].slot
    <2>1. s \in Slots /\ state[s] # "Queued"
      BY <1>21, ExecutedSlots DEF StoreCompleted, Executes, Closing
    <2>2. state' = [state EXCEPT ![s] = "Completed"] /\ UNCHANGED <<generation, body>>
      BY <1>21 DEF StoreCompleted
    <2>3. UNCHANGED handle
      BY <1>21 DEF StoreCompleted
    <2> HIDE DEF s
    <2>4. \A r \in Slots : r # s => generation'[r] = generation[r] /\ state'[r] = state[r] /\ body'[r] = body[r]
      BY <2>1, <2>2 DEF PlaceInv, TypeInv, SlotType
    <2>5. \A h \in Handle : Runnable(h) => Runnable(h)'
      BY <2>1, <2>3, <2>4, RunnableKept DEF Issued
    <2>6. wpc' = [wpc EXCEPT ![w] = "bumpGeneration"] /\ UNCHANGED <<ready, wdep>>
      BY <1>21 DEF StoreCompleted
    <2> QED BY <2>5, <2>6, ReadyKept DEF PlaceInv, TypeInv, WorkerType
  <1>22. ASSUME NEW w \in Workers, BumpGeneration(w) PROVE ReadyInv'
    <2> DEFINE s == whandle[w].slot
    <2>1. s \in Slots /\ state[s] # "Queued"
      BY <1>22, ExecutedSlots DEF BumpGeneration, Executes, Closing
    <2>2. generation' = [generation EXCEPT ![s] = @ + 1] /\ UNCHANGED <<state, body>>
      BY <1>22 DEF BumpGeneration
    <2>3. UNCHANGED handle
      BY <1>22 DEF BumpGeneration
    <2> HIDE DEF s
    <2>4. \A r \in Slots : r # s => generation'[r] = generation[r] /\ state'[r] = state[r] /\ body'[r] = body[r]
      BY <2>1, <2>2 DEF PlaceInv, TypeInv, SlotType
    <2>5. \A h \in Handle : Runnable(h) => Runnable(h)'
      BY <2>1, <2>3, <2>4, RunnableKept DEF Issued
    <2>6. wpc' = [wpc EXCEPT ![w] = "freeSlot"] /\ UNCHANGED <<ready, wdep>>
      BY <1>22 DEF BumpGeneration
    <2> QED BY <2>5, <2>6, ReadyKept DEF PlaceInv, TypeInv, WorkerType
  <1>23. ASSUME NEW w \in Workers, FreeSlot(w) PROVE ReadyInv'
    <2> DEFINE s == whandle[w].slot
    <2>1. s \in Slots /\ state[s] # "Queued"
      BY <1>23, ExecutedSlots DEF FreeSlot, Executes, Closing
    <2>2. /\ state' = [state EXCEPT ![s] = "Free"] /\ body' = [body EXCEPT ![s] = NoTask]
          /\ UNCHANGED generation
      BY <1>23 DEF FreeSlot
    <2>3. UNCHANGED handle
      BY <1>23 DEF FreeSlot
    <2> HIDE DEF s
    <2>4. \A r \in Slots : r # s => generation'[r] = generation[r] /\ state'[r] = state[r] /\ body'[r] = body[r]
      BY <2>1, <2>2 DEF PlaceInv, TypeInv, SlotType
    <2>5. \A h \in Handle : Runnable(h) => Runnable(h)'
      BY <2>1, <2>3, <2>4, RunnableKept DEF Issued
    <2>6. wpc' = [wpc EXCEPT ![w] = "release"] /\ UNCHANGED <<ready, wdep>>
      BY <1>23 DEF FreeSlot
    <2> QED BY <2>5, <2>6, ReadyKept DEF PlaceInv, TypeInv, WorkerType
  <1>24. ASSUME NEW w \in Workers, ReleaseDependent(w) PROVE ReadyInv'
    <2>1. PICK s \in Slots : Releases(w, s)
      BY <1>24, ReleaseEffect
    <2>2. UNCHANGED <<generation, body, handle, ready>> /\ wpc[w] = "release" /\ wsucc[w] # << >>
      BY <1>24, ReleaseEffect
    <2>3. CASE pending[s] # 1
      <3>1. UNCHANGED <<state, wdep, wpc>>
        BY <2>1, <2>3 DEF Releases
      <3> QED BY <2>2, <3>1, RunnableStays, ReadyKept DEF Issued
    <2>4. CASE pending[s] = 1
      <3> DEFINE d == Head(wsucc[w])
      <3>1. /\ state' = [state EXCEPT ![s] = "Queued"] /\ state[s] = "Waiting"
            /\ wdep' = [wdep EXCEPT ![w] = d] /\ wpc' = [wpc EXCEPT ![w] = "enqueueDependent"]
            /\ d \in Handle /\ Current(d) /\ d.slot = s
        BY <2>1, <2>4 DEF Releases
      <3>2. body[s] # NoTask /\ \A c \in Clients : ~HasSlot(c, s)
        BY <2>1, <2>2, <2>4, <3>1, LastIsAlone DEF PlaceInv, SlotInv, FreeInv
      <3>3. Issued(body[s])
        BY <3>2 DEF PlaceInv, SlotInv, HolderInv
      <3> HIDE DEF d
      <3>4. state' = [r \in Slots |-> IF r = s THEN "Queued" ELSE state[r]]
        BY <3>1 DEF PlaceInv, TypeInv, SlotType
      <3>5. \A h \in Handle : Runnable(h) => Runnable(h)' /\ h # d
        <4>1. \A h \in Handle : Runnable(h) => h.slot \in Slots /\ h.slot # s /\ h # d
          BY <3>1, RunnableIsTask DEF Runnable
        <4> QED BY <2>2, <3>4, <4>1 DEF Runnable, Current, Issued
      <3>6. \A v \in Workers : wpc[v] = "enqueueDependent" => v # w /\ wdep[v] \in Handle /\ Runnable(wdep[v]) /\ wdep[v] \notin ready
        BY <2>2 DEF PlaceInv, ReadyInv, Runnable, Current
      <3>7. /\ wdep'[w] = d /\ wpc'[w] = "enqueueDependent"
            /\ \A v \in Workers : v # w => wdep'[v] = wdep[v] /\ wpc'[v] = wpc[v]
        BY <3>1 DEF PlaceInv, TypeInv, WorkerType
      <3>8. Runnable(wdep[w])' /\ wdep'[w] \notin ready'
        <4>1. Runnable(wdep[w])'
          BY <2>2, <3>1, <3>3, <3>4, <3>7 DEF Runnable, Current, Issued
        <4>2. d \notin ready
          BY <3>1 DEF PlaceInv, ReadyInv, Runnable
        <4> QED BY <2>2, <3>7, <4>1, <4>2
      <3>9. \A v \in Workers : v # w /\ wpc'[v] = "enqueueDependent" => Runnable(wdep[v])' /\ wdep'[v] \notin ready' /\ wdep'[v] # d
        <4> SUFFICES ASSUME NEW v \in Workers, v # w, wpc'[v] = "enqueueDependent"
                     PROVE  Runnable(wdep[v])' /\ wdep'[v] \notin ready' /\ wdep'[v] # d
          OBVIOUS
        <4>1. wdep'[v] = wdep[v] /\ wdep[v] \in Handle /\ Runnable(wdep[v]) /\ wdep[v] \notin ready
          BY <3>6, <3>7
        <4>2. \A h \in Handle : h = wdep[v] => Runnable(h)' /\ h # d
          BY <3>5, <4>1
        <4>3. Runnable(wdep[v])'
          BY <4>1, <4>2 DEF Runnable, Current
        <4> QED BY <2>2, <4>1, <4>2, <4>3
      <3>10. \A h \in ready' : Runnable(h)'
        BY <2>2, <3>5 DEF PlaceInv, ReadyInv, TypeInv, TaskType
      <3> QED BY <3>6, <3>7, <3>8, <3>9, <3>10 DEF PlaceInv, ReadyInv
    <2> QED BY <2>3, <2>4
  <1>25. ASSUME NEW w \in Workers, EnqueueDependent(w) PROVE ReadyInv'
    <2>1. /\ wpc[w] = "enqueueDependent" /\ ready' = ready \cup {wdep[w]} /\ wpc' = [wpc EXCEPT ![w] = "release"]
          /\ UNCHANGED <<generation, state, body, handle, wdep>>
      BY <1>25 DEF EnqueueDependent, slotVars
    <2>2. \A h : Runnable(h) => Runnable(h)'
      BY <2>1 DEF Runnable, Current, Issued
    <2>3. \A v \in Workers : wpc'[v] = "enqueueDependent" => wpc[v] = "enqueueDependent" /\ v # w
      BY <2>1 DEF PlaceInv, TypeInv, WorkerType
    <2>4. \A h \in ready' : Runnable(h)'
      BY <2>1, <2>2 DEF PlaceInv, ReadyInv
    <2>5. \A v \in Workers : wpc'[v] = "enqueueDependent" => Runnable(wdep[v])' /\ wdep'[v] \notin ready'
      BY <2>1, <2>2, <2>3 DEF PlaceInv, ReadyInv, Runnable, Current, Issued
    <2> QED BY <2>1, <2>3, <2>4, <2>5 DEF PlaceInv, ReadyInv
  <1>26. ASSUME NEW w \in Workers, CompleteCount(w) PROVE ReadyInv'
    <2>1. UNCHANGED <<generation, state, body>> /\ wpc' = [wpc EXCEPT ![w] = "idle"] /\ UNCHANGED <<ready, wdep>>
      BY <1>26 DEF CompleteCount, slotVars
    <2>2. UNCHANGED handle
      BY <1>26 DEF CompleteCount
    <2>3. \A h \in Handle : Runnable(h) => Runnable(h)'
      BY <2>1, <2>2, RunnableStays DEF Issued
    <2> QED BY <2>1, <2>3, ReadyKept DEF PlaceInv, TypeInv, WorkerType
  <1>27. CASE UNCHANGED vars
    <2>1. UNCHANGED <<generation, state, body>> /\ UNCHANGED <<ready, wpc, wdep>>
      BY <1>27 DEF vars, slotVars, clientVars, slotVars
    <2>2. UNCHANGED handle
      BY <1>27 DEF vars, slotVars, clientVars
    <2>3. \A h \in Handle : Runnable(h) => Runnable(h)'
      BY <2>1, <2>2, RunnableStays DEF Issued
    <2> QED BY <2>1, <2>3, ReadyKept DEF PlaceInv, TypeInv, WorkerType
  <1> QED
    BY <1>1, <1>2, <1>3, <1>4, <1>5, <1>6, <1>7, <1>8, <1>9, <1>10, <1>11, <1>12, <1>13,
       <1>14, <1>15, <1>16, <1>17, <1>18, <1>19, <1>20, <1>21, <1>22, <1>23, <1>24, <1>25,
       <1>26, <1>27
    DEF Next, Submits, ClientStep, WorkerStep, AtRest


-----------------------------------------------------------------------------

(* A task that runs inline is in no slot. *)
LEMMA InlineHasNoSlot ==
    ASSUME PlaceInv, NEW c \in Clients, cpc[c] \in Inline
    PROVE  ctask[c] \in Tasks /\ \A s \in Slots : body[s] # ctask[c]
  <1>1. ctask[c] \in Tasks /\ ~Issued(ctask[c]) /\ cpc[c] # "idle"
    BY DEF PlaceInv, ClientInv, ClientOk, Inline
  <1>2. ASSUME NEW s \in Slots, body[s] = ctask[c] PROVE FALSE
    <2>1. PICK e \in Clients : HasSlot(e, s)
      BY <1>1, <1>2, NoneAssumption DEF PlaceInv, SlotInv, HolderInv
    <2>2. body[s] = ctask[e] /\ cpc[e] # "idle" /\ cpc[e] \notin Inline
      BY <2>1, ClientHolds DEF PlaceInv, HasSlot, Holds, Registration, Inline
    <2> QED BY <1>1, <1>2, <2>2 DEF PlaceInv, ClientInv
  <1> QED BY <1>1, <1>2

(* A slot in use holds a task. *)
LEMMA SlotsTask ==
    ASSUME PlaceInv, NEW s \in Slots, state[s] # "Free"
    PROVE  body[s] \in Tasks
  BY DEF PlaceInv, SlotInv, FreeInv, TypeInv, SlotType

(* The state of a slot agrees with what happened to its task. *)
LEMMA SlotPhaseStep == PlaceInv /\ [Next]_vars => SlotPhase'
  <1> SUFFICES ASSUME PlaceInv, [Next]_vars PROVE SlotPhase'
    OBVIOUS
  <1> USE DEF PlaceInv, SlotInv, PhaseInv, SlotPhase, TypeInv, SlotType, TaskType, Finished, Goto, WGoto
  <1>1. ASSUME NEW c \in Clients, NEW t \in Tasks, NEW deps \in DepSeqs, SubmitCount(c, t, deps) PROVE SlotPhase'
    BY <1>1 DEF SubmitCount, slotVars
  <1>2. ASSUME NEW c \in Clients, NEW s \in Slots, Acquire(c, s) PROVE SlotPhase'
    <2>1. ctask[c] \in Tasks /\ phase[ctask[c]] = "none"
      BY <1>2 DEF Acquire, ClientInv, ClientOk
    <2>2. \A r \in Slots : body[r] # ctask[c]
      BY <2>1, NewHasNoSlot
    <2>3. /\ body' = [body EXCEPT ![s] = ctask[c]] /\ closed' = [closed EXCEPT ![s] = FALSE]
          /\ state' = [state EXCEPT ![s] = "Queued"] \/ state' = [state EXCEPT ![s] = "Waiting"]
      BY <1>2 DEF Acquire, slotVars
    <2>4. phase' = [phase EXCEPT ![ctask[c]] = "submitted"]
      BY <1>2 DEF Acquire, Accepted
    <2>5. \A r \in Slots : r # s => state'[r] = state[r] /\ body'[r] = body[r] /\ closed'[r] = closed[r]
      BY <2>3 DEF TypeInv, SlotType
    <2>6. body'[s] = ctask[c] /\ state'[s] \in {"Queued", "Waiting"} /\ ~closed'[s]
      BY <2>3 DEF TypeInv, SlotType
    <2>7. ASSUME NEW r \in Slots, r # s PROVE phase'[body[r]] = phase[body[r]]
      BY <2>2, <2>4
    <2>8. phase'[body'[s]] = "submitted"
      BY <2>1, <2>4, <2>6
    <2>9. SlotPhase
      OBVIOUS
    <2> HIDE DEF TypeInv, SlotType, TaskType, PlaceInv, SlotInv, PhaseInv
    <2>10. ASSUME NEW r \in Slots, r # s
          PROVE  /\ state'[r] \in {"Waiting", "Queued"} => phase'[body'[r]] = "submitted"
                 /\ state'[r] = "Executing" => phase'[body'[r]] \in {"running", "finished"}
                 /\ state'[r] = "Completed" => phase'[body'[r]] = "finished"
                 /\ state'[r] # "Free" /\ closed'[r] => phase'[body'[r]] = "finished"
      BY <2>5, <2>7, <2>9, <2>10
    <2> QED BY <2>6, <2>8, <2>10
  <1>3. ASSUME NEW c \in Clients, NEW s \in Slots, Reserve(c, s) PROVE SlotPhase'
    BY <1>3 DEF Reserve, FreeInv
  <1>4. ASSUME NEW c \in Clients, Publish(c) PROVE SlotPhase'
    <2> DEFINE s == chandle[c].slot
    <2>1. ctask[c] \in Tasks /\ phase[ctask[c]] = "none" /\ s \in Slots /\ ~closed[s]
      BY <1>4, ClientHolds DEF Publish, ClientInv, ClientOk
    <2>2. \A r \in Slots : body[r] # ctask[c]
      BY <2>1, NewHasNoSlot
    <2>3. /\ body' = [body EXCEPT ![s] = ctask[c]] /\ UNCHANGED closed
          /\ state' = [state EXCEPT ![s] = "Queued"]
      BY <1>4 DEF Publish, slotVars
    <2>4. phase' = [phase EXCEPT ![ctask[c]] = "submitted"]
      BY <1>4 DEF Publish, Accepted
    <2> HIDE DEF s
    <2> QED BY <2>1, <2>2, <2>3, <2>4, SlotsTask
  <1>5. ASSUME NEW c \in Clients, ConstructThrows(c) PROVE SlotPhase'
    <2> DEFINE s == chandle[c].slot
    <2>1. s \in Slots /\ state[s] = "Free"
      BY <1>5, ClientHolds DEF ConstructThrows
    <2> QED BY <1>5, <2>1 DEF ConstructThrows
  <1>6. ASSUME NEW c \in Clients, ConstructThrowsInline(c) PROVE SlotPhase'
    BY <1>6 DEF ConstructThrowsInline, slotVars
  <1>7. ASSUME NEW c \in Clients, Rethrow(c) PROVE SlotPhase'
    BY <1>7 DEF Rethrow, slotVars
  <1>8. ASSUME NEW c \in Clients, Exhausted(c) PROVE SlotPhase'
    <2>1. ctask[c] \in Tasks /\ phase[ctask[c]] = "none"
      BY <1>8 DEF Exhausted, ClientInv, ClientOk
    <2>2. \A r \in Slots : body[r] # ctask[c]
      BY <2>1, NewHasNoSlot
    <2>3. UNCHANGED <<body, closed, state>>
      BY <1>8 DEF Exhausted, slotVars
    <2>4. phase' = [phase EXCEPT ![ctask[c]] = "submitted"]
      BY <1>8 DEF Exhausted, Accepted
    <2> QED BY <2>1, <2>2, <2>3, <2>4, SlotsTask
  <1>9. ASSUME NEW c \in Clients, InlineWait(c) PROVE SlotPhase'
    BY <1>9 DEF InlineWait, slotVars
  <1>10. ASSUME NEW c \in Clients, InlineStart(c) PROVE SlotPhase'
    <2>1. ctask[c] \in Tasks /\ \A r \in Slots : body[r] # ctask[c]
      BY <1>10, InlineHasNoSlot DEF InlineStart, Inline
    <2> QED BY <1>10, <2>1 DEF InlineStart, slotVars
  <1>11. ASSUME NEW c \in Clients, InlineFinish(c) PROVE SlotPhase'
    <2>1. ctask[c] \in Tasks /\ \A r \in Slots : body[r] # ctask[c]
      BY <1>11, InlineHasNoSlot DEF InlineFinish, Inline
    <2> QED BY <1>11, <2>1 DEF InlineFinish, slotVars
  <1>12. ASSUME NEW c \in Clients, InlineCount(c) PROVE SlotPhase'
    BY <1>12 DEF InlineCount, slotVars
  <1>13. ASSUME NEW c \in Clients, RegisterLookup(c) PROVE SlotPhase'
    BY <1>13 DEF RegisterLookup, slotVars
  <1>14. ASSUME NEW c \in Clients, AddSuccessor(c) PROVE SlotPhase'
    <2>1. UNCHANGED <<state, body, closed, phase>>
      BY <1>14, AddSuccessorEffect
    <2> QED BY <2>1
  <1>15. ASSUME NEW c \in Clients, PreSatisfied(c) PROVE SlotPhase'
    BY <1>15 DEF PreSatisfied, slotVars
  <1>16. ASSUME NEW c \in Clients, RemoveGuard(c) PROVE SlotPhase'
    <2> DEFINE s == chandle[c].slot
    <2>1. s \in Slots /\ state[s] = "Waiting"
      BY <1>16, ClientHolds DEF RemoveGuard, Registration
    <2>2. /\ UNCHANGED <<body, closed, phase>>
          /\ state' = state \/ state' = [state EXCEPT ![s] = "Queued"]
      BY <1>16 DEF RemoveGuard
    <2> QED BY <2>1, <2>2
  <1>17. ASSUME NEW c \in Clients, Enqueue(c) PROVE SlotPhase'
    BY <1>17 DEF Enqueue, slotVars
  <1>18. ASSUME NEW w \in Workers, NEW h \in ready, Execute(w, h) PROVE SlotPhase'
    <2>1. /\ h.slot \in Slots /\ body[h.slot] \in Tasks
          /\ state' = [state EXCEPT ![h.slot] = "Executing"] /\ phase' = [phase EXCEPT ![body[h.slot]] = "running"]
          /\ phase[body[h.slot]] = "submitted" /\ state[h.slot] = "Queued"
          /\ UNCHANGED <<body, closed>>
      BY <1>18, ExecuteEffect DEF Execute
    <2>2. \A r \in Slots : r # h.slot => body[r] # body[h.slot]
      BY <2>1, NoneAssumption DEF SlotInv, OwnInv
    <2> QED BY <2>1, <2>2
  <1>19. ASSUME NEW w \in Workers, BodyReturn(w) PROVE SlotPhase'
    <2> DEFINE s == whandle[w].slot
    <2>1. /\ s \in Slots /\ body[s] \in Tasks /\ wpc[w] \in Executes
          /\ state[s] \in {"Executing", "Completed"}
          /\ \A r \in Slots : r # s => body[r] # body[s]
      BY <1>19, ExecutedSlots DEF BodyReturn, Executes, Closing
    <2>2. wpc[w] # "body" => Finished(body[s])
      BY <1>19, <2>1 DEF WorkerInv, WorkerOk
    <2> QED BY <1>19, <2>1, <2>2 DEF BodyReturn, slotVars
  <1>20. ASSUME NEW w \in Workers, TakeSuccessors(w) PROVE SlotPhase'
    <2> DEFINE s == whandle[w].slot
    <2>1. /\ s \in Slots /\ body[s] \in Tasks /\ wpc[w] \in Executes
          /\ state[s] \in {"Executing", "Completed"}
          /\ \A r \in Slots : r # s => body[r] # body[s]
      BY <1>20, ExecutedSlots DEF TakeSuccessors, Executes, Closing
    <2>2. wpc[w] # "body" => Finished(body[s])
      BY <1>20, <2>1 DEF WorkerInv, WorkerOk
    <2> QED BY <1>20, <2>1, <2>2 DEF TakeSuccessors, slotVars
  <1>21. ASSUME NEW w \in Workers, StoreCompleted(w) PROVE SlotPhase'
    <2> DEFINE s == whandle[w].slot
    <2>1. /\ s \in Slots /\ body[s] \in Tasks /\ wpc[w] \in Executes
          /\ state[s] \in {"Executing", "Completed"}
          /\ \A r \in Slots : r # s => body[r] # body[s]
      BY <1>21, ExecutedSlots DEF StoreCompleted, Executes, Closing
    <2>2. wpc[w] # "body" => Finished(body[s])
      BY <1>21, <2>1 DEF WorkerInv, WorkerOk
    <2> QED BY <1>21, <2>1, <2>2 DEF StoreCompleted, slotVars
  <1>22. ASSUME NEW w \in Workers, BumpGeneration(w) PROVE SlotPhase'
    BY <1>22 DEF BumpGeneration, slotVars
  <1>23. ASSUME NEW w \in Workers, FreeSlot(w) PROVE SlotPhase'
    <2> DEFINE s == whandle[w].slot
    <2>1. /\ s \in Slots /\ body[s] \in Tasks /\ wpc[w] \in Executes
          /\ state[s] \in {"Executing", "Completed"}
          /\ \A r \in Slots : r # s => body[r] # body[s]
      BY <1>23, ExecutedSlots DEF FreeSlot, Executes, Closing
    <2>2. wpc[w] # "body" => Finished(body[s])
      BY <1>23, <2>1 DEF WorkerInv, WorkerOk
    <2> QED BY <1>23, <2>1, <2>2 DEF FreeSlot, slotVars
  <1>24. ASSUME NEW w \in Workers, ReleaseDependent(w) PROVE SlotPhase'
    <2>1. PICK s \in Slots : Releases(w, s)
      BY <1>24, ReleaseEffect
    <2>2. UNCHANGED <<body, closed, phase>>
      BY <1>24, ReleaseEffect
    <2>3. /\ state' = state \/ state' = [state EXCEPT ![s] = "Queued"]
          /\ state[s] = "Waiting"
      BY <2>1 DEF Releases
    <2> QED BY <2>2, <2>3
  <1>25. ASSUME NEW w \in Workers, EnqueueDependent(w) PROVE SlotPhase'
    BY <1>25 DEF EnqueueDependent, slotVars
  <1>26. ASSUME NEW w \in Workers, CompleteCount(w) PROVE SlotPhase'
    BY <1>26 DEF CompleteCount, slotVars
  <1>27. CASE UNCHANGED vars
    BY <1>27 DEF vars, slotVars
  <1> QED
    BY <1>1, <1>2, <1>3, <1>4, <1>5, <1>6, <1>7, <1>8, <1>9, <1>10, <1>11, <1>12, <1>13,
       <1>14, <1>15, <1>16, <1>17, <1>18, <1>19, <1>20, <1>21, <1>22, <1>23, <1>24, <1>25,
       <1>26, <1>27
    DEF Next, Submits, ClientStep, WorkerStep, AtRest



(* A step after which every task that is on its way still has a place.     *)
LEMMA TaskHomeKept ==
    ASSUME PlaceInv,
           \A t \in Tasks : phase'[t] \in {"submitted", "running"} =>
               \/ phase[t] \in {"submitted", "running"}
               \/ \E s \in Slots : body'[s] = t
               \/ \E c \in Clients : cpc'[c] \in Inline /\ ctask'[c] = t,
           \A s \in Slots : body[s] \in Tasks /\ phase'[body[s]] \in {"submitted", "running"} => body'[s] = body[s],
           \A c \in Clients :
               cpc[c] \in Inline /\ phase'[ctask[c]] \in {"submitted", "running"} => cpc'[c] \in Inline /\ ctask'[c] = ctask[c]
    PROVE  TaskHome'
  <1> SUFFICES ASSUME NEW t \in Tasks, phase'[t] \in {"submitted", "running"}
               PROVE  (\E s \in Slots : body'[s] = t) \/ (\E c \in Clients : cpc'[c] \in Inline /\ ctask'[c] = t)
    BY DEF TaskHome, InlineBy, Inline
  <1> SUFFICES ASSUME phase[t] \in {"submitted", "running"}
               PROVE  (\E s \in Slots : body'[s] = t) \/ (\E c \in Clients : cpc'[c] \in Inline /\ ctask'[c] = t)
    OBVIOUS
  <1>1. (\E s \in Slots : body[s] = t) \/ (\E c \in Clients : cpc[c] \in Inline /\ ctask[c] = t)
    BY DEF PlaceInv, PhaseInv, TaskHome, InlineBy
  <1> QED BY <1>1

(* A task on its way is in a slot or runs inline. *)
LEMMA TaskHomeStep == PlaceInv /\ [Next]_vars => TaskHome'
  <1> SUFFICES ASSUME PlaceInv, [Next]_vars PROVE TaskHome'
    OBVIOUS
  <1> USE DEF PlaceInv, PhaseInv, TypeInv, SlotType, TaskType, ClientType, Finished, clientVars, Goto, WGoto, Inline
  <1>1. ASSUME NEW c \in Clients, NEW t \in Tasks, NEW deps \in DepSeqs, SubmitCount(c, t, deps) PROVE TaskHome'
    BY <1>1, TaskHomeKept DEF SubmitCount, slotVars
  <1>2. ASSUME NEW c \in Clients, NEW s \in Slots, Acquire(c, s) PROVE TaskHome'
    <2>1. /\ s \in Slots /\ body[s] = NoTask /\ cpc[c] \notin Inline
          /\ body' = [body EXCEPT ![s] = ctask[c]]
          /\ phase' = [phase EXCEPT ![ctask[c]] = "submitted"]
          /\ cpc'[c] \notin Inline /\ (\A e \in Clients : e # c => cpc'[e] = cpc[e]) /\ UNCHANGED ctask
      BY <1>2, ClientHolds DEF Acquire, Accepted, FreeInv, SlotInv, TaskType, Inline
    <2> HIDE DEF Inline
    <2>2. \A t \in Tasks : t = ctask[c] \/ phase'[t] = phase[t]
      BY <2>1
    <2>3. body'[s] = ctask[c] /\ \A r \in Slots : r # s => body'[r] = body[r]
      BY <2>1
    <2> QED BY <2>1, <2>2, <2>3, NoneAssumption, TaskHomeKept
  <1>3. ASSUME NEW c \in Clients, NEW s \in Slots, Reserve(c, s) PROVE TaskHome'
    BY <1>3, TaskHomeKept DEF Reserve, slotVars
  <1>4. ASSUME NEW c \in Clients, Publish(c) PROVE TaskHome'
    <2> DEFINE s == chandle[c].slot
    <2>1. /\ s \in Slots /\ body[s] = NoTask /\ cpc[c] \notin Inline
          /\ body' = [body EXCEPT ![s] = ctask[c]]
          /\ phase' = [phase EXCEPT ![ctask[c]] = "submitted"]
          /\ cpc'[c] \notin Inline /\ (\A e \in Clients : e # c => cpc'[e] = cpc[e]) /\ UNCHANGED ctask
      BY <1>4, ClientHolds DEF Publish, Accepted, SlotInv, Inline
    <2> HIDE DEF s, Inline
    <2>2. \A t \in Tasks : t = ctask[c] \/ phase'[t] = phase[t]
      BY <2>1
    <2>3. body'[s] = ctask[c] /\ \A r \in Slots : r # s => body'[r] = body[r]
      BY <2>1
    <2> QED BY <2>1, <2>2, <2>3, NoneAssumption, TaskHomeKept
  <1>5. ASSUME NEW c \in Clients, ConstructThrows(c) PROVE TaskHome'
    BY <1>5, TaskHomeKept DEF ConstructThrows, slotVars
  <1>6. ASSUME NEW c \in Clients, ConstructThrowsInline(c) PROVE TaskHome'
    BY <1>6, TaskHomeKept DEF ConstructThrowsInline, slotVars
  <1>7. ASSUME NEW c \in Clients, Rethrow(c) PROVE TaskHome'
    BY <1>7, TaskHomeKept DEF Rethrow, slotVars
  <1>8. ASSUME NEW c \in Clients, Exhausted(c) PROVE TaskHome'
    <2>1. /\ ctask[c] \in Tasks /\ cpc[c] \notin Inline /\ UNCHANGED <<body, ctask>>
          /\ phase' = [phase EXCEPT ![ctask[c]] = "submitted"]
          /\ cpc' = [cpc EXCEPT ![c] = "inlineWait"]
      BY <1>8 DEF Exhausted, Accepted, ClientInv, ClientOk, Inline, slotVars
    <2>2. cpc'[c] \in Inline /\ \A e \in Clients : cpc[e] \in Inline => cpc'[e] \in Inline
      BY <2>1 DEF Inline
    <2> HIDE DEF Inline
    <2>3. \A t \in Tasks : t = ctask[c] \/ phase'[t] = phase[t]
      BY <2>1
    <2> QED BY <2>1, <2>2, <2>3, TaskHomeKept
  <1>9. ASSUME NEW c \in Clients, InlineWait(c) PROVE TaskHome'
    BY <1>9, TaskHomeKept DEF InlineWait, slotVars
  <1>10. ASSUME NEW c \in Clients, InlineStart(c) PROVE TaskHome'
    <2>1. /\ ctask[c] \in Tasks /\ UNCHANGED <<body, ctask>> /\ cpc' = [cpc EXCEPT ![c] = "inline"]
          /\ phase' = [phase EXCEPT ![ctask[c]] = "running"] /\ phase[ctask[c]] = "submitted"
      BY <1>10 DEF InlineStart, ClientInv, ClientOk, slotVars, Registration
    <2> QED BY <2>1, TaskHomeKept
  <1>11. ASSUME NEW c \in Clients, InlineFinish(c) PROVE TaskHome'
    <2>1. /\ ctask[c] \in Tasks /\ UNCHANGED <<body, ctask>> /\ cpc' = [cpc EXCEPT ![c] = "inlineCount"]
          /\ phase' = [phase EXCEPT ![ctask[c]] = "finished"]
      BY <1>11 DEF InlineFinish, ClientInv, ClientOk, slotVars, Registration
    <2> QED BY <2>1, TaskHomeKept
  <1>12. ASSUME NEW c \in Clients, InlineCount(c) PROVE TaskHome'
    <2>1. /\ ctask[c] \in Tasks /\ UNCHANGED <<body, ctask>> /\ cpc' = [cpc EXCEPT ![c] = "idle"]
          /\ UNCHANGED phase /\ phase[ctask[c]] = "finished"
      BY <1>12 DEF InlineCount, ClientInv, ClientOk, slotVars, Registration
    <2> QED BY <2>1, TaskHomeKept
  <1>13. ASSUME NEW c \in Clients, RegisterLookup(c) PROVE TaskHome'
    BY <1>13, TaskHomeKept DEF RegisterLookup, slotVars
  <1>14. ASSUME NEW c \in Clients, AddSuccessor(c) PROVE TaskHome'
    <2>1. UNCHANGED <<body, phase, ctask>> /\ cpc[c] = "addSuccessor"
      BY <1>14, AddSuccessorEffect
    <2>2. \A e \in Clients : cpc[e] \in Inline => cpc'[e] = cpc[e]
      BY <1>14, <2>1, AddSuccessorEffect DEF AddsEdge, FindsFinished
    <2> QED BY <2>1, <2>2, TaskHomeKept
  <1>15. ASSUME NEW c \in Clients, PreSatisfied(c) PROVE TaskHome'
    BY <1>15, TaskHomeKept DEF PreSatisfied, slotVars
  <1>16. ASSUME NEW c \in Clients, RemoveGuard(c) PROVE TaskHome'
    BY <1>16, TaskHomeKept DEF RemoveGuard, slotVars
  <1>17. ASSUME NEW c \in Clients, Enqueue(c) PROVE TaskHome'
    BY <1>17, TaskHomeKept DEF Enqueue, slotVars
  <1>18. ASSUME NEW w \in Workers, NEW h \in ready, Execute(w, h) PROVE TaskHome'
    <2>1. /\ h.slot \in Slots /\ body[h.slot] \in Tasks
          /\ phase' = [phase EXCEPT ![body[h.slot]] = "running"]
          /\ phase[body[h.slot]] = "submitted" /\ UNCHANGED <<body, cpc, ctask>>
      BY <1>18, ExecuteEffect DEF Execute
    <2> QED BY <2>1, TaskHomeKept
  <1>19. ASSUME NEW w \in Workers, BodyReturn(w) PROVE TaskHome'
    <2> DEFINE s == whandle[w].slot
    <2>1. /\ s \in Slots /\ body[s] \in Tasks /\ wpc[w] \in Executes
      BY <1>19, ExecutedSlots DEF BodyReturn, Executes, Closing
    <2>2. wpc[w] # "body" => Finished(body[s])
      BY <1>19, <2>1 DEF WorkerInv, WorkerOk
    <2> QED BY <1>19, <2>1, <2>2, TaskHomeKept DEF BodyReturn, slotVars
  <1>20. ASSUME NEW w \in Workers, TakeSuccessors(w) PROVE TaskHome'
    BY <1>20, TaskHomeKept DEF TakeSuccessors, slotVars
  <1>21. ASSUME NEW w \in Workers, StoreCompleted(w) PROVE TaskHome'
    BY <1>21, TaskHomeKept DEF StoreCompleted, slotVars
  <1>22. ASSUME NEW w \in Workers, BumpGeneration(w) PROVE TaskHome'
    BY <1>22, TaskHomeKept DEF BumpGeneration, slotVars
  <1>23. ASSUME NEW w \in Workers, FreeSlot(w) PROVE TaskHome'
    <2> DEFINE s == whandle[w].slot
    <2>1. /\ s \in Slots /\ body[s] \in Tasks /\ wpc[w] \in Executes
      BY <1>23, ExecutedSlots DEF FreeSlot, Executes, Closing
    <2>2. wpc[w] # "body" => Finished(body[s])
      BY <1>23, <2>1 DEF WorkerInv, WorkerOk
    <2> QED BY <1>23, <2>1, <2>2, TaskHomeKept DEF FreeSlot, slotVars
  <1>24. ASSUME NEW w \in Workers, ReleaseDependent(w) PROVE TaskHome'
    <2>1. UNCHANGED <<body, phase, cpc, ctask>>
      BY <1>24, ReleaseEffect DEF clientVars
    <2> QED BY <2>1, TaskHomeKept
  <1>25. ASSUME NEW w \in Workers, EnqueueDependent(w) PROVE TaskHome'
    BY <1>25, TaskHomeKept DEF EnqueueDependent, slotVars
  <1>26. ASSUME NEW w \in Workers, CompleteCount(w) PROVE TaskHome'
    BY <1>26, TaskHomeKept DEF CompleteCount, slotVars
  <1>27. CASE UNCHANGED vars
    BY <1>27, TaskHomeKept DEF vars, slotVars
  <1> QED
    BY <1>1, <1>2, <1>3, <1>4, <1>5, <1>6, <1>7, <1>8, <1>9, <1>10, <1>11, <1>12, <1>13,
       <1>14, <1>15, <1>16, <1>17, <1>18, <1>19, <1>20, <1>21, <1>22, <1>23, <1>24, <1>25,
       <1>26, <1>27
    DEF Next, Submits, ClientStep, WorkerStep, AtRest


-----------------------------------------------------------------------------

(* A step that respects what a handle says of task t. *)
LEMMA HandleOkKept ==
    ASSUME PlaceInv, NEW t \in Tasks, handle'[t] = handle[t], Finished(t) => Finished(t)',
           \A s \in Slots : generation'[s] \in Nat /\ generation'[s] >= generation[s],
           \A s \in Slots :
               handle[t] = HandleOf(s) /\ body[s] = t /\ (\A w \in Workers : wpc[w] = "freeSlot" => whandle[w].slot # s) =>
                   \/ Finished(t)' /\ generation'[s] > generation[s]
                   \/ /\ body'[s] = t /\ generation'[s] = generation[s]
                      /\ \A w \in Workers : wpc'[w] = "freeSlot" => whandle'[w].slot # s
    PROVE  HandleOk(t)'
  <1>1. CASE handle[t] \notin Handle
    BY <1>1 DEF PlaceInv, HandleInv, HandleOk, Finished
  <1>2. CASE handle[t] \in Handle
    <2> DEFINE h == handle[t]
               s == h.slot
    <2>1. s \in Slots /\ h.gen \in Nat /\ generation[s] \in Nat /\ handle[t] # Invalid
      BY <1>2, HandleFacts DEF PlaceInv, TypeInv, SlotType
    <2>2. CASE h.gen < generation[s]
      <3>1. Finished(t)' /\ h.gen < generation'[s]
        BY <1>2, <2>1, <2>2 DEF PlaceInv, HandleInv, HandleOk
      <3> QED BY <2>1, <3>1 DEF HandleOk
    <2>3. CASE h.gen = generation[s]
      <3>1. h = HandleOf(s) /\ body[s] = t /\ \A w \in Workers : wpc[w] = "freeSlot" => whandle[w].slot # s
        BY <1>2, <2>3, HandleFacts DEF PlaceInv, HandleInv, HandleOk
      <3>2. \/ Finished(t)' /\ h.gen < generation'[s]
            \/ /\ body'[s] = t /\ h.gen = generation'[s]
               /\ \A w \in Workers : wpc'[w] = "freeSlot" => whandle'[w].slot # s
        BY <2>1, <2>3, <3>1
      <3> QED BY <2>1, <2>3, <3>1, <3>2 DEF HandleOk
    <2>4. h.gen <= generation[s]
      BY <1>2 DEF PlaceInv, HandleInv, HandleOk
    <2> QED BY <2>1, <2>2, <2>3, <2>4
  <1> QED BY <1>1, <1>2

(* A handle names its task for ever. *)
LEMMA HandleInvStep == PlaceInv /\ [Next]_vars => HandleInv'
  <1> SUFFICES ASSUME PlaceInv, [Next]_vars PROVE HandleInv'
    OBVIOUS
  <1> USE DEF PlaceInv, TypeInv, SlotType, TaskType, ClientType, WorkerType, workerVars, Goto, WGoto
  <1>1. ASSUME NEW c \in Clients, NEW t \in Tasks, NEW deps \in DepSeqs, SubmitCount(c, t, deps) PROVE HandleInv'
    <2>1. UNCHANGED <<generation, body, handle, phase, whandle, wpc>>
      BY <1>1 DEF SubmitCount, slotVars
    <2> SUFFICES ASSUME NEW u \in Tasks PROVE HandleOk(u)'
      BY DEF HandleInv
    <2>20. \A r \in Slots : generation[r] \in Nat
      OBVIOUS
    <2> HIDE DEF PlaceInv
    <2> QED BY <2>20, <2>1, HandleOkKept DEF Finished
  <1>2. ASSUME NEW c \in Clients, NEW s \in Slots, Acquire(c, s) PROVE HandleInv'
    <2>1. /\ s \in Slots /\ body[s] = NoTask /\ phase[ctask[c]] = "none"
      BY <1>2, ClientHolds DEF Acquire, FreeInv, SlotInv, ClientInv, ClientOk
    <2>2. /\ body' = [body EXCEPT ![s] = ctask[c]]
          /\ phase' = [phase EXCEPT ![ctask[c]] = "submitted"]
          /\ UNCHANGED <<generation, handle, wpc, whandle>>
      BY <1>2 DEF Acquire, Accepted
    <2>3. \A t \in Tasks : Finished(t) => Finished(t)'
      BY <2>1, <2>2 DEF Finished
    <2> SUFFICES ASSUME NEW u \in Tasks PROVE HandleOk(u)'
      BY DEF HandleInv
    <2>20. \A r \in Slots : generation[r] \in Nat
      OBVIOUS
    <2> HIDE DEF PlaceInv
    <2> QED BY <2>20, <2>1, <2>2, <2>3, HandleOkKept, NoneAssumption
  <1>3. ASSUME NEW c \in Clients, NEW s \in Slots, Reserve(c, s) PROVE HandleInv'
    <2>1. UNCHANGED <<generation, body, handle, phase, whandle, wpc>>
      BY <1>3 DEF Reserve, slotVars
    <2> SUFFICES ASSUME NEW u \in Tasks PROVE HandleOk(u)'
      BY DEF HandleInv
    <2>20. \A r \in Slots : generation[r] \in Nat
      OBVIOUS
    <2> HIDE DEF PlaceInv
    <2> QED BY <2>20, <2>1, HandleOkKept DEF Finished
  <1>4. ASSUME NEW c \in Clients, Publish(c) PROVE HandleInv'
    <2> DEFINE s == chandle[c].slot
    <2>1. /\ s \in Slots /\ body[s] = NoTask /\ phase[ctask[c]] = "none"
      BY <1>4, ClientHolds DEF Publish, SlotInv, ClientInv, ClientOk
    <2>2. /\ body' = [body EXCEPT ![s] = ctask[c]]
          /\ phase' = [phase EXCEPT ![ctask[c]] = "submitted"]
          /\ UNCHANGED <<generation, handle, wpc, whandle>>
      BY <1>4 DEF Publish, Accepted
    <2> HIDE DEF s
    <2>3. \A t \in Tasks : Finished(t) => Finished(t)'
      BY <2>1, <2>2 DEF Finished
    <2> SUFFICES ASSUME NEW u \in Tasks PROVE HandleOk(u)'
      BY DEF HandleInv
    <2>20. \A r \in Slots : generation[r] \in Nat
      OBVIOUS
    <2> HIDE DEF PlaceInv
    <2> QED BY <2>20, <2>1, <2>2, <2>3, HandleOkKept, NoneAssumption
  <1>5. ASSUME NEW c \in Clients, ConstructThrows(c) PROVE HandleInv'
    <2> DEFINE s == chandle[c].slot
    <2>1. /\ s \in Slots /\ body[s] = NoTask
          /\ generation' = [generation EXCEPT ![s] = @ + 1]
          /\ UNCHANGED <<body, phase, handle, wpc, whandle>>
      BY <1>5, ClientHolds DEF ConstructThrows
    <2> HIDE DEF s
    <2>2. /\ generation'[s] = generation[s] + 1
          /\ \A r \in Slots : r # s => generation'[r] = generation[r]
      BY <2>1
    <2> SUFFICES ASSUME NEW u \in Tasks PROVE HandleOk(u)'
      BY DEF HandleInv
    <2>20. \A r \in Slots : generation[r] \in Nat
      OBVIOUS
    <2> HIDE DEF PlaceInv
    <2> QED BY <2>20, <2>1, <2>2, HandleOkKept, NoneAssumption DEF Finished
  <1>6. ASSUME NEW c \in Clients, ConstructThrowsInline(c) PROVE HandleInv'
    <2>1. UNCHANGED <<generation, body, handle, phase, whandle, wpc>>
      BY <1>6 DEF ConstructThrowsInline, slotVars
    <2> SUFFICES ASSUME NEW u \in Tasks PROVE HandleOk(u)'
      BY DEF HandleInv
    <2>20. \A r \in Slots : generation[r] \in Nat
      OBVIOUS
    <2> HIDE DEF PlaceInv
    <2> QED BY <2>20, <2>1, HandleOkKept DEF Finished
  <1>7. ASSUME NEW c \in Clients, Rethrow(c) PROVE HandleInv'
    <2>1. UNCHANGED <<generation, body, handle, phase, whandle, wpc>>
      BY <1>7 DEF Rethrow, slotVars
    <2> SUFFICES ASSUME NEW u \in Tasks PROVE HandleOk(u)'
      BY DEF HandleInv
    <2>20. \A r \in Slots : generation[r] \in Nat
      OBVIOUS
    <2> HIDE DEF PlaceInv
    <2> QED BY <2>20, <2>1, HandleOkKept DEF Finished
  <1>8. ASSUME NEW c \in Clients, Exhausted(c) PROVE HandleInv'
    <2>1. /\ phase' = [phase EXCEPT ![ctask[c]] = "submitted"] /\ phase[ctask[c]] # "finished"
          /\ UNCHANGED <<generation, body, handle, wpc, whandle>>
      BY <1>8 DEF Exhausted, Accepted, ClientInv, ClientOk, Registration, slotVars
    <2>2. \A t \in Tasks : Finished(t) => Finished(t)'
      BY <2>1 DEF Finished
    <2> SUFFICES ASSUME NEW u \in Tasks PROVE HandleOk(u)'
      BY DEF HandleInv
    <2>20. \A r \in Slots : generation[r] \in Nat
      OBVIOUS
    <2> HIDE DEF PlaceInv
    <2> QED BY <2>20, <2>1, <2>2, HandleOkKept
  <1>9. ASSUME NEW c \in Clients, InlineWait(c) PROVE HandleInv'
    <2>1. UNCHANGED <<generation, body, handle, phase, whandle, wpc>>
      BY <1>9 DEF InlineWait, slotVars
    <2> SUFFICES ASSUME NEW u \in Tasks PROVE HandleOk(u)'
      BY DEF HandleInv
    <2>20. \A r \in Slots : generation[r] \in Nat
      OBVIOUS
    <2> HIDE DEF PlaceInv
    <2> QED BY <2>20, <2>1, HandleOkKept DEF Finished
  <1>10. ASSUME NEW c \in Clients, InlineStart(c) PROVE HandleInv'
    <2>1. /\ phase' = [phase EXCEPT ![ctask[c]] = "running"] /\ phase[ctask[c]] # "finished"
          /\ UNCHANGED <<generation, body, handle, wpc, whandle>>
      BY <1>10 DEF InlineStart, Accepted, ClientInv, ClientOk, Registration, slotVars
    <2>2. \A t \in Tasks : Finished(t) => Finished(t)'
      BY <2>1 DEF Finished
    <2> SUFFICES ASSUME NEW u \in Tasks PROVE HandleOk(u)'
      BY DEF HandleInv
    <2>20. \A r \in Slots : generation[r] \in Nat
      OBVIOUS
    <2> HIDE DEF PlaceInv
    <2> QED BY <2>20, <2>1, <2>2, HandleOkKept
  <1>11. ASSUME NEW c \in Clients, InlineFinish(c) PROVE HandleInv'
    <2>1. /\ phase' = [phase EXCEPT ![ctask[c]] = "finished"]
          /\ UNCHANGED <<generation, body, handle, wpc, whandle>>
      BY <1>11 DEF InlineFinish, slotVars
    <2>2. \A t \in Tasks : Finished(t) => Finished(t)'
      BY <2>1 DEF Finished
    <2> SUFFICES ASSUME NEW u \in Tasks PROVE HandleOk(u)'
      BY DEF HandleInv
    <2>20. \A r \in Slots : generation[r] \in Nat
      OBVIOUS
    <2> HIDE DEF PlaceInv
    <2> QED BY <2>20, <2>1, <2>2, HandleOkKept
  <1>12. ASSUME NEW c \in Clients, InlineCount(c) PROVE HandleInv'
    <2>1. /\ phase[ctask[c]] = "finished" /\ handle' = [handle EXCEPT ![ctask[c]] = Invalid]
          /\ UNCHANGED <<generation, body, phase, wpc, whandle>>
      BY <1>12 DEF InlineCount, ClientInv, ClientOk, slotVars, Finished
    <2>2. \A t \in Tasks : Finished(t) => Finished(t)'
      BY <2>1 DEF Finished
    <2>20. \A r \in Slots : generation[r] \in Nat
      OBVIOUS
    <2>21. \A t \in Tasks : handle'[t] = IF t = ctask[c] THEN Invalid ELSE handle[t]
      BY <2>1
    <2> HIDE DEF PlaceInv
    <2>3. ASSUME NEW t \in Tasks, t # ctask[c] PROVE HandleOk(t)'
      BY <2>1, <2>2, <2>3, <2>20, <2>21, HandleOkKept
    <2>4. ASSUME NEW t \in Tasks, t = ctask[c] PROVE HandleOk(t)'
      BY <2>1, <2>4, <2>21, NoneAssumption DEF HandleOk, Finished
    <2> QED BY <2>3, <2>4 DEF HandleInv
  <1>13. ASSUME NEW c \in Clients, RegisterLookup(c) PROVE HandleInv'
    <2>1. UNCHANGED <<generation, body, handle, phase, whandle, wpc>>
      BY <1>13 DEF RegisterLookup, slotVars
    <2> SUFFICES ASSUME NEW u \in Tasks PROVE HandleOk(u)'
      BY DEF HandleInv
    <2>20. \A r \in Slots : generation[r] \in Nat
      OBVIOUS
    <2> HIDE DEF PlaceInv
    <2> QED BY <2>20, <2>1, HandleOkKept DEF Finished
  <1>14. ASSUME NEW c \in Clients, AddSuccessor(c) PROVE HandleInv'
    <2>1. UNCHANGED <<generation, body, handle, phase, whandle, wpc>>
      BY <1>14, AddSuccessorEffect
    <2> SUFFICES ASSUME NEW u \in Tasks PROVE HandleOk(u)'
      BY DEF HandleInv
    <2>20. \A r \in Slots : generation[r] \in Nat
      OBVIOUS
    <2> HIDE DEF PlaceInv
    <2> QED BY <2>20, <2>1, HandleOkKept DEF Finished
  <1>15. ASSUME NEW c \in Clients, PreSatisfied(c) PROVE HandleInv'
    <2>1. UNCHANGED <<generation, body, handle, phase, whandle, wpc>>
      BY <1>15 DEF PreSatisfied, slotVars
    <2> SUFFICES ASSUME NEW u \in Tasks PROVE HandleOk(u)'
      BY DEF HandleInv
    <2>20. \A r \in Slots : generation[r] \in Nat
      OBVIOUS
    <2> HIDE DEF PlaceInv
    <2> QED BY <2>20, <2>1, HandleOkKept DEF Finished
  <1>16. ASSUME NEW c \in Clients, RemoveGuard(c) PROVE HandleInv'
    <2> DEFINE s == chandle[c].slot
    <2>1. /\ s \in Slots /\ chandle[c] \in Handle /\ chandle[c].gen = generation[s] /\ chandle[c] # Invalid
          /\ body[s] = ctask[c] /\ state[s] \in {"Queued", "Waiting"}
      BY <1>16, ClientHolds, HandleFacts DEF RemoveGuard, Registration
    <2>2. \A v \in Workers : wpc[v] = "freeSlot" => whandle[v].slot # s
      BY <2>1, ExecutedSlots DEF Executes, Closing
    <2>3. /\ handle' = handle \/ handle' = [handle EXCEPT ![ctask[c]] = chandle[c]]
          /\ UNCHANGED <<generation, body, phase, wpc, whandle>>
      BY <1>16 DEF RemoveGuard, slotVars
    <2>20. \A r \in Slots : generation[r] \in Nat
      OBVIOUS
    <2>4. ASSUME NEW t \in Tasks, handle'[t] = handle[t] PROVE HandleOk(t)'
      <3> HIDE DEF PlaceInv
      <3> QED BY <2>3, <2>4, <2>20, HandleOkKept DEF Finished
    <2>5. ASSUME NEW t \in Tasks, t = ctask[c], handle'[t] = chandle[c] PROVE HandleOk(t)'
      BY <2>1, <2>2, <2>3, <2>5 DEF HandleOk
    <2> QED BY <2>3, <2>4, <2>5 DEF HandleInv
  <1>17. ASSUME NEW c \in Clients, Enqueue(c) PROVE HandleInv'
    <2> DEFINE s == chandle[c].slot
    <2>1. /\ s \in Slots /\ chandle[c] \in Handle /\ chandle[c].gen = generation[s] /\ chandle[c] # Invalid
          /\ body[s] = ctask[c] /\ state[s] \in {"Queued", "Waiting"}
      BY <1>17, ClientHolds, HandleFacts DEF Enqueue, Registration
    <2>2. \A v \in Workers : wpc[v] = "freeSlot" => whandle[v].slot # s
      BY <2>1, ExecutedSlots DEF Executes, Closing
    <2>3. /\ handle' = handle \/ handle' = [handle EXCEPT ![ctask[c]] = chandle[c]]
          /\ UNCHANGED <<generation, body, phase, wpc, whandle>>
      BY <1>17 DEF Enqueue, slotVars
    <2>20. \A r \in Slots : generation[r] \in Nat
      OBVIOUS
    <2>4. ASSUME NEW t \in Tasks, handle'[t] = handle[t] PROVE HandleOk(t)'
      <3> HIDE DEF PlaceInv
      <3> QED BY <2>3, <2>4, <2>20, HandleOkKept DEF Finished
    <2>5. ASSUME NEW t \in Tasks, t = ctask[c], handle'[t] = chandle[c] PROVE HandleOk(t)'
      BY <2>1, <2>2, <2>3, <2>5 DEF HandleOk
    <2> QED BY <2>3, <2>4, <2>5 DEF HandleInv
  <1>18. ASSUME NEW w \in Workers, NEW h \in ready, Execute(w, h) PROVE HandleInv'
    <2>1. /\ phase' = [phase EXCEPT ![body[h.slot]] = "running"] /\ phase[body[h.slot]] = "submitted"
          /\ wpc' = [wpc EXCEPT ![w] = "body"] /\ whandle' = [whandle EXCEPT ![w] = h]
          /\ UNCHANGED <<generation, body, handle>>
      BY <1>18, ExecuteEffect DEF Execute
    <2>2. \A t \in Tasks : Finished(t) => Finished(t)'
      BY <2>1 DEF Finished
    <2>3. \A v \in Workers : wpc'[v] = "freeSlot" => wpc[v] = "freeSlot" /\ whandle'[v] = whandle[v]
      BY <2>1
    <2> SUFFICES ASSUME NEW u \in Tasks PROVE HandleOk(u)'
      BY DEF HandleInv
    <2>20. \A r \in Slots : generation[r] \in Nat
      OBVIOUS
    <2> HIDE DEF PlaceInv
    <2> QED BY <2>20, <2>1, <2>2, <2>3, HandleOkKept
  <1>19. ASSUME NEW w \in Workers, BodyReturn(w) PROVE HandleInv'
    <2>1. /\ phase' = phase \/ phase' = [phase EXCEPT ![body[whandle[w].slot]] = "finished"]
          /\ wpc' = [wpc EXCEPT ![w] = "take"]
          /\ UNCHANGED <<generation, body, handle, whandle>>
      BY <1>19 DEF BodyReturn, slotVars
    <2>2. \A t \in Tasks : Finished(t) => Finished(t)'
      BY <2>1 DEF Finished
    <2>3. \A v \in Workers : wpc'[v] = "freeSlot" => wpc[v] = "freeSlot"
      BY <2>1
    <2> SUFFICES ASSUME NEW u \in Tasks PROVE HandleOk(u)'
      BY DEF HandleInv
    <2>20. \A r \in Slots : generation[r] \in Nat
      OBVIOUS
    <2> HIDE DEF PlaceInv
    <2> QED BY <2>20, <2>1, <2>2, <2>3, HandleOkKept
  <1>20. ASSUME NEW w \in Workers, TakeSuccessors(w) PROVE HandleInv'
    <2>1. /\ phase' = phase \/ phase' = [phase EXCEPT ![body[whandle[w].slot]] = "finished"]
          /\ wpc' = [wpc EXCEPT ![w] = "storeCompleted"]
          /\ UNCHANGED <<generation, body, handle, whandle>>
      BY <1>20 DEF TakeSuccessors, slotVars
    <2>2. \A t \in Tasks : Finished(t) => Finished(t)'
      BY <2>1 DEF Finished
    <2>3. \A v \in Workers : wpc'[v] = "freeSlot" => wpc[v] = "freeSlot"
      BY <2>1
    <2> SUFFICES ASSUME NEW u \in Tasks PROVE HandleOk(u)'
      BY DEF HandleInv
    <2>20. \A r \in Slots : generation[r] \in Nat
      OBVIOUS
    <2> HIDE DEF PlaceInv
    <2> QED BY <2>20, <2>1, <2>2, <2>3, HandleOkKept
  <1>21. ASSUME NEW w \in Workers, StoreCompleted(w) PROVE HandleInv'
    <2>1. /\ phase' = phase \/ phase' = [phase EXCEPT ![body[whandle[w].slot]] = "finished"]
          /\ wpc' = [wpc EXCEPT ![w] = "bumpGeneration"]
          /\ UNCHANGED <<generation, body, handle, whandle>>
      BY <1>21 DEF StoreCompleted, slotVars
    <2>2. \A t \in Tasks : Finished(t) => Finished(t)'
      BY <2>1 DEF Finished
    <2>3. \A v \in Workers : wpc'[v] = "freeSlot" => wpc[v] = "freeSlot"
      BY <2>1
    <2> SUFFICES ASSUME NEW u \in Tasks PROVE HandleOk(u)'
      BY DEF HandleInv
    <2>20. \A r \in Slots : generation[r] \in Nat
      OBVIOUS
    <2> HIDE DEF PlaceInv
    <2> QED BY <2>20, <2>1, <2>2, <2>3, HandleOkKept
  <1>22. ASSUME NEW w \in Workers, BumpGeneration(w) PROVE HandleInv'
    <2> DEFINE s == whandle[w].slot
    <2>1. /\ s \in Slots /\ wpc[w] \in Executes /\ wpc[w] = "bumpGeneration"
          /\ generation' = [generation EXCEPT ![s] = @ + 1] /\ wpc' = [wpc EXCEPT ![w] = "freeSlot"]
          /\ UNCHANGED <<body, phase, handle, whandle>>
      BY <1>22, ExecutedSlots DEF BumpGeneration, Executes, Closing
    <2>2. Finished(body[s])
      BY <2>1 DEF WorkerInv, WorkerOk, Finished
    <2> HIDE DEF s
    <2>3. /\ generation'[s] = generation[s] + 1
          /\ \A r \in Slots : r # s => generation'[r] = generation[r]
      BY <2>1
    <2>4. \A v \in Workers : \A r \in Slots : wpc'[v] = "freeSlot" /\ r # s /\ whandle[v].slot = r => wpc[v] = "freeSlot"
      BY <2>1 DEF s
    <2> SUFFICES ASSUME NEW u \in Tasks PROVE HandleOk(u)'
      BY DEF HandleInv
    <2>20. \A r \in Slots : generation[r] \in Nat
      OBVIOUS
    <2> HIDE DEF PlaceInv
    <2> QED BY <2>20, <2>1, <2>2, <2>3, <2>4, HandleOkKept DEF Finished
  <1>23. ASSUME NEW w \in Workers, FreeSlot(w) PROVE HandleInv'
    <2> DEFINE s == whandle[w].slot
    <2>1. /\ wpc[w] = "freeSlot" /\ wpc' = [wpc EXCEPT ![w] = "release"]
          /\ body' = [body EXCEPT ![s] = NoTask] /\ UNCHANGED <<generation, phase, handle, whandle>>
      BY <1>23 DEF FreeSlot
    <2>2. \A r \in Slots : r # s => body'[r] = body[r]
      BY <2>1
    <2>3. \A v \in Workers : wpc'[v] = "freeSlot" => wpc[v] = "freeSlot"
      BY <2>1
    <2> SUFFICES ASSUME NEW u \in Tasks PROVE HandleOk(u)'
      BY DEF HandleInv
    <2>20. \A r \in Slots : generation[r] \in Nat
      OBVIOUS
    <2> HIDE DEF PlaceInv
    <2> QED BY <2>20, <2>1, <2>2, <2>3, HandleOkKept DEF Finished
  <1>24. ASSUME NEW w \in Workers, ReleaseDependent(w) PROVE HandleInv'
    <2>1. PICK s \in Slots : Releases(w, s)
      BY <1>24, ReleaseEffect
    <2>2. UNCHANGED <<generation, body, handle, phase, whandle>>
      BY <1>24, ReleaseEffect
    <2>3. \A v \in Workers : wpc'[v] = "freeSlot" => wpc[v] = "freeSlot"
      BY <2>1 DEF Releases
    <2> SUFFICES ASSUME NEW u \in Tasks PROVE HandleOk(u)'
      BY DEF HandleInv
    <2>20. \A r \in Slots : generation[r] \in Nat
      OBVIOUS
    <2> HIDE DEF PlaceInv
    <2> QED BY <2>20, <2>2, <2>3, HandleOkKept DEF Finished
  <1>25. ASSUME NEW w \in Workers, EnqueueDependent(w) PROVE HandleInv'
    <2>1. /\ wpc' = [wpc EXCEPT ![w] = "release"]
          /\ UNCHANGED <<generation, body, handle, phase, whandle>>
      BY <1>25 DEF EnqueueDependent, slotVars
    <2>2. \A v \in Workers : wpc'[v] = "freeSlot" => wpc[v] = "freeSlot"
      BY <2>1
    <2> SUFFICES ASSUME NEW u \in Tasks PROVE HandleOk(u)'
      BY DEF HandleInv
    <2>20. \A r \in Slots : generation[r] \in Nat
      OBVIOUS
    <2> HIDE DEF PlaceInv
    <2> QED BY <2>20, <2>1, <2>2, HandleOkKept DEF Finished
  <1>26. ASSUME NEW w \in Workers, CompleteCount(w) PROVE HandleInv'
    <2>1. /\ wpc' = [wpc EXCEPT ![w] = "idle"]
          /\ UNCHANGED <<generation, body, handle, phase, whandle>>
      BY <1>26 DEF CompleteCount, slotVars
    <2>2. \A v \in Workers : wpc'[v] = "freeSlot" => wpc[v] = "freeSlot"
      BY <2>1
    <2> SUFFICES ASSUME NEW u \in Tasks PROVE HandleOk(u)'
      BY DEF HandleInv
    <2>20. \A r \in Slots : generation[r] \in Nat
      OBVIOUS
    <2> HIDE DEF PlaceInv
    <2> QED BY <2>20, <2>1, <2>2, HandleOkKept DEF Finished
  <1>27. CASE UNCHANGED vars
    <2>1. UNCHANGED <<generation, body, handle, phase, whandle, wpc>>
      BY <1>27 DEF vars, slotVars
    <2> SUFFICES ASSUME NEW u \in Tasks PROVE HandleOk(u)'
      BY DEF HandleInv
    <2>20. \A r \in Slots : generation[r] \in Nat
      OBVIOUS
    <2> HIDE DEF PlaceInv
    <2> QED BY <2>20, <2>1, HandleOkKept DEF Finished
  <1> QED
    BY <1>1, <1>2, <1>3, <1>4, <1>5, <1>6, <1>7, <1>8, <1>9, <1>10, <1>11, <1>12, <1>13,
       <1>14, <1>15, <1>16, <1>17, <1>18, <1>19, <1>20, <1>21, <1>22, <1>23, <1>24, <1>25,
       <1>26, <1>27
    DEF Next, Submits, ClientStep, WorkerStep, AtRest


-----------------------------------------------------------------------------

(* The client that takes off the guard of a task with no other             *)
(* notification to come.                                                   *)
LEMMA GuardIsAlone ==
    ASSUME PlaceInv, CountInv, NEW c \in Clients, cpc[c] = "register", pending[chandle[c].slot] = 1
    PROVE  LET s == chandle[c].slot IN
           /\ \A p \in Slots : \A i \in 1 .. Len(successors[p]) : successors[p][i].slot # s
           /\ \A v \in Workers : \A i \in 1 .. Len(wsucc[v]) : wsucc[v][i].slot # s
  <1> DEFINE s == chandle[c].slot
  <1>1. s \in Slots /\ state[s] = "Waiting"
    BY ClientHolds DEF PlaceInv, Registration
  <1>2. Registering(c) /\ 0 \in 0 .. Len(cdeps[c])
    BY DEF Registering, PlaceInv, TypeInv, ClientType
  <1>3. <<"call", c, 0>> \in Owed(s)
    BY <1>2, OwedIs DEF IsCall
  <1>4. \A x : x \in Owed(s) => x = <<"call", c, 0>>
    BY <1>1, <1>3, LastNotification
  <1>5. ASSUME NEW p \in Slots, NEW i \in 1 .. Len(successors[p]), successors[p][i].slot = s PROVE FALSE
    <2>1. <<"edge", p, i>> = <<"call", c, 0>>
      BY <1>4, <1>5, OwedIs DEF IsEdge
    <2> QED BY <2>1, TokensDiffer
  <1>6. ASSUME NEW v \in Workers, NEW i \in 1 .. Len(wsucc[v]), wsucc[v][i].slot = s PROVE FALSE
    <2>1. <<"taken", v, i>> = <<"call", c, 0>>
      BY <1>4, <1>6, OwedIs DEF IsTaken
    <2> QED BY <2>1, TokensDiffer
  <1> QED BY <1>5, <1>6

(* A task goes on waiting while its slot is left alone. *)
LEMMA WaitsKept ==
    ASSUME PlaceInv, NEW s \in Slots,
           \A r \in Slots : r # s => generation'[r] = generation[r] /\ state'[r] = state[r],
           NEW h, Waits(h), h.slot # s \/ (generation'[s] = generation[s] /\ state'[s] = "Waiting")
    PROVE  Waits(h)'
  BY DEF Waits, Current, Handle

(* What waits goes on waiting if no slot is reused or changes state.       *)
LEMMA WaitsStays ==
    ASSUME UNCHANGED <<generation, state>>, NEW h, Waits(h)
    PROVE  Waits(h)'
  BY DEF Waits, Current

(* A step that adds no edge. *)
LEMMA EdgeKept ==
    ASSUME PlaceInv, \A h : Waits(h) => Waits(h)',
           UNCHANGED wsucc, \A p \in Slots : successors'[p] = successors[p] \/ successors'[p] = << >>
    PROVE  EdgeInv'
  <1>1. \A p \in Slots : \A i \in 1 .. Len(successors'[p]) : Waits(successors[p][i])'
    <2> SUFFICES ASSUME NEW p \in Slots, NEW i \in 1 .. Len(successors'[p]) PROVE Waits(successors[p][i])'
      OBVIOUS
    <2>1. successors'[p] = successors[p]
      OBVIOUS
    <2> QED BY <2>1 DEF PlaceInv, EdgeInv, Waits, Current
  <1>2. \A v \in Workers : \A i \in 1 .. Len(wsucc'[v]) : Waits(wsucc[v][i])'
    BY DEF PlaceInv, EdgeInv, Waits, Current
  <1> QED BY <1>1, <1>2 DEF EdgeInv

(* A successor waits. *)
LEMMA EdgeInvStep == PlaceInv /\ CountInv /\ [Next]_vars => EdgeInv'
  <1> SUFFICES ASSUME PlaceInv, CountInv, [Next]_vars PROVE EdgeInv'
    OBVIOUS
  <1> USE DEF workerVars, Goto, WGoto
  <1>1. ASSUME NEW c \in Clients, NEW t \in Tasks, NEW deps \in DepSeqs, SubmitCount(c, t, deps) PROVE EdgeInv'
    <2>1. UNCHANGED <<generation, state, successors, wsucc>>
      BY <1>1 DEF SubmitCount, slotVars
    <2> QED BY <2>1, WaitsStays, EdgeKept
  <1>2. ASSUME NEW c \in Clients, NEW s \in Slots, Acquire(c, s) PROVE EdgeInv'
    <2>1. s \in Slots /\ state[s] # "Waiting"
      BY <1>2 DEF Acquire, PlaceInv, SlotInv, FreeInv, TypeInv, TaskType
    <2>2. /\ state' = [state EXCEPT ![s] = "Queued"] \/ state' = [state EXCEPT ![s] = "Waiting"]
          /\ successors' = [successors EXCEPT ![s] = << >>]
          /\ UNCHANGED <<generation, wsucc>>
      BY <1>2 DEF Acquire
    <2>4. \A r \in Slots : r # s => generation'[r] = generation[r] /\ state'[r] = state[r]
      BY <2>1, <2>2 DEF PlaceInv, TypeInv, SlotType
    <2>5. \A h : Waits(h) => Waits(h)'
      <3> SUFFICES ASSUME NEW h, Waits(h) PROVE Waits(h)'
        OBVIOUS
      <3>1. h.slot # s
        BY <2>1 DEF Waits
      <3> QED BY <2>1, <2>4, <3>1, WaitsKept
    <2>6. \A p \in Slots : successors'[p] = successors[p] \/ successors'[p] = << >>
      BY <2>2 DEF PlaceInv, TypeInv, SlotType
    <2> QED BY <2>2, <2>5, <2>6, EdgeKept
  <1>3. ASSUME NEW c \in Clients, NEW s \in Slots, Reserve(c, s) PROVE EdgeInv'
    <2>1. successors' = [successors EXCEPT ![s] = << >>] /\ UNCHANGED <<generation, state, wsucc>>
      BY <1>3 DEF Reserve
    <2>2. \A p \in Slots : successors'[p] = successors[p] \/ successors'[p] = << >>
      BY <2>1 DEF PlaceInv, TypeInv, SlotType
    <2> QED BY <2>1, <2>2, WaitsStays, EdgeKept
  <1>4. ASSUME NEW c \in Clients, Publish(c) PROVE EdgeInv'
    <2> DEFINE s == chandle[c].slot
    <2>1. s \in Slots /\ state[s] # "Waiting"
      BY <1>4, ClientHolds DEF Publish, PlaceInv, Registration
    <2>2. state' = [state EXCEPT ![s] = "Queued"] /\ UNCHANGED <<generation, successors, wsucc>>
      BY <1>4 DEF Publish
    <2> HIDE DEF s
    <2>4. \A r \in Slots : r # s => generation'[r] = generation[r] /\ state'[r] = state[r]
      BY <2>1, <2>2 DEF PlaceInv, TypeInv, SlotType
    <2>5. \A h : Waits(h) => Waits(h)'
      <3> SUFFICES ASSUME NEW h, Waits(h) PROVE Waits(h)'
        OBVIOUS
      <3>1. h.slot # s
        BY <2>1 DEF Waits
      <3> QED BY <2>1, <2>4, <3>1, WaitsKept
    <2>6. \A p \in Slots : successors'[p] = successors[p] \/ successors'[p] = << >>
      BY <2>2 DEF PlaceInv, TypeInv, SlotType
    <2> QED BY <2>2, <2>5, <2>6, EdgeKept
  <1>5. ASSUME NEW c \in Clients, ConstructThrows(c) PROVE EdgeInv'
    <2> DEFINE s == chandle[c].slot
    <2>1. s \in Slots /\ state[s] # "Waiting"
      BY <1>5, ClientHolds DEF ConstructThrows, PlaceInv, Registration
    <2>2. generation' = [generation EXCEPT ![s] = @ + 1] /\ UNCHANGED <<state, successors, wsucc>>
      BY <1>5 DEF ConstructThrows
    <2> HIDE DEF s
    <2>4. \A r \in Slots : r # s => generation'[r] = generation[r] /\ state'[r] = state[r]
      BY <2>1, <2>2 DEF PlaceInv, TypeInv, SlotType
    <2>5. \A h : Waits(h) => Waits(h)'
      <3> SUFFICES ASSUME NEW h, Waits(h) PROVE Waits(h)'
        OBVIOUS
      <3>1. h.slot # s
        BY <2>1 DEF Waits
      <3> QED BY <2>1, <2>4, <3>1, WaitsKept
    <2>6. \A p \in Slots : successors'[p] = successors[p] \/ successors'[p] = << >>
      BY <2>2 DEF PlaceInv, TypeInv, SlotType
    <2> QED BY <2>2, <2>5, <2>6, EdgeKept
  <1>6. ASSUME NEW c \in Clients, ConstructThrowsInline(c) PROVE EdgeInv'
    <2>1. UNCHANGED <<generation, state, successors, wsucc>>
      BY <1>6 DEF ConstructThrowsInline, slotVars
    <2> QED BY <2>1, WaitsStays, EdgeKept
  <1>7. ASSUME NEW c \in Clients, Rethrow(c) PROVE EdgeInv'
    <2>1. UNCHANGED <<generation, state, successors, wsucc>>
      BY <1>7 DEF Rethrow, slotVars
    <2> QED BY <2>1, WaitsStays, EdgeKept
  <1>8. ASSUME NEW c \in Clients, Exhausted(c) PROVE EdgeInv'
    <2>1. UNCHANGED <<generation, state, successors, wsucc>>
      BY <1>8 DEF Exhausted, slotVars
    <2> QED BY <2>1, WaitsStays, EdgeKept
  <1>9. ASSUME NEW c \in Clients, InlineWait(c) PROVE EdgeInv'
    <2>1. UNCHANGED <<generation, state, successors, wsucc>>
      BY <1>9 DEF InlineWait, slotVars
    <2> QED BY <2>1, WaitsStays, EdgeKept
  <1>10. ASSUME NEW c \in Clients, InlineStart(c) PROVE EdgeInv'
    <2>1. UNCHANGED <<generation, state, successors, wsucc>>
      BY <1>10 DEF InlineStart, slotVars
    <2> QED BY <2>1, WaitsStays, EdgeKept
  <1>11. ASSUME NEW c \in Clients, InlineFinish(c) PROVE EdgeInv'
    <2>1. UNCHANGED <<generation, state, successors, wsucc>>
      BY <1>11 DEF InlineFinish, slotVars
    <2> QED BY <2>1, WaitsStays, EdgeKept
  <1>12. ASSUME NEW c \in Clients, InlineCount(c) PROVE EdgeInv'
    <2>1. UNCHANGED <<generation, state, successors, wsucc>>
      BY <1>12 DEF InlineCount, slotVars
    <2> QED BY <2>1, WaitsStays, EdgeKept
  <1>13. ASSUME NEW c \in Clients, RegisterLookup(c) PROVE EdgeInv'
    <2>1. UNCHANGED <<generation, state, successors, wsucc>>
      BY <1>13 DEF RegisterLookup, slotVars
    <2> QED BY <2>1, WaitsStays, EdgeKept
  <1>14. ASSUME NEW c \in Clients, AddSuccessor(c) PROVE EdgeInv'
    <2>1. UNCHANGED <<generation, state, wsucc, chandle>> /\ cpc[c] = "addSuccessor"
      BY <1>14, AddSuccessorEffect DEF workerVars
    <2>2. Waits(chandle[c]) /\ \A h : Waits(h) => Waits(h)'
      BY <2>1, ClientHolds, WaitsStays DEF Waits, Current, PlaceInv, Registration
    <2>3. CASE FindsFinished(c)
      BY <2>1, <2>2, <2>3, EdgeKept DEF FindsFinished
    <2>4. ASSUME NEW p \in Slots, AddsEdge(c, p) PROVE EdgeInv'
      <3>1. \A r \in Slots : \A i \in 1 .. Len(successors'[r]) :
              \/ successors'[r][i] = chandle[c]
              \/ i \in 1 .. Len(successors[r]) /\ successors'[r][i] = successors[r][i]
        <4> SUFFICES ASSUME NEW r \in Slots, NEW i \in 1 .. Len(successors'[r])
                     PROVE  \/ successors'[r][i] = chandle[c]
                            \/ i \in 1 .. Len(successors[r]) /\ successors'[r][i] = successors[r][i]
          OBVIOUS
        <4>1. successors[r] \in Seq(Handle) /\ chandle[c] \in Handle
          BY <2>1, ClientHolds DEF PlaceInv, TypeInv, SlotType, Registration
        <4>2. successors'[r] = IF r = p THEN Append(successors[r], chandle[c]) ELSE successors[r]
          BY <2>4 DEF AddsEdge, PlaceInv, TypeInv, SlotType
        <4> QED BY <4>1, <4>2
      <3>2. \A r \in Slots : \A i \in 1 .. Len(successors'[r]) : Waits(successors[r][i])'
        <4> SUFFICES ASSUME NEW r \in Slots, NEW i \in 1 .. Len(successors'[r]) PROVE Waits(successors[r][i])'
          OBVIOUS
        <4>1. \A h : h = successors'[r][i] => Waits(h)
          BY <2>2, <3>1 DEF PlaceInv, EdgeInv
        <4>2. \A h : h = successors'[r][i] => Waits(h)'
          BY <2>2, <4>1
        <4> QED BY <4>2 DEF Waits, Current
      <3>3. \A v \in Workers : \A i \in 1 .. Len(wsucc'[v]) : Waits(wsucc[v][i])'
        BY <2>1 DEF PlaceInv, EdgeInv, Waits, Current
      <3> QED BY <3>2, <3>3 DEF EdgeInv
    <2> QED BY <1>14, <2>3, <2>4, AddSuccessorEffect
  <1>15. ASSUME NEW c \in Clients, PreSatisfied(c) PROVE EdgeInv'
    <2>1. UNCHANGED <<generation, state, successors, wsucc>>
      BY <1>15 DEF PreSatisfied, slotVars
    <2> QED BY <2>1, WaitsStays, EdgeKept
  <1>16. ASSUME NEW c \in Clients, RemoveGuard(c) PROVE EdgeInv'
    <2> DEFINE s == chandle[c].slot
    <2>1. /\ s \in Slots /\ state[s] = "Waiting" /\ cpc[c] = "register"
          /\ UNCHANGED <<generation, successors, wsucc>>
      BY <1>16, ClientHolds DEF RemoveGuard, PlaceInv, Registration
    <2>2. CASE pending[s] # 1
      <3>1. UNCHANGED state
        BY <1>16, <2>2 DEF RemoveGuard
      <3> QED BY <2>1, <3>1, WaitsStays, EdgeKept
    <2>3. CASE pending[s] = 1
      <3>1. state' = [state EXCEPT ![s] = "Queued"]
        BY <1>16, <2>3 DEF RemoveGuard
      <3>2. /\ \A p \in Slots : \A i \in 1 .. Len(successors[p]) : successors[p][i].slot # s
            /\ \A v \in Workers : \A i \in 1 .. Len(wsucc[v]) : wsucc[v][i].slot # s
        BY <2>1, <2>3, GuardIsAlone
      <3> HIDE DEF s
      <3>3. \A r \in Slots : r # s => generation'[r] = generation[r] /\ state'[r] = state[r]
        BY <2>1, <3>1 DEF PlaceInv, TypeInv, SlotType
      <3>4. \A h : Waits(h) /\ h.slot # s => Waits(h)'
        BY <2>1, <3>3, WaitsKept
      <3>5. \A p \in Slots : \A i \in 1 .. Len(successors[p]) : Waits(successors[p][i])'
        <4> SUFFICES ASSUME NEW p \in Slots, NEW i \in 1 .. Len(successors[p]) PROVE Waits(successors[p][i])'
          OBVIOUS
        <4>1. \A h : h = successors[p][i] => Waits(h)'
          BY <3>2, <3>4 DEF PlaceInv, EdgeInv
        <4> QED BY <2>1, <4>1 DEF Waits, Current
      <3>6. \A v \in Workers : \A i \in 1 .. Len(wsucc[v]) : Waits(wsucc[v][i])'
        <4> SUFFICES ASSUME NEW v \in Workers, NEW i \in 1 .. Len(wsucc[v]) PROVE Waits(wsucc[v][i])'
          OBVIOUS
        <4>1. \A h : h = wsucc[v][i] => Waits(h)'
          BY <3>2, <3>4 DEF PlaceInv, EdgeInv
        <4> QED BY <2>1, <4>1 DEF Waits, Current
      <3> QED BY <2>1, <3>5, <3>6 DEF EdgeInv
    <2> QED BY <2>2, <2>3
  <1>17. ASSUME NEW c \in Clients, Enqueue(c) PROVE EdgeInv'
    <2>1. UNCHANGED <<generation, state, successors, wsucc>>
      BY <1>17 DEF Enqueue, slotVars
    <2> QED BY <2>1, WaitsStays, EdgeKept
  <1>18. ASSUME NEW w \in Workers, NEW h \in ready, Execute(w, h) PROVE EdgeInv'
    <2>1. /\ h.slot \in Slots /\ state[h.slot] # "Waiting" /\ state' = [state EXCEPT ![h.slot] = "Executing"]
          /\ UNCHANGED <<generation, successors, wsucc>>
      BY <1>18, ExecuteEffect DEF Execute
    <2>2. \A r \in Slots : r # h.slot => generation'[r] = generation[r] /\ state'[r] = state[r]
      BY <2>1 DEF PlaceInv, TypeInv, SlotType
    <2>3. \A g : Waits(g) => Waits(g)'
      <3> SUFFICES ASSUME NEW g, Waits(g) PROVE Waits(g)'
        OBVIOUS
      <3>1. g.slot # h.slot
        BY <2>1 DEF Waits
      <3> QED BY <2>1, <2>2, <3>1, WaitsKept
    <2> QED BY <2>1, <2>3, EdgeKept
  <1>19. ASSUME NEW w \in Workers, BodyReturn(w) PROVE EdgeInv'
    <2>1. UNCHANGED <<generation, state, successors, wsucc>>
      BY <1>19 DEF BodyReturn, slotVars
    <2> QED BY <2>1, WaitsStays, EdgeKept
  <1>20. ASSUME NEW w \in Workers, TakeSuccessors(w) PROVE EdgeInv'
    <2> DEFINE s == whandle[w].slot
    <2>1. /\ s \in Slots /\ UNCHANGED <<generation, state>>
          /\ wsucc' = [wsucc EXCEPT ![w] = successors[s]] /\ successors' = [successors EXCEPT ![s] = << >>]
      BY <1>20, ExecutedSlots DEF TakeSuccessors, Executes, Closing
    <2> HIDE DEF s
    <2>2. \A p \in Slots : \A i \in 1 .. Len(successors'[p]) : successors'[p] = successors[p]
      BY <2>1 DEF PlaceInv, TypeInv, SlotType
    <2>3. \A v \in Workers : wsucc'[v] = wsucc[v] \/ wsucc'[v] = successors[s]
      BY <2>1 DEF PlaceInv, TypeInv, WorkerType
    <2> QED BY <2>1, <2>2, <2>3 DEF PlaceInv, EdgeInv, Waits, Current
  <1>21. ASSUME NEW w \in Workers, StoreCompleted(w) PROVE EdgeInv'
    <2> DEFINE s == whandle[w].slot
    <2>1. s \in Slots /\ state[s] # "Waiting"
      BY <1>21, ExecutedSlots DEF StoreCompleted, Executes, Closing
    <2>2. state' = [state EXCEPT ![s] = "Completed"] /\ UNCHANGED <<generation, successors, wsucc>>
      BY <1>21 DEF StoreCompleted
    <2> HIDE DEF s
    <2>4. \A r \in Slots : r # s => generation'[r] = generation[r] /\ state'[r] = state[r]
      BY <2>1, <2>2 DEF PlaceInv, TypeInv, SlotType
    <2>5. \A h : Waits(h) => Waits(h)'
      <3> SUFFICES ASSUME NEW h, Waits(h) PROVE Waits(h)'
        OBVIOUS
      <3>1. h.slot # s
        BY <2>1 DEF Waits
      <3> QED BY <2>1, <2>4, <3>1, WaitsKept
    <2>6. \A p \in Slots : successors'[p] = successors[p] \/ successors'[p] = << >>
      BY <2>2 DEF PlaceInv, TypeInv, SlotType
    <2> QED BY <2>2, <2>5, <2>6, EdgeKept
  <1>22. ASSUME NEW w \in Workers, BumpGeneration(w) PROVE EdgeInv'
    <2> DEFINE s == whandle[w].slot
    <2>1. s \in Slots /\ state[s] # "Waiting"
      BY <1>22, ExecutedSlots DEF BumpGeneration, Executes, Closing
    <2>2. generation' = [generation EXCEPT ![s] = @ + 1] /\ UNCHANGED <<state, successors, wsucc>>
      BY <1>22 DEF BumpGeneration
    <2> HIDE DEF s
    <2>4. \A r \in Slots : r # s => generation'[r] = generation[r] /\ state'[r] = state[r]
      BY <2>1, <2>2 DEF PlaceInv, TypeInv, SlotType
    <2>5. \A h : Waits(h) => Waits(h)'
      <3> SUFFICES ASSUME NEW h, Waits(h) PROVE Waits(h)'
        OBVIOUS
      <3>1. h.slot # s
        BY <2>1 DEF Waits
      <3> QED BY <2>1, <2>4, <3>1, WaitsKept
    <2>6. \A p \in Slots : successors'[p] = successors[p] \/ successors'[p] = << >>
      BY <2>2 DEF PlaceInv, TypeInv, SlotType
    <2> QED BY <2>2, <2>5, <2>6, EdgeKept
  <1>23. ASSUME NEW w \in Workers, FreeSlot(w) PROVE EdgeInv'
    <2> DEFINE s == whandle[w].slot
    <2>1. s \in Slots /\ state[s] # "Waiting"
      BY <1>23, ExecutedSlots DEF FreeSlot, Executes, Closing
    <2>2. /\ state' = [state EXCEPT ![s] = "Free"] /\ successors' = [successors EXCEPT ![s] = << >>]
          /\ UNCHANGED <<generation, wsucc>>
      BY <1>23 DEF FreeSlot
    <2> HIDE DEF s
    <2>4. \A r \in Slots : r # s => generation'[r] = generation[r] /\ state'[r] = state[r]
      BY <2>1, <2>2 DEF PlaceInv, TypeInv, SlotType
    <2>5. \A h : Waits(h) => Waits(h)'
      <3> SUFFICES ASSUME NEW h, Waits(h) PROVE Waits(h)'
        OBVIOUS
      <3>1. h.slot # s
        BY <2>1 DEF Waits
      <3> QED BY <2>1, <2>4, <3>1, WaitsKept
    <2>6. \A p \in Slots : successors'[p] = successors[p] \/ successors'[p] = << >>
      BY <2>2 DEF PlaceInv, TypeInv, SlotType
    <2> QED BY <2>2, <2>5, <2>6, EdgeKept
  <1>24. ASSUME NEW w \in Workers, ReleaseDependent(w) PROVE EdgeInv'
    <2>1. PICK s \in Slots : Releases(w, s)
      BY <1>24, ReleaseEffect
    <2>2. /\ UNCHANGED <<generation, successors>> /\ wpc[w] = "release" /\ wsucc[w] # << >>
          /\ wsucc[w] \in Seq(Handle) /\ wsucc' = [wsucc EXCEPT ![w] = Tail(@)]
      BY <1>24, ReleaseEffect
    <2>3. \A v \in Workers : \A i \in 1 .. Len(wsucc'[v]) :
            \/ v = w /\ i + 1 \in 1 .. Len(wsucc[w]) /\ wsucc'[v][i] = wsucc[w][i + 1]
            \/ v # w /\ wsucc'[v] = wsucc[v]
      <3> SUFFICES ASSUME NEW v \in Workers, NEW i \in 1 .. Len(wsucc'[v])
                   PROVE  \/ v = w /\ i + 1 \in 1 .. Len(wsucc[w]) /\ wsucc'[v][i] = wsucc[w][i + 1]
                          \/ v # w /\ wsucc'[v] = wsucc[v]
        OBVIOUS
      <3>1. wsucc'[v] = IF v = w THEN Tail(wsucc[w]) ELSE wsucc[v]
        BY <2>2 DEF PlaceInv, TypeInv, WorkerType
      <3>2. \A q \in Seq(Handle) : \A j \in 1 .. Len(Tail(q)) : q # << >> => j + 1 \in 1 .. Len(q) /\ Tail(q)[j] = q[j + 1]
        OBVIOUS
      <3>3. CASE v = w
        BY <2>2, <3>1, <3>2, <3>3
      <3> QED BY <3>1, <3>3
    <2>4. /\ state' = state \/ (state' = [state EXCEPT ![s] = "Queued"] /\ pending[s] = 1)
          /\ state[s] = "Waiting"
      BY <2>1 DEF Releases
    <2>5. CASE UNCHANGED state
      BY <2>2, <2>3, <2>5 DEF PlaceInv, EdgeInv, Waits, Current
    <2>6. CASE state' = [state EXCEPT ![s] = "Queued"] /\ pending[s] = 1
      <3>1. /\ \A p \in Slots : \A i \in 1 .. Len(successors[p]) : successors[p][i].slot # s
            /\ \A v \in Workers : \A i \in 1 .. Len(wsucc[v]) : wsucc[v][i].slot = s => v = w /\ i = 1
        BY <2>1, <2>2, <2>6, LastIsAlone
      <3>2. \A r \in Slots : r # s => state'[r] = state[r]
        BY <2>6 DEF PlaceInv, TypeInv, SlotType
      <3>3. \A h : Waits(h) /\ h.slot # s => Waits(h)'
        BY <2>2, <3>2, WaitsKept
      <3>4. \A p \in Slots : \A i \in 1 .. Len(successors'[p]) : Waits(successors[p][i])'
        <4> SUFFICES ASSUME NEW p \in Slots, NEW i \in 1 .. Len(successors[p]) PROVE Waits(successors[p][i])'
          BY <2>2
        <4>1. \A h : h = successors[p][i] => Waits(h)'
          BY <3>1, <3>3 DEF PlaceInv, EdgeInv
        <4> QED BY <2>2, <4>1 DEF Waits, Current
      <3>5. \A v \in Workers : \A i \in 1 .. Len(wsucc'[v]) : Waits(wsucc[v][i])'
        <4> SUFFICES ASSUME NEW v \in Workers, NEW i \in 1 .. Len(wsucc'[v]) PROVE Waits(wsucc[v][i])'
          OBVIOUS
        <4>1. PICK j \in 1 .. Len(wsucc[v]) : wsucc'[v][i] = wsucc[v][j] /\ (v # w \/ j # 1)
          <5>1. CASE v = w
            BY <2>3, <5>1
          <5>2. CASE v # w
            BY <2>3, <5>2
          <5> QED BY <5>1, <5>2
        <4>2. \A h : h = wsucc[v][j] => Waits(h)'
          BY <3>1, <3>3, <4>1 DEF PlaceInv, EdgeInv
        <4> QED BY <4>1, <4>2 DEF Waits, Current
      <3> QED BY <3>4, <3>5 DEF EdgeInv
    <2> QED BY <2>4, <2>5, <2>6
  <1>25. ASSUME NEW w \in Workers, EnqueueDependent(w) PROVE EdgeInv'
    <2>1. UNCHANGED <<generation, state, successors, wsucc>>
      BY <1>25 DEF EnqueueDependent, slotVars
    <2> QED BY <2>1, WaitsStays, EdgeKept
  <1>26. ASSUME NEW w \in Workers, CompleteCount(w) PROVE EdgeInv'
    <2>1. UNCHANGED <<generation, state, successors, wsucc>>
      BY <1>26 DEF CompleteCount, slotVars
    <2> QED BY <2>1, WaitsStays, EdgeKept
  <1>27. CASE UNCHANGED vars
    <2>1. UNCHANGED <<generation, state, successors, wsucc>>
      BY <1>27 DEF vars, slotVars
    <2> QED BY <2>1, WaitsStays, EdgeKept
  <1> QED
    BY <1>1, <1>2, <1>3, <1>4, <1>5, <1>6, <1>7, <1>8, <1>9, <1>10, <1>11, <1>12, <1>13,
       <1>14, <1>15, <1>16, <1>17, <1>18, <1>19, <1>20, <1>21, <1>22, <1>23, <1>24, <1>25,
       <1>26, <1>27
    DEF Next, Submits, ClientStep, WorkerStep, AtRest


-----------------------------------------------------------------------------

(* What is true for ever: a task that finished, a handle that was issued. *)
Forever == \A t \in Tasks : (Finished(t) => phase'[t] = "finished") /\ (Issued(t) => handle'[t] = handle[t])

(* No step takes back that a task finished, or a handle. *)
LEMMA ForeverStep == PlaceInv /\ [Next]_vars => Forever
  <1> SUFFICES ASSUME PlaceInv, [Next]_vars PROVE Forever
    OBVIOUS
  <1> USE DEF Forever, PlaceInv, TypeInv, TaskType, Finished, Issued
  <1>1. ASSUME NEW c \in Clients, NEW t \in Tasks, NEW deps \in DepSeqs, SubmitCount(c, t, deps) PROVE Forever
    BY <1>1 DEF SubmitCount
  <1>2. ASSUME NEW c \in Clients, NEW s \in Slots, Acquire(c, s) PROVE Forever
    <2>1. /\ phase' = [phase EXCEPT ![ctask[c]] = "submitted"] /\ phase[ctask[c]] # "finished"
          /\ UNCHANGED handle
      BY <1>2 DEF Acquire, Accepted, ClientInv, ClientOk, Registration
    <2> QED BY <2>1
  <1>3. ASSUME NEW c \in Clients, NEW s \in Slots, Reserve(c, s) PROVE Forever
    BY <1>3 DEF Reserve
  <1>4. ASSUME NEW c \in Clients, Publish(c) PROVE Forever
    <2>1. /\ phase' = [phase EXCEPT ![ctask[c]] = "submitted"] /\ phase[ctask[c]] # "finished"
          /\ UNCHANGED handle
      BY <1>4 DEF Publish, Accepted, ClientInv, ClientOk, Registration
    <2> QED BY <2>1
  <1>5. ASSUME NEW c \in Clients, ConstructThrows(c) PROVE Forever
    BY <1>5 DEF ConstructThrows
  <1>6. ASSUME NEW c \in Clients, ConstructThrowsInline(c) PROVE Forever
    BY <1>6 DEF ConstructThrowsInline
  <1>7. ASSUME NEW c \in Clients, Rethrow(c) PROVE Forever
    BY <1>7 DEF Rethrow
  <1>8. ASSUME NEW c \in Clients, Exhausted(c) PROVE Forever
    <2>1. /\ phase' = [phase EXCEPT ![ctask[c]] = "submitted"] /\ phase[ctask[c]] # "finished"
          /\ UNCHANGED handle
      BY <1>8 DEF Exhausted, Accepted, ClientInv, ClientOk, Registration
    <2> QED BY <2>1
  <1>9. ASSUME NEW c \in Clients, InlineWait(c) PROVE Forever
    BY <1>9 DEF InlineWait
  <1>10. ASSUME NEW c \in Clients, InlineStart(c) PROVE Forever
    <2>1. /\ phase' = [phase EXCEPT ![ctask[c]] = "running"] /\ phase[ctask[c]] # "finished"
          /\ UNCHANGED handle
      BY <1>10 DEF InlineStart, Accepted, ClientInv, ClientOk, Registration
    <2> QED BY <2>1
  <1>11. ASSUME NEW c \in Clients, InlineFinish(c) PROVE Forever
    BY <1>11 DEF InlineFinish
  <1>12. ASSUME NEW c \in Clients, InlineCount(c) PROVE Forever
    <2>1. /\ ~Issued(ctask[c]) /\ UNCHANGED phase
          /\ \/ handle' = handle
             \/ \E h : handle' = [handle EXCEPT ![ctask[c]] = h]
      BY <1>12 DEF InlineCount, ClientInv, ClientOk
    <2> QED BY <2>1
  <1>13. ASSUME NEW c \in Clients, RegisterLookup(c) PROVE Forever
    BY <1>13 DEF RegisterLookup
  <1>14. ASSUME NEW c \in Clients, AddSuccessor(c) PROVE Forever
    <2>1. UNCHANGED <<handle, phase>>
      BY <1>14, AddSuccessorEffect
    <2> QED BY <2>1
  <1>15. ASSUME NEW c \in Clients, PreSatisfied(c) PROVE Forever
    BY <1>15 DEF PreSatisfied
  <1>16. ASSUME NEW c \in Clients, RemoveGuard(c) PROVE Forever
    <2>1. /\ ~Issued(ctask[c]) /\ UNCHANGED phase
          /\ \/ handle' = handle
             \/ \E h : handle' = [handle EXCEPT ![ctask[c]] = h]
      BY <1>16 DEF RemoveGuard, ClientInv, ClientOk
    <2> QED BY <2>1
  <1>17. ASSUME NEW c \in Clients, Enqueue(c) PROVE Forever
    <2>1. /\ ~Issued(ctask[c]) /\ UNCHANGED phase
          /\ \/ handle' = handle
             \/ \E h : handle' = [handle EXCEPT ![ctask[c]] = h]
      BY <1>17 DEF Enqueue, ClientInv, ClientOk
    <2> QED BY <2>1
  <1>18. ASSUME NEW w \in Workers, NEW h \in ready, Execute(w, h) PROVE Forever
    <2>1. /\ phase' = [phase EXCEPT ![body[h.slot]] = "running"] /\ phase[body[h.slot]] = "submitted"
          /\ UNCHANGED handle
      BY <1>18, ExecuteEffect DEF Execute
    <2> QED BY <2>1
  <1>19. ASSUME NEW w \in Workers, BodyReturn(w) PROVE Forever
    BY <1>19 DEF BodyReturn
  <1>20. ASSUME NEW w \in Workers, TakeSuccessors(w) PROVE Forever
    BY <1>20 DEF TakeSuccessors
  <1>21. ASSUME NEW w \in Workers, StoreCompleted(w) PROVE Forever
    BY <1>21 DEF StoreCompleted
  <1>22. ASSUME NEW w \in Workers, BumpGeneration(w) PROVE Forever
    BY <1>22 DEF BumpGeneration
  <1>23. ASSUME NEW w \in Workers, FreeSlot(w) PROVE Forever
    BY <1>23 DEF FreeSlot
  <1>24. ASSUME NEW w \in Workers, ReleaseDependent(w) PROVE Forever
    <2>1. UNCHANGED <<handle, phase>>
      BY <1>24, ReleaseEffect
    <2> QED BY <2>1
  <1>25. ASSUME NEW w \in Workers, EnqueueDependent(w) PROVE Forever
    BY <1>25 DEF EnqueueDependent
  <1>26. ASSUME NEW w \in Workers, CompleteCount(w) PROVE Forever
    BY <1>26 DEF CompleteCount
  <1>27. CASE UNCHANGED vars
    BY <1>27 DEF vars
  <1> QED
    BY <1>1, <1>2, <1>3, <1>4, <1>5, <1>6, <1>7, <1>8, <1>9, <1>10, <1>11, <1>12, <1>13,
       <1>14, <1>15, <1>16, <1>17, <1>18, <1>19, <1>20, <1>21, <1>22, <1>23, <1>24, <1>25,
       <1>26, <1>27
    DEF Next, Submits, ClientStep, WorkerStep, AtRest



(* The tasks a task was submitted after. *)
LEMMA AfterAreTasks ==
    ASSUME PlaceInv, NEW s \in Slots, state[s] # "Free"
    PROVE  body[s] \in Tasks /\ after[body[s]] \subseteq Tasks
  BY SlotsTask DEF PlaceInv, TypeInv, TaskType

(* An edge lasts while its list does. *)
LEMMA EdgeStays ==
    ASSUME PlaceInv, Forever, NEW d \in Tasks, NEW s, Edge(d, s), successors'[handle[d].slot] = successors[handle[d].slot]
    PROVE  Edge(d, s)'
  <1>1. handle'[d] = handle[d]
    BY HandleFacts DEF Forever, Edge, Issued, PlaceInv
  <1> QED BY <1>1 DEF Edge

(* A step that takes no notification from slot r but from a task that has  *)
(* finished.                                                               *)
LEMMA SlotDepsKept ==
    ASSUME PlaceInv, DepInv, Forever, NEW r \in Slots,
           state'[r] \in {"Waiting", "Queued"} =>
               state'[r] = state[r] /\ body'[r] = body[r] /\ after'[body[r]] = after[body[r]],
           \A d \in Tasks : Edge(d, r) => phase'[d] = "finished" \/ Edge(d, r)',
           \A e \in Clients : \A d \in Tasks : cpc[e] \in Registration /\ chandle[e].slot = r /\ Depends(e, d) =>
               \/ phase'[d] = "finished"
               \/ Edge(d, r)'
               \/ cpc'[e] \in Registration /\ chandle'[e].slot = r /\ Depends(e, d)'
    PROVE  SlotDeps(r)'
  <1>1. SUFFICES ASSUME state[r] \in {"Waiting", "Queued"}, state'[r] = state[r], body'[r] = body[r],
                        after'[body[r]] = after[body[r]]
                 PROVE  SlotDeps(r)'
    BY DEF SlotDeps
  <1>2. after[body[r]] \subseteq Tasks
    BY <1>1, AfterAreTasks
  <1>3. \A d \in after[body[r]] : Finished(d) => Finished(d)'
    BY <1>2 DEF Forever, Finished
  <1>4. CASE state[r] = "Queued"
    BY <1>1, <1>3, <1>4 DEF DepInv, SlotDepsInv, SlotDeps
  <1>5. CASE state[r] = "Waiting"
    <2> SUFFICES ASSUME NEW d \in after[body[r]]
                 PROVE  \/ Finished(d)'
                        \/ Edge(d, r)'
                        \/ \E e \in Clients : Registering(e)' /\ HasSlot(e, r)' /\ Depends(e, d)'
      BY <1>1, <1>5 DEF SlotDeps
    <2>1. d \in Tasks
      BY <1>2
    <2>2. CASE Finished(d)
      BY <1>3, <2>2
    <2>3. CASE Edge(d, r)
      BY <2>1, <2>3 DEF Finished
    <2>4. ASSUME NEW e \in Clients, Registering(e), HasSlot(e, r), Depends(e, d)
          PROVE  \/ Finished(d)'
                 \/ Edge(d, r)'
                 \/ Registering(e)' /\ HasSlot(e, r)' /\ Depends(e, d)'
      <3>1. cpc[e] \in Registration /\ chandle[e].slot = r
        BY <2>4 DEF Registering, HasSlot, Registration
      <3> QED BY <2>1, <2>4, <3>1 DEF Registering, HasSlot, Holds, Registration, Finished
    <2> QED BY <1>1, <1>5, <2>2, <2>3, <2>4 DEF DepInv, SlotDepsInv, SlotDeps
  <1> QED BY <1>1, <1>4, <1>5

(* The same when lists only empty and clients only come. *)
LEMMA SlotDepsStay ==
    ASSUME PlaceInv, DepInv, Forever, NEW r \in Slots,
           state'[r] \in {"Waiting", "Queued"} =>
               state'[r] = state[r] /\ body'[r] = body[r] /\ after'[body[r]] = after[body[r]],
           \A p \in Slots : successors'[p] = successors[p] \/ successors[p] = << >>,
           \A e \in Clients : cpc[e] \in Registration =>
               cpc'[e] \in Registration /\ chandle'[e] = chandle[e] /\ cdeps'[e] = cdeps[e]
    PROVE  SlotDeps(r)'
  <1>1. ASSUME NEW d \in Tasks, Edge(d, r) PROVE Edge(d, r)'
    <2>1. handle[d].slot \in Slots /\ successors[handle[d].slot] # << >>
      BY <1>1, HandleFacts DEF Edge, PlaceInv
    <2> QED BY <1>1, <2>1, EdgeStays
  <1>2. ASSUME NEW e \in Clients, NEW d \in Tasks, cpc[e] \in Registration, chandle[e].slot = r, Depends(e, d)
        PROVE  cpc'[e] \in Registration /\ chandle'[e].slot = r /\ Depends(e, d)'
    BY <1>2 DEF Depends
  <1> QED BY <1>1, <1>2, SlotDepsKept


(* A dependency that has not finished will notify. *)
LEMMA SlotDepsStep == PlaceInv /\ CountInv /\ DepInv /\ [Next]_vars => SlotDepsInv'
  <1> SUFFICES ASSUME PlaceInv, CountInv, DepInv, [Next]_vars PROVE SlotDepsInv'
    OBVIOUS
  <1> USE DEF clientVars, workerVars, Goto, WGoto
  <1>1. ASSUME NEW c \in Clients, NEW t \in Tasks, NEW deps \in DepSeqs, SubmitCount(c, t, deps) PROVE SlotDepsInv'
    <2> SUFFICES ASSUME NEW r \in Slots PROVE SlotDeps(r)'
      BY DEF SlotDepsInv
    <2>1. Forever
      BY ForeverStep
    <2>2. /\ state'[r] \in {"Waiting", "Queued"} =>
               state'[r] = state[r] /\ body'[r] = body[r] /\ after'[body[r]] = after[body[r]]
          /\ \A p \in Slots : successors'[p] = successors[p] \/ successors[p] = << >>
          /\ \A e \in Clients : cpc[e] \in Registration =>
               cpc'[e] \in Registration /\ chandle'[e] = chandle[e] /\ cdeps'[e] = cdeps[e]
      BY <1>1 DEF SubmitCount, slotVars, Registration, PlaceInv, TypeInv, SlotType, TaskType, ClientType
    <2> QED BY <2>1, <2>2, SlotDepsStay
  <1>2. ASSUME NEW c \in Clients, NEW s \in Slots, Acquire(c, s) PROVE SlotDepsInv'
    <2> SUFFICES ASSUME NEW r \in Slots PROVE SlotDeps(r)'
      BY DEF SlotDepsInv
    <2>1. Forever
      BY ForeverStep
    <2>2. /\ s \in Slots /\ successors[s] = << >> /\ ctask[c] \in Tasks /\ phase[ctask[c]] = "none"
          /\ cpc[c] = "acquire" /\ cdeps[c] \in Seq(Tasks)
      BY <1>2 DEF Acquire, PlaceInv, SlotInv, FreeInv, ClientInv, ClientOk, TypeInv, TaskType, ClientType
    <2>3. \A p \in Slots : body[p] # ctask[c]
      BY <2>2, NewHasNoSlot
    <2>4. /\ body' = [body EXCEPT ![s] = ctask[c]]
          /\ after' = [after EXCEPT ![ctask[c]] = ToSet(cdeps[c])]
          /\ successors' = [successors EXCEPT ![s] = << >>]
          /\ chandle' = [chandle EXCEPT ![c] = HandleOf(s)]
          /\ UNCHANGED cdeps
          /\ cpc' = [cpc EXCEPT ![c] = IF cdeps[c] = << >> THEN "enqueue" ELSE "register"]
          /\ state' = [state EXCEPT ![s] = IF cdeps[c] = << >> THEN "Queued" ELSE "Waiting"]
      BY <1>2, <2>2 DEF Acquire, Accepted
    <2> HIDE DEF HandleOf
    <2>5. CASE r # s
      <3>1. /\ state'[r] = state[r] /\ body'[r] = body[r] /\ after'[body[r]] = after[body[r]]
        BY <2>3, <2>4, <2>5 DEF PlaceInv, TypeInv, SlotType, TaskType
      <3>2. \A p \in Slots : successors'[p] = successors[p] \/ successors[p] = << >>
        BY <2>2, <2>4 DEF PlaceInv, TypeInv, SlotType
      <3>3. \A e \in Clients : cpc[e] \in Registration =>
               cpc'[e] \in Registration /\ chandle'[e] = chandle[e] /\ cdeps'[e] = cdeps[e]
        BY <2>2, <2>4 DEF PlaceInv, TypeInv, ClientType, Registration
      <3> QED BY <2>1, <3>1, <3>2, <3>3, SlotDepsStay
    <2>6. CASE r = s
      <3>1. /\ body'[r] = ctask[c] /\ after'[ctask[c]] = ToSet(cdeps[c])
            /\ chandle'[c] = HandleOf(s) /\ cdeps'[c] = cdeps[c]
            /\ cpc'[c] = IF cdeps[c] = << >> THEN "enqueue" ELSE "register"
            /\ state'[r] = IF cdeps[c] = << >> THEN "Queued" ELSE "Waiting"
        BY <2>2, <2>4, <2>6 DEF PlaceInv, TypeInv, SlotType, TaskType, ClientType
      <3>2. ToSet(cdeps[c]) = {x \in Tasks : Depends(c, x)} /\ HandleOf(s).slot = s
        BY DependsSet, HandleFacts, <2>2 DEF PlaceInv
      <3>3. CASE cdeps[c] = << >>
        <4>1. ToSet(cdeps[c]) = {}
          BY <3>3, <3>2 DEF Depends
        <4> QED BY <3>1, <3>3, <4>1 DEF SlotDeps
      <3>4. CASE cdeps[c] # << >>
        <4>1. Registering(c)' /\ HasSlot(c, r)'
          BY <2>6, <3>1, <3>2, <3>4 DEF Registering, HasSlot, Holds, Registration
        <4>2. \A x \in ToSet(cdeps[c]) : Depends(c, x)'
          BY <3>1, <3>2 DEF Depends
        <4> QED BY <3>1, <3>4, <4>1, <4>2 DEF SlotDeps
      <3> QED BY <3>3, <3>4
    <2> QED BY <2>5, <2>6
  <1>3. ASSUME NEW c \in Clients, NEW s \in Slots, Reserve(c, s) PROVE SlotDepsInv'
    <2> SUFFICES ASSUME NEW r \in Slots PROVE SlotDeps(r)'
      BY DEF SlotDepsInv
    <2>1. Forever
      BY ForeverStep
    <2>2. /\ UNCHANGED <<state, body, after>>
          /\ \A p \in Slots : successors'[p] = successors[p] \/ successors[p] = << >>
          /\ \A e \in Clients : cpc[e] \in Registration =>
               cpc'[e] \in Registration /\ chandle'[e] = chandle[e] /\ cdeps'[e] = cdeps[e]
      BY <1>3 DEF Reserve, Registration, PlaceInv, SlotInv, FreeInv, TypeInv, SlotType, TaskType, ClientType
    <2> QED BY <2>1, <2>2, SlotDepsStay
  <1>4. ASSUME NEW c \in Clients, Publish(c) PROVE SlotDepsInv'
    <2> SUFFICES ASSUME NEW r \in Slots PROVE SlotDeps(r)'
      BY DEF SlotDepsInv
    <2>1. Forever
      BY ForeverStep
    <2> DEFINE s == chandle[c].slot
    <2>2. /\ s \in Slots /\ ctask[c] \in Tasks /\ phase[ctask[c]] = "none"
          /\ cpc[c] = "construct" /\ cdeps[c] = << >>
      BY <1>4, ClientHolds DEF Publish, PlaceInv, ClientInv, ClientOk
    <2>3. \A p \in Slots : body[p] # ctask[c]
      BY <2>2, NewHasNoSlot
    <2>4. /\ body' = [body EXCEPT ![s] = ctask[c]]
          /\ after' = [after EXCEPT ![ctask[c]] = ToSet(cdeps[c])]
          /\ UNCHANGED <<successors, chandle, cdeps>>
          /\ cpc' = [cpc EXCEPT ![c] = "enqueue"]
          /\ state' = [state EXCEPT ![s] = "Queued"]
      BY <1>4 DEF Publish, Accepted
    <2> HIDE DEF s
    <2>5. CASE r # s
      <3>1. /\ state'[r] = state[r] /\ body'[r] = body[r] /\ after'[body[r]] = after[body[r]]
        BY <2>3, <2>4, <2>5 DEF PlaceInv, TypeInv, SlotType, TaskType
      <3>3. \A e \in Clients : cpc[e] \in Registration =>
               cpc'[e] \in Registration /\ chandle'[e] = chandle[e] /\ cdeps'[e] = cdeps[e]
        BY <2>2, <2>4 DEF PlaceInv, TypeInv, ClientType, Registration
      <3> QED BY <2>1, <2>4, <3>1, <3>3, SlotDepsStay
    <2>6. CASE r = s
      <3>1. body'[r] = ctask[c] /\ after'[ctask[c]] = ToSet(cdeps[c]) /\ state'[r] = "Queued"
        BY <2>2, <2>4, <2>6 DEF PlaceInv, TypeInv, SlotType, TaskType
      <3>2. ToSet(cdeps[c]) = {}
        <4>1. \A x \in Tasks : ~Depends(c, x)
          BY <2>2 DEF Depends
        <4> QED BY <4>1, DependsSet DEF PlaceInv
      <3> QED BY <3>1, <3>2 DEF SlotDeps
    <2> QED BY <2>5, <2>6
  <1>5. ASSUME NEW c \in Clients, ConstructThrows(c) PROVE SlotDepsInv'
    <2> SUFFICES ASSUME NEW r \in Slots PROVE SlotDeps(r)'
      BY DEF SlotDepsInv
    <2>1. Forever
      BY ForeverStep
    <2>2. /\ state'[r] \in {"Waiting", "Queued"} =>
               state'[r] = state[r] /\ body'[r] = body[r] /\ after'[body[r]] = after[body[r]]
          /\ \A p \in Slots : successors'[p] = successors[p] \/ successors[p] = << >>
          /\ \A e \in Clients : cpc[e] \in Registration =>
               cpc'[e] \in Registration /\ chandle'[e] = chandle[e] /\ cdeps'[e] = cdeps[e]
      BY <1>5 DEF ConstructThrows, slotVars, Registration, PlaceInv, TypeInv, SlotType, TaskType, ClientType
    <2> QED BY <2>1, <2>2, SlotDepsStay
  <1>6. ASSUME NEW c \in Clients, ConstructThrowsInline(c) PROVE SlotDepsInv'
    <2> SUFFICES ASSUME NEW r \in Slots PROVE SlotDeps(r)'
      BY DEF SlotDepsInv
    <2>1. Forever
      BY ForeverStep
    <2>2. /\ state'[r] \in {"Waiting", "Queued"} =>
               state'[r] = state[r] /\ body'[r] = body[r] /\ after'[body[r]] = after[body[r]]
          /\ \A p \in Slots : successors'[p] = successors[p] \/ successors[p] = << >>
          /\ \A e \in Clients : cpc[e] \in Registration =>
               cpc'[e] \in Registration /\ chandle'[e] = chandle[e] /\ cdeps'[e] = cdeps[e]
      BY <1>6 DEF ConstructThrowsInline, slotVars, Registration, PlaceInv, TypeInv, SlotType, TaskType, ClientType
    <2> QED BY <2>1, <2>2, SlotDepsStay
  <1>7. ASSUME NEW c \in Clients, Rethrow(c) PROVE SlotDepsInv'
    <2> SUFFICES ASSUME NEW r \in Slots PROVE SlotDeps(r)'
      BY DEF SlotDepsInv
    <2>1. Forever
      BY ForeverStep
    <2>2. /\ state'[r] \in {"Waiting", "Queued"} =>
               state'[r] = state[r] /\ body'[r] = body[r] /\ after'[body[r]] = after[body[r]]
          /\ \A p \in Slots : successors'[p] = successors[p] \/ successors[p] = << >>
          /\ \A e \in Clients : cpc[e] \in Registration =>
               cpc'[e] \in Registration /\ chandle'[e] = chandle[e] /\ cdeps'[e] = cdeps[e]
      BY <1>7 DEF Rethrow, slotVars, Registration, PlaceInv, TypeInv, SlotType, TaskType, ClientType
    <2> QED BY <2>1, <2>2, SlotDepsStay
  <1>8. ASSUME NEW c \in Clients, Exhausted(c) PROVE SlotDepsInv'
    <2> SUFFICES ASSUME NEW r \in Slots PROVE SlotDeps(r)'
      BY DEF SlotDepsInv
    <2>1. Forever
      BY ForeverStep
    <2>2. ctask[c] \in Tasks /\ phase[ctask[c]] = "none" /\ cpc[c] = "acquire"
      BY <1>8 DEF Exhausted, PlaceInv, ClientInv, ClientOk
    <2>3. \A p \in Slots : body[p] # ctask[c]
      BY <2>2, NewHasNoSlot
    <2>4. /\ state'[r] = state[r] /\ body'[r] = body[r] /\ after'[body[r]] = after[body[r]]
          /\ \A p \in Slots : successors'[p] = successors[p] \/ successors[p] = << >>
          /\ \A e \in Clients : cpc[e] \in Registration =>
               cpc'[e] \in Registration /\ chandle'[e] = chandle[e] /\ cdeps'[e] = cdeps[e]
      BY <1>8, <2>2, <2>3 DEF Exhausted, Accepted, slotVars, Registration, PlaceInv, TypeInv, TaskType, ClientType
    <2> QED BY <2>1, <2>4, SlotDepsStay
  <1>9. ASSUME NEW c \in Clients, InlineWait(c) PROVE SlotDepsInv'
    <2> SUFFICES ASSUME NEW r \in Slots PROVE SlotDeps(r)'
      BY DEF SlotDepsInv
    <2>1. Forever
      BY ForeverStep
    <2>2. /\ state'[r] \in {"Waiting", "Queued"} =>
               state'[r] = state[r] /\ body'[r] = body[r] /\ after'[body[r]] = after[body[r]]
          /\ \A p \in Slots : successors'[p] = successors[p] \/ successors[p] = << >>
          /\ \A e \in Clients : cpc[e] \in Registration =>
               cpc'[e] \in Registration /\ chandle'[e] = chandle[e] /\ cdeps'[e] = cdeps[e]
      BY <1>9 DEF InlineWait, slotVars, Registration, PlaceInv, TypeInv, SlotType, TaskType, ClientType
    <2> QED BY <2>1, <2>2, SlotDepsStay
  <1>10. ASSUME NEW c \in Clients, InlineStart(c) PROVE SlotDepsInv'
    <2> SUFFICES ASSUME NEW r \in Slots PROVE SlotDeps(r)'
      BY DEF SlotDepsInv
    <2>1. Forever
      BY ForeverStep
    <2>2. /\ state'[r] \in {"Waiting", "Queued"} =>
               state'[r] = state[r] /\ body'[r] = body[r] /\ after'[body[r]] = after[body[r]]
          /\ \A p \in Slots : successors'[p] = successors[p] \/ successors[p] = << >>
          /\ \A e \in Clients : cpc[e] \in Registration =>
               cpc'[e] \in Registration /\ chandle'[e] = chandle[e] /\ cdeps'[e] = cdeps[e]
      BY <1>10 DEF InlineStart, slotVars, Registration, PlaceInv, TypeInv, SlotType, TaskType, ClientType
    <2> QED BY <2>1, <2>2, SlotDepsStay
  <1>11. ASSUME NEW c \in Clients, InlineFinish(c) PROVE SlotDepsInv'
    <2> SUFFICES ASSUME NEW r \in Slots PROVE SlotDeps(r)'
      BY DEF SlotDepsInv
    <2>1. Forever
      BY ForeverStep
    <2>2. /\ state'[r] \in {"Waiting", "Queued"} =>
               state'[r] = state[r] /\ body'[r] = body[r] /\ after'[body[r]] = after[body[r]]
          /\ \A p \in Slots : successors'[p] = successors[p] \/ successors[p] = << >>
          /\ \A e \in Clients : cpc[e] \in Registration =>
               cpc'[e] \in Registration /\ chandle'[e] = chandle[e] /\ cdeps'[e] = cdeps[e]
      BY <1>11 DEF InlineFinish, slotVars, Registration, PlaceInv, TypeInv, SlotType, TaskType, ClientType
    <2> QED BY <2>1, <2>2, SlotDepsStay
  <1>12. ASSUME NEW c \in Clients, InlineCount(c) PROVE SlotDepsInv'
    <2> SUFFICES ASSUME NEW r \in Slots PROVE SlotDeps(r)'
      BY DEF SlotDepsInv
    <2>1. Forever
      BY ForeverStep
    <2>2. /\ state'[r] \in {"Waiting", "Queued"} =>
               state'[r] = state[r] /\ body'[r] = body[r] /\ after'[body[r]] = after[body[r]]
          /\ \A p \in Slots : successors'[p] = successors[p] \/ successors[p] = << >>
          /\ \A e \in Clients : cpc[e] \in Registration =>
               cpc'[e] \in Registration /\ chandle'[e] = chandle[e] /\ cdeps'[e] = cdeps[e]
      BY <1>12 DEF InlineCount, slotVars, Registration, PlaceInv, TypeInv, SlotType, TaskType, ClientType
    <2> QED BY <2>1, <2>2, SlotDepsStay
  <1>13. ASSUME NEW c \in Clients, RegisterLookup(c) PROVE SlotDepsInv'
    <2> SUFFICES ASSUME NEW r \in Slots PROVE SlotDeps(r)'
      BY DEF SlotDepsInv
    <2>1. Forever
      BY ForeverStep
    <2>2. /\ state'[r] \in {"Waiting", "Queued"} =>
               state'[r] = state[r] /\ body'[r] = body[r] /\ after'[body[r]] = after[body[r]]
          /\ \A p \in Slots : successors'[p] = successors[p] \/ successors[p] = << >>
          /\ \A e \in Clients : cpc[e] \in Registration =>
               cpc'[e] \in Registration /\ chandle'[e] = chandle[e] /\ cdeps'[e] = cdeps[e]
      BY <1>13 DEF RegisterLookup, slotVars, Registration, PlaceInv, TypeInv, SlotType, TaskType, ClientType
    <2> QED BY <2>1, <2>2, SlotDepsStay
  <1>14. ASSUME NEW c \in Clients, AddSuccessor(c) PROVE SlotDepsInv'
    <2> SUFFICES ASSUME NEW r \in Slots PROVE SlotDeps(r)'
      BY DEF SlotDepsInv
    <2>1. Forever
      BY ForeverStep
    <2>2. /\ UNCHANGED <<state, body, after, chandle, handle>> /\ cpc[c] = "addSuccessor" /\ cdeps[c] # << >>
          /\ Head(cdeps[c]) \in Tasks
      BY <1>14, AddSuccessorEffect
    <2>3. CASE FindsFinished(c)
      <3>1. \A e \in Clients : cpc[e] \in Registration => cpc'[e] \in Registration
        BY <2>3 DEF FindsFinished, Registration, PlaceInv, TypeInv, ClientType
      <3> QED BY <2>1, <2>2, <2>3, <3>1, SlotDepsStay DEF FindsFinished
    <2>4. ASSUME NEW p \in Slots, AddsEdge(c, p) PROVE SlotDeps(r)'
      <3>1. chandle[c] \in Handle
        BY <2>2, ClientHolds DEF PlaceInv, Registration
      <3>2. ASSUME NEW q \in Slots, NEW i \in 1 .. Len(successors[q])
            PROVE  i \in 1 .. Len(successors'[q]) /\ successors'[q][i] = successors[q][i]
        <4>1. successors[q] \in Seq(Handle)
          BY DEF PlaceInv, TypeInv, SlotType
        <4>2. successors'[q] = IF q = p THEN Append(successors[q], chandle[c]) ELSE successors[q]
          BY <2>4 DEF AddsEdge, PlaceInv, TypeInv, SlotType
        <4> QED BY <3>1, <4>1, <4>2
      <3>3. \E i \in 1 .. Len(successors'[p]) : successors'[p][i] = chandle[c]
        <4>1. successors[p] \in Seq(Handle)
          BY DEF PlaceInv, TypeInv, SlotType
        <4>2. successors'[p] = Append(successors[p], chandle[c])
          BY <2>4 DEF AddsEdge, PlaceInv, TypeInv, SlotType
        <4>3. Len(successors'[p]) \in 1 .. Len(successors'[p]) /\ successors'[p][Len(successors'[p])] = chandle[c]
          BY <3>1, <4>1, <4>2
        <4> QED BY <4>3
      <3>4. \A d \in Tasks : Edge(d, r) => Edge(d, r)'
        <4> SUFFICES ASSUME NEW d \in Tasks, Edge(d, r) PROVE Edge(d, r)'
          OBVIOUS
        <4>1. handle[d].slot \in Slots
          BY HandleFacts DEF Edge, PlaceInv
        <4> QED BY <2>2, <3>2, <4>1 DEF Edge
      <3>5. \A x : x = Head(cdeps[c]) /\ chandle[c].slot = r => Edge(x, r)'
        <4>1. \A x : x = Head(cdeps[c]) => handle'[x] \in Handle /\ handle'[x].slot = p
          BY <2>2, <2>4 DEF AddsEdge
        <4> QED BY <3>3, <4>1 DEF Edge
      <3> HIDE DEF Edge
      <3>6. ASSUME NEW e \in Clients, NEW d \in Tasks, cpc[e] \in Registration, chandle[e].slot = r, Depends(e, d)
            PROVE  Edge(d, r)' \/ (cpc'[e] \in Registration /\ Depends(e, d)')
        <4>1. CASE e = c
          <5>1. d = Head(cdeps[c]) \/ \E i \in 1 .. Len(Tail(cdeps[c])) : Tail(cdeps[c])[i] = d
            BY <2>2, <3>6, <4>1, NextDependency
          <5>2. cdeps'[c] = Tail(cdeps[c]) /\ cpc'[c] \in Registration
            BY <2>4 DEF AddsEdge, PlaceInv, TypeInv, ClientType, Registration
          <5> QED BY <3>5, <3>6, <4>1, <5>1, <5>2 DEF Depends
        <4>2. CASE e # c
          BY <2>4, <3>6, <4>2 DEF Depends, AddsEdge, PlaceInv, TypeInv, ClientType
        <4> QED BY <4>1, <4>2
      <3> QED BY <2>1, <2>2, <3>4, <3>6, SlotDepsKept
    <2> QED BY <1>14, <2>3, <2>4, AddSuccessorEffect
  <1>15. ASSUME NEW c \in Clients, PreSatisfied(c) PROVE SlotDepsInv'
    <2> SUFFICES ASSUME NEW r \in Slots PROVE SlotDeps(r)'
      BY DEF SlotDepsInv
    <2>1. Forever
      BY ForeverStep
    <2>2. /\ cpc[c] = "preSatisfied" /\ cdeps[c] # << >> /\ cdeps' = [cdeps EXCEPT ![c] = Tail(@)]
          /\ cpc' = [cpc EXCEPT ![c] = "register"] /\ UNCHANGED <<state, body, after, successors, chandle, handle>>
          /\ Finished(Head(cdeps[c])) /\ Head(cdeps[c]) \in Tasks
      BY <1>15, NextDependency DEF PreSatisfied, PlaceInv, ClientInv, ClientOk
    <2>3. phase'[Head(cdeps[c])] = "finished"
      BY <2>1, <2>2 DEF Forever
    <2>4. ASSUME NEW e \in Clients, NEW d \in Tasks, cpc[e] \in Registration, Depends(e, d)
          PROVE  phase'[d] = "finished" \/ (cpc'[e] \in Registration /\ Depends(e, d)')
      <3>1. CASE e = c
        <4>1. d = Head(cdeps[c]) \/ \E i \in 1 .. Len(Tail(cdeps[c])) : Tail(cdeps[c])[i] = d
          BY <2>2, <2>4, <3>1, NextDependency
        <4>2. cdeps'[c] = Tail(cdeps[c]) /\ cpc'[c] \in Registration
          BY <2>2 DEF PlaceInv, TypeInv, ClientType, Registration
        <4> QED BY <2>3, <3>1, <4>1, <4>2 DEF Depends
      <3>2. CASE e # c
        BY <2>2, <2>4, <3>2 DEF Depends, PlaceInv, TypeInv, ClientType
      <3> QED BY <3>1, <3>2
    <2>5. \A d \in Tasks : Edge(d, r) => Edge(d, r)'
      BY <2>2 DEF Edge
    <2> QED BY <2>1, <2>2, <2>4, <2>5, SlotDepsKept
  <1>16. ASSUME NEW c \in Clients, RemoveGuard(c) PROVE SlotDepsInv'
    <2> SUFFICES ASSUME NEW r \in Slots PROVE SlotDeps(r)'
      BY DEF SlotDepsInv
    <2>1. Forever
      BY ForeverStep
    <2> DEFINE s == chandle[c].slot
    <2>2. /\ s \in Slots /\ state[s] = "Waiting" /\ cpc[c] = "register" /\ cdeps[c] = << >> /\ body[s] = ctask[c]
          /\ UNCHANGED <<successors, body, after, chandle, cdeps>>
          /\ cpc' = [cpc EXCEPT ![c] = "enqueue"] \/ cpc' = [cpc EXCEPT ![c] = "idle"]
          /\ \/ state' = state
             \/ state' = [state EXCEPT ![s] = "Queued"] /\ pending[s] = 1
      BY <1>16, ClientHolds DEF RemoveGuard, PlaceInv, Registration
    <2>3. \A d \in Tasks : ~Depends(c, d)
      BY <2>2 DEF Depends
    <2>4. ASSUME NEW e \in Clients, NEW d \in Tasks, cpc[e] \in Registration, chandle[e].slot = r, Depends(e, d)
          PROVE  cpc'[e] \in Registration /\ chandle'[e].slot = r /\ Depends(e, d)'
      <3>1. e # c
        BY <2>3, <2>4
      <3> QED BY <2>2, <2>4, <3>1 DEF Depends, PlaceInv, TypeInv, ClientType
    <2>5. \A d \in Tasks : Edge(d, r) => Edge(d, r)'
      <3> SUFFICES ASSUME NEW d \in Tasks, Edge(d, r) PROVE Edge(d, r)'
        OBVIOUS
      <3> QED BY <2>1, <2>2, EdgeStays
    <2>6. CASE state'[r] = state[r]
      BY <2>1, <2>2, <2>4, <2>5, <2>6, SlotDepsKept
    <2>7. CASE state'[r] # state[r]
      <3>1. r = s /\ pending[s] = 1 /\ state'[r] = "Queued"
        BY <2>2, <2>7 DEF PlaceInv, TypeInv, SlotType
      <3>2. \A p \in Slots : \A i \in 1 .. Len(successors[p]) : successors[p][i].slot # s
        BY <2>2, <3>1, GuardIsAlone
      <3>3. ASSUME NEW d, Edge(d, s) PROVE FALSE
        BY <3>2, <3>3, HandleFacts DEF Edge, PlaceInv
      <3>4. ASSUME NEW e \in Clients, Registering(e), HasSlot(e, s) PROVE e = c
        BY <2>2, <3>4, ClientHolds DEF PlaceInv, ClientInv, HasSlot, Holds, Registration
      <3>5. after[body[s]] \subseteq Tasks
        BY <2>2, AfterAreTasks
      <3>6. \A d \in after[body[s]] : Finished(d)
        BY <2>2, <2>3, <3>3, <3>4, <3>5 DEF DepInv, SlotDepsInv, SlotDeps
      <3> QED BY <2>1, <2>2, <3>1, <3>5, <3>6 DEF SlotDeps, Forever, Finished
    <2> QED BY <2>6, <2>7
  <1>17. ASSUME NEW c \in Clients, Enqueue(c) PROVE SlotDepsInv'
    <2> SUFFICES ASSUME NEW r \in Slots PROVE SlotDeps(r)'
      BY DEF SlotDepsInv
    <2>1. Forever
      BY ForeverStep
    <2>2. /\ state'[r] \in {"Waiting", "Queued"} =>
               state'[r] = state[r] /\ body'[r] = body[r] /\ after'[body[r]] = after[body[r]]
          /\ \A p \in Slots : successors'[p] = successors[p] \/ successors[p] = << >>
          /\ \A e \in Clients : cpc[e] \in Registration =>
               cpc'[e] \in Registration /\ chandle'[e] = chandle[e] /\ cdeps'[e] = cdeps[e]
      BY <1>17 DEF Enqueue, slotVars, Registration, PlaceInv, TypeInv, SlotType, TaskType, ClientType
    <2> QED BY <2>1, <2>2, SlotDepsStay
  <1>18. ASSUME NEW w \in Workers, NEW h \in ready, Execute(w, h) PROVE SlotDepsInv'
    <2> SUFFICES ASSUME NEW r \in Slots PROVE SlotDeps(r)'
      BY DEF SlotDepsInv
    <2>1. Forever
      BY ForeverStep
    <2>2. /\ h.slot \in Slots /\ state' = [state EXCEPT ![h.slot] = "Executing"]
          /\ UNCHANGED <<body, successors, after, cpc, chandle, cdeps>>
      BY <1>18, ExecuteEffect DEF Execute
    <2>3. state'[r] \in {"Waiting", "Queued"} => state'[r] = state[r]
      BY <2>2 DEF PlaceInv, TypeInv, SlotType
    <2> QED BY <2>1, <2>2, <2>3, SlotDepsStay
  <1>19. ASSUME NEW w \in Workers, BodyReturn(w) PROVE SlotDepsInv'
    <2> SUFFICES ASSUME NEW r \in Slots PROVE SlotDeps(r)'
      BY DEF SlotDepsInv
    <2>1. Forever
      BY ForeverStep
    <2>2. /\ state'[r] \in {"Waiting", "Queued"} =>
               state'[r] = state[r] /\ body'[r] = body[r] /\ after'[body[r]] = after[body[r]]
          /\ \A p \in Slots : successors'[p] = successors[p] \/ successors[p] = << >>
          /\ \A e \in Clients : cpc[e] \in Registration =>
               cpc'[e] \in Registration /\ chandle'[e] = chandle[e] /\ cdeps'[e] = cdeps[e]
      BY <1>19 DEF BodyReturn, slotVars, Registration, PlaceInv, TypeInv, SlotType, TaskType, ClientType
    <2> QED BY <2>1, <2>2, SlotDepsStay
  <1>20. ASSUME NEW w \in Workers, TakeSuccessors(w) PROVE SlotDepsInv'
    <2> SUFFICES ASSUME NEW r \in Slots PROVE SlotDeps(r)'
      BY DEF SlotDepsInv
    <2>1. Forever
      BY ForeverStep
    <2> DEFINE s == whandle[w].slot
    <2>2. /\ s \in Slots /\ Finished(body[s]) /\ generation[s] = whandle[w].gen
      BY <1>20, ExecutedSlots DEF TakeSuccessors, Executes, Closing, PlaceInv, WorkerInv, WorkerOk, Finished
    <2>3. /\ successors' = [successors EXCEPT ![s] = << >>]
          /\ UNCHANGED <<state, body, after, cpc, chandle, cdeps>>
      BY <1>20 DEF TakeSuccessors
    <2> HIDE DEF s
    <2>4. ASSUME NEW d \in Tasks, Edge(d, r) PROVE phase'[d] = "finished" \/ Edge(d, r)'
      <3>1. handle[d] \in Handle /\ handle[d].slot \in Slots /\ handle[d].gen \in Nat /\ generation[handle[d].slot] \in Nat
        BY <2>4, HandleFacts DEF Edge, PlaceInv, TypeInv, SlotType
      <3>2. CASE handle[d].slot = s
        <4>1. Finished(d)
          BY <2>2, <3>1, <3>2 DEF PlaceInv, HandleInv, HandleOk
        <4> QED BY <2>1, <4>1 DEF Forever
      <3>3. CASE handle[d].slot # s
        <4>1. successors'[handle[d].slot] = successors[handle[d].slot]
          BY <2>3, <3>1, <3>3 DEF PlaceInv, TypeInv, SlotType
        <4> QED BY <2>1, <2>4, <4>1, EdgeStays
      <3> QED BY <3>2, <3>3
    <2>5. ASSUME NEW e \in Clients, NEW d \in Tasks, cpc[e] \in Registration, chandle[e].slot = r, Depends(e, d)
          PROVE  cpc'[e] \in Registration /\ chandle'[e].slot = r /\ Depends(e, d)'
      BY <2>3, <2>5 DEF Depends
    <2> QED BY <2>1, <2>3, <2>4, <2>5, SlotDepsKept
  <1>21. ASSUME NEW w \in Workers, StoreCompleted(w) PROVE SlotDepsInv'
    <2> SUFFICES ASSUME NEW r \in Slots PROVE SlotDeps(r)'
      BY DEF SlotDepsInv
    <2>1. Forever
      BY ForeverStep
    <2> DEFINE s == whandle[w].slot
    <2>2. s \in Slots /\ wpc[w] \in Closing /\ successors[s] = << >>
      BY <1>21, ExecutedSlots DEF StoreCompleted, Executes, Closing, PlaceInv, WorkerInv, WorkerOk
    <2>3. /\ state' = [state EXCEPT ![s] = "Completed"]
          /\ UNCHANGED <<body, successors>>
          /\ UNCHANGED <<after, cpc, chandle, cdeps>>
      BY <1>21 DEF StoreCompleted
    <2> HIDE DEF s
    <2>4. /\ state'[r] \in {"Waiting", "Queued"} => state'[r] = state[r] /\ body'[r] = body[r]
          /\ \A p \in Slots : successors'[p] = successors[p] \/ successors[p] = << >>
      BY <2>2, <2>3 DEF PlaceInv, TypeInv, SlotType
    <2> QED BY <2>1, <2>3, <2>4, SlotDepsStay
  <1>22. ASSUME NEW w \in Workers, BumpGeneration(w) PROVE SlotDepsInv'
    <2> SUFFICES ASSUME NEW r \in Slots PROVE SlotDeps(r)'
      BY DEF SlotDepsInv
    <2>1. Forever
      BY ForeverStep
    <2>2. /\ state'[r] \in {"Waiting", "Queued"} =>
               state'[r] = state[r] /\ body'[r] = body[r] /\ after'[body[r]] = after[body[r]]
          /\ \A p \in Slots : successors'[p] = successors[p] \/ successors[p] = << >>
          /\ \A e \in Clients : cpc[e] \in Registration =>
               cpc'[e] \in Registration /\ chandle'[e] = chandle[e] /\ cdeps'[e] = cdeps[e]
      BY <1>22 DEF BumpGeneration, slotVars, Registration, PlaceInv, TypeInv, SlotType, TaskType, ClientType
    <2> QED BY <2>1, <2>2, SlotDepsStay
  <1>23. ASSUME NEW w \in Workers, FreeSlot(w) PROVE SlotDepsInv'
    <2> SUFFICES ASSUME NEW r \in Slots PROVE SlotDeps(r)'
      BY DEF SlotDepsInv
    <2>1. Forever
      BY ForeverStep
    <2> DEFINE s == whandle[w].slot
    <2>2. s \in Slots /\ wpc[w] \in Closing /\ successors[s] = << >>
      BY <1>23, ExecutedSlots DEF FreeSlot, Executes, Closing, PlaceInv, WorkerInv, WorkerOk
    <2>3. /\ state' = [state EXCEPT ![s] = "Free"]
          /\ body' = [body EXCEPT ![s] = NoTask] /\ successors' = [successors EXCEPT ![s] = << >>]
          /\ UNCHANGED <<after, cpc, chandle, cdeps>>
      BY <1>23 DEF FreeSlot
    <2> HIDE DEF s
    <2>4. /\ state'[r] \in {"Waiting", "Queued"} => state'[r] = state[r] /\ body'[r] = body[r]
          /\ \A p \in Slots : successors'[p] = successors[p] \/ successors[p] = << >>
      BY <2>2, <2>3 DEF PlaceInv, TypeInv, SlotType
    <2> QED BY <2>1, <2>3, <2>4, SlotDepsStay
  <1>24. ASSUME NEW w \in Workers, ReleaseDependent(w) PROVE SlotDepsInv'
    <2> SUFFICES ASSUME NEW r \in Slots PROVE SlotDeps(r)'
      BY DEF SlotDepsInv
    <2>1. Forever
      BY ForeverStep
    <2>2. PICK s \in Slots : Releases(w, s)
      BY <1>24, ReleaseEffect
    <2>3. /\ UNCHANGED <<successors, body, after, cpc, chandle, cdeps>> /\ wpc[w] = "release" /\ wsucc[w] # << >>
      BY <1>24, ReleaseEffect DEF clientVars
    <2>4. /\ \/ state' = state
             \/ state' = [state EXCEPT ![s] = "Queued"] /\ pending[s] = 1
          /\ state[s] = "Waiting"
      BY <2>2 DEF Releases
    <2>5. CASE state'[r] = state[r]
      BY <2>1, <2>3, <2>5, SlotDepsStay
    <2>6. CASE state'[r] # state[r]
      <3>1. r = s /\ pending[s] = 1 /\ state'[r] = "Queued"
        BY <2>4, <2>6 DEF PlaceInv, TypeInv, SlotType
      <3>2. /\ \A p \in Slots : \A i \in 1 .. Len(successors[p]) : successors[p][i].slot # s
            /\ \A e \in Clients : ~HasSlot(e, s)
        BY <2>2, <2>3, <3>1, LastIsAlone
      <3>3. ASSUME NEW d, Edge(d, s) PROVE FALSE
        BY <3>2, <3>3, HandleFacts DEF Edge, PlaceInv
      <3>4. after[body[s]] \subseteq Tasks
        BY <2>4, AfterAreTasks
      <3>5. \A d \in after[body[s]] : Finished(d)
        BY <2>4, <3>2, <3>3 DEF DepInv, SlotDepsInv, SlotDeps
      <3> QED BY <2>1, <2>3, <3>1, <3>4, <3>5 DEF SlotDeps, Forever, Finished
    <2> QED BY <2>5, <2>6
  <1>25. ASSUME NEW w \in Workers, EnqueueDependent(w) PROVE SlotDepsInv'
    <2> SUFFICES ASSUME NEW r \in Slots PROVE SlotDeps(r)'
      BY DEF SlotDepsInv
    <2>1. Forever
      BY ForeverStep
    <2>2. /\ state'[r] \in {"Waiting", "Queued"} =>
               state'[r] = state[r] /\ body'[r] = body[r] /\ after'[body[r]] = after[body[r]]
          /\ \A p \in Slots : successors'[p] = successors[p] \/ successors[p] = << >>
          /\ \A e \in Clients : cpc[e] \in Registration =>
               cpc'[e] \in Registration /\ chandle'[e] = chandle[e] /\ cdeps'[e] = cdeps[e]
      BY <1>25 DEF EnqueueDependent, slotVars, Registration, PlaceInv, TypeInv, SlotType, TaskType, ClientType
    <2> QED BY <2>1, <2>2, SlotDepsStay
  <1>26. ASSUME NEW w \in Workers, CompleteCount(w) PROVE SlotDepsInv'
    <2> SUFFICES ASSUME NEW r \in Slots PROVE SlotDeps(r)'
      BY DEF SlotDepsInv
    <2>1. Forever
      BY ForeverStep
    <2>2. /\ state'[r] \in {"Waiting", "Queued"} =>
               state'[r] = state[r] /\ body'[r] = body[r] /\ after'[body[r]] = after[body[r]]
          /\ \A p \in Slots : successors'[p] = successors[p] \/ successors[p] = << >>
          /\ \A e \in Clients : cpc[e] \in Registration =>
               cpc'[e] \in Registration /\ chandle'[e] = chandle[e] /\ cdeps'[e] = cdeps[e]
      BY <1>26 DEF CompleteCount, slotVars, Registration, PlaceInv, TypeInv, SlotType, TaskType, ClientType
    <2> QED BY <2>1, <2>2, SlotDepsStay
  <1>27. CASE UNCHANGED vars
    <2> SUFFICES ASSUME NEW r \in Slots PROVE SlotDeps(r)'
      BY DEF SlotDepsInv
    <2>1. Forever
      BY ForeverStep
    <2>2. /\ state'[r] \in {"Waiting", "Queued"} =>
               state'[r] = state[r] /\ body'[r] = body[r] /\ after'[body[r]] = after[body[r]]
          /\ \A p \in Slots : successors'[p] = successors[p] \/ successors[p] = << >>
          /\ \A e \in Clients : cpc[e] \in Registration =>
               cpc'[e] \in Registration /\ chandle'[e] = chandle[e] /\ cdeps'[e] = cdeps[e]
      BY <1>27 DEF vars, slotVars, Registration, PlaceInv, TypeInv, SlotType, TaskType, ClientType
    <2> QED BY <2>1, <2>2, SlotDepsStay
  <1> QED
    BY <1>1, <1>2, <1>3, <1>4, <1>5, <1>6, <1>7, <1>8, <1>9, <1>10, <1>11, <1>12, <1>13,
       <1>14, <1>15, <1>16, <1>17, <1>18, <1>19, <1>20, <1>21, <1>22, <1>23, <1>24, <1>25,
       <1>26, <1>27
    DEF Next, Submits, ClientStep, WorkerStep, AtRest


(* A task depends on tasks whose handles the program had. *)
LEMMA DepIssuedStep == PlaceInv /\ DepInv /\ [Next]_vars => DepIssued'
  <1> SUFFICES ASSUME PlaceInv, DepInv, [Next]_vars PROVE DepIssued'
    OBVIOUS
  <1>1. ASSUME NEW c \in Clients, NEW t \in Tasks, NEW deps \in DepSeqs, SubmitCount(c, t, deps) PROVE DepIssued'
    <2>1. Forever
      BY ForeverStep
    <2>2. UNCHANGED after
      BY <1>1 DEF SubmitCount
    <2>3. \A x \in Tasks : Issued(x) => Issued(x)'
      BY <2>1 DEF Forever, Issued
    <2>4. \A u \in Tasks : after[u] \subseteq Tasks
      BY DEF PlaceInv, TypeInv, TaskType
    <2> QED BY <2>2, <2>3, <2>4 DEF DepInv, DepIssued
  <1>2. ASSUME NEW c \in Clients, NEW s \in Slots, Acquire(c, s) PROVE DepIssued'
    <2>1. Forever
      BY ForeverStep
    <2>2. after' = [after EXCEPT ![ctask[c]] = ToSet(cdeps[c])] /\ ctask[c] \in Tasks
      BY <1>2 DEF Acquire, Accepted, PlaceInv, ClientInv, ClientOk
    <2>3. \A x \in ToSet(cdeps[c]) : x \in Tasks /\ Issued(x)
      BY <1>2, DependsSet DEF Acquire, PlaceInv, ClientInv, ClientOk
    <2>4. \A u \in Tasks : after'[u] = after[u] \/ after'[u] = ToSet(cdeps[c])
      BY <2>2 DEF PlaceInv, TypeInv, TaskType
    <2>5. \A x \in Tasks : Issued(x) => Issued(x)'
      BY <2>1 DEF Forever, Issued
    <2>6. \A u \in Tasks : after[u] \subseteq Tasks
      BY DEF PlaceInv, TypeInv, TaskType
    <2> QED BY <2>3, <2>4, <2>5, <2>6 DEF DepInv, DepIssued
  <1>3. ASSUME NEW c \in Clients, NEW s \in Slots, Reserve(c, s) PROVE DepIssued'
    <2>1. Forever
      BY ForeverStep
    <2>2. UNCHANGED after
      BY <1>3 DEF Reserve
    <2>3. \A x \in Tasks : Issued(x) => Issued(x)'
      BY <2>1 DEF Forever, Issued
    <2>4. \A u \in Tasks : after[u] \subseteq Tasks
      BY DEF PlaceInv, TypeInv, TaskType
    <2> QED BY <2>2, <2>3, <2>4 DEF DepInv, DepIssued
  <1>4. ASSUME NEW c \in Clients, Publish(c) PROVE DepIssued'
    <2>1. Forever
      BY ForeverStep
    <2>2. after' = [after EXCEPT ![ctask[c]] = ToSet(cdeps[c])] /\ ctask[c] \in Tasks
      BY <1>4 DEF Publish, Accepted, PlaceInv, ClientInv, ClientOk
    <2>3. \A x \in ToSet(cdeps[c]) : x \in Tasks /\ Issued(x)
      BY <1>4, DependsSet DEF Publish, PlaceInv, ClientInv, ClientOk
    <2>4. \A u \in Tasks : after'[u] = after[u] \/ after'[u] = ToSet(cdeps[c])
      BY <2>2 DEF PlaceInv, TypeInv, TaskType
    <2>5. \A x \in Tasks : Issued(x) => Issued(x)'
      BY <2>1 DEF Forever, Issued
    <2>6. \A u \in Tasks : after[u] \subseteq Tasks
      BY DEF PlaceInv, TypeInv, TaskType
    <2> QED BY <2>3, <2>4, <2>5, <2>6 DEF DepInv, DepIssued
  <1>5. ASSUME NEW c \in Clients, ConstructThrows(c) PROVE DepIssued'
    <2>1. Forever
      BY ForeverStep
    <2>2. UNCHANGED after
      BY <1>5 DEF ConstructThrows
    <2>3. \A x \in Tasks : Issued(x) => Issued(x)'
      BY <2>1 DEF Forever, Issued
    <2>4. \A u \in Tasks : after[u] \subseteq Tasks
      BY DEF PlaceInv, TypeInv, TaskType
    <2> QED BY <2>2, <2>3, <2>4 DEF DepInv, DepIssued
  <1>6. ASSUME NEW c \in Clients, ConstructThrowsInline(c) PROVE DepIssued'
    <2>1. Forever
      BY ForeverStep
    <2>2. UNCHANGED after
      BY <1>6 DEF ConstructThrowsInline
    <2>3. \A x \in Tasks : Issued(x) => Issued(x)'
      BY <2>1 DEF Forever, Issued
    <2>4. \A u \in Tasks : after[u] \subseteq Tasks
      BY DEF PlaceInv, TypeInv, TaskType
    <2> QED BY <2>2, <2>3, <2>4 DEF DepInv, DepIssued
  <1>7. ASSUME NEW c \in Clients, Rethrow(c) PROVE DepIssued'
    <2>1. Forever
      BY ForeverStep
    <2>2. UNCHANGED after
      BY <1>7 DEF Rethrow
    <2>3. \A x \in Tasks : Issued(x) => Issued(x)'
      BY <2>1 DEF Forever, Issued
    <2>4. \A u \in Tasks : after[u] \subseteq Tasks
      BY DEF PlaceInv, TypeInv, TaskType
    <2> QED BY <2>2, <2>3, <2>4 DEF DepInv, DepIssued
  <1>8. ASSUME NEW c \in Clients, Exhausted(c) PROVE DepIssued'
    <2>1. Forever
      BY ForeverStep
    <2>2. after' = [after EXCEPT ![ctask[c]] = ToSet(cdeps[c])] /\ ctask[c] \in Tasks
      BY <1>8 DEF Exhausted, Accepted, PlaceInv, ClientInv, ClientOk
    <2>3. \A x \in ToSet(cdeps[c]) : x \in Tasks /\ Issued(x)
      BY <1>8, DependsSet DEF Exhausted, PlaceInv, ClientInv, ClientOk
    <2>4. \A u \in Tasks : after'[u] = after[u] \/ after'[u] = ToSet(cdeps[c])
      BY <2>2 DEF PlaceInv, TypeInv, TaskType
    <2>5. \A x \in Tasks : Issued(x) => Issued(x)'
      BY <2>1 DEF Forever, Issued
    <2>6. \A u \in Tasks : after[u] \subseteq Tasks
      BY DEF PlaceInv, TypeInv, TaskType
    <2> QED BY <2>3, <2>4, <2>5, <2>6 DEF DepInv, DepIssued
  <1>9. ASSUME NEW c \in Clients, InlineWait(c) PROVE DepIssued'
    <2>1. Forever
      BY ForeverStep
    <2>2. UNCHANGED after
      BY <1>9 DEF InlineWait
    <2>3. \A x \in Tasks : Issued(x) => Issued(x)'
      BY <2>1 DEF Forever, Issued
    <2>4. \A u \in Tasks : after[u] \subseteq Tasks
      BY DEF PlaceInv, TypeInv, TaskType
    <2> QED BY <2>2, <2>3, <2>4 DEF DepInv, DepIssued
  <1>10. ASSUME NEW c \in Clients, InlineStart(c) PROVE DepIssued'
    <2>1. Forever
      BY ForeverStep
    <2>2. UNCHANGED after
      BY <1>10 DEF InlineStart
    <2>3. \A x \in Tasks : Issued(x) => Issued(x)'
      BY <2>1 DEF Forever, Issued
    <2>4. \A u \in Tasks : after[u] \subseteq Tasks
      BY DEF PlaceInv, TypeInv, TaskType
    <2> QED BY <2>2, <2>3, <2>4 DEF DepInv, DepIssued
  <1>11. ASSUME NEW c \in Clients, InlineFinish(c) PROVE DepIssued'
    <2>1. Forever
      BY ForeverStep
    <2>2. UNCHANGED after
      BY <1>11 DEF InlineFinish
    <2>3. \A x \in Tasks : Issued(x) => Issued(x)'
      BY <2>1 DEF Forever, Issued
    <2>4. \A u \in Tasks : after[u] \subseteq Tasks
      BY DEF PlaceInv, TypeInv, TaskType
    <2> QED BY <2>2, <2>3, <2>4 DEF DepInv, DepIssued
  <1>12. ASSUME NEW c \in Clients, InlineCount(c) PROVE DepIssued'
    <2>1. Forever
      BY ForeverStep
    <2>2. UNCHANGED after
      BY <1>12 DEF InlineCount
    <2>3. \A x \in Tasks : Issued(x) => Issued(x)'
      BY <2>1 DEF Forever, Issued
    <2>4. \A u \in Tasks : after[u] \subseteq Tasks
      BY DEF PlaceInv, TypeInv, TaskType
    <2> QED BY <2>2, <2>3, <2>4 DEF DepInv, DepIssued
  <1>13. ASSUME NEW c \in Clients, RegisterLookup(c) PROVE DepIssued'
    <2>1. Forever
      BY ForeverStep
    <2>2. UNCHANGED after
      BY <1>13 DEF RegisterLookup
    <2>3. \A x \in Tasks : Issued(x) => Issued(x)'
      BY <2>1 DEF Forever, Issued
    <2>4. \A u \in Tasks : after[u] \subseteq Tasks
      BY DEF PlaceInv, TypeInv, TaskType
    <2> QED BY <2>2, <2>3, <2>4 DEF DepInv, DepIssued
  <1>14. ASSUME NEW c \in Clients, AddSuccessor(c) PROVE DepIssued'
    <2>1. Forever
      BY ForeverStep
    <2>2. UNCHANGED after
      BY <1>14, AddSuccessorEffect
    <2>3. \A x \in Tasks : Issued(x) => Issued(x)'
      BY <2>1 DEF Forever, Issued
    <2>4. \A u \in Tasks : after[u] \subseteq Tasks
      BY DEF PlaceInv, TypeInv, TaskType
    <2> QED BY <2>2, <2>3, <2>4 DEF DepInv, DepIssued
  <1>15. ASSUME NEW c \in Clients, PreSatisfied(c) PROVE DepIssued'
    <2>1. Forever
      BY ForeverStep
    <2>2. UNCHANGED after
      BY <1>15 DEF PreSatisfied
    <2>3. \A x \in Tasks : Issued(x) => Issued(x)'
      BY <2>1 DEF Forever, Issued
    <2>4. \A u \in Tasks : after[u] \subseteq Tasks
      BY DEF PlaceInv, TypeInv, TaskType
    <2> QED BY <2>2, <2>3, <2>4 DEF DepInv, DepIssued
  <1>16. ASSUME NEW c \in Clients, RemoveGuard(c) PROVE DepIssued'
    <2>1. Forever
      BY ForeverStep
    <2>2. UNCHANGED after
      BY <1>16 DEF RemoveGuard
    <2>3. \A x \in Tasks : Issued(x) => Issued(x)'
      BY <2>1 DEF Forever, Issued
    <2>4. \A u \in Tasks : after[u] \subseteq Tasks
      BY DEF PlaceInv, TypeInv, TaskType
    <2> QED BY <2>2, <2>3, <2>4 DEF DepInv, DepIssued
  <1>17. ASSUME NEW c \in Clients, Enqueue(c) PROVE DepIssued'
    <2>1. Forever
      BY ForeverStep
    <2>2. UNCHANGED after
      BY <1>17 DEF Enqueue
    <2>3. \A x \in Tasks : Issued(x) => Issued(x)'
      BY <2>1 DEF Forever, Issued
    <2>4. \A u \in Tasks : after[u] \subseteq Tasks
      BY DEF PlaceInv, TypeInv, TaskType
    <2> QED BY <2>2, <2>3, <2>4 DEF DepInv, DepIssued
  <1>18. ASSUME NEW w \in Workers, NEW h \in ready, Execute(w, h) PROVE DepIssued'
    <2>1. Forever
      BY ForeverStep
    <2>2. UNCHANGED after
      BY <1>18 DEF Execute
    <2>3. \A x \in Tasks : Issued(x) => Issued(x)'
      BY <2>1 DEF Forever, Issued
    <2>4. \A u \in Tasks : after[u] \subseteq Tasks
      BY DEF PlaceInv, TypeInv, TaskType
    <2> QED BY <2>2, <2>3, <2>4 DEF DepInv, DepIssued
  <1>19. ASSUME NEW w \in Workers, BodyReturn(w) PROVE DepIssued'
    <2>1. Forever
      BY ForeverStep
    <2>2. UNCHANGED after
      BY <1>19 DEF BodyReturn
    <2>3. \A x \in Tasks : Issued(x) => Issued(x)'
      BY <2>1 DEF Forever, Issued
    <2>4. \A u \in Tasks : after[u] \subseteq Tasks
      BY DEF PlaceInv, TypeInv, TaskType
    <2> QED BY <2>2, <2>3, <2>4 DEF DepInv, DepIssued
  <1>20. ASSUME NEW w \in Workers, TakeSuccessors(w) PROVE DepIssued'
    <2>1. Forever
      BY ForeverStep
    <2>2. UNCHANGED after
      BY <1>20 DEF TakeSuccessors
    <2>3. \A x \in Tasks : Issued(x) => Issued(x)'
      BY <2>1 DEF Forever, Issued
    <2>4. \A u \in Tasks : after[u] \subseteq Tasks
      BY DEF PlaceInv, TypeInv, TaskType
    <2> QED BY <2>2, <2>3, <2>4 DEF DepInv, DepIssued
  <1>21. ASSUME NEW w \in Workers, StoreCompleted(w) PROVE DepIssued'
    <2>1. Forever
      BY ForeverStep
    <2>2. UNCHANGED after
      BY <1>21 DEF StoreCompleted
    <2>3. \A x \in Tasks : Issued(x) => Issued(x)'
      BY <2>1 DEF Forever, Issued
    <2>4. \A u \in Tasks : after[u] \subseteq Tasks
      BY DEF PlaceInv, TypeInv, TaskType
    <2> QED BY <2>2, <2>3, <2>4 DEF DepInv, DepIssued
  <1>22. ASSUME NEW w \in Workers, BumpGeneration(w) PROVE DepIssued'
    <2>1. Forever
      BY ForeverStep
    <2>2. UNCHANGED after
      BY <1>22 DEF BumpGeneration
    <2>3. \A x \in Tasks : Issued(x) => Issued(x)'
      BY <2>1 DEF Forever, Issued
    <2>4. \A u \in Tasks : after[u] \subseteq Tasks
      BY DEF PlaceInv, TypeInv, TaskType
    <2> QED BY <2>2, <2>3, <2>4 DEF DepInv, DepIssued
  <1>23. ASSUME NEW w \in Workers, FreeSlot(w) PROVE DepIssued'
    <2>1. Forever
      BY ForeverStep
    <2>2. UNCHANGED after
      BY <1>23 DEF FreeSlot
    <2>3. \A x \in Tasks : Issued(x) => Issued(x)'
      BY <2>1 DEF Forever, Issued
    <2>4. \A u \in Tasks : after[u] \subseteq Tasks
      BY DEF PlaceInv, TypeInv, TaskType
    <2> QED BY <2>2, <2>3, <2>4 DEF DepInv, DepIssued
  <1>24. ASSUME NEW w \in Workers, ReleaseDependent(w) PROVE DepIssued'
    <2>1. Forever
      BY ForeverStep
    <2>2. UNCHANGED after
      BY <1>24, ReleaseEffect
    <2>3. \A x \in Tasks : Issued(x) => Issued(x)'
      BY <2>1 DEF Forever, Issued
    <2>4. \A u \in Tasks : after[u] \subseteq Tasks
      BY DEF PlaceInv, TypeInv, TaskType
    <2> QED BY <2>2, <2>3, <2>4 DEF DepInv, DepIssued
  <1>25. ASSUME NEW w \in Workers, EnqueueDependent(w) PROVE DepIssued'
    <2>1. Forever
      BY ForeverStep
    <2>2. UNCHANGED after
      BY <1>25 DEF EnqueueDependent
    <2>3. \A x \in Tasks : Issued(x) => Issued(x)'
      BY <2>1 DEF Forever, Issued
    <2>4. \A u \in Tasks : after[u] \subseteq Tasks
      BY DEF PlaceInv, TypeInv, TaskType
    <2> QED BY <2>2, <2>3, <2>4 DEF DepInv, DepIssued
  <1>26. ASSUME NEW w \in Workers, CompleteCount(w) PROVE DepIssued'
    <2>1. Forever
      BY ForeverStep
    <2>2. UNCHANGED after
      BY <1>26 DEF CompleteCount
    <2>3. \A x \in Tasks : Issued(x) => Issued(x)'
      BY <2>1 DEF Forever, Issued
    <2>4. \A u \in Tasks : after[u] \subseteq Tasks
      BY DEF PlaceInv, TypeInv, TaskType
    <2> QED BY <2>2, <2>3, <2>4 DEF DepInv, DepIssued
  <1>27. CASE UNCHANGED vars
    <2>1. Forever
      BY ForeverStep
    <2>2. UNCHANGED after
      BY <1>27 DEF vars
    <2>3. \A x \in Tasks : Issued(x) => Issued(x)'
      BY <2>1 DEF Forever, Issued
    <2>4. \A u \in Tasks : after[u] \subseteq Tasks
      BY DEF PlaceInv, TypeInv, TaskType
    <2> QED BY <2>2, <2>3, <2>4 DEF DepInv, DepIssued
  <1> QED
    BY <1>1, <1>2, <1>3, <1>4, <1>5, <1>6, <1>7, <1>8, <1>9, <1>10, <1>11, <1>12, <1>13,
       <1>14, <1>15, <1>16, <1>17, <1>18, <1>19, <1>20, <1>21, <1>22, <1>23, <1>24, <1>25,
       <1>26, <1>27
    DEF Next, Submits, ClientStep, WorkerStep, AtRest


(* A client that does not move in its wait. *)
LEMMA InlineDepsStay ==
    ASSUME PlaceInv, DepInv, Forever, NEW e \in Clients,
           cpc'[e] = "inlineWait" =>
               cpc[e] = "inlineWait" /\ ctask'[e] = ctask[e] /\ cdeps'[e] = cdeps[e] /\ after'[ctask[e]] = after[ctask[e]]
    PROVE  InlineDeps(e)'
  <1> SUFFICES ASSUME cpc[e] = "inlineWait", ctask'[e] = ctask[e], cdeps'[e] = cdeps[e], after'[ctask[e]] = after[ctask[e]]
               PROVE  InlineDeps(e)'
    BY DEF InlineDeps
  <1>1. ctask[e] \in Tasks /\ after[ctask[e]] \subseteq Tasks
    BY DEF PlaceInv, ClientInv, ClientOk, TypeInv, TaskType
  <1>2. \A x \in after[ctask[e]] : Finished(x) \/ Depends(e, x)
    BY DEF DepInv, InlineDepsInv, InlineDeps
  <1>3. \A x \in after[ctask[e]] : Finished(x)' \/ Depends(e, x)'
    BY <1>1, <1>2 DEF Forever, Finished, Depends
  <1> QED BY <1>3 DEF InlineDeps

(* A thread that runs its task inline has waited for what it skipped. *)
LEMMA InlineDepsStep == PlaceInv /\ DepInv /\ [Next]_vars => InlineDepsInv'
  <1> SUFFICES ASSUME PlaceInv, DepInv, [Next]_vars PROVE InlineDepsInv'
    OBVIOUS
  <1> USE DEF clientVars, workerVars, Goto, WGoto
  <1>1. ASSUME NEW c \in Clients, NEW t \in Tasks, NEW deps \in DepSeqs, SubmitCount(c, t, deps) PROVE InlineDepsInv'
    <2> SUFFICES ASSUME NEW e \in Clients PROVE InlineDeps(e)'
      BY DEF InlineDepsInv
    <2>1. Forever
      BY ForeverStep
    <2>2. cpc'[e] = "inlineWait" =>
               cpc[e] = "inlineWait" /\ ctask'[e] = ctask[e] /\ cdeps'[e] = cdeps[e] /\ after' = after
      BY <1>1 DEF SubmitCount, PlaceInv, TypeInv, ClientType
    <2> QED BY <2>1, <2>2, InlineDepsStay
  <1>2. ASSUME NEW c \in Clients, NEW s \in Slots, Acquire(c, s) PROVE InlineDepsInv'
    <2> SUFFICES ASSUME NEW e \in Clients PROVE InlineDeps(e)'
      BY DEF InlineDepsInv
    <2>1. Forever
      BY ForeverStep
    <2>2. /\ after' = [after EXCEPT ![ctask[c]] = ToSet(cdeps[c])] /\ ctask[c] \in Tasks /\ UNCHANGED <<ctask, cdeps>>
          /\ cpc[c] # "idle" /\ cpc'[c] # "inlineWait" /\ \A x \in Clients : x # c => cpc'[x] = cpc[x]
      BY <1>2 DEF Acquire, Accepted, PlaceInv, ClientInv, ClientOk, TypeInv, ClientType
    <2>3. cpc[e] # "idle" /\ e # c => ctask[e] # ctask[c]
      BY <2>2 DEF PlaceInv, ClientInv
    <2>4. cpc'[e] = "inlineWait" => cpc[e] = "inlineWait" /\ after'[ctask[e]] = after[ctask[e]]
      BY <2>2, <2>3 DEF PlaceInv, TypeInv, TaskType
    <2> QED BY <2>1, <2>2, <2>4, InlineDepsStay
  <1>3. ASSUME NEW c \in Clients, NEW s \in Slots, Reserve(c, s) PROVE InlineDepsInv'
    <2> SUFFICES ASSUME NEW e \in Clients PROVE InlineDeps(e)'
      BY DEF InlineDepsInv
    <2>1. Forever
      BY ForeverStep
    <2>2. cpc'[e] = "inlineWait" =>
               cpc[e] = "inlineWait" /\ ctask'[e] = ctask[e] /\ cdeps'[e] = cdeps[e] /\ after' = after
      BY <1>3 DEF Reserve, PlaceInv, TypeInv, ClientType
    <2> QED BY <2>1, <2>2, InlineDepsStay
  <1>4. ASSUME NEW c \in Clients, Publish(c) PROVE InlineDepsInv'
    <2> SUFFICES ASSUME NEW e \in Clients PROVE InlineDeps(e)'
      BY DEF InlineDepsInv
    <2>1. Forever
      BY ForeverStep
    <2>2. /\ after' = [after EXCEPT ![ctask[c]] = ToSet(cdeps[c])] /\ ctask[c] \in Tasks /\ UNCHANGED <<ctask, cdeps>>
          /\ cpc[c] # "idle" /\ cpc'[c] # "inlineWait" /\ \A x \in Clients : x # c => cpc'[x] = cpc[x]
      BY <1>4 DEF Publish, Accepted, PlaceInv, ClientInv, ClientOk, TypeInv, ClientType
    <2>3. cpc[e] # "idle" /\ e # c => ctask[e] # ctask[c]
      BY <2>2 DEF PlaceInv, ClientInv
    <2>4. cpc'[e] = "inlineWait" => cpc[e] = "inlineWait" /\ after'[ctask[e]] = after[ctask[e]]
      BY <2>2, <2>3 DEF PlaceInv, TypeInv, TaskType
    <2> QED BY <2>1, <2>2, <2>4, InlineDepsStay
  <1>5. ASSUME NEW c \in Clients, ConstructThrows(c) PROVE InlineDepsInv'
    <2> SUFFICES ASSUME NEW e \in Clients PROVE InlineDeps(e)'
      BY DEF InlineDepsInv
    <2>1. Forever
      BY ForeverStep
    <2>2. cpc'[e] = "inlineWait" =>
               cpc[e] = "inlineWait" /\ ctask'[e] = ctask[e] /\ cdeps'[e] = cdeps[e] /\ after' = after
      BY <1>5 DEF ConstructThrows, PlaceInv, TypeInv, ClientType
    <2> QED BY <2>1, <2>2, InlineDepsStay
  <1>6. ASSUME NEW c \in Clients, ConstructThrowsInline(c) PROVE InlineDepsInv'
    <2> SUFFICES ASSUME NEW e \in Clients PROVE InlineDeps(e)'
      BY DEF InlineDepsInv
    <2>1. Forever
      BY ForeverStep
    <2>2. cpc'[e] = "inlineWait" =>
               cpc[e] = "inlineWait" /\ ctask'[e] = ctask[e] /\ cdeps'[e] = cdeps[e] /\ after' = after
      BY <1>6 DEF ConstructThrowsInline, PlaceInv, TypeInv, ClientType
    <2> QED BY <2>1, <2>2, InlineDepsStay
  <1>7. ASSUME NEW c \in Clients, Rethrow(c) PROVE InlineDepsInv'
    <2> SUFFICES ASSUME NEW e \in Clients PROVE InlineDeps(e)'
      BY DEF InlineDepsInv
    <2>1. Forever
      BY ForeverStep
    <2>2. cpc'[e] = "inlineWait" =>
               cpc[e] = "inlineWait" /\ ctask'[e] = ctask[e] /\ cdeps'[e] = cdeps[e] /\ after' = after
      BY <1>7 DEF Rethrow, PlaceInv, TypeInv, ClientType
    <2> QED BY <2>1, <2>2, InlineDepsStay
  <1>8. ASSUME NEW c \in Clients, Exhausted(c) PROVE InlineDepsInv'
    <2> SUFFICES ASSUME NEW e \in Clients PROVE InlineDeps(e)'
      BY DEF InlineDepsInv
    <2>1. Forever
      BY ForeverStep
    <2>2. /\ after' = [after EXCEPT ![ctask[c]] = ToSet(cdeps[c])] /\ ctask[c] \in Tasks /\ UNCHANGED <<ctask, cdeps>>
          /\ cpc[c] # "idle" /\ \A x \in Clients : x # c => cpc'[x] = cpc[x]
      BY <1>8 DEF Exhausted, Accepted, PlaceInv, ClientInv, ClientOk, TypeInv, ClientType
    <2>3. CASE e # c
      <3>1. cpc[e] # "idle" => ctask[e] # ctask[c]
        BY <2>2, <2>3 DEF PlaceInv, ClientInv
      <3>2. cpc'[e] = "inlineWait" => cpc[e] = "inlineWait" /\ after'[ctask[e]] = after[ctask[e]]
        BY <2>2, <2>3, <3>1 DEF PlaceInv, TypeInv, TaskType
      <3> QED BY <2>1, <2>2, <3>2, InlineDepsStay
    <2>4. CASE e = c
      <3>1. after'[ctask'[e]] = ToSet(cdeps[e])
        BY <2>2, <2>4 DEF PlaceInv, TypeInv, TaskType
      <3>2. \A x \in ToSet(cdeps[e]) : Depends(e, x)'
        BY <2>2, DependsSet DEF PlaceInv, Depends
      <3> QED BY <3>1, <3>2 DEF InlineDeps
    <2> QED BY <2>3, <2>4
  <1>9. ASSUME NEW c \in Clients, InlineWait(c) PROVE InlineDepsInv'
    <2> SUFFICES ASSUME NEW e \in Clients PROVE InlineDeps(e)'
      BY DEF InlineDepsInv
    <2>1. Forever
      BY ForeverStep
    <2>2. /\ cpc[c] = "inlineWait" /\ cdeps[c] # << >> /\ cdeps' = [cdeps EXCEPT ![c] = Tail(@)]
          /\ UNCHANGED <<cpc, ctask, after>>
      BY <1>9 DEF InlineWait
    <2>3. CASE e # c
      <3>1. cdeps'[e] = cdeps[e]
        BY <2>2, <2>3 DEF PlaceInv, TypeInv, ClientType
      <3> QED BY <2>1, <2>2, <3>1, InlineDepsStay
    <2>4. CASE e = c
      <3>1. Finished(Head(cdeps[c]))
        BY <1>9, <2>2, NextDependency, CompleteIsFinished DEF InlineWait
      <3>2. /\ Head(cdeps[c]) \in Tasks
            /\ \A d \in Tasks : Depends(c, d) => d = Head(cdeps[c]) \/ \E i \in 1 .. Len(Tail(cdeps[c])) : Tail(cdeps[c])[i] = d
        BY <2>2, NextDependency
      <3>3. cdeps'[c] = Tail(cdeps[c]) /\ ctask[c] \in Tasks /\ after[ctask[c]] \subseteq Tasks
        BY <2>2 DEF PlaceInv, TypeInv, ClientType, TaskType, ClientInv, ClientOk
      <3>4. \A d \in after[ctask[c]] : Finished(d) \/ Depends(c, d)
        BY <2>2 DEF DepInv, InlineDepsInv, InlineDeps
      <3>5. \A d \in after[ctask[c]] : Finished(d) \/ Depends(c, d)'
        BY <3>1, <3>2, <3>3, <3>4 DEF Depends
      <3>6. \A d \in after[ctask[c]] : Finished(d)' \/ Depends(c, d)'
        BY <2>1, <3>3, <3>5 DEF Forever, Finished
      <3> QED BY <2>2, <2>4, <3>6 DEF InlineDeps
    <2> QED BY <2>3, <2>4
  <1>10. ASSUME NEW c \in Clients, InlineStart(c) PROVE InlineDepsInv'
    <2> SUFFICES ASSUME NEW e \in Clients PROVE InlineDeps(e)'
      BY DEF InlineDepsInv
    <2>1. Forever
      BY ForeverStep
    <2>2. cpc'[e] = "inlineWait" =>
               cpc[e] = "inlineWait" /\ ctask'[e] = ctask[e] /\ cdeps'[e] = cdeps[e] /\ after' = after
      BY <1>10 DEF InlineStart, PlaceInv, TypeInv, ClientType
    <2> QED BY <2>1, <2>2, InlineDepsStay
  <1>11. ASSUME NEW c \in Clients, InlineFinish(c) PROVE InlineDepsInv'
    <2> SUFFICES ASSUME NEW e \in Clients PROVE InlineDeps(e)'
      BY DEF InlineDepsInv
    <2>1. Forever
      BY ForeverStep
    <2>2. cpc'[e] = "inlineWait" =>
               cpc[e] = "inlineWait" /\ ctask'[e] = ctask[e] /\ cdeps'[e] = cdeps[e] /\ after' = after
      BY <1>11 DEF InlineFinish, PlaceInv, TypeInv, ClientType
    <2> QED BY <2>1, <2>2, InlineDepsStay
  <1>12. ASSUME NEW c \in Clients, InlineCount(c) PROVE InlineDepsInv'
    <2> SUFFICES ASSUME NEW e \in Clients PROVE InlineDeps(e)'
      BY DEF InlineDepsInv
    <2>1. Forever
      BY ForeverStep
    <2>2. cpc'[e] = "inlineWait" =>
               cpc[e] = "inlineWait" /\ ctask'[e] = ctask[e] /\ cdeps'[e] = cdeps[e] /\ after' = after
      BY <1>12 DEF InlineCount, PlaceInv, TypeInv, ClientType
    <2> QED BY <2>1, <2>2, InlineDepsStay
  <1>13. ASSUME NEW c \in Clients, RegisterLookup(c) PROVE InlineDepsInv'
    <2> SUFFICES ASSUME NEW e \in Clients PROVE InlineDeps(e)'
      BY DEF InlineDepsInv
    <2>1. Forever
      BY ForeverStep
    <2>2. cpc'[e] = "inlineWait" =>
               cpc[e] = "inlineWait" /\ ctask'[e] = ctask[e] /\ cdeps'[e] = cdeps[e] /\ after' = after
      BY <1>13 DEF RegisterLookup, PlaceInv, TypeInv, ClientType
    <2> QED BY <2>1, <2>2, InlineDepsStay
  <1>14. ASSUME NEW c \in Clients, AddSuccessor(c) PROVE InlineDepsInv'
    <2> SUFFICES ASSUME NEW e \in Clients PROVE InlineDeps(e)'
      BY DEF InlineDepsInv
    <2>1. Forever
      BY ForeverStep
    <2>2. /\ UNCHANGED <<ctask, after>> /\ cpc[c] = "addSuccessor"
          /\ \A x \in Clients : x # c => cpc'[x] = cpc[x] /\ cdeps'[x] = cdeps[x]
          /\ cpc'[c] # "inlineWait"
      BY <1>14, AddSuccessorEffect DEF AddsEdge, FindsFinished, PlaceInv, TypeInv, ClientType
    <2> QED BY <2>1, <2>2, InlineDepsStay
  <1>15. ASSUME NEW c \in Clients, PreSatisfied(c) PROVE InlineDepsInv'
    <2> SUFFICES ASSUME NEW e \in Clients PROVE InlineDeps(e)'
      BY DEF InlineDepsInv
    <2>1. Forever
      BY ForeverStep
    <2>2. cpc'[e] = "inlineWait" =>
               cpc[e] = "inlineWait" /\ ctask'[e] = ctask[e] /\ cdeps'[e] = cdeps[e] /\ after' = after
      BY <1>15 DEF PreSatisfied, PlaceInv, TypeInv, ClientType
    <2> QED BY <2>1, <2>2, InlineDepsStay
  <1>16. ASSUME NEW c \in Clients, RemoveGuard(c) PROVE InlineDepsInv'
    <2> SUFFICES ASSUME NEW e \in Clients PROVE InlineDeps(e)'
      BY DEF InlineDepsInv
    <2>1. Forever
      BY ForeverStep
    <2>2. cpc'[e] = "inlineWait" =>
               cpc[e] = "inlineWait" /\ ctask'[e] = ctask[e] /\ cdeps'[e] = cdeps[e] /\ after' = after
      BY <1>16 DEF RemoveGuard, PlaceInv, TypeInv, ClientType
    <2> QED BY <2>1, <2>2, InlineDepsStay
  <1>17. ASSUME NEW c \in Clients, Enqueue(c) PROVE InlineDepsInv'
    <2> SUFFICES ASSUME NEW e \in Clients PROVE InlineDeps(e)'
      BY DEF InlineDepsInv
    <2>1. Forever
      BY ForeverStep
    <2>2. cpc'[e] = "inlineWait" =>
               cpc[e] = "inlineWait" /\ ctask'[e] = ctask[e] /\ cdeps'[e] = cdeps[e] /\ after' = after
      BY <1>17 DEF Enqueue, PlaceInv, TypeInv, ClientType
    <2> QED BY <2>1, <2>2, InlineDepsStay
  <1>18. ASSUME NEW w \in Workers, NEW h \in ready, Execute(w, h) PROVE InlineDepsInv'
    <2> SUFFICES ASSUME NEW e \in Clients PROVE InlineDeps(e)'
      BY DEF InlineDepsInv
    <2>1. Forever
      BY ForeverStep
    <2>2. cpc'[e] = "inlineWait" =>
               cpc[e] = "inlineWait" /\ ctask'[e] = ctask[e] /\ cdeps'[e] = cdeps[e] /\ after' = after
      BY <1>18 DEF Execute, PlaceInv, TypeInv, ClientType
    <2> QED BY <2>1, <2>2, InlineDepsStay
  <1>19. ASSUME NEW w \in Workers, BodyReturn(w) PROVE InlineDepsInv'
    <2> SUFFICES ASSUME NEW e \in Clients PROVE InlineDeps(e)'
      BY DEF InlineDepsInv
    <2>1. Forever
      BY ForeverStep
    <2>2. cpc'[e] = "inlineWait" =>
               cpc[e] = "inlineWait" /\ ctask'[e] = ctask[e] /\ cdeps'[e] = cdeps[e] /\ after' = after
      BY <1>19 DEF BodyReturn, PlaceInv, TypeInv, ClientType
    <2> QED BY <2>1, <2>2, InlineDepsStay
  <1>20. ASSUME NEW w \in Workers, TakeSuccessors(w) PROVE InlineDepsInv'
    <2> SUFFICES ASSUME NEW e \in Clients PROVE InlineDeps(e)'
      BY DEF InlineDepsInv
    <2>1. Forever
      BY ForeverStep
    <2>2. cpc'[e] = "inlineWait" =>
               cpc[e] = "inlineWait" /\ ctask'[e] = ctask[e] /\ cdeps'[e] = cdeps[e] /\ after' = after
      BY <1>20 DEF TakeSuccessors, PlaceInv, TypeInv, ClientType
    <2> QED BY <2>1, <2>2, InlineDepsStay
  <1>21. ASSUME NEW w \in Workers, StoreCompleted(w) PROVE InlineDepsInv'
    <2> SUFFICES ASSUME NEW e \in Clients PROVE InlineDeps(e)'
      BY DEF InlineDepsInv
    <2>1. Forever
      BY ForeverStep
    <2>2. cpc'[e] = "inlineWait" =>
               cpc[e] = "inlineWait" /\ ctask'[e] = ctask[e] /\ cdeps'[e] = cdeps[e] /\ after' = after
      BY <1>21 DEF StoreCompleted, PlaceInv, TypeInv, ClientType
    <2> QED BY <2>1, <2>2, InlineDepsStay
  <1>22. ASSUME NEW w \in Workers, BumpGeneration(w) PROVE InlineDepsInv'
    <2> SUFFICES ASSUME NEW e \in Clients PROVE InlineDeps(e)'
      BY DEF InlineDepsInv
    <2>1. Forever
      BY ForeverStep
    <2>2. cpc'[e] = "inlineWait" =>
               cpc[e] = "inlineWait" /\ ctask'[e] = ctask[e] /\ cdeps'[e] = cdeps[e] /\ after' = after
      BY <1>22 DEF BumpGeneration, PlaceInv, TypeInv, ClientType
    <2> QED BY <2>1, <2>2, InlineDepsStay
  <1>23. ASSUME NEW w \in Workers, FreeSlot(w) PROVE InlineDepsInv'
    <2> SUFFICES ASSUME NEW e \in Clients PROVE InlineDeps(e)'
      BY DEF InlineDepsInv
    <2>1. Forever
      BY ForeverStep
    <2>2. cpc'[e] = "inlineWait" =>
               cpc[e] = "inlineWait" /\ ctask'[e] = ctask[e] /\ cdeps'[e] = cdeps[e] /\ after' = after
      BY <1>23 DEF FreeSlot, PlaceInv, TypeInv, ClientType
    <2> QED BY <2>1, <2>2, InlineDepsStay
  <1>24. ASSUME NEW w \in Workers, ReleaseDependent(w) PROVE InlineDepsInv'
    <2> SUFFICES ASSUME NEW e \in Clients PROVE InlineDeps(e)'
      BY DEF InlineDepsInv
    <2>1. Forever
      BY ForeverStep
    <2>2. cpc'[e] = "inlineWait" =>
               cpc[e] = "inlineWait" /\ ctask'[e] = ctask[e] /\ cdeps'[e] = cdeps[e] /\ after' = after
      BY <1>24, ReleaseEffect DEF clientVars
    <2> QED BY <2>1, <2>2, InlineDepsStay
  <1>25. ASSUME NEW w \in Workers, EnqueueDependent(w) PROVE InlineDepsInv'
    <2> SUFFICES ASSUME NEW e \in Clients PROVE InlineDeps(e)'
      BY DEF InlineDepsInv
    <2>1. Forever
      BY ForeverStep
    <2>2. cpc'[e] = "inlineWait" =>
               cpc[e] = "inlineWait" /\ ctask'[e] = ctask[e] /\ cdeps'[e] = cdeps[e] /\ after' = after
      BY <1>25 DEF EnqueueDependent, PlaceInv, TypeInv, ClientType
    <2> QED BY <2>1, <2>2, InlineDepsStay
  <1>26. ASSUME NEW w \in Workers, CompleteCount(w) PROVE InlineDepsInv'
    <2> SUFFICES ASSUME NEW e \in Clients PROVE InlineDeps(e)'
      BY DEF InlineDepsInv
    <2>1. Forever
      BY ForeverStep
    <2>2. cpc'[e] = "inlineWait" =>
               cpc[e] = "inlineWait" /\ ctask'[e] = ctask[e] /\ cdeps'[e] = cdeps[e] /\ after' = after
      BY <1>26 DEF CompleteCount, PlaceInv, TypeInv, ClientType
    <2> QED BY <2>1, <2>2, InlineDepsStay
  <1>27. CASE UNCHANGED vars
    <2> SUFFICES ASSUME NEW e \in Clients PROVE InlineDeps(e)'
      BY DEF InlineDepsInv
    <2>1. Forever
      BY ForeverStep
    <2>2. cpc'[e] = "inlineWait" =>
               cpc[e] = "inlineWait" /\ ctask'[e] = ctask[e] /\ cdeps'[e] = cdeps[e] /\ after' = after
      BY <1>27 DEF vars, PlaceInv, TypeInv, ClientType
    <2> QED BY <2>1, <2>2, InlineDepsStay
  <1> QED
    BY <1>1, <1>2, <1>3, <1>4, <1>5, <1>6, <1>7, <1>8, <1>9, <1>10, <1>11, <1>12, <1>13,
       <1>14, <1>15, <1>16, <1>17, <1>18, <1>19, <1>20, <1>21, <1>22, <1>23, <1>24, <1>25,
       <1>26, <1>27
    DEF Next, Submits, ClientStep, WorkerStep, AtRest


-----------------------------------------------------------------------------

(* The notifications owed to the task in slot r, one place at a time. *)
LEMMA EdgesStay ==
    ASSUME NEW r, \A p \in Slots : successors'[p] = successors[p]
    PROVE  \A x : IsEdge(x, r)' <=> IsEdge(x, r)
  BY DEF IsEdge

(* The edges that workers have taken over stay with their lists, ...       *)
LEMMA TakenStay ==
    ASSUME NEW r, \A v \in Workers : wsucc'[v] = wsucc[v]
    PROVE  \A x : IsTaken(x, r)' <=> IsTaken(x, r)
  BY DEF IsTaken

(* ... and the calls still to come with the registrations, ...             *)
LEMMA CallsStay ==
    ASSUME NEW r,
           \A e \in Clients : (Registering(e) /\ chandle[e].slot = r) <=> (cpc'[e] \in Registration /\ chandle'[e].slot = r),
           \A e \in Clients : Registering(e) /\ chandle[e].slot = r => cdeps'[e] = cdeps[e]
    PROVE  \A x : IsCall(x, r)' <=> IsCall(x, r)
  BY DEF IsCall, Registering, Registration

(* ... so a slot is owed what it was if each kind is as it was.            *)
LEMMA OwedStays ==
    ASSUME NEW r, \A x : IsEdge(x, r)' <=> IsEdge(x, r), \A x : IsTaken(x, r)' <=> IsTaken(x, r),
           \A x : IsCall(x, r)' <=> IsCall(x, r)
    PROVE  Owed(r)' = Owed(r)
  <1>1. \A x : x \in Owed(r)' <=> IsEdge(x, r)' \/ IsTaken(x, r)' \/ IsCall(x, r)'
    BY OwedIsNext
  <1>2. \A x : x \in Owed(r)' <=> x \in Owed(r)
    BY <1>1, OwedIs
  <1> QED BY <1>2

(* pending_dependencies of slot r. *)
CountOk(r) ==
    /\ pending[r] \in Nat
    /\ state[r] = "Waiting" => IsFiniteSet(Owed(r)) /\ pending[r] = Cardinality(Owed(r))

(* A slot whose count and debts stay keeps them equal.                     *)
LEMMA CountKept ==
    ASSUME CountInv, NEW r \in Slots, pending'[r] = pending[r],
           state'[r] = "Waiting" => state[r] = "Waiting" /\ Owed(r)' = Owed(r)
    PROVE  CountOk(r)'
  <1>1. CountOk(r)
    BY DEF CountInv, CountOk
  <1>2. CASE state'[r] = "Waiting"
    <2>1. Owed(r)' = Owed(r) /\ state[r] = "Waiting"
      BY <1>2
    <2>2. IsFiniteSet(Owed(r)') /\ pending'[r] = Cardinality(Owed(r)')
      BY <1>1, <2>1 DEF CountOk
    <2> QED BY <1>1, <2>2 DEF CountOk
  <1> QED BY <1>1, <1>2 DEF CountOk

(* One notification has come. *)
LEMMA CountLoses ==
    ASSUME CountInv, NEW r \in Slots, state[r] = "Waiting", NEW x \in Owed(r),
           pending'[r] = pending[r] - 1, state'[r] = "Waiting" => Owed(r)' = Owed(r) \ {x}
    PROVE  CountOk(r)'
  <1>1. IsFiniteSet(Owed(r)) /\ pending[r] = Cardinality(Owed(r))
    BY DEF CountInv
  <1>2. /\ IsFiniteSet(Owed(r) \ {x}) /\ Cardinality(Owed(r) \ {x}) = Cardinality(Owed(r)) - 1
        /\ Cardinality(Owed(r)) \in Nat \ {0}
    BY <1>1, Loses
  <1>3. pending'[r] \in Nat
    BY <1>1, <1>2
  <1>4. CASE state'[r] = "Waiting"
    <2>1. IsFiniteSet(Owed(r)') /\ pending'[r] = Cardinality(Owed(r)')
      BY <1>1, <1>2, <1>4
    <2> QED BY <1>3, <2>1 DEF CountOk
  <1> QED BY <1>3, <1>4 DEF CountOk

(* A client's own notifications. *)
LEMMA CallsOf ==
    ASSUME PlaceInv, NEW c \in Clients, cpc[c] \in Registration
    PROVE  /\ Registering(c) /\ chandle[c].slot \in Slots /\ state[chandle[c].slot] = "Waiting"
           /\ Len(cdeps[c]) \in Nat /\ cdeps[c] \in Seq(Tasks)
           /\ \A e \in Clients : Registering(e) /\ chandle[e].slot = chandle[c].slot => e = c
           /\ \A x : IsCall(x, chandle[c].slot) <=> \E i \in 0 .. Len(cdeps[c]) : x = <<"call", c, i>>
           /\ \A i \in 0 .. Len(cdeps[c]) : <<"call", c, i>> \in Owed(chandle[c].slot)
  <1> DEFINE s == chandle[c].slot
  <1>1. s \in Slots /\ state[s] = "Waiting" /\ body[s] = ctask[c]
    BY ClientHolds DEF PlaceInv, Registration
  <1>2. Registering(c) /\ cdeps[c] \in Seq(Tasks) /\ Len(cdeps[c]) \in Nat
    BY DEF Registering, Registration, PlaceInv, TypeInv, ClientType
  <1>3. ASSUME NEW e \in Clients, Registering(e), chandle[e].slot = s PROVE e = c
    <2>1. body[s] = ctask[e] /\ cpc[e] # "idle" /\ cpc[c] # "idle"
      BY <1>3, ClientHolds DEF Registering, PlaceInv, Registration
    <2> QED BY <1>1, <2>1 DEF PlaceInv, ClientInv
  <1>4. \A x : IsCall(x, s) <=> \E i \in 0 .. Len(cdeps[c]) : x = <<"call", c, i>>
    BY <1>2, <1>3 DEF IsCall
  <1>5. \A i \in 0 .. Len(cdeps[c]) : <<"call", c, i>> \in Owed(s)
    BY <1>4, OwedIs
  <1> QED BY <1>1, <1>2, <1>3, <1>4, <1>5

(* The clients' own notifications for other slots, while client c deals    *)
(* with its own.                                                           *)
LEMMA OtherCallsStay ==
    ASSUME PlaceInv, NEW c \in Clients, cpc[c] \in Registration, NEW r \in Slots, r # chandle[c].slot,
           UNCHANGED chandle,
           \A e \in Clients : e # c => cpc'[e] = cpc[e] /\ cdeps'[e] = cdeps[e]
    PROVE  \A x : IsCall(x, r)' <=> IsCall(x, r)
  <1>1. \A e \in Clients : (Registering(e) /\ chandle[e].slot = r) <=> (cpc'[e] \in Registration /\ chandle'[e].slot = r)
    BY DEF Registering, Registration
  <1>2. \A e \in Clients : Registering(e) /\ chandle[e].slot = r => cdeps'[e] = cdeps[e]
    OBVIOUS
  <1> QED BY <1>1, <1>2, CallsStay

(* Client c takes its last notification off. *)
LEMMA CallTaken ==
    ASSUME PlaceInv, NEW c \in Clients, cpc[c] \in Registration, NEW s, s = chandle[c].slot, UNCHANGED chandle,
           \A e \in Clients : e # c => cpc'[e] = cpc[e] /\ cdeps'[e] = cdeps[e],
           \/ cdeps[c] # << >> /\ cdeps'[c] = Tail(cdeps[c]) /\ cpc'[c] \in Registration
           \/ cdeps[c] = << >> /\ cpc'[c] \notin Registration
    PROVE  \A x : IsCall(x, s)' <=> IsCall(x, s) /\ x # <<"call", c, Len(cdeps[c])>>
  <1> DEFINE n == Len(cdeps[c])
  <1>1. /\ Registering(c) /\ n \in Nat /\ cdeps[c] \in Seq(Tasks)
        /\ \A e \in Clients : Registering(e) /\ chandle[e].slot = s => e = c
        /\ \A x : IsCall(x, s) <=> \E i \in 0 .. n : x = <<"call", c, i>>
    BY CallsOf
  <1>2. \A x : IsCall(x, s) /\ x # <<"call", c, n>> <=> \E i \in 0 .. n - 1 : x = <<"call", c, i>>
    <2> HIDE DEF n
    <2>1. \A i \in 0 .. n : i # n <=> i \in 0 .. n - 1
      BY <1>1
    <2>2. \A i \in 0 .. n - 1 : i \in 0 .. n
      BY <1>1
    <2>3. \A i, j : <<"call", c, i>> = <<"call", c, j>> => i = j
      OBVIOUS
    <2> QED BY <1>1, <2>1, <2>2, <2>3
  <1>3. \A e \in Clients : Registering(e)' <=> cpc'[e] \in Registration
    BY DEF Registering, Registration
  <1>4. \A e \in Clients : Registering(e)' /\ chandle'[e].slot = s => e = c
    BY <1>1, <1>3 DEF Registering, Registration
  <1>5. CASE cdeps[c] # << >> /\ cdeps'[c] = Tail(cdeps[c]) /\ cpc'[c] \in Registration
    <2>1. Len(cdeps'[c]) = n - 1
      BY <1>1, <1>5
    <2>2. \A x : IsCall(x, s)' <=> \E i \in 0 .. n - 1 : x = <<"call", c, i>>
      BY <1>3, <1>4, <1>5, <2>1 DEF IsCall
    <2> QED BY <1>2, <2>2
  <1>6. CASE cdeps[c] = << >> /\ cpc'[c] \notin Registration
    <2>1. n = 0 /\ \A x : ~IsCall(x, s)'
      BY <1>3, <1>4, <1>6 DEF IsCall
    <2> QED BY <1>2, <2>1
  <1> QED BY <1>5, <1>6

(* A step that does nothing to the count of slot r, nor to what it counts. *)
LEMMA CountStays ==
    ASSUME CountInv, NEW r \in Slots, pending'[r] = pending[r], state'[r] = "Waiting" => state[r] = "Waiting",
           \A p \in Slots : successors'[p] = successors[p], \A v \in Workers : wsucc'[v] = wsucc[v],
           \A e \in Clients : cpc[e] \in Registration <=> cpc'[e] \in Registration,
           \A e \in Clients : cpc[e] \in Registration => chandle'[e] = chandle[e] /\ cdeps'[e] = cdeps[e]
    PROVE  CountOk(r)'
  <1>1. \A e \in Clients : (Registering(e) /\ chandle[e].slot = r) <=> (cpc'[e] \in Registration /\ chandle'[e].slot = r)
    BY DEF Registering, Registration
  <1>2. \A e \in Clients : Registering(e) /\ chandle[e].slot = r => cdeps'[e] = cdeps[e]
    BY DEF Registering, Registration
  <1>3. Owed(r)' = Owed(r)
    BY <1>1, <1>2, EdgesStay, TakenStay, CallsStay, OwedStays
  <1> QED BY <1>3, CountKept


(* pending_dependencies counts the notifications to come. *)
LEMMA CountInvStep == PlaceInv /\ CountInv /\ [Next]_vars => CountInv'
  <1> SUFFICES ASSUME PlaceInv, CountInv, [Next]_vars PROVE CountInv'
    OBVIOUS
  <1> USE DEF clientVars, workerVars, Goto, WGoto
  <1>1. ASSUME NEW c \in Clients, NEW t \in Tasks, NEW deps \in DepSeqs, SubmitCount(c, t, deps) PROVE CountInv'
    <2> SUFFICES ASSUME NEW r \in Slots PROVE CountOk(r)'
      BY DEF CountInv, CountOk
    <2>1. /\ UNCHANGED <<pending, state>>
          /\ \A p \in Slots : successors'[p] = successors[p]
          /\ \A v \in Workers : wsucc'[v] = wsucc[v]
          /\ \A e \in Clients : cpc[e] \in Registration <=> cpc'[e] \in Registration
          /\ \A e \in Clients : cpc[e] \in Registration => chandle'[e] = chandle[e] /\ cdeps'[e] = cdeps[e]
      BY <1>1 DEF SubmitCount, slotVars, Registration, PlaceInv, TypeInv, SlotType, TaskType, ClientType, WorkerType
    <2> QED BY <2>1, CountStays
  <1>2. ASSUME NEW c \in Clients, NEW s \in Slots, Acquire(c, s) PROVE CountInv'
    <2> SUFFICES ASSUME NEW r \in Slots PROVE CountOk(r)'
      BY DEF CountInv, CountOk
    <2> DEFINE n == Len(cdeps[c])
    <2>1. /\ s \in Slots /\ successors[s] = << >> /\ state[s] = "Free" /\ cpc[c] = "acquire"
          /\ cdeps[c] \in Seq(Tasks) /\ n \in Nat /\ (n = 0 <=> cdeps[c] = << >>)
      BY <1>2 DEF Acquire, PlaceInv, SlotInv, FreeInv, TypeInv, TaskType, ClientType
    <2>2. /\ successors' = [successors EXCEPT ![s] = << >>]
          /\ pending' = [pending EXCEPT ![s] = IF n = 0 THEN 0 ELSE n + 1]
          /\ state' = [state EXCEPT ![s] = IF n = 0 THEN "Queued" ELSE "Waiting"]
          /\ chandle' = [chandle EXCEPT ![c] = HandleOf(s)]
          /\ cpc' = [cpc EXCEPT ![c] = IF n = 0 THEN "enqueue" ELSE "register"]
          /\ UNCHANGED <<cdeps, wsucc>>
      BY <1>2 DEF Acquire
    <2>3. HandleOf(s).slot = s
      BY HandleFacts DEF PlaceInv
    <2> HIDE DEF HandleOf, n
    <2>4. \A p \in Slots : successors'[p] = successors[p]
      BY <2>1, <2>2 DEF PlaceInv, TypeInv, SlotType
    <2>5. \A e \in Clients : cpc[e] \in Registration => chandle[e].slot \in Slots /\ chandle[e].slot # s
      BY <2>1, ClientHolds DEF PlaceInv, Registration
    <2>6. \A e \in Clients : e # c => cpc'[e] = cpc[e] /\ chandle'[e] = chandle[e] /\ cdeps'[e] = cdeps[e]
      BY <2>2 DEF PlaceInv, TypeInv, ClientType
    <2>7. chandle'[c] = HandleOf(s) /\ cpc'[c] = IF n = 0 THEN "enqueue" ELSE "register"
      BY <2>2 DEF PlaceInv, TypeInv, ClientType
    <2>8. CASE r # s
      <3>1. pending'[r] = pending[r] /\ state'[r] = state[r]
        BY <2>2, <2>8 DEF PlaceInv, TypeInv, SlotType
      <3>2. \A e \in Clients : (Registering(e) /\ chandle[e].slot = r) <=> (cpc'[e] \in Registration /\ chandle'[e].slot = r)
        BY <2>1, <2>3, <2>6, <2>7, <2>8 DEF Registering, Registration
      <3>3. \A e \in Clients : Registering(e) /\ chandle[e].slot = r => cdeps'[e] = cdeps[e]
        BY <2>2
      <3>4. Owed(r)' = Owed(r)
        BY <2>2, <2>4, <3>2, <3>3, EdgesStay, TakenStay, CallsStay, OwedStays
      <3> QED BY <3>1, <3>4, CountKept
    <2>9. CASE r = s
      <3>1. pending'[r] = (IF n = 0 THEN 0 ELSE n + 1) /\ state'[r] = IF n = 0 THEN "Queued" ELSE "Waiting"
        BY <2>1, <2>2, <2>9 DEF PlaceInv, TypeInv, SlotType
      <3>2. CASE n = 0
        BY <3>1, <3>2 DEF CountOk
      <3>3. CASE n # 0
        <4>1. ASSUME NEW x, IsEdge(x, r)' PROVE FALSE
          <5>1. IsEdge(x, r)
            BY <2>4, <4>1, EdgesStay
          <5>2. PICK p \in Slots : \E i \in 1 .. Len(successors[p]) : successors[p][i].slot = s
            BY <2>9, <5>1 DEF IsEdge
          <5> QED BY <2>1, <5>2 DEF PlaceInv, EdgeInv, Waits
        <4>2. ASSUME NEW x, IsTaken(x, r)' PROVE FALSE
          <5>1. IsTaken(x, r)
            BY <2>2, <4>2, TakenStay
          <5>2. PICK v \in Workers : \E i \in 1 .. Len(wsucc[v]) : wsucc[v][i].slot = s
            BY <2>9, <5>1 DEF IsTaken
          <5> QED BY <2>1, <5>2 DEF PlaceInv, EdgeInv, Waits
        <4>3. \A e \in Clients : (Registering(e)' /\ chandle'[e].slot = r) <=> e = c
          <5>1. \A e \in Clients : Registering(e)' <=> cpc'[e] \in Registration
            BY DEF Registering, Registration
          <5>2. cpc'[c] \in Registration /\ chandle'[c].slot = r
            BY <2>3, <2>7, <2>9, <3>3 DEF Registration
          <5> QED BY <2>5, <2>6, <2>9, <5>1, <5>2
        <4>4. \A x : IsCall(x, r)' <=> \E i \in 0 .. n : x = <<"call", c, i>>
          BY <2>2, <4>3 DEF IsCall, n
        <4>5. \A x : x \in Owed(r)' <=> \E i \in 0 .. n : x = <<"call", c, i>>
          BY <4>1, <4>2, <4>4, OwedIsNext
        <4> DEFINE Tokens == {<<"call", c, i>> : i \in 0 .. n}
                   f == [i \in 0 .. n |-> <<"call", c, i>>]
        <4>6. Owed(r)' = Tokens
          BY <4>5
        <4>7. IsFiniteSet(0 .. n) /\ Cardinality(0 .. n) = n + 1
          BY <2>1, FS_Interval
        <4>8. f \in [0 .. n -> Tokens] /\ (\A i, j \in 0 .. n : f[i] = f[j] => i = j) /\ (\A x \in Tokens : \E i \in 0 .. n : f[i] = x)
          OBVIOUS
        <4>9. IsFiniteSet(Tokens) /\ Cardinality(Tokens) = n + 1
          <5> HIDE DEF Tokens, f
          <5> QED BY <4>7, <4>8, SameSize
        <4> HIDE DEF Tokens
        <4>10. pending'[r] \in Nat /\ pending'[r] = n + 1
          BY <2>1, <3>1, <3>3
        <4> QED BY <4>6, <4>9, <4>10 DEF CountOk
      <3> QED BY <3>2, <3>3
    <2> QED BY <2>8, <2>9
  <1>3. ASSUME NEW c \in Clients, NEW s \in Slots, Reserve(c, s) PROVE CountInv'
    <2> SUFFICES ASSUME NEW r \in Slots PROVE CountOk(r)'
      BY DEF CountInv, CountOk
    <2>1. s \in Slots /\ successors[s] = << >> /\ state[s] = "Free"
      BY <1>3 DEF Reserve, PlaceInv, SlotInv, FreeInv, TypeInv, TaskType
    <2>2. CASE r # s
      <3>1. /\ pending'[r] = pending[r] /\ UNCHANGED state
            /\ \A p \in Slots : successors'[p] = successors[p]
            /\ \A v \in Workers : wsucc'[v] = wsucc[v]
            /\ \A e \in Clients : cpc[e] \in Registration <=> cpc'[e] \in Registration
            /\ \A e \in Clients : cpc[e] \in Registration => chandle'[e] = chandle[e] /\ cdeps'[e] = cdeps[e]
        BY <1>3, <2>1, <2>2 DEF Reserve, Registration, PlaceInv, TypeInv, SlotType, TaskType, ClientType, WorkerType
      <3> QED BY <3>1, CountStays
    <2>3. CASE r = s
      BY <1>3, <2>1, <2>3 DEF Reserve, CountOk, PlaceInv, TypeInv, SlotType
    <2> QED BY <2>2, <2>3
  <1>4. ASSUME NEW c \in Clients, Publish(c) PROVE CountInv'
    <2> SUFFICES ASSUME NEW r \in Slots PROVE CountOk(r)'
      BY DEF CountInv, CountOk
    <2>1. chandle[c].slot \in Slots
      BY <1>4, ClientHolds DEF Publish, PlaceInv
    <2>2. /\ UNCHANGED pending /\ (state'[r] = "Waiting" => state[r] = "Waiting")
          /\ \A p \in Slots : successors'[p] = successors[p]
          /\ \A v \in Workers : wsucc'[v] = wsucc[v]
          /\ \A e \in Clients : cpc[e] \in Registration <=> cpc'[e] \in Registration
          /\ \A e \in Clients : cpc[e] \in Registration => chandle'[e] = chandle[e] /\ cdeps'[e] = cdeps[e]
      BY <1>4, <2>1 DEF Publish, slotVars, Registration, PlaceInv, TypeInv, SlotType, TaskType, ClientType, WorkerType
    <2> QED BY <2>2, CountStays
  <1>5. ASSUME NEW c \in Clients, ConstructThrows(c) PROVE CountInv'
    <2> SUFFICES ASSUME NEW r \in Slots PROVE CountOk(r)'
      BY DEF CountInv, CountOk
    <2>1. /\ UNCHANGED <<pending, state>>
          /\ \A p \in Slots : successors'[p] = successors[p]
          /\ \A v \in Workers : wsucc'[v] = wsucc[v]
          /\ \A e \in Clients : cpc[e] \in Registration <=> cpc'[e] \in Registration
          /\ \A e \in Clients : cpc[e] \in Registration => chandle'[e] = chandle[e] /\ cdeps'[e] = cdeps[e]
      BY <1>5 DEF ConstructThrows, slotVars, Registration, PlaceInv, TypeInv, SlotType, TaskType, ClientType, WorkerType
    <2> QED BY <2>1, CountStays
  <1>6. ASSUME NEW c \in Clients, ConstructThrowsInline(c) PROVE CountInv'
    <2> SUFFICES ASSUME NEW r \in Slots PROVE CountOk(r)'
      BY DEF CountInv, CountOk
    <2>1. /\ UNCHANGED <<pending, state>>
          /\ \A p \in Slots : successors'[p] = successors[p]
          /\ \A v \in Workers : wsucc'[v] = wsucc[v]
          /\ \A e \in Clients : cpc[e] \in Registration <=> cpc'[e] \in Registration
          /\ \A e \in Clients : cpc[e] \in Registration => chandle'[e] = chandle[e] /\ cdeps'[e] = cdeps[e]
      BY <1>6 DEF ConstructThrowsInline, slotVars, Registration, PlaceInv, TypeInv, SlotType, TaskType, ClientType, WorkerType
    <2> QED BY <2>1, CountStays
  <1>7. ASSUME NEW c \in Clients, Rethrow(c) PROVE CountInv'
    <2> SUFFICES ASSUME NEW r \in Slots PROVE CountOk(r)'
      BY DEF CountInv, CountOk
    <2>1. /\ UNCHANGED <<pending, state>>
          /\ \A p \in Slots : successors'[p] = successors[p]
          /\ \A v \in Workers : wsucc'[v] = wsucc[v]
          /\ \A e \in Clients : cpc[e] \in Registration <=> cpc'[e] \in Registration
          /\ \A e \in Clients : cpc[e] \in Registration => chandle'[e] = chandle[e] /\ cdeps'[e] = cdeps[e]
      BY <1>7 DEF Rethrow, slotVars, Registration, PlaceInv, TypeInv, SlotType, TaskType, ClientType, WorkerType
    <2> QED BY <2>1, CountStays
  <1>8. ASSUME NEW c \in Clients, Exhausted(c) PROVE CountInv'
    <2> SUFFICES ASSUME NEW r \in Slots PROVE CountOk(r)'
      BY DEF CountInv, CountOk
    <2>1. /\ UNCHANGED <<pending, state>>
          /\ \A p \in Slots : successors'[p] = successors[p]
          /\ \A v \in Workers : wsucc'[v] = wsucc[v]
          /\ \A e \in Clients : cpc[e] \in Registration <=> cpc'[e] \in Registration
          /\ \A e \in Clients : cpc[e] \in Registration => chandle'[e] = chandle[e] /\ cdeps'[e] = cdeps[e]
      BY <1>8 DEF Exhausted, slotVars, Registration, PlaceInv, TypeInv, SlotType, TaskType, ClientType, WorkerType
    <2> QED BY <2>1, CountStays
  <1>9. ASSUME NEW c \in Clients, InlineWait(c) PROVE CountInv'
    <2> SUFFICES ASSUME NEW r \in Slots PROVE CountOk(r)'
      BY DEF CountInv, CountOk
    <2>1. /\ UNCHANGED <<pending, state>>
          /\ \A p \in Slots : successors'[p] = successors[p]
          /\ \A v \in Workers : wsucc'[v] = wsucc[v]
          /\ \A e \in Clients : cpc[e] \in Registration <=> cpc'[e] \in Registration
          /\ \A e \in Clients : cpc[e] \in Registration => chandle'[e] = chandle[e] /\ cdeps'[e] = cdeps[e]
      BY <1>9 DEF InlineWait, slotVars, Registration, PlaceInv, TypeInv, SlotType, TaskType, ClientType, WorkerType
    <2> QED BY <2>1, CountStays
  <1>10. ASSUME NEW c \in Clients, InlineStart(c) PROVE CountInv'
    <2> SUFFICES ASSUME NEW r \in Slots PROVE CountOk(r)'
      BY DEF CountInv, CountOk
    <2>1. /\ UNCHANGED <<pending, state>>
          /\ \A p \in Slots : successors'[p] = successors[p]
          /\ \A v \in Workers : wsucc'[v] = wsucc[v]
          /\ \A e \in Clients : cpc[e] \in Registration <=> cpc'[e] \in Registration
          /\ \A e \in Clients : cpc[e] \in Registration => chandle'[e] = chandle[e] /\ cdeps'[e] = cdeps[e]
      BY <1>10 DEF InlineStart, slotVars, Registration, PlaceInv, TypeInv, SlotType, TaskType, ClientType, WorkerType
    <2> QED BY <2>1, CountStays
  <1>11. ASSUME NEW c \in Clients, InlineFinish(c) PROVE CountInv'
    <2> SUFFICES ASSUME NEW r \in Slots PROVE CountOk(r)'
      BY DEF CountInv, CountOk
    <2>1. /\ UNCHANGED <<pending, state>>
          /\ \A p \in Slots : successors'[p] = successors[p]
          /\ \A v \in Workers : wsucc'[v] = wsucc[v]
          /\ \A e \in Clients : cpc[e] \in Registration <=> cpc'[e] \in Registration
          /\ \A e \in Clients : cpc[e] \in Registration => chandle'[e] = chandle[e] /\ cdeps'[e] = cdeps[e]
      BY <1>11 DEF InlineFinish, slotVars, Registration, PlaceInv, TypeInv, SlotType, TaskType, ClientType, WorkerType
    <2> QED BY <2>1, CountStays
  <1>12. ASSUME NEW c \in Clients, InlineCount(c) PROVE CountInv'
    <2> SUFFICES ASSUME NEW r \in Slots PROVE CountOk(r)'
      BY DEF CountInv, CountOk
    <2>1. /\ UNCHANGED <<pending, state>>
          /\ \A p \in Slots : successors'[p] = successors[p]
          /\ \A v \in Workers : wsucc'[v] = wsucc[v]
          /\ \A e \in Clients : cpc[e] \in Registration <=> cpc'[e] \in Registration
          /\ \A e \in Clients : cpc[e] \in Registration => chandle'[e] = chandle[e] /\ cdeps'[e] = cdeps[e]
      BY <1>12 DEF InlineCount, slotVars, Registration, PlaceInv, TypeInv, SlotType, TaskType, ClientType, WorkerType
    <2> QED BY <2>1, CountStays
  <1>13. ASSUME NEW c \in Clients, RegisterLookup(c) PROVE CountInv'
    <2> SUFFICES ASSUME NEW r \in Slots PROVE CountOk(r)'
      BY DEF CountInv, CountOk
    <2>1. /\ UNCHANGED <<pending, state>>
          /\ \A p \in Slots : successors'[p] = successors[p]
          /\ \A v \in Workers : wsucc'[v] = wsucc[v]
          /\ \A e \in Clients : cpc[e] \in Registration <=> cpc'[e] \in Registration
          /\ \A e \in Clients : cpc[e] \in Registration => chandle'[e] = chandle[e] /\ cdeps'[e] = cdeps[e]
      BY <1>13 DEF RegisterLookup, slotVars, Registration, PlaceInv, TypeInv, SlotType, TaskType, ClientType, WorkerType
    <2> QED BY <2>1, CountStays
  <1>14. ASSUME NEW c \in Clients, AddSuccessor(c) PROVE CountInv'
    <2> SUFFICES ASSUME NEW r \in Slots PROVE CountOk(r)'
      BY DEF CountInv, CountOk
    <2>1. /\ UNCHANGED <<pending, state, chandle, workerVars>> /\ cpc[c] = "addSuccessor" /\ cdeps[c] # << >>
      BY <1>14, AddSuccessorEffect
    <2>2. CASE FindsFinished(c)
      <3>1. /\ UNCHANGED <<successors, cdeps>>
            /\ \A e \in Clients : cpc[e] \in Registration <=> cpc'[e] \in Registration
        BY <2>1, <2>2 DEF FindsFinished, Registration, PlaceInv, TypeInv, ClientType
      <3> QED BY <2>1, <3>1, CountStays
    <2>3. ASSUME NEW p \in Slots, AddsEdge(c, p) PROVE CountOk(r)'
      <3> DEFINE s == chandle[c].slot
                 x == <<"call", c, Len(cdeps[c])>>
                 y == <<"edge", p, Len(successors[p]) + 1>>
      <3>1. /\ s \in Slots /\ state[s] = "Waiting" /\ x \in Owed(s) /\ chandle[c] \in Handle
            /\ successors[p] \in Seq(Handle) /\ Len(successors[p]) \in Nat
        BY <2>1, CallsOf, ClientHolds DEF Registration, PlaceInv, TypeInv, SlotType
      <3>2. /\ \A e \in Clients : e # c => cpc'[e] = cpc[e] /\ cdeps'[e] = cdeps[e]
            /\ cdeps'[c] = Tail(cdeps[c]) /\ cpc'[c] \in Registration /\ cpc[c] \in Registration
        BY <2>1, <2>3 DEF AddsEdge, PlaceInv, TypeInv, ClientType, Registration
      <3>3. \A z : IsTaken(z, r)' <=> IsTaken(z, r)
        BY <2>1, TakenStay
      <3>4. /\ \A q \in Slots : q # p => successors'[q] = successors[q]
            /\ Len(successors'[p]) = Len(successors[p]) + 1
            /\ successors'[p][Len(successors[p]) + 1] = chandle[c]
            /\ \A i \in 1 .. Len(successors[p]) : successors'[p][i] = successors[p][i]
        <4>1. successors'[p] = Append(successors[p], chandle[c]) /\ \A q \in Slots : q # p => successors'[q] = successors[q]
          BY <2>3 DEF AddsEdge, PlaceInv, TypeInv, SlotType
        <4> QED BY <3>1, <4>1
      <3> DEFINE n == Len(successors[p])
      <3>5. /\ n + 1 \in 1 .. n + 1 /\ n + 1 \notin 1 .. n
            /\ \A i : i \in 1 .. n + 1 <=> i \in 1 .. n \/ i = n + 1
        BY <3>1
      <3> HIDE DEF n
      <3>6. \A z : IsEdge(z, r)' <=> IsEdge(z, r) \/ (r = s /\ z = y)
        <4>1. \A z : IsEdge(z, r)' <=> \E q \in Slots : \E i \in 1 .. Len(successors'[q]) : successors'[q][i].slot = r /\ z = <<"edge", q, i>>
          BY DEF IsEdge
        <4>2. ASSUME NEW z, IsEdge(z, r) PROVE IsEdge(z, r)'
          <5>1. PICK q \in Slots : \E i \in 1 .. Len(successors[q]) : successors[q][i].slot = r /\ z = <<"edge", q, i>>
            BY <4>2 DEF IsEdge
          <5>2. PICK i \in 1 .. Len(successors[q]) : successors[q][i].slot = r /\ z = <<"edge", q, i>>
            BY <5>1
          <5>3. i \in 1 .. Len(successors'[q]) /\ successors'[q][i] = successors[q][i]
            BY <3>4, <3>5, <5>2 DEF n
          <5> QED BY <4>1, <5>2, <5>3
        <4>3. ASSUME NEW z, r = s, z = y PROVE IsEdge(z, r)'
          <5>1. n + 1 \in 1 .. Len(successors'[p]) /\ successors'[p][n + 1].slot = r /\ z = <<"edge", p, n + 1>>
            BY <3>4, <3>5, <4>3 DEF n
          <5> QED BY <4>1, <5>1
        <4>4. ASSUME NEW z, IsEdge(z, r)' PROVE IsEdge(z, r) \/ (r = s /\ z = y)
          <5>1. PICK q \in Slots : \E i \in 1 .. Len(successors'[q]) : successors'[q][i].slot = r /\ z = <<"edge", q, i>>
            BY <4>1, <4>4
          <5>2. PICK i \in 1 .. Len(successors'[q]) : successors'[q][i].slot = r /\ z = <<"edge", q, i>>
            BY <5>1
          <5>3. CASE q = p /\ i = n + 1
            BY <3>4, <5>2, <5>3 DEF n
          <5>4. CASE ~(q = p /\ i = n + 1)
            <6>1. i \in 1 .. Len(successors[q]) /\ successors'[q][i] = successors[q][i]
              BY <3>4, <3>5, <5>2, <5>4 DEF n
            <6> QED BY <5>2, <6>1 DEF IsEdge
          <5> QED BY <5>3, <5>4
        <4> QED BY <4>2, <4>3, <4>4
      <3>7. CASE r = s
        <4>1. \A z : IsCall(z, r)' <=> IsCall(z, r) /\ z # x
          BY <2>1, <3>2, <3>7, CallTaken
        <4>2. ~IsEdge(y, r) /\ y # x /\ ~IsTaken(y, r) /\ ~IsCall(y, r) /\ ~IsEdge(x, r) /\ ~IsTaken(x, r)
          <5>1. ~IsEdge(y, r)
            <6>1. \A q, i : <<"edge", q, i>> = <<"edge", p, n + 1>> => q = p /\ i = n + 1
              OBVIOUS
            <6> QED BY <3>5, <6>1 DEF IsEdge, n
          <5> QED BY <5>1, TokensDiffer DEF IsEdge, IsTaken, IsCall
        <4> HIDE DEF x, y, s
        <4>3. /\ x \in Owed(r) /\ y \notin Owed(r)
              /\ \A z : z \in Owed(r)' <=> (z \in Owed(r) /\ z # x) \/ z = y
          BY <3>1, <3>3, <3>6, <3>7, <4>1, <4>2, OwedIs, OwedIsNext
        <4>4. Owed(r)' = (Owed(r) \ {x}) \cup {y}
          BY <4>3
        <4>5. IsFiniteSet(Owed(r)) /\ pending[r] = Cardinality(Owed(r)) /\ state[r] = "Waiting"
          BY <3>1, <3>7 DEF CountInv
        <4>6. IsFiniteSet(Owed(r)') /\ Cardinality(Owed(r)') = Cardinality(Owed(r)) /\ Cardinality(Owed(r)) \in Nat
          BY <4>3, <4>4, <4>5, Exchanges
        <4> QED BY <2>1, <4>5, <4>6 DEF CountOk
      <3>8. CASE r # s
        <4>1. \A z : IsCall(z, r)' <=> IsCall(z, r)
          BY <2>1, <3>2, <3>8, OtherCallsStay
        <4>2. \A z : IsEdge(z, r)' <=> IsEdge(z, r)
          BY <3>6, <3>8
        <4> QED BY <2>1, <3>3, <4>1, <4>2, OwedStays, CountKept
      <3> QED BY <3>7, <3>8
    <2> QED BY <1>14, <2>2, <2>3, AddSuccessorEffect
  <1>15. ASSUME NEW c \in Clients, PreSatisfied(c) PROVE CountInv'
    <2> SUFFICES ASSUME NEW r \in Slots PROVE CountOk(r)'
      BY DEF CountInv, CountOk
    <2> DEFINE s == chandle[c].slot
               x == <<"call", c, Len(cdeps[c])>>
    <2>1. /\ cpc[c] = "preSatisfied" /\ cdeps[c] # << >>
          /\ pending' = [pending EXCEPT ![s] = @ - 1] /\ cdeps' = [cdeps EXCEPT ![c] = Tail(@)]
          /\ cpc' = [cpc EXCEPT ![c] = "register"] /\ UNCHANGED <<state, successors, wsucc, chandle>>
      BY <1>15 DEF PreSatisfied, PlaceInv, ClientInv, ClientOk
    <2>2. s \in Slots /\ state[s] = "Waiting" /\ x \in Owed(s)
      BY <2>1, CallsOf DEF Registration
    <2>3. /\ \A e \in Clients : e # c => cpc'[e] = cpc[e] /\ cdeps'[e] = cdeps[e]
          /\ cdeps'[c] = Tail(cdeps[c]) /\ cpc'[c] \in Registration /\ cpc[c] \in Registration
      BY <2>1 DEF PlaceInv, TypeInv, ClientType, Registration
    <2>4. \A u \in Slots : pending'[u] = IF u = s THEN pending[u] - 1 ELSE pending[u]
      BY <2>1, <2>2 DEF PlaceInv, TypeInv, SlotType
    <2>5. /\ \A y : IsEdge(y, r)' <=> IsEdge(y, r)
          /\ \A y : IsTaken(y, r)' <=> IsTaken(y, r)
      BY <2>1, EdgesStay, TakenStay
    <2>6. CASE r = s
      <3>1. \A y : IsCall(y, r)' <=> IsCall(y, r) /\ y # x
        BY <2>1, <2>3, <2>6, CallTaken
      <3> HIDE DEF x, s
      <3>2. x \in Owed(r) /\ \A y : y \in Owed(r) <=> IsEdge(y, r) \/ IsTaken(y, r) \/ IsCall(y, r)
        BY <2>2, <2>6, OwedIs
      <3>3. ~IsEdge(x, r) /\ ~IsTaken(x, r)
        BY TokensDiffer DEF IsEdge, IsTaken, x
      <3>4. \A y : y \in Owed(r)' <=> y \in Owed(r) /\ y # x
        BY <2>5, <3>1, <3>2, <3>3, OwedIsNext
      <3>5. Owed(r)' = Owed(r) \ {x}
        BY <3>4
      <3> QED BY <2>2, <2>4, <2>6, <3>2, <3>5, CountLoses
    <2>7. CASE r # s
      <3>1. \A y : IsCall(y, r)' <=> IsCall(y, r)
        BY <2>1, <2>3, <2>7, OtherCallsStay
      <3> QED BY <2>1, <2>4, <2>5, <2>7, <3>1, OwedStays, CountKept
    <2> QED BY <2>6, <2>7
  <1>16. ASSUME NEW c \in Clients, RemoveGuard(c) PROVE CountInv'
    <2> SUFFICES ASSUME NEW r \in Slots PROVE CountOk(r)'
      BY DEF CountInv, CountOk
    <2> DEFINE s == chandle[c].slot
               x == <<"call", c, Len(cdeps[c])>>
    <2>1. /\ cpc[c] = "register" /\ cdeps[c] = << >>
          /\ pending' = [pending EXCEPT ![s] = @ - 1]
          /\ cpc' = [cpc EXCEPT ![c] = "enqueue"] \/ cpc' = [cpc EXCEPT ![c] = "idle"]
          /\ UNCHANGED <<successors, wsucc, chandle, cdeps>>
          /\ state' = state \/ state' = [state EXCEPT ![s] = "Queued"]
      BY <1>16 DEF RemoveGuard
    <2>2. s \in Slots /\ state[s] = "Waiting" /\ x \in Owed(s)
      BY <2>1, CallsOf DEF Registration
    <2>3. /\ \A e \in Clients : e # c => cpc'[e] = cpc[e] /\ cdeps'[e] = cdeps[e]
          /\ cpc'[c] \notin Registration /\ cpc[c] \in Registration
      BY <2>1 DEF PlaceInv, TypeInv, ClientType, Registration
    <2>4. \A u \in Slots : pending'[u] = IF u = s THEN pending[u] - 1 ELSE pending[u]
      BY <2>1, <2>2 DEF PlaceInv, TypeInv, SlotType
    <2>5. /\ \A y : IsEdge(y, r)' <=> IsEdge(y, r)
          /\ \A y : IsTaken(y, r)' <=> IsTaken(y, r)
      BY <2>1, EdgesStay, TakenStay
    <2>6. CASE r = s
      <3>1. \A y : IsCall(y, r)' <=> IsCall(y, r) /\ y # x
        BY <2>1, <2>3, <2>6, CallTaken
      <3> HIDE DEF x, s
      <3>2. x \in Owed(r) /\ \A y : y \in Owed(r) <=> IsEdge(y, r) \/ IsTaken(y, r) \/ IsCall(y, r)
        BY <2>2, <2>6, OwedIs
      <3>3. ~IsEdge(x, r) /\ ~IsTaken(x, r)
        BY TokensDiffer DEF IsEdge, IsTaken, x
      <3>4. \A y : y \in Owed(r)' <=> y \in Owed(r) /\ y # x
        BY <2>5, <3>1, <3>2, <3>3, OwedIsNext
      <3>5. Owed(r)' = Owed(r) \ {x}
        BY <3>4
      <3> QED BY <2>2, <2>4, <2>6, <3>2, <3>5, CountLoses
    <2>7. CASE r # s
      <3>1. \A y : IsCall(y, r)' <=> IsCall(y, r)
        BY <2>1, <2>3, <2>7, OtherCallsStay
      <3>2. state'[r] = state[r]
        BY <2>1, <2>7 DEF PlaceInv, TypeInv, SlotType
      <3> QED BY <2>4, <2>5, <2>7, <3>1, <3>2, OwedStays, CountKept
    <2> QED BY <2>6, <2>7
  <1>17. ASSUME NEW c \in Clients, Enqueue(c) PROVE CountInv'
    <2> SUFFICES ASSUME NEW r \in Slots PROVE CountOk(r)'
      BY DEF CountInv, CountOk
    <2>1. /\ UNCHANGED <<pending, state>>
          /\ \A p \in Slots : successors'[p] = successors[p]
          /\ \A v \in Workers : wsucc'[v] = wsucc[v]
          /\ \A e \in Clients : cpc[e] \in Registration <=> cpc'[e] \in Registration
          /\ \A e \in Clients : cpc[e] \in Registration => chandle'[e] = chandle[e] /\ cdeps'[e] = cdeps[e]
      BY <1>17 DEF Enqueue, slotVars, Registration, PlaceInv, TypeInv, SlotType, TaskType, ClientType, WorkerType
    <2> QED BY <2>1, CountStays
  <1>18. ASSUME NEW w \in Workers, NEW h \in ready, Execute(w, h) PROVE CountInv'
    <2> SUFFICES ASSUME NEW r \in Slots PROVE CountOk(r)'
      BY DEF CountInv, CountOk
    <2>1. h.slot \in Slots
      BY <1>18, ExecuteEffect
    <2>2. /\ UNCHANGED pending /\ (state'[r] = "Waiting" => state[r] = "Waiting")
          /\ \A p \in Slots : successors'[p] = successors[p]
          /\ \A v \in Workers : wsucc'[v] = wsucc[v]
          /\ \A e \in Clients : cpc[e] \in Registration <=> cpc'[e] \in Registration
          /\ \A e \in Clients : cpc[e] \in Registration => chandle'[e] = chandle[e] /\ cdeps'[e] = cdeps[e]
      BY <1>18, <2>1 DEF Execute, slotVars, Registration, PlaceInv, TypeInv, SlotType, TaskType, ClientType, WorkerType
    <2> QED BY <2>2, CountStays
  <1>19. ASSUME NEW w \in Workers, BodyReturn(w) PROVE CountInv'
    <2> SUFFICES ASSUME NEW r \in Slots PROVE CountOk(r)'
      BY DEF CountInv, CountOk
    <2>1. TRUE
      OBVIOUS
    <2>2. /\ UNCHANGED pending /\ (state'[r] = "Waiting" => state[r] = "Waiting")
          /\ \A p \in Slots : successors'[p] = successors[p]
          /\ \A v \in Workers : wsucc'[v] = wsucc[v]
          /\ \A e \in Clients : cpc[e] \in Registration <=> cpc'[e] \in Registration
          /\ \A e \in Clients : cpc[e] \in Registration => chandle'[e] = chandle[e] /\ cdeps'[e] = cdeps[e]
      BY <1>19, <2>1 DEF BodyReturn, slotVars, Registration, PlaceInv, TypeInv, SlotType, TaskType, ClientType, WorkerType
    <2> QED BY <2>2, CountStays
  <1>20. ASSUME NEW w \in Workers, TakeSuccessors(w) PROVE CountInv'
    <2> SUFFICES ASSUME NEW r \in Slots PROVE CountOk(r)'
      BY DEF CountInv, CountOk
    <2> DEFINE s == whandle[w].slot
    <2>1. /\ s \in Slots /\ wsucc[w] = << >>
          /\ wsucc' = [wsucc EXCEPT ![w] = successors[s]] /\ successors' = [successors EXCEPT ![s] = << >>]
          /\ UNCHANGED <<pending, state, cpc, chandle, cdeps>>
      BY <1>20, ExecutedSlots DEF TakeSuccessors, Executes, Closing, PlaceInv, WorkerInv
    <2> HIDE DEF s
    <2>2. /\ wsucc'[w] = successors[s] /\ \A v \in Workers : v # w => wsucc'[v] = wsucc[v]
          /\ successors'[s] = << >> /\ \A q \in Slots : q # s => successors'[q] = successors[q]
      BY <2>1 DEF PlaceInv, TypeInv, SlotType, WorkerType
    <2>3. \A x : IsCall(x, r)' <=> IsCall(x, r)
      BY <2>1, CallsStay DEF Registering, Registration
    <2> DEFINE Moved == {<<"edge", s, i>> : i \in {j \in 1 .. Len(successors[s]) : successors[s][j].slot = r}}
               f == [x \in Owed(r) |-> IF x \in Moved THEN <<"taken", w, x[3]>> ELSE x]
    <2>4. \A x : IsEdge(x, r)' <=> IsEdge(x, r) /\ x \notin Moved
      <3>1. \A x : IsEdge(x, r)' <=> \E q \in Slots : \E i \in 1 .. Len(successors'[q]) : successors'[q][i].slot = r /\ x = <<"edge", q, i>>
        BY DEF IsEdge
      <3>2. \A x : IsEdge(x, r) <=> \E q \in Slots : \E i \in 1 .. Len(successors[q]) : successors[q][i].slot = r /\ x = <<"edge", q, i>>
        BY DEF IsEdge
      <3>3. \A q, i : <<"edge", q, i>> \in Moved => q = s
        OBVIOUS
      <3>4. \A i \in 1 .. Len(successors[s]) : successors[s][i].slot = r => <<"edge", s, i>> \in Moved
        OBVIOUS
      <3> HIDE DEF Moved
      <3> QED BY <2>1, <2>2, <3>1, <3>2, <3>3, <3>4
    <2>5. \A x : IsTaken(x, r)' <=> IsTaken(x, r) \/ \E i \in 1 .. Len(successors[s]) : successors[s][i].slot = r /\ x = <<"taken", w, i>>
      <3>1. \A x : IsTaken(x, r)' <=> \E v \in Workers : \E i \in 1 .. Len(wsucc'[v]) : wsucc'[v][i].slot = r /\ x = <<"taken", v, i>>
        BY DEF IsTaken
      <3>2. \A x : IsTaken(x, r) <=> \E v \in Workers : \E i \in 1 .. Len(wsucc[v]) : wsucc[v][i].slot = r /\ x = <<"taken", v, i>>
        BY DEF IsTaken
      <3> QED BY <2>1, <2>2, <3>1, <3>2
    <2>6. \A i : ~IsTaken(<<"taken", w, i>>, r)
      <3>1. \A v, i, j : <<"taken", w, i>> = <<"taken", v, j>> => v = w
        OBVIOUS
      <3> QED BY <2>1, <3>1 DEF IsTaken
    <2>7. \A x \in Moved : IsEdge(x, r)
      BY <2>1 DEF IsEdge
    <2>8. /\ f \in [Owed(r) -> Owed(r)']
          /\ \A x, y \in Owed(r) : f[x] = f[y] => x = y
          /\ \A y \in Owed(r)' : \E x \in Owed(r) : f[x] = y
      <3>1. \A x \in Moved : \E i \in 1 .. Len(successors[s]) : successors[s][i].slot = r /\ x = <<"edge", s, i>> /\ x[3] = i
        OBVIOUS
      <3>2. \A i \in 1 .. Len(successors[s]) : successors[s][i].slot = r => <<"edge", s, i>> \in Moved /\ <<"edge", s, i>>[3] = i
        OBVIOUS
      <3>3. \A x : x \in Owed(r) <=> IsEdge(x, r) \/ IsTaken(x, r) \/ IsCall(x, r)
        BY OwedIs
      <3>4. \A x : x \in Owed(r)' <=> IsEdge(x, r)' \/ IsTaken(x, r)' \/ IsCall(x, r)'
        BY OwedIsNext
      <3>5. \A x \in Owed(r) : x \notin Moved => x \in Owed(r)' /\ \A i : x # <<"taken", w, i>>
        <4>1. \A x, i : x = <<"taken", w, i>> => ~IsEdge(x, r) /\ ~IsCall(x, r)
          BY TokensDiffer DEF IsEdge, IsCall
        <4> HIDE DEF Moved
        <4> QED BY <2>3, <2>4, <2>5, <2>6, <3>3, <3>4, <4>1
      <3>6. \A x \in Moved : x \in Owed(r) /\ <<"taken", w, x[3]>> \in Owed(r)'
        BY <2>5, <2>7, <3>1, <3>3, <3>4
      <3>7. \A x, y \in Moved : <<"taken", w, x[3]>> = <<"taken", w, y[3]>> => x = y
        BY <3>1
      <3>8. ASSUME NEW y \in Owed(r)' PROVE (y \in Owed(r) /\ y \notin Moved) \/ \E x \in Moved : y = <<"taken", w, x[3]>>
        <4>1. CASE \E i \in 1 .. Len(successors[s]) : successors[s][i].slot = r /\ y = <<"taken", w, i>>
          BY <3>2, <4>1
        <4>2. CASE ~\E i \in 1 .. Len(successors[s]) : successors[s][i].slot = r /\ y = <<"taken", w, i>>
          <5>1. IsTaken(y, r) \/ IsCall(y, r) => y \notin Moved
            BY TokensDiffer, <3>1 DEF IsTaken, IsCall
          <5> HIDE DEF Moved
          <5> QED BY <2>3, <2>4, <2>5, <3>3, <3>4, <4>2, <5>1
        <4> QED BY <4>1, <4>2
      <3> HIDE DEF Moved
      <3>9. \A x \in Owed(r) : f[x] = IF x \in Moved THEN <<"taken", w, x[3]>> ELSE x
        OBVIOUS
      <3>10. f \in [Owed(r) -> Owed(r)']
        BY <3>5, <3>6
      <3> HIDE DEF f
      <3>11. \A x, y \in Owed(r) : f[x] = f[y] => x = y
        <4> SUFFICES ASSUME NEW x \in Owed(r), NEW y \in Owed(r), f[x] = f[y] PROVE x = y
          OBVIOUS
        <4>1. CASE x \in Moved /\ y \in Moved
          <5>1. <<"taken", w, x[3]>> = <<"taken", w, y[3]>>
            BY <3>9, <4>1
          <5> QED BY <3>7, <4>1, <5>1
        <4>2. CASE x \notin Moved /\ y \notin Moved
          BY <4>2, <3>5, <3>7, <3>9
        <4>3. CASE x \in Moved /\ y \notin Moved
          <5>1. y = <<"taken", w, x[3]>>
            BY <3>9, <4>3
          <5>2. \A i : y # <<"taken", w, i>>
            BY <3>5, <4>3
          <5> QED BY <5>1, <5>2
        <4>4. CASE x \notin Moved /\ y \in Moved
          <5>1. x = <<"taken", w, y[3]>>
            BY <3>9, <4>4
          <5>2. \A i : x # <<"taken", w, i>>
            BY <3>5, <4>4
          <5> QED BY <5>1, <5>2
        <4> QED BY <4>1, <4>2, <4>3, <4>4
      <3>12. \A y \in Owed(r)' : \E x \in Owed(r) : f[x] = y
        BY <3>6, <3>8, <3>9
      <3> QED BY <3>10, <3>11, <3>12
    <2> HIDE DEF f
    <2>9. IsFiniteSet(Owed(r)) => IsFiniteSet(Owed(r)') /\ Cardinality(Owed(r)') = Cardinality(Owed(r))
      BY <2>8, SameSize
    <2> QED BY <2>1, <2>9 DEF CountInv, CountOk
  <1>21. ASSUME NEW w \in Workers, StoreCompleted(w) PROVE CountInv'
    <2> SUFFICES ASSUME NEW r \in Slots PROVE CountOk(r)'
      BY DEF CountInv, CountOk
    <2> DEFINE s == whandle[w].slot
    <2>1. s \in Slots /\ successors[s] = << >>
      BY <1>21, ExecutedSlots DEF StoreCompleted, Executes, Closing, PlaceInv, WorkerInv, WorkerOk
    <2>2. /\ state' = [state EXCEPT ![s] = "Completed"] /\ UNCHANGED successors
          /\ UNCHANGED <<pending, wsucc, cpc, chandle, cdeps>>
      BY <1>21 DEF StoreCompleted
    <2> HIDE DEF s
    <2>3. /\ state'[r] = "Waiting" => state[r] = "Waiting"
          /\ \A p \in Slots : successors'[p] = successors[p]
      BY <2>1, <2>2 DEF PlaceInv, TypeInv, SlotType
    <2> QED BY <2>2, <2>3, CountStays
  <1>22. ASSUME NEW w \in Workers, BumpGeneration(w) PROVE CountInv'
    <2> SUFFICES ASSUME NEW r \in Slots PROVE CountOk(r)'
      BY DEF CountInv, CountOk
    <2>1. /\ UNCHANGED <<pending, state>>
          /\ \A p \in Slots : successors'[p] = successors[p]
          /\ \A v \in Workers : wsucc'[v] = wsucc[v]
          /\ \A e \in Clients : cpc[e] \in Registration <=> cpc'[e] \in Registration
          /\ \A e \in Clients : cpc[e] \in Registration => chandle'[e] = chandle[e] /\ cdeps'[e] = cdeps[e]
      BY <1>22 DEF BumpGeneration, slotVars, Registration, PlaceInv, TypeInv, SlotType, TaskType, ClientType, WorkerType
    <2> QED BY <2>1, CountStays
  <1>23. ASSUME NEW w \in Workers, FreeSlot(w) PROVE CountInv'
    <2> SUFFICES ASSUME NEW r \in Slots PROVE CountOk(r)'
      BY DEF CountInv, CountOk
    <2> DEFINE s == whandle[w].slot
    <2>1. s \in Slots /\ successors[s] = << >>
      BY <1>23, ExecutedSlots DEF FreeSlot, Executes, Closing, PlaceInv, WorkerInv, WorkerOk
    <2>2. /\ state' = [state EXCEPT ![s] = "Free"] /\ successors' = [successors EXCEPT ![s] = << >>]
          /\ UNCHANGED <<pending, wsucc, cpc, chandle, cdeps>>
      BY <1>23 DEF FreeSlot
    <2> HIDE DEF s
    <2>3. /\ state'[r] = "Waiting" => state[r] = "Waiting"
          /\ \A p \in Slots : successors'[p] = successors[p]
      BY <2>1, <2>2 DEF PlaceInv, TypeInv, SlotType
    <2> QED BY <2>2, <2>3, CountStays
  <1>24. ASSUME NEW w \in Workers, ReleaseDependent(w) PROVE CountInv'
    <2> SUFFICES ASSUME NEW r \in Slots PROVE CountOk(r)'
      BY DEF CountInv, CountOk
    <2>1. PICK s \in Slots : Releases(w, s)
      BY <1>24, ReleaseEffect
    <2>2. /\ UNCHANGED <<successors, cpc, chandle, cdeps>> /\ wsucc[w] # << >> /\ wsucc[w] \in Seq(Handle)
          /\ wsucc' = [wsucc EXCEPT ![w] = Tail(@)]
      BY <1>24, ReleaseEffect DEF clientVars
    <2>3. /\ state[s] = "Waiting" /\ Head(wsucc[w]).slot = s
          /\ pending' = [pending EXCEPT ![s] = @ - 1]
          /\ state' = state \/ state' = [state EXCEPT ![s] = "Queued"]
      BY <2>1 DEF Releases
    <2> DEFINE n == Len(wsucc[w])
               gone == <<"taken", w, 1>>
    <2>4. /\ n \in Nat \ {0} /\ Len(wsucc'[w]) = n - 1 /\ wsucc[w][1].slot = s
          /\ \A i \in 1 .. n - 1 : wsucc'[w][i] = wsucc[w][i + 1]
          /\ \A v \in Workers : v # w => wsucc'[v] = wsucc[v]
      <3>1. wsucc'[w] = Tail(wsucc[w]) /\ \A v \in Workers : v # w => wsucc'[v] = wsucc[v]
        BY <2>2 DEF PlaceInv, TypeInv, WorkerType
      <3>2. \A q \in Seq(Handle) : q # << >> =>
                /\ Len(q) \in Nat \ {0} /\ Len(Tail(q)) = Len(q) - 1 /\ Head(q) = q[1]
                /\ \A i \in 1 .. Len(q) - 1 : Tail(q)[i] = q[i + 1]
        OBVIOUS
      <3> HIDE DEF n
      <3> QED BY <2>2, <2>3, <3>1, <3>2 DEF n
    <2>5. /\ \A x : IsEdge(x, r)' <=> IsEdge(x, r)
          /\ \A x : IsCall(x, r)' <=> IsCall(x, r)
      BY <2>2, EdgesStay, CallsStay DEF Registering, Registration
    <2>6. gone \in Owed(r) <=> r = s
      <3>1. gone \in Owed(r) <=> IsTaken(gone, r)
        BY OwedIs, TokensDiffer DEF IsEdge, IsCall
      <3>2. IsTaken(gone, r) <=> wsucc[w][1].slot = r
        <4>1. \A v, i : <<"taken", v, i>> = gone => v = w /\ i = 1
          OBVIOUS
        <4>2. 1 \in 1 .. n
          BY <2>4
        <4> QED BY <4>1, <4>2 DEF IsTaken
      <3> QED BY <2>4, <3>1, <3>2
    <2> DEFINE Mine == {<<"taken", w, i>> : i \in {j \in 2 .. n : wsucc[w][j].slot = r}}
               Next1 == {<<"taken", w, i>> : i \in {j \in 1 .. n - 1 : wsucc[w][j + 1].slot = r}}
               Rest == {x \in Owed(r) : \A i : x # <<"taken", w, i>>}
    <2>7. \A x : x \in Owed(r) \ {gone} <=> x \in Rest \/ x \in Mine
      <3>1. \A i : <<"taken", w, i>> \in Owed(r) <=> i \in 1 .. n /\ wsucc[w][i].slot = r
        <4>1. \A i : <<"taken", w, i>> \in Owed(r) <=> IsTaken(<<"taken", w, i>>, r)
          BY OwedIs, TokensDiffer DEF IsEdge, IsCall
        <4>2. \A v, i, j : <<"taken", w, i>> = <<"taken", v, j>> => v = w /\ i = j
          OBVIOUS
        <4> QED BY <4>1, <4>2 DEF IsTaken
      <3>2. \A i : i \in 1 .. n /\ i # 1 <=> i \in 2 .. n
        BY <2>4
      <3>3. \A i, j : <<"taken", w, i>> = <<"taken", w, j>> => i = j
        OBVIOUS
      <3> HIDE DEF n
      <3>4. \A i : <<"taken", w, i>> \in Owed(r) \ {gone} <=> <<"taken", w, i>> \in Mine
        BY <3>1, <3>2, <3>3
      <3>5. \A x \in Mine : \E i : x = <<"taken", w, i>>
        OBVIOUS
      <3> HIDE DEF Mine
      <3> QED BY <3>4, <3>5
    <2>8. \A x : x \in Owed(r)' <=> x \in Rest \/ x \in Next1
      <3>1. \A x : IsTaken(x, r)' <=> \E v \in Workers : \E i \in 1 .. Len(wsucc'[v]) : wsucc'[v][i].slot = r /\ x = <<"taken", v, i>>
        BY DEF IsTaken
      <3>2. \A x : IsTaken(x, r) <=> \E v \in Workers : \E i \in 1 .. Len(wsucc[v]) : wsucc[v][i].slot = r /\ x = <<"taken", v, i>>
        BY DEF IsTaken
      <3>3. \A v, i, j : <<"taken", w, i>> = <<"taken", v, j>> => v = w /\ i = j
        OBVIOUS
      <3>4. \A i : <<"taken", w, i>> \in Owed(r)' <=> <<"taken", w, i>> \in Next1
        <4>1. \A i : <<"taken", w, i>> \in Owed(r)' <=> IsTaken(<<"taken", w, i>>, r)'
          BY <2>5, OwedIsNext, TokensDiffer DEF IsEdge, IsCall
        <4>2. \A i : IsTaken(<<"taken", w, i>>, r)' <=> i \in 1 .. n - 1 /\ wsucc'[w][i].slot = r
          BY <2>4, <3>1, <3>3
        <4>3. \A i : <<"taken", w, i>> \in Next1 <=> i \in 1 .. n - 1 /\ wsucc[w][i + 1].slot = r
          BY <3>3
        <4> HIDE DEF Next1, n
        <4> QED BY <2>4, <4>1, <4>2, <4>3
      <3>5. \A x : (\A i : x # <<"taken", w, i>>) => (x \in Owed(r)' <=> x \in Owed(r))
        <4>1. \A x : (\A i : x # <<"taken", w, i>>) => (IsTaken(x, r)' <=> IsTaken(x, r))
          BY <2>4, <3>1, <3>2
        <4> QED BY <2>5, <4>1, OwedIs, OwedIsNext
      <3>6. \A x \in Next1 : \E i : x = <<"taken", w, i>>
        OBVIOUS
      <3> HIDE DEF Next1
      <3> QED BY <3>4, <3>5, <3>6
    <2> DEFINE g == [x \in Owed(r) \ {gone} |-> IF x \in Mine THEN <<"taken", w, x[3] - 1>> ELSE x]
    <2>9. /\ g \in [Owed(r) \ {gone} -> Owed(r)']
          /\ \A x, y \in Owed(r) \ {gone} : g[x] = g[y] => x = y
          /\ \A y \in Owed(r)' : \E x \in Owed(r) \ {gone} : g[x] = y
      <3>1. \A x \in Mine : \E i \in 2 .. n : wsucc[w][i].slot = r /\ x = <<"taken", w, i>> /\ x[3] = i
        OBVIOUS
      <3>2. \A i \in 2 .. n : i - 1 \in 1 .. n - 1 /\ (i - 1) + 1 = i
        BY <2>4
      <3>3. \A x \in Mine : <<"taken", w, x[3] - 1>> \in Next1
        BY <3>1, <3>2
      <3>4. \A y \in Next1 : \E x \in Mine : y = <<"taken", w, x[3] - 1>>
        <4> SUFFICES ASSUME NEW i \in 1 .. n - 1, wsucc[w][i + 1].slot = r
                     PROVE  \E x \in Mine : <<"taken", w, i>> = <<"taken", w, x[3] - 1>>
          OBVIOUS
        <4>1. i + 1 \in 2 .. n /\ (i + 1) - 1 = i
          BY <2>4
        <4>2. <<"taken", w, i + 1>> \in Mine /\ <<"taken", w, i + 1>>[3] = i + 1
          BY <4>1
        <4> QED BY <4>1, <4>2
      <3>5. \A x, y \in Mine : <<"taken", w, x[3] - 1>> = <<"taken", w, y[3] - 1>> => x = y
        <4> SUFFICES ASSUME NEW x \in Mine, NEW y \in Mine, <<"taken", w, x[3] - 1>> = <<"taken", w, y[3] - 1>> PROVE x = y
          OBVIOUS
        <4>1. x[3] - 1 = y[3] - 1
          OBVIOUS
        <4>2. x[3] \in Int /\ y[3] \in Int /\ x = <<"taken", w, x[3]>> /\ y = <<"taken", w, y[3]>>
          BY <3>1
        <4> QED BY <4>1, <4>2
      <3>6. \A x \in Mine : \E i : x = <<"taken", w, i>>
        OBVIOUS
      <3> HIDE DEF Mine, Next1, n
      <3>7. \A x \in Owed(r) \ {gone} : g[x] = IF x \in Mine THEN <<"taken", w, x[3] - 1>> ELSE x
        OBVIOUS
      <3>8. \A x \in Owed(r) \ {gone} : x \notin Mine => x \in Owed(r)' /\ \A i : x # <<"taken", w, i>>
        BY <2>7, <2>8
      <3>9. g \in [Owed(r) \ {gone} -> Owed(r)']
        BY <2>8, <3>3, <3>8
      <3>10. \A y \in Rest : y \in Owed(r) \ {gone} /\ y \notin Mine
        BY <2>7, <3>6
      <3> HIDE DEF g, gone, Rest
      <3>11. \A x, y \in Owed(r) \ {gone} : g[x] = g[y] => x = y
        <4> SUFFICES ASSUME NEW x \in Owed(r) \ {gone}, NEW y \in Owed(r) \ {gone}, g[x] = g[y] PROVE x = y
          OBVIOUS
        <4>1. CASE x \in Mine /\ y \in Mine
          BY ZenonT(60), <4>1, <3>5, <3>7, <3>8
        <4>2. CASE x \notin Mine /\ y \notin Mine
          BY <4>2, <3>5, <3>7, <3>8
        <4>3. CASE x \in Mine <=> y \notin Mine
          BY ZenonT(60), <4>3, <3>5, <3>7, <3>8
        <4> QED BY <4>1, <4>2, <4>3
      <3>12. \A y \in Owed(r)' : \E x \in Owed(r) \ {gone} : g[x] = y
        <4> SUFFICES ASSUME NEW y \in Owed(r)' PROVE \E x \in Owed(r) \ {gone} : g[x] = y
          OBVIOUS
        <4>1. CASE y \in Rest
          BY <3>7, <3>10, <4>1
        <4>2. CASE y \in Next1
          BY <2>7, <3>4, <3>7, <4>2
        <4> QED BY <2>8, <4>1, <4>2
      <3> QED BY <3>9, <3>11, <3>12
    <2>10. pending'[r] = (IF r = s THEN pending[r] - 1 ELSE pending[r]) /\ (state'[r] = "Waiting" => state[r] = "Waiting")
      BY <2>3 DEF PlaceInv, TypeInv, SlotType
    <2> HIDE DEF g, gone, n
    <2>11. IsFiniteSet(Owed(r) \ {gone}) =>
               IsFiniteSet(Owed(r)') /\ Cardinality(Owed(r)') = Cardinality(Owed(r) \ {gone})
      BY <2>9, SameSize
    <2>12. CASE r = s
      <3>1. IsFiniteSet(Owed(r)) /\ pending[r] = Cardinality(Owed(r)) /\ gone \in Owed(r)
        BY <2>3, <2>6, <2>12 DEF CountInv
      <3>2. /\ IsFiniteSet(Owed(r) \ {gone}) /\ Cardinality(Owed(r) \ {gone}) = Cardinality(Owed(r)) - 1
            /\ Cardinality(Owed(r)) \in Nat \ {0}
        BY <3>1, Loses
      <3> QED BY <2>10, <2>11, <2>12, <3>1, <3>2 DEF CountOk
    <2>13. CASE r # s
      <3>1. Owed(r) \ {gone} = Owed(r)
        BY <2>6, <2>13
      <3> QED BY <2>10, <2>11, <2>13, <3>1 DEF CountInv, CountOk
    <2> QED BY <2>12, <2>13
  <1>25. ASSUME NEW w \in Workers, EnqueueDependent(w) PROVE CountInv'
    <2> SUFFICES ASSUME NEW r \in Slots PROVE CountOk(r)'
      BY DEF CountInv, CountOk
    <2>1. /\ UNCHANGED <<pending, state>>
          /\ \A p \in Slots : successors'[p] = successors[p]
          /\ \A v \in Workers : wsucc'[v] = wsucc[v]
          /\ \A e \in Clients : cpc[e] \in Registration <=> cpc'[e] \in Registration
          /\ \A e \in Clients : cpc[e] \in Registration => chandle'[e] = chandle[e] /\ cdeps'[e] = cdeps[e]
      BY <1>25 DEF EnqueueDependent, slotVars, Registration, PlaceInv, TypeInv, SlotType, TaskType, ClientType, WorkerType
    <2> QED BY <2>1, CountStays
  <1>26. ASSUME NEW w \in Workers, CompleteCount(w) PROVE CountInv'
    <2> SUFFICES ASSUME NEW r \in Slots PROVE CountOk(r)'
      BY DEF CountInv, CountOk
    <2>1. /\ UNCHANGED <<pending, state>>
          /\ \A p \in Slots : successors'[p] = successors[p]
          /\ \A v \in Workers : wsucc'[v] = wsucc[v]
          /\ \A e \in Clients : cpc[e] \in Registration <=> cpc'[e] \in Registration
          /\ \A e \in Clients : cpc[e] \in Registration => chandle'[e] = chandle[e] /\ cdeps'[e] = cdeps[e]
      BY <1>26 DEF CompleteCount, slotVars, Registration, PlaceInv, TypeInv, SlotType, TaskType, ClientType, WorkerType
    <2> QED BY <2>1, CountStays
  <1>27. CASE UNCHANGED vars
    <2> SUFFICES ASSUME NEW r \in Slots PROVE CountOk(r)'
      BY DEF CountInv, CountOk
    <2>1. /\ UNCHANGED <<pending, state>>
          /\ \A p \in Slots : successors'[p] = successors[p]
          /\ \A v \in Workers : wsucc'[v] = wsucc[v]
          /\ \A e \in Clients : cpc[e] \in Registration <=> cpc'[e] \in Registration
          /\ \A e \in Clients : cpc[e] \in Registration => chandle'[e] = chandle[e] /\ cdeps'[e] = cdeps[e]
      BY <1>27 DEF vars, slotVars, Registration, PlaceInv, TypeInv, SlotType, TaskType, ClientType, WorkerType
    <2> QED BY <2>1, CountStays
  <1> QED
    BY <1>1, <1>2, <1>3, <1>4, <1>5, <1>6, <1>7, <1>8, <1>9, <1>10, <1>11, <1>12, <1>13,
       <1>14, <1>15, <1>16, <1>17, <1>18, <1>19, <1>20, <1>21, <1>22, <1>23, <1>24, <1>25,
       <1>26, <1>27
    DEF Next, Submits, ClientStep, WorkerStep, AtRest


-----------------------------------------------------------------------------

(* Whose task is counted. *)
LEMMA UnitsAre ==
    /\ \A c \in Clients : <<"client", c>> \in Units <=> cpc[c] \in ClientUnits
    /\ \A s \in Slots : <<"slot", s>> \in Units <=> state[s] # "Free"
    /\ \A v \in Workers : <<"worker", v>> \in Units <=> wpc[v] \in WorkerUnits
    /\ \A x \in Units : \/ \E c \in Clients : x = <<"client", c>>
                        \/ \E s \in Slots : x = <<"slot", s>>
                        \/ \E v \in Workers : x = <<"worker", v>>
  BY DEF Units

(* What outstanding_ counts, after a step.                                 *)
LEMMA UnitsAreNext ==
    /\ \A c \in Clients : <<"client", c>> \in Units' <=> cpc'[c] \in ClientUnits
    /\ \A s \in Slots : <<"slot", s>> \in Units' <=> state'[s] # "Free"
    /\ \A v \in Workers : <<"worker", v>> \in Units' <=> wpc'[v] \in WorkerUnits
    /\ \A x \in Units' : \/ \E c \in Clients : x = <<"client", c>>
                         \/ \E s \in Slots : x = <<"slot", s>>
                         \/ \E v \in Workers : x = <<"worker", v>>
  BY DEF Units

(* A step after which the same are counted, but for x and y. *)
LEMMA UnitsBut ==
    ASSUME NEW x, NEW y,
           \A c \in Clients : <<"client", c>> \notin {x, y} => (cpc[c] \in ClientUnits <=> cpc'[c] \in ClientUnits),
           \A s \in Slots : <<"slot", s>> \notin {x, y} => (state[s] # "Free" <=> state'[s] # "Free"),
           \A v \in Workers : <<"worker", v>> \notin {x, y} => (wpc[v] \in WorkerUnits <=> wpc'[v] \in WorkerUnits)
    PROVE  \A z : z \notin {x, y} => (z \in Units <=> z \in Units')
  <1> SUFFICES ASSUME NEW z, z \notin {x, y} PROVE z \in Units <=> z \in Units'
    OBVIOUS
  <1>1. CASE \E c \in Clients : z = <<"client", c>>
    BY <1>1, UnitsAre, UnitsAreNext
  <1>2. CASE \E s \in Slots : z = <<"slot", s>>
    BY <1>2, UnitsAre, UnitsAreNext
  <1>3. CASE \E v \in Workers : z = <<"worker", v>>
    BY <1>3, UnitsAre, UnitsAreNext
  <1> QED BY <1>1, <1>2, <1>3, UnitsAre, UnitsAreNext

(* A step that counts nothing, ...                                         *)
LEMMA UnitsStay ==
    ASSUME UnitInv, UNCHANGED outstanding,
           \A c \in Clients : cpc[c] \in ClientUnits <=> cpc'[c] \in ClientUnits,
           \A s \in Slots : state[s] # "Free" <=> state'[s] # "Free",
           \A v \in Workers : wpc[v] \in WorkerUnits <=> wpc'[v] \in WorkerUnits
    PROVE  UnitInv'
  <1>1. \A z : z \in Units <=> z \in Units'
    <2> SUFFICES ASSUME NEW z PROVE z \in Units <=> z \in Units'
      OBVIOUS
    <2>1. CASE \E c \in Clients : z = <<"client", c>>
      BY <2>1, UnitsAre, UnitsAreNext
    <2>2. CASE \E s \in Slots : z = <<"slot", s>>
      BY <2>2, UnitsAre, UnitsAreNext
    <2>3. CASE \E v \in Workers : z = <<"worker", v>>
      BY <2>3, UnitsAre, UnitsAreNext
    <2> QED BY <2>1, <2>2, <2>3, UnitsAre, UnitsAreNext
  <1>2. Units' = Units
    BY <1>1
  <1> QED BY <1>2 DEF UnitInv

(* A task is counted, is counted elsewhere, or has been counted. *)
LEMMA UnitsGain ==
    ASSUME UnitInv, NEW x, x \notin Units, x \in Units', \A z : z \notin {x, x} => (z \in Units <=> z \in Units'),
           outstanding' = outstanding + 1
    PROVE  UnitInv'
  <1>1. Units' = Units \cup {x}
    OBVIOUS
  <1> QED BY <1>1, Gains DEF UnitInv

(* ... that passes a unit on, ...                                          *)
LEMMA UnitsMove ==
    ASSUME UnitInv, NEW x \in Units, NEW y, y \notin Units, x \notin Units', y \in Units',
           \A z : z \notin {x, y} => (z \in Units <=> z \in Units'), UNCHANGED outstanding
    PROVE  UnitInv'
  <1>1. Units' = (Units \ {x}) \cup {y}
    OBVIOUS
  <1> QED BY <1>1, Exchanges DEF UnitInv

(* ... or ends one.                                                        *)
LEMMA UnitsLose ==
    ASSUME UnitInv, NEW x \in Units, x \notin Units', \A z : z \notin {x, x} => (z \in Units <=> z \in Units'),
           outstanding' = outstanding - 1
    PROVE  UnitInv'
  <1>1. Units' = Units \ {x}
    OBVIOUS
  <1> QED BY <1>1, Loses DEF UnitInv

(* outstanding_ counts the tasks on their way. *)
LEMMA UnitInvStep == PlaceInv /\ UnitInv /\ [Next]_vars => UnitInv'
  <1> SUFFICES ASSUME PlaceInv, UnitInv, [Next]_vars PROVE UnitInv'
    OBVIOUS
  <1> USE DEF clientVars, workerVars, Goto, WGoto
  <1>1. ASSUME NEW c \in Clients, NEW t \in Tasks, NEW deps \in DepSeqs, SubmitCount(c, t, deps) PROVE UnitInv'
    <2> DEFINE x == <<"client", c>>
    <2>1. /\ cpc[c] \notin ClientUnits /\ cpc'[c] \in ClientUnits /\ \A e \in Clients : e # c => cpc'[e] = cpc[e]
          /\ UNCHANGED <<state, wpc>> /\ outstanding' = outstanding + 1
      BY <1>1 DEF SubmitCount, ClientUnits, WorkerUnits, Inline, slotVars, PlaceInv, TypeInv, SlotType, ClientType, WorkerType
    <2>2. x \notin Units /\ x \in Units'
      BY <2>1, UnitsAre, UnitsAreNext
    <2>3. \A z : z \notin {x, x} => (z \in Units <=> z \in Units')
      <3>1. \A e \in Clients : <<"client", e>> \notin {x, x} => e # c
        OBVIOUS
      <3> HIDE DEF x
      <3> QED BY <2>1, <3>1, UnitsBut
    <2> HIDE DEF x
    <2> QED BY <2>1, <2>2, <2>3, UnitsGain
  <1>2. ASSUME NEW c \in Clients, NEW s \in Slots, Acquire(c, s) PROVE UnitInv'
    <2> DEFINE x == <<"client", c>>
               y == <<"slot", s>>
    <2>1. s \in Slots /\ state[s] = "Free"
      BY <1>2 DEF Acquire, SlotInv, FreeInv, TaskType, PlaceInv, TypeInv
    <2>2. /\ cpc[c] \in ClientUnits /\ cpc'[c] \notin ClientUnits /\ \A e \in Clients : e # c => cpc'[e] = cpc[e]
          /\ state'[s] # "Free" /\ \A r \in Slots : r # s => state'[r] = state[r]
          /\ UNCHANGED <<wpc, outstanding>>
      BY <1>2, <2>1 DEF Acquire, ClientUnits, Inline, PlaceInv, TypeInv, SlotType, ClientType, WorkerType
    <2>3. x \in Units /\ x \notin Units' /\ y \notin Units /\ y \in Units'
      BY <2>1, <2>2, UnitsAre, UnitsAreNext
    <2>4. \A z : z \notin {x, y} => (z \in Units <=> z \in Units')
      <3>1. \A e \in Clients : <<"client", e>> \notin {x, y} => e # c
        OBVIOUS
      <3>2. \A r \in Slots : <<"slot", r>> \notin {x, y} => r # s
        OBVIOUS
      <3> HIDE DEF x, y
      <3> QED BY <2>2, <3>1, <3>2, UnitsBut
    <2> HIDE DEF x, y
    <2> QED BY <2>2, <2>3, <2>4, UnitsMove
  <1>3. ASSUME NEW c \in Clients, NEW s \in Slots, Reserve(c, s) PROVE UnitInv'
    <2>2. /\ UNCHANGED outstanding
          /\ \A e \in Clients : cpc[e] \in ClientUnits <=> cpc'[e] \in ClientUnits
          /\ \A r \in Slots : state[r] # "Free" <=> state'[r] # "Free"
          /\ \A v \in Workers : wpc[v] \in WorkerUnits <=> wpc'[v] \in WorkerUnits
      BY <1>3 DEF Reserve, ClientUnits, WorkerUnits, Inline, slotVars, PlaceInv, TypeInv, SlotType, ClientType, WorkerType
    <2> QED BY <2>2, UnitsStay
  <1>4. ASSUME NEW c \in Clients, Publish(c) PROVE UnitInv'
    <2> DEFINE s == chandle[c].slot
    <2> DEFINE x == <<"client", c>>
               y == <<"slot", s>>
    <2>1. s \in Slots /\ state[s] = "Free"
      BY <1>4, ClientHolds DEF Publish, PlaceInv, TypeInv
    <2>2. /\ cpc[c] \in ClientUnits /\ cpc'[c] \notin ClientUnits /\ \A e \in Clients : e # c => cpc'[e] = cpc[e]
          /\ state'[s] # "Free" /\ \A r \in Slots : r # s => state'[r] = state[r]
          /\ UNCHANGED <<wpc, outstanding>>
      BY <1>4, <2>1 DEF Publish, ClientUnits, Inline, PlaceInv, TypeInv, SlotType, ClientType, WorkerType
    <2>3. x \in Units /\ x \notin Units' /\ y \notin Units /\ y \in Units'
      BY <2>1, <2>2, UnitsAre, UnitsAreNext
    <2>4. \A z : z \notin {x, y} => (z \in Units <=> z \in Units')
      <3>1. \A e \in Clients : <<"client", e>> \notin {x, y} => e # c
        OBVIOUS
      <3>2. \A r \in Slots : <<"slot", r>> \notin {x, y} => r # s
        OBVIOUS
      <3> HIDE DEF x, y
      <3> QED BY <2>2, <3>1, <3>2, UnitsBut
    <2> HIDE DEF x, y
    <2> QED BY <2>2, <2>3, <2>4, UnitsMove
  <1>5. ASSUME NEW c \in Clients, ConstructThrows(c) PROVE UnitInv'
    <2>2. /\ UNCHANGED outstanding
          /\ \A e \in Clients : cpc[e] \in ClientUnits <=> cpc'[e] \in ClientUnits
          /\ \A r \in Slots : state[r] # "Free" <=> state'[r] # "Free"
          /\ \A v \in Workers : wpc[v] \in WorkerUnits <=> wpc'[v] \in WorkerUnits
      BY <1>5 DEF ConstructThrows, ClientUnits, WorkerUnits, Inline, slotVars, PlaceInv, TypeInv, SlotType, ClientType, WorkerType
    <2> QED BY <2>2, UnitsStay
  <1>6. ASSUME NEW c \in Clients, ConstructThrowsInline(c) PROVE UnitInv'
    <2>2. /\ UNCHANGED outstanding
          /\ \A e \in Clients : cpc[e] \in ClientUnits <=> cpc'[e] \in ClientUnits
          /\ \A r \in Slots : state[r] # "Free" <=> state'[r] # "Free"
          /\ \A v \in Workers : wpc[v] \in WorkerUnits <=> wpc'[v] \in WorkerUnits
      BY <1>6 DEF ConstructThrowsInline, ClientUnits, WorkerUnits, Inline, slotVars, PlaceInv, TypeInv, SlotType, ClientType, WorkerType
    <2> QED BY <2>2, UnitsStay
  <1>7. ASSUME NEW c \in Clients, Rethrow(c) PROVE UnitInv'
    <2> DEFINE x == <<"client", c>>
    <2>1. /\ cpc[c] \in ClientUnits /\ cpc'[c] \notin ClientUnits /\ \A e \in Clients : e # c => cpc'[e] = cpc[e]
          /\ UNCHANGED <<state, wpc>> /\ outstanding' = outstanding - 1
      BY <1>7 DEF Rethrow, ClientUnits, WorkerUnits, Inline, slotVars, PlaceInv, TypeInv, SlotType, ClientType, WorkerType
    <2>2. x \in Units /\ x \notin Units'
      BY <2>1, UnitsAre, UnitsAreNext
    <2>3. \A z : z \notin {x, x} => (z \in Units <=> z \in Units')
      <3>1. \A e \in Clients : <<"client", e>> \notin {x, x} => e # c
        OBVIOUS
      <3> HIDE DEF x
      <3> QED BY <2>1, <3>1, UnitsBut
    <2> HIDE DEF x
    <2> QED BY <2>1, <2>2, <2>3, UnitsLose
  <1>8. ASSUME NEW c \in Clients, Exhausted(c) PROVE UnitInv'
    <2>2. /\ UNCHANGED outstanding
          /\ \A e \in Clients : cpc[e] \in ClientUnits <=> cpc'[e] \in ClientUnits
          /\ \A r \in Slots : state[r] # "Free" <=> state'[r] # "Free"
          /\ \A v \in Workers : wpc[v] \in WorkerUnits <=> wpc'[v] \in WorkerUnits
      BY <1>8 DEF Exhausted, ClientUnits, WorkerUnits, Inline, slotVars, PlaceInv, TypeInv, SlotType, ClientType, WorkerType
    <2> QED BY <2>2, UnitsStay
  <1>9. ASSUME NEW c \in Clients, InlineWait(c) PROVE UnitInv'
    <2>2. /\ UNCHANGED outstanding
          /\ \A e \in Clients : cpc[e] \in ClientUnits <=> cpc'[e] \in ClientUnits
          /\ \A r \in Slots : state[r] # "Free" <=> state'[r] # "Free"
          /\ \A v \in Workers : wpc[v] \in WorkerUnits <=> wpc'[v] \in WorkerUnits
      BY <1>9 DEF InlineWait, ClientUnits, WorkerUnits, Inline, slotVars, PlaceInv, TypeInv, SlotType, ClientType, WorkerType
    <2> QED BY <2>2, UnitsStay
  <1>10. ASSUME NEW c \in Clients, InlineStart(c) PROVE UnitInv'
    <2>2. /\ UNCHANGED outstanding
          /\ \A e \in Clients : cpc[e] \in ClientUnits <=> cpc'[e] \in ClientUnits
          /\ \A r \in Slots : state[r] # "Free" <=> state'[r] # "Free"
          /\ \A v \in Workers : wpc[v] \in WorkerUnits <=> wpc'[v] \in WorkerUnits
      BY <1>10 DEF InlineStart, ClientUnits, WorkerUnits, Inline, slotVars, PlaceInv, TypeInv, SlotType, ClientType, WorkerType
    <2> QED BY <2>2, UnitsStay
  <1>11. ASSUME NEW c \in Clients, InlineFinish(c) PROVE UnitInv'
    <2>2. /\ UNCHANGED outstanding
          /\ \A e \in Clients : cpc[e] \in ClientUnits <=> cpc'[e] \in ClientUnits
          /\ \A r \in Slots : state[r] # "Free" <=> state'[r] # "Free"
          /\ \A v \in Workers : wpc[v] \in WorkerUnits <=> wpc'[v] \in WorkerUnits
      BY <1>11 DEF InlineFinish, ClientUnits, WorkerUnits, Inline, slotVars, PlaceInv, TypeInv, SlotType, ClientType, WorkerType
    <2> QED BY <2>2, UnitsStay
  <1>12. ASSUME NEW c \in Clients, InlineCount(c) PROVE UnitInv'
    <2> DEFINE x == <<"client", c>>
    <2>1. /\ cpc[c] \in ClientUnits /\ cpc'[c] \notin ClientUnits /\ \A e \in Clients : e # c => cpc'[e] = cpc[e]
          /\ UNCHANGED <<state, wpc>> /\ outstanding' = outstanding - 1
      BY <1>12 DEF InlineCount, ClientUnits, WorkerUnits, Inline, slotVars, PlaceInv, TypeInv, SlotType, ClientType, WorkerType
    <2>2. x \in Units /\ x \notin Units'
      BY <2>1, UnitsAre, UnitsAreNext
    <2>3. \A z : z \notin {x, x} => (z \in Units <=> z \in Units')
      <3>1. \A e \in Clients : <<"client", e>> \notin {x, x} => e # c
        OBVIOUS
      <3> HIDE DEF x
      <3> QED BY <2>1, <3>1, UnitsBut
    <2> HIDE DEF x
    <2> QED BY <2>1, <2>2, <2>3, UnitsLose
  <1>13. ASSUME NEW c \in Clients, RegisterLookup(c) PROVE UnitInv'
    <2>2. /\ UNCHANGED outstanding
          /\ \A e \in Clients : cpc[e] \in ClientUnits <=> cpc'[e] \in ClientUnits
          /\ \A r \in Slots : state[r] # "Free" <=> state'[r] # "Free"
          /\ \A v \in Workers : wpc[v] \in WorkerUnits <=> wpc'[v] \in WorkerUnits
      BY <1>13 DEF RegisterLookup, ClientUnits, WorkerUnits, Inline, slotVars, PlaceInv, TypeInv, SlotType, ClientType, WorkerType
    <2> QED BY <2>2, UnitsStay
  <1>14. ASSUME NEW c \in Clients, AddSuccessor(c) PROVE UnitInv'
    <2>1. UNCHANGED <<state, wpc, outstanding>> /\ cpc[c] = "addSuccessor"
      BY <1>14, AddSuccessorEffect
    <2>2. \A e \in Clients : cpc[e] \in ClientUnits <=> cpc'[e] \in ClientUnits
      BY <1>14, <2>1, AddSuccessorEffect DEF AddsEdge, FindsFinished, ClientUnits, Inline, PlaceInv, TypeInv, SlotType, ClientType, WorkerType
    <2> QED BY <2>1, <2>2, UnitsStay
  <1>15. ASSUME NEW c \in Clients, PreSatisfied(c) PROVE UnitInv'
    <2>2. /\ UNCHANGED outstanding
          /\ \A e \in Clients : cpc[e] \in ClientUnits <=> cpc'[e] \in ClientUnits
          /\ \A r \in Slots : state[r] # "Free" <=> state'[r] # "Free"
          /\ \A v \in Workers : wpc[v] \in WorkerUnits <=> wpc'[v] \in WorkerUnits
      BY <1>15 DEF PreSatisfied, ClientUnits, WorkerUnits, Inline, slotVars, PlaceInv, TypeInv, SlotType, ClientType, WorkerType
    <2> QED BY <2>2, UnitsStay
  <1>16. ASSUME NEW c \in Clients, RemoveGuard(c) PROVE UnitInv'
    <2> DEFINE s == chandle[c].slot
    <2>1. s \in Slots /\ state[s] # "Free"
      BY <1>16, ClientHolds DEF RemoveGuard, Registration, PlaceInv
    <2>2. /\ state' = state \/ state' = [state EXCEPT ![s] = "Queued"]
          /\ cpc' = [cpc EXCEPT ![c] = "enqueue"] \/ cpc' = [cpc EXCEPT ![c] = "idle"]
          /\ cpc[c] = "register" /\ UNCHANGED <<wpc, outstanding>>
      BY <1>16 DEF RemoveGuard
    <2> HIDE DEF s
    <2>3. /\ \A e \in Clients : cpc[e] \in ClientUnits <=> cpc'[e] \in ClientUnits
          /\ \A r \in Slots : state[r] # "Free" <=> state'[r] # "Free"
      BY <2>1, <2>2 DEF ClientUnits, Inline, PlaceInv, TypeInv, SlotType, ClientType, WorkerType
    <2> QED BY <2>2, <2>3, UnitsStay
  <1>17. ASSUME NEW c \in Clients, Enqueue(c) PROVE UnitInv'
    <2>2. /\ UNCHANGED outstanding
          /\ \A e \in Clients : cpc[e] \in ClientUnits <=> cpc'[e] \in ClientUnits
          /\ \A r \in Slots : state[r] # "Free" <=> state'[r] # "Free"
          /\ \A v \in Workers : wpc[v] \in WorkerUnits <=> wpc'[v] \in WorkerUnits
      BY <1>17 DEF Enqueue, ClientUnits, WorkerUnits, Inline, slotVars, PlaceInv, TypeInv, SlotType, ClientType, WorkerType
    <2> QED BY <2>2, UnitsStay
  <1>18. ASSUME NEW w \in Workers, NEW h \in ready, Execute(w, h) PROVE UnitInv'
    <2>1. h.slot \in Slots /\ state[h.slot] # "Free"
      BY <1>18, ExecuteEffect
    <2>2. /\ UNCHANGED outstanding
          /\ \A e \in Clients : cpc[e] \in ClientUnits <=> cpc'[e] \in ClientUnits
          /\ \A r \in Slots : state[r] # "Free" <=> state'[r] # "Free"
          /\ \A v \in Workers : wpc[v] \in WorkerUnits <=> wpc'[v] \in WorkerUnits
      BY <1>18, <2>1 DEF Execute, ClientUnits, WorkerUnits, Inline, slotVars, PlaceInv, TypeInv, SlotType, ClientType, WorkerType
    <2> QED BY <2>2, UnitsStay
  <1>19. ASSUME NEW w \in Workers, BodyReturn(w) PROVE UnitInv'
    <2>2. /\ UNCHANGED outstanding
          /\ \A e \in Clients : cpc[e] \in ClientUnits <=> cpc'[e] \in ClientUnits
          /\ \A r \in Slots : state[r] # "Free" <=> state'[r] # "Free"
          /\ \A v \in Workers : wpc[v] \in WorkerUnits <=> wpc'[v] \in WorkerUnits
      BY <1>19 DEF BodyReturn, ClientUnits, WorkerUnits, Inline, slotVars, PlaceInv, TypeInv, SlotType, ClientType, WorkerType
    <2> QED BY <2>2, UnitsStay
  <1>20. ASSUME NEW w \in Workers, TakeSuccessors(w) PROVE UnitInv'
    <2>2. /\ UNCHANGED outstanding
          /\ \A e \in Clients : cpc[e] \in ClientUnits <=> cpc'[e] \in ClientUnits
          /\ \A r \in Slots : state[r] # "Free" <=> state'[r] # "Free"
          /\ \A v \in Workers : wpc[v] \in WorkerUnits <=> wpc'[v] \in WorkerUnits
      BY <1>20 DEF TakeSuccessors, ClientUnits, WorkerUnits, Inline, slotVars, PlaceInv, TypeInv, SlotType, ClientType, WorkerType
    <2> QED BY <2>2, UnitsStay
  <1>21. ASSUME NEW w \in Workers, StoreCompleted(w) PROVE UnitInv'
    <2>1. whandle[w].slot \in Slots /\ state[whandle[w].slot] # "Free"
      BY <1>21, ExecutedSlots DEF StoreCompleted, Executes, Closing
    <2>2. /\ UNCHANGED outstanding
          /\ \A e \in Clients : cpc[e] \in ClientUnits <=> cpc'[e] \in ClientUnits
          /\ \A r \in Slots : state[r] # "Free" <=> state'[r] # "Free"
          /\ \A v \in Workers : wpc[v] \in WorkerUnits <=> wpc'[v] \in WorkerUnits
      BY <1>21, <2>1 DEF StoreCompleted, ClientUnits, WorkerUnits, Inline, slotVars, PlaceInv, TypeInv, SlotType, ClientType, WorkerType
    <2> QED BY <2>2, UnitsStay
  <1>22. ASSUME NEW w \in Workers, BumpGeneration(w) PROVE UnitInv'
    <2>2. /\ UNCHANGED outstanding
          /\ \A e \in Clients : cpc[e] \in ClientUnits <=> cpc'[e] \in ClientUnits
          /\ \A r \in Slots : state[r] # "Free" <=> state'[r] # "Free"
          /\ \A v \in Workers : wpc[v] \in WorkerUnits <=> wpc'[v] \in WorkerUnits
      BY <1>22 DEF BumpGeneration, ClientUnits, WorkerUnits, Inline, slotVars, PlaceInv, TypeInv, SlotType, ClientType, WorkerType
    <2> QED BY <2>2, UnitsStay
  <1>23. ASSUME NEW w \in Workers, FreeSlot(w) PROVE UnitInv'
    <2> DEFINE s == whandle[w].slot
               x == <<"slot", s>>
               y == <<"worker", w>>
    <2>1. s \in Slots /\ state[s] # "Free"
      BY <1>23, ExecutedSlots DEF FreeSlot, Executes, Closing
    <2>2. /\ wpc[w] \notin WorkerUnits /\ wpc'[w] \in WorkerUnits /\ \A v \in Workers : v # w => wpc'[v] = wpc[v]
          /\ state'[s] = "Free" /\ \A r \in Slots : r # s => state'[r] = state[r]
          /\ UNCHANGED <<cpc, outstanding>>
      BY <1>23, <2>1 DEF FreeSlot, WorkerUnits, PlaceInv, TypeInv, SlotType, ClientType, WorkerType
    <2>3. x \in Units /\ x \notin Units' /\ y \notin Units /\ y \in Units'
      BY <2>1, <2>2, UnitsAre, UnitsAreNext
    <2>4. \A z : z \notin {x, y} => (z \in Units <=> z \in Units')
      <3>1. \A v \in Workers : <<"worker", v>> \notin {x, y} => v # w
        OBVIOUS
      <3>2. \A r \in Slots : <<"slot", r>> \notin {x, y} => r # s
        OBVIOUS
      <3> HIDE DEF x, y
      <3> QED BY <2>2, <3>1, <3>2, UnitsBut
    <2> HIDE DEF x, y
    <2> QED BY <2>2, <2>3, <2>4, UnitsMove
  <1>24. ASSUME NEW w \in Workers, ReleaseDependent(w) PROVE UnitInv'
    <2>1. PICK s \in Slots : Releases(w, s)
      BY <1>24, ReleaseEffect
    <2>2. UNCHANGED <<cpc, outstanding>> /\ wpc[w] = "release"
      BY <1>24, ReleaseEffect DEF clientVars
    <2>3. /\ wpc' = wpc \/ wpc' = [wpc EXCEPT ![w] = "enqueueDependent"]
          /\ state' = state \/ state' = [state EXCEPT ![s] = "Queued"]
          /\ state[s] = "Waiting"
      BY <2>1 DEF Releases
    <2>4. /\ \A v \in Workers : wpc[v] \in WorkerUnits <=> wpc'[v] \in WorkerUnits
          /\ \A r \in Slots : state[r] # "Free" <=> state'[r] # "Free"
      BY <2>2, <2>3 DEF WorkerUnits, PlaceInv, TypeInv, SlotType, ClientType, WorkerType
    <2> QED BY <2>2, <2>4, UnitsStay
  <1>25. ASSUME NEW w \in Workers, EnqueueDependent(w) PROVE UnitInv'
    <2>2. /\ UNCHANGED outstanding
          /\ \A e \in Clients : cpc[e] \in ClientUnits <=> cpc'[e] \in ClientUnits
          /\ \A r \in Slots : state[r] # "Free" <=> state'[r] # "Free"
          /\ \A v \in Workers : wpc[v] \in WorkerUnits <=> wpc'[v] \in WorkerUnits
      BY <1>25 DEF EnqueueDependent, ClientUnits, WorkerUnits, Inline, slotVars, PlaceInv, TypeInv, SlotType, ClientType, WorkerType
    <2> QED BY <2>2, UnitsStay
  <1>26. ASSUME NEW w \in Workers, CompleteCount(w) PROVE UnitInv'
    <2> DEFINE x == <<"worker", w>>
    <2>1. /\ wpc[w] \in WorkerUnits /\ wpc'[w] \notin WorkerUnits /\ \A e \in Workers : e # w => wpc'[e] = wpc[e]
          /\ UNCHANGED <<state, cpc>> /\ outstanding' = outstanding - 1
      BY <1>26 DEF CompleteCount, ClientUnits, WorkerUnits, Inline, slotVars, PlaceInv, TypeInv, SlotType, ClientType, WorkerType
    <2>2. x \in Units /\ x \notin Units'
      BY <2>1, UnitsAre, UnitsAreNext
    <2>3. \A z : z \notin {x, x} => (z \in Units <=> z \in Units')
      <3>1. \A e \in Workers : <<"worker", e>> \notin {x, x} => e # w
        OBVIOUS
      <3> HIDE DEF x
      <3> QED BY <2>1, <3>1, UnitsBut
    <2> HIDE DEF x
    <2> QED BY <2>1, <2>2, <2>3, UnitsLose
  <1>27. CASE UNCHANGED vars
    <2>2. /\ UNCHANGED outstanding
          /\ \A e \in Clients : cpc[e] \in ClientUnits <=> cpc'[e] \in ClientUnits
          /\ \A r \in Slots : state[r] # "Free" <=> state'[r] # "Free"
          /\ \A v \in Workers : wpc[v] \in WorkerUnits <=> wpc'[v] \in WorkerUnits
      BY <1>27 DEF vars, ClientUnits, WorkerUnits, Inline, slotVars, PlaceInv, TypeInv, SlotType, ClientType, WorkerType
    <2> QED BY <2>2, UnitsStay
  <1> QED
    BY <1>1, <1>2, <1>3, <1>4, <1>5, <1>6, <1>7, <1>8, <1>9, <1>10, <1>11, <1>12, <1>13,
       <1>14, <1>15, <1>16, <1>17, <1>18, <1>19, <1>20, <1>21, <1>22, <1>23, <1>24, <1>25,
       <1>26, <1>27
    DEF Next, Submits, ClientStep, WorkerStep, AtRest


-----------------------------------------------------------------------------

(* The invariant *)

(* Nothing is submitted and every slot is free. *)
LEMMA InitIInv == Init => IInv
  <1> SUFFICES ASSUME Init PROVE IInv
    OBVIOUS
  <1>1. TypeInv
    BY DEF Init, TypeInv, SlotType, TaskType, ClientType, WorkerType, TaskStates, Handles, Phases,
           ClientStates, WorkerStates, Inline, Registration, Executes, Closing
  <1>2. ClientInv
    BY DEF Init, ClientInv, ClientOk, Issued, Registration
  <1>3. SlotInv
    BY DEF Init, SlotInv, FreeInv, OwnInv, ConstructInv, HolderInv, Holds, Registration
  <1>4. WorkerInv /\ ReadyInv
    BY DEF Init, WorkerInv, WorkerOk, ReadyInv, Executes, Closing
  <1>5. PhaseInv /\ HandleInv /\ EdgeInv
    <2>1. PhaseInv
      BY DEF Init, PhaseInv, SlotPhase, TaskHome
    <2>2. HandleInv
      BY NoneAssumption DEF Init, HandleInv, HandleOk
    <2>3. EdgeInv
      BY DEF Init, EdgeInv
    <2> QED BY <2>1, <2>2, <2>3
  <1>6. DepInv
    BY DEF Init, DepInv, DepIssued, SlotDepsInv, SlotDeps, InlineDepsInv, InlineDeps
  <1>7. CountInv
    BY DEF Init, CountInv
  <1>8. UnitInv
    <2>1. Units = {}
      BY DEF Init, Units, ClientUnits, WorkerUnits, Inline
    <2> QED BY <2>1, FS_EmptySet DEF UnitInv, Init
  <1> QED BY <1>1, <1>2, <1>3, <1>4, <1>5, <1>6, <1>7, <1>8 DEF IInv, PlaceInv

(* Every step of a client and of a worker preserves it. *)
LEMMA NextIInv == IInv /\ [Next]_vars => IInv'
  <1> SUFFICES ASSUME IInv, [Next]_vars PROVE IInv'
    OBVIOUS
  <1>1. PlaceInv /\ DepInv /\ CountInv /\ UnitInv
    BY DEF IInv
  <1>2. TypeInv'
    BY <1>1, SlotTypeStep, TaskTypeStep, ClientTypeStep, WorkerTypeStep DEF TypeInv
  <1>3. ClientInv'
    BY <1>1, ClientInvStep
  <1>4. SlotInv'
    BY <1>1, FreeInvStep, OwnInvStep, ConstructInvStep, HolderInvStep DEF SlotInv
  <1>5. WorkerInv' /\ ReadyInv'
    BY <1>1, WorkerInvStep, ReadyInvStep
  <1>6. PhaseInv' /\ HandleInv' /\ EdgeInv'
    BY <1>1, SlotPhaseStep, TaskHomeStep, HandleInvStep, EdgeInvStep DEF PhaseInv
  <1>7. DepInv'
    BY <1>1, DepIssuedStep, SlotDepsStep, InlineDepsStep DEF DepInv
  <1>8. CountInv' /\ UnitInv'
    BY <1>1, CountInvStep, UnitInvStep
  <1> QED BY <1>2, <1>3, <1>4, <1>5, <1>6, <1>7, <1>8 DEF IInv, PlaceInv

(* Every reachable state satisfies the invariant. *)
THEOREM Invariance == Spec => []IInv
  BY InitIInv, NextIInv, PTL DEF Spec

-----------------------------------------------------------------------------

(* What the invariant means *)

(* The ranges, counts included.                                            *)
LEMMA TypeOKFollows == IInv => TypeOK
  <1> SUFFICES ASSUME IInv PROVE TypeOK
    OBVIOUS
  <1>1. TypeInv /\ CountInv /\ UnitInv
    BY DEF IInv, PlaceInv
  <1>2. outstanding \in Nat
    BY <1>1, FS_CardinalityType DEF UnitInv
  <1>3. pending \in [Slots -> Nat]
    BY <1>1 DEF CountInv, TypeInv, SlotType
  <1>4. \A s \in Slots : \A i \in 1 .. Len(successors[s]) : successors[s][i] \in Handle
    BY <1>1 DEF TypeInv, SlotType
  <1> QED BY <1>1, <1>2, <1>3, <1>4 DEF TypeInv, SlotType, TaskType, ClientType, WorkerType, TypeOK

(* No count goes below zero: outstanding_ and pending_dependencies, which  *)
(* are unsigned in the code, never wrap around.                            *)
THEOREM TypeCorrect == Spec => []TypeOK
  BY Invariance, TypeOKFollows, PTL

(* An edge or a call that leads to a slot leads to the task in it. *)
LEMMA NotificationsAreOwed ==
    ASSUME PlaceInv, NEW s \in Slots
    PROVE  Notifications(HandleOf(s)) = Owed(s)
  <1> DEFINE h == HandleOf(s)
  <1>1. h \in Handle /\ h.slot = s
    BY HandleFacts DEF PlaceInv
  <1>2. \A p \in Slots : PositionsOf(h, successors[p]) = {j \in 1 .. Len(successors[p]) : successors[p][j].slot = s}
    BY <1>1, HandleFacts DEF PlaceInv, EdgeInv, Waits, Current, PositionsOf
  <1>3. \A w \in Workers : PositionsOf(h, wsucc[w]) = {j \in 1 .. Len(wsucc[w]) : wsucc[w][j].slot = s}
    BY <1>1, HandleFacts DEF PlaceInv, EdgeInv, Waits, Current, PositionsOf
  <1>4. \A c \in Clients : Registering(c) => (chandle[c] = h <=> chandle[c].slot = s)
    BY <1>1, ClientHolds DEF PlaceInv, Registering, Registration
  <1> HIDE DEF h
  <1>5. UNION {{<<"edge", p, i>> : i \in PositionsOf(h, successors[p])} : p \in Slots} = OwedEdges(s)
    <2>1. \A p \in Slots :
            {<<"edge", p, i>> : i \in PositionsOf(h, successors[p])}
            = {<<"edge", p, i>> : i \in {j \in 1 .. Len(successors[p]) : successors[p][j].slot = s}}
      BY <1>2
    <2> QED BY <2>1 DEF OwedEdges
  <1>6. UNION {{<<"taken", w, i>> : i \in PositionsOf(h, wsucc[w])} : w \in Workers} = OwedTaken(s)
    <2>1. \A w \in Workers :
            {<<"taken", w, i>> : i \in PositionsOf(h, wsucc[w])}
            = {<<"taken", w, i>> : i \in {j \in 1 .. Len(wsucc[w]) : wsucc[w][j].slot = s}}
      BY <1>3
    <2> QED BY <2>1 DEF OwedTaken
  <1>7. {d \in Clients : Registering(d) /\ chandle[d] = h} = {d \in Clients : Registering(d) /\ chandle[d].slot = s}
    BY <1>4
  <1>8. UNION {{<<"call", c, i>> : i \in 0 .. Len(cdeps[c])} : c \in {d \in Clients : Registering(d) /\ chandle[d] = h}}
        = OwedCalls(s)
    BY <1>7 DEF OwedCalls
  <1>9. Notifications(h) = Owed(s)
    BY <1>5, <1>6, <1>8 DEF Notifications, Owed
  <1> QED BY <1>9 DEF h

(* The protocol of submit_after() and release_dependent() neither loses    *)
(* nor repeats a notification, however registration, completion and the    *)
(* recycling of slots interleave: a dependent does not hang, and it does   *)
(* not start early.                                                        *)
THEOREM PendingAccountHolds == Spec => []PendingAccount
  <1>1. IInv => PendingAccount
    <2> SUFFICES ASSUME IInv, NEW s \in Slots, state[s] = "Waiting"
                 PROVE  pending[s] = Cardinality(Notifications(HandleOf(s)))
      BY DEF PendingAccount
    <2>1. pending[s] = Cardinality(Owed(s))
      BY DEF IInv, CountInv
    <2>2. Notifications(HandleOf(s)) = Owed(s)
      BY NotificationsAreOwed DEF IInv
    <2> QED BY <2>1, <2>2
  <1> QED BY <1>1, Invariance, PTL

(* The generation makes handles safe: one that resolves is of the task in  *)
(* its slot, and is_complete() says yes only of a finished task, also of   *)
(* one whose slot has been given to others since.                          *)
THEOREM HandleNamesTaskHolds == Spec => []HandleNamesTask
  <1>1. IInv => HandleNamesTask
    <2> SUFFICES ASSUME IInv, NEW t \in Tasks, handle[t] # Unsubmitted
                 PROVE  /\ Resolves(handle[t]) => body[handle[t].slot] = t
                        /\ IsComplete(handle[t]) => phase[t] = "finished"
      BY DEF HandleNamesTask
    <2>1. PlaceInv /\ Issued(t)
      BY DEF IInv, Issued
    <2> QED BY <2>1, CurrentHandle, CompleteIsFinished DEF Finished
  <1> QED BY <1>1, Invariance, PTL

(* wait_all() and the destructor return when outstanding_ is zero: then    *)
(* nothing is queued or running and every slot is back on a free list.     *)
THEOREM WaitAllSoundHolds == Spec => []WaitAllSound
  <1>1. IInv => WaitAllSound
    <2> SUFFICES ASSUME IInv, outstanding = 0
                 PROVE  (\A t \in Tasks : phase[t] \in {"none", "finished"}) /\ free = Slots /\ ready = {}
      BY DEF WaitAllSound
    <2>1. PlaceInv /\ UnitInv
      BY DEF IInv
    <2>2. Units = {}
      BY <2>1, FS_EmptySet DEF UnitInv
    <2>3. /\ \A s \in Slots : state[s] = "Free"
          /\ \A c \in Clients : cpc[c] \notin ClientUnits
      BY <2>2, UnitsAre
    <2>4. \A s \in Slots : s \in free /\ body[s] = NoTask
      BY <2>1, <2>3 DEF PlaceInv, SlotInv, FreeInv, Constructs, ClientUnits
    <2>5. free = Slots
      BY <2>1, <2>4 DEF PlaceInv, TypeInv, TaskType
    <2>6. ready = {}
      BY <2>1, <2>3, HandleFacts DEF PlaceInv, TypeInv, TaskType, ReadyInv, Runnable
    <2>7. \A t \in Tasks : phase[t] \notin {"submitted", "running"}
      BY <2>1, <2>3, <2>4, NoneAssumption DEF PlaceInv, PhaseInv, TaskHome, InlineBy, ClientUnits
    <2>8. \A t \in Tasks : phase[t] \in {"none", "finished"}
      BY <2>1, <2>7 DEF PlaceInv, TypeInv, TaskType, Phases
    <2> QED BY <2>5, <2>6, <2>8
  <1> QED BY <1>1, Invariance, PTL

-----------------------------------------------------------------------------

(* The runtime implements TaskRuntimeSpec *)

(* A client submits: every task it names has been submitted before. *)
LEMMA AcceptedIsSubmit ==
    ASSUME PlaceInv, NEW c \in Clients, cpc[c] \in {"acquire", "construct"}, Accepted(c)
    PROVE  TR!Next
  <1> DEFINE t == ctask[c]
             deps == ToSet(cdeps[c])
  <1>1. t \in Tasks /\ ~Issued(t) /\ phase[t] = "none"
    BY DEF PlaceInv, ClientInv, ClientOk
  <1>2. deps = {d \in Tasks : Depends(c, d)}
    BY DependsSet DEF PlaceInv
  <1>3. \A d \in deps : Issued(d) /\ phase[d] # "none"
    BY <1>2 DEF PlaceInv, ClientInv, ClientOk
  <1>4. deps \in SUBSET (Tasks \ {t})
    BY <1>1, <1>2, <1>3
  <1>5. TR!Submit(t, deps)
    BY <1>1, <1>3 DEF Accepted, TR!Submit
  <1> QED BY <1>1, <1>4, <1>5 DEF TR!Next

(* Every other step but the start and the end of a body is a stutter. *)
LEMMA StepRefines == PlaceInv /\ DepInv /\ [Next]_vars => [TR!Next]_(TR!vars)
  <1> SUFFICES ASSUME PlaceInv, DepInv, [Next]_vars PROVE [TR!Next]_(TR!vars)
    OBVIOUS
  <1> USE DEF PlaceInv, DepInv
  <1>1. ASSUME NEW c \in Clients, NEW t \in Tasks, NEW deps \in DepSeqs, SubmitCount(c, t, deps) PROVE [TR!Next]_(TR!vars)
    BY <1>1 DEF SubmitCount, TR!vars
  <1>2. ASSUME NEW c \in Clients, NEW s \in Slots, Acquire(c, s) PROVE [TR!Next]_(TR!vars)
    <2>1. TR!Next
      BY <1>2, AcceptedIsSubmit DEF Acquire
    <2> QED BY <2>1
  <1>3. ASSUME NEW c \in Clients, NEW s \in Slots, Reserve(c, s) PROVE [TR!Next]_(TR!vars)
    BY <1>3 DEF Reserve, TR!vars
  <1>4. ASSUME NEW c \in Clients, Publish(c) PROVE [TR!Next]_(TR!vars)
    <2>1. TR!Next
      BY <1>4, AcceptedIsSubmit DEF Publish
    <2> QED BY <2>1
  <1>5. ASSUME NEW c \in Clients, ConstructThrows(c) PROVE [TR!Next]_(TR!vars)
    BY <1>5 DEF ConstructThrows, TR!vars
  <1>6. ASSUME NEW c \in Clients, ConstructThrowsInline(c) PROVE [TR!Next]_(TR!vars)
    BY <1>6 DEF ConstructThrowsInline, TR!vars
  <1>7. ASSUME NEW c \in Clients, Rethrow(c) PROVE [TR!Next]_(TR!vars)
    BY <1>7 DEF Rethrow, TR!vars
  <1>8. ASSUME NEW c \in Clients, Exhausted(c) PROVE [TR!Next]_(TR!vars)
    <2>1. TR!Next
      BY <1>8, AcceptedIsSubmit DEF Exhausted
    <2> QED BY <2>1
  <1>9. ASSUME NEW c \in Clients, InlineWait(c) PROVE [TR!Next]_(TR!vars)
    BY <1>9 DEF InlineWait, TR!vars
  <1>10. ASSUME NEW c \in Clients, InlineStart(c) PROVE [TR!Next]_(TR!vars)
    <2> DEFINE t == ctask[c]
    <2>1. t \in Tasks /\ phase[t] = "submitted"
      BY <1>10 DEF InlineStart, ClientInv, ClientOk
    <2>2. \A d \in after[t] : phase[d] = "finished"
      BY <1>10 DEF InlineStart, InlineDepsInv, InlineDeps, Depends, Finished
    <2>3. TR!Start(t)
      BY <1>10, <2>1, <2>2 DEF InlineStart, TR!Start
    <2> QED BY <2>1, <2>3 DEF TR!Next
  <1>11. ASSUME NEW c \in Clients, InlineFinish(c) PROVE [TR!Next]_(TR!vars)
    <2> DEFINE t == ctask[c]
    <2>1. t \in Tasks /\ phase[t] = "running"
      BY <1>11 DEF InlineFinish, ClientInv, ClientOk
    <2>2. TR!Finish(t)
      BY <1>11, <2>1 DEF InlineFinish, TR!Finish
    <2> QED BY <2>1, <2>2 DEF TR!Next
  <1>12. ASSUME NEW c \in Clients, InlineCount(c) PROVE [TR!Next]_(TR!vars)
    BY <1>12 DEF InlineCount, TR!vars
  <1>13. ASSUME NEW c \in Clients, RegisterLookup(c) PROVE [TR!Next]_(TR!vars)
    BY <1>13 DEF RegisterLookup, TR!vars
  <1>14. ASSUME NEW c \in Clients, AddSuccessor(c) PROVE [TR!Next]_(TR!vars)
    BY <1>14, AddSuccessorEffect DEF TR!vars
  <1>15. ASSUME NEW c \in Clients, PreSatisfied(c) PROVE [TR!Next]_(TR!vars)
    BY <1>15 DEF PreSatisfied, TR!vars
  <1>16. ASSUME NEW c \in Clients, RemoveGuard(c) PROVE [TR!Next]_(TR!vars)
    BY <1>16 DEF RemoveGuard, TR!vars
  <1>17. ASSUME NEW c \in Clients, Enqueue(c) PROVE [TR!Next]_(TR!vars)
    BY <1>17 DEF Enqueue, TR!vars
  <1>18. ASSUME NEW w \in Workers, NEW h \in ready, Execute(w, h) PROVE [TR!Next]_(TR!vars)
    <2> DEFINE t == body[h.slot]
    <2>1. /\ t \in Tasks /\ phase[t] = "submitted"
          /\ h.slot \in Slots /\ state[h.slot] = "Queued"
      BY <1>18, ExecuteEffect
    <2>2. \A d \in after[t] : phase[d] = "finished"
      BY <2>1 DEF SlotDepsInv, SlotDeps, Finished
    <2>3. TR!Start(t)
      BY <1>18, <2>1, <2>2 DEF Execute, TR!Start
    <2> QED BY <2>1, <2>3 DEF TR!Next
  <1>19. ASSUME NEW w \in Workers, BodyReturn(w) PROVE [TR!Next]_(TR!vars)
    <2> DEFINE t == body[whandle[w].slot]
    <2>1. wpc[w] = "body"
      BY <1>19 DEF BodyReturn
    <2>2. t \in Tasks
      BY <2>1, ExecutedSlots DEF Executes
    <2>3. phase[t] = "running"
      BY <2>1 DEF WorkerInv, WorkerOk, Executes
    <2>4. TR!Finish(t)
      BY <1>19, <2>3 DEF BodyReturn, TR!Finish
    <2> QED BY <2>2, <2>4 DEF TR!Next
  <1>20. ASSUME NEW w \in Workers, TakeSuccessors(w) PROVE [TR!Next]_(TR!vars)
    BY <1>20 DEF TakeSuccessors, TR!vars
  <1>21. ASSUME NEW w \in Workers, StoreCompleted(w) PROVE [TR!Next]_(TR!vars)
    BY <1>21 DEF StoreCompleted, TR!vars
  <1>22. ASSUME NEW w \in Workers, BumpGeneration(w) PROVE [TR!Next]_(TR!vars)
    BY <1>22 DEF BumpGeneration, TR!vars
  <1>23. ASSUME NEW w \in Workers, FreeSlot(w) PROVE [TR!Next]_(TR!vars)
    BY <1>23 DEF FreeSlot, TR!vars
  <1>24. ASSUME NEW w \in Workers, ReleaseDependent(w) PROVE [TR!Next]_(TR!vars)
    BY <1>24, ReleaseEffect DEF TR!vars
  <1>25. ASSUME NEW w \in Workers, EnqueueDependent(w) PROVE [TR!Next]_(TR!vars)
    BY <1>25 DEF EnqueueDependent, TR!vars
  <1>26. ASSUME NEW w \in Workers, CompleteCount(w) PROVE [TR!Next]_(TR!vars)
    BY <1>26 DEF CompleteCount, TR!vars
  <1>27. CASE UNCHANGED vars
    BY <1>27 DEF vars, TR!vars
  <1> QED
    BY <1>1, <1>2, <1>3, <1>4, <1>5, <1>6, <1>7, <1>8, <1>9, <1>10, <1>11, <1>12, <1>13,
       <1>14, <1>15, <1>16, <1>17, <1>18, <1>19, <1>20, <1>21, <1>22, <1>23, <1>24, <1>25,
       <1>26, <1>27
    DEF Next, Submits, ClientStep, WorkerStep, AtRest


(* The runtime implements TaskRuntimeSpec: through exhaustion, inline      *)
(* execution, recycled slots and racing notifications, each task starts at *)
(* most once, and never before each of its dependencies has finished.      *)
THEOREM TaskRuntimeRefinement == Spec => ImplementsTaskRuntime
  <1>1. Init => TR!Init
    BY DEF Init, TR!Init
  <1>2. IInv /\ [Next]_vars => [TR!Next]_(TR!vars)
    BY StepRefines DEF IInv
  <1> QED BY <1>1, <1>2, Invariance, PTL DEF Spec, ImplementsTaskRuntime, TR!Safety


=============================================================================
