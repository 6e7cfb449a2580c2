------------------------------- MODULE TaskBody -------------------------------
(***************************************************************************)
(* Where a task's body lives: TaskFunction (TaskFunction.hpp), and the     *)
(* moves it goes through from submit(), TaskGraph::add() or                *)
(* submit_emplace() to execute() and release(), or to run_inline().        *)
(*                                                                         *)
(* A TaskFunction is its pair of pointers invoke_ and manage_: the body    *)
(* they are for, or NoBody.  live counts the callables of each body whose  *)
(* constructor has run and whose destructor has not.                       *)
(*                                                                         *)
(* Abstracted: the 48 bytes; the free lists, queues and dependencies       *)
(* (TaskPool, WorkerParking, TaskLifecycle); a body that throws, which     *)
(* ends like any other.                                                    *)
(***************************************************************************)
EXTENDS Integers, FiniteSets

CONSTANTS Callers,            \* threads that submit
          Builder,            \* the caller that has a TaskGraph
          Runners,            \* workers
          Bodies,             \* the callables, submitted once each
          PoolSlots,          \* number of slots in the pool
          MaxGraphSize,       \* bound on the nodes added
          GraphSubmissions,   \* how often the graph may be submitted
          NoBody

ASSUME BodyAssumption ==
    /\ IsFiniteSet(Callers) /\ IsFiniteSet(Runners)
    /\ PoolSlots \in Nat /\ MaxGraphSize \in Nat
    /\ NoBody \notin Bodies

(* The TaskFunction objects: parameters, locals, tasks and nodes.          *)
ArgOf(c)   == <<"fn", c>>       \* the temporary a TaskDesc is made from
DescOf(c)  == <<"desc", c>>     \* the TaskDesc parameter
LocalOf(c) == <<"local", c>>    \* a TaskDesc on the callee's stack
SlotFn(s)  == <<"slot", s>>
NodeFn(n)  == <<"node", n>>

Objects ==
    {ArgOf(c) : c \in Callers} \cup {DescOf(c) : c \in Callers} \cup {LocalOf(c) : c \in Callers}
        \cup {SlotFn(s) : s \in 1 .. PoolSlots} \cup {NodeFn(n) : n \in 1 .. MaxGraphSize}

VARIABLES inPlace,        \* in_place_submit_
          mem,            \* the objects: what each owns; and what is live
          freeSlots,      \* the free lists
          readySlots,     \* enqueued
          counted,        \* outstanding_
          graphSize, graphRuns,            \* nodes_.size(); calls of TaskGraph::submit
          cpc, subject, cslot, nodeAt,     \* callers: place, body, slot, node being submitted
          rpc, rslot, rbody,               \* runners: place, slot, body
          offered,        \* history: bodies whose submission or addition has begun
          executed,       \* history: how often each body was called
          ended           \* history: bodies whose task was uncounted

graphVars == <<inPlace, graphSize, graphRuns>>
poolSide == <<freeSlots, readySlots>>
callerVars == <<cpc, subject, cslot, nodeAt>>
runnerVars == <<rpc, rslot, rbody>>
bodyHistory == <<offered, executed, ended>>
allBodyVars == <<graphVars, mem, poolSide, counted, callerVars, runnerVars, bodyHistory>>

BodyInit ==
    /\ inPlace \in BOOLEAN
    /\ mem = [owns |-> [o \in Objects |-> NoBody], live |-> [b \in Bodies |-> 0]]
    /\ freeSlots = 1 .. PoolSlots
    /\ readySlots = {}
    /\ counted = 0
    /\ graphSize = 0 /\ graphRuns = 0
    /\ cpc = [c \in Callers |-> "idle"]
    /\ subject = [c \in Callers |-> NoBody]
    /\ cslot = [c \in Callers |-> 0]
    /\ nodeAt = [c \in Callers |-> 0]
    /\ rpc = [r \in Runners |-> "idle"]
    /\ rslot = [r \in Runners |-> 0]
    /\ rbody = [r \in Runners |-> NoBody]
    /\ offered = {}
    /\ executed = [b \in Bodies |-> 0]
    /\ ended = {}

-----------------------------------------------------------------------------
(* TaskFunction's operations, as functions of the memory.                  *)

Holds(m, o) == m.owns[o] # NoBody

(* reset(), also the destructor *)
ResetFn(m, o) ==
    IF Holds(m, o) THEN [m EXCEPT !.live[m.owns[o]] = @ - 1, !.owns[o] = NoBody] ELSE m

(* init(): the pointers are set after the callable is constructed          *)
InitFn(m, o, b) == [m EXCEPT !.live[b] = @ + 1, !.owns[o] = b]

EmplaceFn(m, o, b) == InitFn(ResetFn(m, o), o, b)

(* Faulty variant: the moved-out callable is not destroyed *)
MoveFromUndestroyed(m, from, to) ==
    IF Holds(m, from)
    THEN [InitFn(m, to, m.owns[from]) EXCEPT !.owns[from] = NoBody]
    ELSE [m EXCEPT !.owns[to] = NoBody]

(* move_from(): construct there, destroy here, take the pointers           *)
MoveFrom(m, from, to) ==
    IF Holds(m, from)
    THEN ResetFn(InitFn(m, to, m.owns[from]), from)
    ELSE [m EXCEPT !.owns[to] = NoBody]

MoveAssign(m, from, to) == MoveFrom(ResetFn(m, to), from, to)

-----------------------------------------------------------------------------
CAt(c, l) == cpc[c] = l
CGoto(c, l) == cpc' = [cpc EXCEPT ![c] = l]
RGoto(r, l) == rpc' = [rpc EXCEPT ![r] = l]

(* The call ends, in the caller or in TaskGraph::submit's loop.            *)
Leave(c, l) ==
    /\ CGoto(c, l)
    /\ subject' = [subject EXCEPT ![c] = NoBody]
    /\ cslot' = [cslot EXCEPT ![c] = 0]

Resume(c) == Leave(c, IF nodeAt[c] = 0 THEN "idle" ELSE "node")

Offer(c, b) ==
    /\ CAt(c, "idle")
    /\ b \notin offered
    /\ offered' = offered \cup {b}
    /\ subject' = [subject EXCEPT ![c] = b]

(* TaskDesc{TaskFunction{fn}}, for submit(), submit_after() or             *)
(* TaskGraph::add()                                                        *)
BuildDesc(c, b) ==
    /\ Offer(c, b)
    /\ mem' = ResetFn(MoveFrom(InitFn(mem, ArgOf(c), b), ArgOf(c), DescOf(c)), ArgOf(c))
    /\ \/ CGoto(c, "count")
       \/ c = Builder /\ graphSize < MaxGraphSize /\ CGoto(c, "add")
    /\ UNCHANGED <<graphVars, poolSide, counted, cslot, nodeAt, runnerVars, executed, ended>>

(* TaskGraph::add(): into a Node, which is moved into nodes_               *)
AddNode(c) ==
    /\ CAt(c, "add")
    /\ graphSize' = graphSize + 1
    /\ mem' = ResetFn(MoveFrom(MoveAssign(mem, DescOf(c), LocalOf(c)), LocalOf(c),
                               NodeFn(graphSize + 1)), DescOf(c))
    /\ Leave(c, "idle")
    /\ UNCHANGED <<inPlace, graphRuns, poolSide, counted, nodeAt, runnerVars, bodyHistory>>

(* TaskGraph::submit(), node by node *)
SubmitGraph(c) ==
    /\ CAt(c, "idle") /\ c = Builder
    /\ graphSize > 0 /\ graphRuns < GraphSubmissions
    /\ graphRuns' = graphRuns + 1
    /\ nodeAt' = [nodeAt EXCEPT ![c] = 1]
    /\ CGoto(c, "node")
    /\ UNCHANGED <<inPlace, graphSize, mem, poolSide, counted, subject, cslot, runnerVars,
                   bodyHistory>>

(* std::move(node.desc) constructs the parameter *)
NodeDesc(c) ==
    /\ CAt(c, "node")
    /\ IF nodeAt[c] <= graphSize
       THEN /\ mem' = MoveFrom(mem, NodeFn(nodeAt[c]), DescOf(c))
            /\ subject' = [subject EXCEPT ![c] = mem.owns[NodeFn(nodeAt[c])]]
            /\ nodeAt' = [nodeAt EXCEPT ![c] = @ + 1]
            /\ CGoto(c, "count")
       ELSE /\ nodeAt' = [nodeAt EXCEPT ![c] = 0]
            /\ CGoto(c, "idle")
            /\ UNCHANGED <<mem, subject>>
    /\ UNCHANGED <<graphVars, poolSide, counted, cslot, runnerVars, bodyHistory>>

-----------------------------------------------------------------------------
(* submit(TaskDesc) *)
CountBody(c) ==
    /\ CAt(c, "count")
    /\ counted' = counted + 1
    /\ CGoto(c, "acquire")
    /\ UNCHANGED <<graphVars, mem, poolSide, subject, cslot, nodeAt, runnerVars, bodyHistory>>

HoldFreeSlot(c, s) ==
    /\ s \in freeSlots
    /\ freeSlots' = freeSlots \ {s}
    /\ cslot' = [cslot EXCEPT ![c] = s]

(* TaskPool::acquire(TaskDesc&&) *)
AcquireMove(c) ==
    /\ CAt(c, "acquire")
    /\ \E s \in freeSlots :
          HoldFreeSlot(c, s) /\ mem' = MoveAssign(mem, DescOf(c), SlotFn(s))
    /\ CGoto(c, "publish")
    /\ UNCHANGED <<graphVars, readySlots, counted, subject, nodeAt, runnerVars, bodyHistory>>

(* Faulty variant: acquire() takes the description by value *)
AcquireNothingByValue(c) ==
    /\ CAt(c, "acquire") /\ freeSlots = {}
    /\ mem' = ResetFn(MoveFrom(mem, DescOf(c), LocalOf(c)), LocalOf(c))
    /\ CGoto(c, "inline")
    /\ UNCHANGED <<graphVars, poolSide, counted, subject, cslot, nodeAt, runnerVars, bodyHistory>>

(* exhausted: the caller's description is left as it is *)
AcquireNothing(c) ==
    /\ CAt(c, "acquire") /\ freeSlots = {}
    /\ CGoto(c, "inline")
    /\ UNCHANGED <<graphVars, mem, poolSide, counted, subject, cslot, nodeAt, runnerVars,
                   bodyHistory>>

(* the state store and enqueue_ready(): a runner may have it from here on  *)
PublishBody(c) ==
    /\ CAt(c, "publish")
    /\ readySlots' = readySlots \cup {cslot[c]}
    /\ CGoto(c, "return")
    /\ UNCHANGED <<graphVars, mem, freeSlots, counted, subject, cslot, nodeAt, runnerVars,
                   bodyHistory>>

(* the parameter is destroyed *)
SubmitReturn(c) ==
    /\ CAt(c, "return")
    /\ mem' = ResetFn(mem, DescOf(c))
    /\ Resume(c)
    /\ UNCHANGED <<graphVars, poolSide, counted, nodeAt, runnerVars, bodyHistory>>

-----------------------------------------------------------------------------
(* run_inline() *)
InlineMove(c) ==
    /\ CAt(c, "inline")
    /\ mem' = MoveFrom(mem, DescOf(c), LocalOf(c))
    /\ CGoto(c, "inlineCall")
    /\ UNCHANGED <<graphVars, poolSide, counted, subject, cslot, nodeAt, runnerVars, bodyHistory>>

CallBody(o) == executed' = [executed EXCEPT ![mem.owns[o]] = @ + 1]

InlineCall(c) ==
    /\ CAt(c, "inlineCall")
    /\ IF Holds(mem, LocalOf(c)) THEN CallBody(LocalOf(c)) ELSE UNCHANGED executed
    /\ CGoto(c, "inlineCount")
    /\ UNCHANGED <<graphVars, mem, poolSide, counted, subject, cslot, nodeAt, runnerVars, offered,
                   ended>>

(* the decrement comes before the destruction of the local *)
InlineUncount(c) ==
    /\ CAt(c, "inlineCount")
    /\ counted' = counted - 1
    /\ ended' = ended \cup ({subject[c]} \ {NoBody})
    /\ CGoto(c, "inlineReturn")
    /\ UNCHANGED <<graphVars, mem, poolSide, subject, cslot, nodeAt, runnerVars, offered, executed>>

InlineReturn(c) ==
    /\ CAt(c, "inlineReturn")
    /\ mem' = ResetFn(ResetFn(mem, LocalOf(c)), DescOf(c))
    /\ Resume(c)
    /\ UNCHANGED <<graphVars, poolSide, counted, nodeAt, runnerVars, bodyHistory>>

-----------------------------------------------------------------------------
(* submit_emplace(): the callable is constructed in the slot, or, when     *)
(* there is none, in a description of its own.                             *)
CountEmplace(c, b) ==
    /\ inPlace
    /\ Offer(c, b)
    /\ counted' = counted + 1
    /\ CGoto(c, "reserve")
    /\ UNCHANGED <<graphVars, mem, poolSide, cslot, nodeAt, runnerVars, executed, ended>>

ReserveSlot(c) ==
    /\ CAt(c, "reserve")
    /\ IF freeSlots = {}
       THEN CGoto(c, "constructInline") /\ UNCHANGED <<freeSlots, cslot>>
       ELSE (\E s \in freeSlots : HoldFreeSlot(c, s)) /\ CGoto(c, "construct")
    /\ UNCHANGED <<graphVars, mem, readySlots, counted, subject, nodeAt, runnerVars, bodyHistory>>

ConstructInSlot(c) ==
    /\ CAt(c, "construct")
    /\ mem' = EmplaceFn(mem, SlotFn(cslot[c]), subject[c])
    /\ CGoto(c, "publish")
    /\ UNCHANGED <<graphVars, poolSide, counted, subject, cslot, nodeAt, runnerVars, bodyHistory>>

ConstructInDesc(c) ==
    /\ CAt(c, "constructInline")
    /\ mem' = EmplaceFn(mem, DescOf(c), subject[c])
    /\ CGoto(c, "inline")
    /\ UNCHANGED <<graphVars, poolSide, counted, subject, cslot, nodeAt, runnerVars, bodyHistory>>

(* The copy of the callable throws; the caller may offer it again.         *)
SubjectThrows(c) ==
    /\ offered' = offered \ {subject[c]}
    /\ counted' = counted - 1
    /\ Leave(c, "idle")
    /\ UNCHANGED <<graphVars, readySlots, nodeAt, runnerVars, executed, ended>>

SlotThrows(c) ==
    /\ CAt(c, "construct")
    /\ SubjectThrows(c)
    /\ mem' = ResetFn(mem, SlotFn(cslot[c]))
    /\ freeSlots' = freeSlots \cup {cslot[c]}

DescThrows(c) ==
    /\ CAt(c, "constructInline")
    /\ SubjectThrows(c)
    /\ UNCHANGED <<mem, freeSlots>>

-----------------------------------------------------------------------------
(* A worker: execute() and complete().  Calling an empty TaskFunction is a *)
(* call through a null pointer, after which nothing is defined.            *)
TakeReady(r) ==
    /\ rpc[r] = "idle"
    /\ \E s \in readySlots :
          readySlots' = readySlots \ {s} /\ rslot' = [rslot EXCEPT ![r] = s]
    /\ RGoto(r, "call")
    /\ UNCHANGED <<graphVars, mem, freeSlots, counted, callerVars, rbody, bodyHistory>>

ExecuteBody(r) ==
    /\ rpc[r] = "call"
    /\ Holds(mem, SlotFn(rslot[r]))
    /\ CallBody(SlotFn(rslot[r]))
    /\ rbody' = [rbody EXCEPT ![r] = mem.owns[SlotFn(rslot[r])]]
    /\ RGoto(r, "release")
    /\ UNCHANGED <<graphVars, mem, poolSide, counted, callerVars, rslot, offered, ended>>

(* Faulty variant: the body stays in the slot until it is used again *)
ReleaseKeepsBody(r) ==
    /\ rpc[r] = "release"
    /\ RGoto(r, "free")
    /\ UNCHANGED <<graphVars, mem, poolSide, counted, callerVars, rslot, rbody, bodyHistory>>

ReleaseBody(r) ==
    /\ rpc[r] = "release"
    /\ mem' = ResetFn(mem, SlotFn(rslot[r]))
    /\ RGoto(r, "free")
    /\ UNCHANGED <<graphVars, poolSide, counted, callerVars, rslot, rbody, bodyHistory>>

GiveSlotBack(r) ==
    /\ rpc[r] = "free"
    /\ freeSlots' = freeSlots \cup {rslot[r]}
    /\ RGoto(r, "uncount")
    /\ UNCHANGED <<graphVars, mem, readySlots, counted, callerVars, rslot, rbody, bodyHistory>>

UncountBody(r) ==
    /\ rpc[r] = "uncount"
    /\ counted' = counted - 1
    /\ ended' = ended \cup {rbody[r]}
    /\ rslot' = [rslot EXCEPT ![r] = 0]
    /\ rbody' = [rbody EXCEPT ![r] = NoBody]
    /\ RGoto(r, "idle")
    /\ UNCHANGED <<graphVars, mem, poolSide, callerVars, offered, executed>>

-----------------------------------------------------------------------------
CallerStep(c) ==
    \/ \E b \in Bodies : BuildDesc(c, b) \/ CountEmplace(c, b)
    \/ AddNode(c) \/ SubmitGraph(c) \/ NodeDesc(c)
    \/ CountBody(c) \/ AcquireMove(c) \/ AcquireNothing(c) \/ PublishBody(c) \/ SubmitReturn(c)
    \/ InlineMove(c) \/ InlineCall(c) \/ InlineUncount(c) \/ InlineReturn(c)
    \/ ReserveSlot(c) \/ ConstructInSlot(c) \/ ConstructInDesc(c) \/ SlotThrows(c) \/ DescThrows(c)

RunnerStep(r) ==
    TakeReady(r) \/ ExecuteBody(r) \/ ReleaseBody(r) \/ GiveSlotBack(r) \/ UncountBody(r)

(* Every body has been offered and what was submitted has ended.           *)
BodiesAtRest ==
    /\ offered = Bodies /\ counted = 0
    /\ \A c \in Callers : CAt(c, "idle")
    /\ UNCHANGED allBodyVars

BodyNext ==
    \/ \E c \in Callers : CallerStep(c)
    \/ \E r \in Runners : RunnerStep(r)
    \/ BodiesAtRest

BodySpec == BodyInit /\ [][BodyNext]_allBodyVars

-----------------------------------------------------------------------------
(* "The moved-from object still holds a live (moved-out) callable; it must *)
(* be destroyed here, or its destructor never runs", and no destructor     *)
(* runs twice: at any time a body's callables are those TaskFunctions own, *)
(* one at most.  "Destroy the body before the slot becomes reusable": what *)
(* is on the free list owns nothing, and once a task is no longer counted  *)
(* its body is gone, but for the local of a run_inline() about to return.  *)
BodyLedger ==
    /\ \A b \in Bodies : mem.live[b] = Cardinality({o \in Objects : mem.owns[o] = b})
    /\ \A b \in Bodies : mem.live[b] <= 1
    /\ \A s \in freeSlots : ~Holds(mem, SlotFn(s))
    /\ \A b \in ended, o \in Objects : mem.owns[o] = b =>
          \E c \in Callers : o = LocalOf(c) /\ CAt(c, "inlineReturn")

(* Each body is called once, whichever way it took: not twice, and with    *)
(* outstanding_ at zero only those are still to be called that a caller or *)
(* a graph keeps.                                                          *)
BodyRunsOnce ==
    /\ \A b \in Bodies : executed[b] <= 1
    /\ \A b \in ended : executed[b] = 1
    /\ counted = 0 => \A b \in offered : executed[b] = 1 \/
          \E o \in Objects : mem.owns[o] = b /\ o[1] \in {"desc", "node"}

(* "Callers on the execution path already know the task holds a body": as  *)
(* long as no graph is submitted twice.                                    *)
ExecutedHoldsBody ==
    \A r \in Runners : rpc[r] = "call" => Holds(mem, SlotFn(rslot[r]))

=============================================================================
