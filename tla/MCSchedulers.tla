---------------------------- MODULE MCSchedulers -----------------------------
(***************************************************************************)
(* Two schedulers, for TLC: the baseline runtime, and which task a worker  *)
(* of the Thunderbolt runtime takes in its aging mode.  They share no      *)
(* state, so a behaviour is one of the two, the other one staying where it *)
(* starts.                                                                 *)
(***************************************************************************)
EXTENDS StandardRuntime, PriorityAging

VARIABLE scheduler

schedulerVars == <<vars, agingVars, scheduler>>

Standard(A) == scheduler = "standard" /\ A /\ UNCHANGED <<agingVars, scheduler>>
Aging(A)    == scheduler = "aging" /\ A /\ UNCHANGED <<vars, scheduler>>

(* The one that does not run starts in one state. *)
SchedulerInit ==
    /\ scheduler \in {"standard", "aging"}
    /\ Init /\ (scheduler = "aging" => ~exhausted)
    /\ AgingInit /\ (scheduler = "standard" => streams = {"inside"})

SchedulerNext == Standard(Next) \/ Aging(AgingNext)

(* The fairness of both, for the same set of workers.  A step of the aging *)
(* worker is never disabled, so strong fairness asks no more of it than    *)
(* weak.                                                                   *)
ASSUME SameWorkers == Poppers = Workers

SchedulerSpec ==
    /\ SchedulerInit
    /\ [][SchedulerNext]_schedulerVars
    /\ \A s \in Submitters : WF_schedulerVars(Standard(NotifyOne(s)))
    /\ \A w \in Workers : SF_schedulerVars(Standard(WorkerStep(w)) \/ Aging(PopperStep(w)))
    /\ SF_schedulerVars(Standard(DestructorStep))

(* A task given to enqueue_ready() ends, stated for one task: they are all *)
(* alike to the runtime.                                                   *)
ATaskEnds == TaskEnds(CHOOSE t \in Tasks : TRUE)

=============================================================================
