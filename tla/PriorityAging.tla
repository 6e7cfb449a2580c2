---------------------------- MODULE PriorityAging ----------------------------
(***************************************************************************)
(* Which task a worker runs next in SchedulerMode::PriorityAging: one pop  *)
(* in AgingInterval takes from the lowest non-empty priority, looking into *)
(* the global queue first (acquire_next() and what it calls, GlobalQueue). *)
(* A step is one critical section or one pass over a worker's deques.      *)
(*                                                                         *)
(* Three of the five priorities.  A task that has run may be submitted     *)
(* again: a steady stream of tasks of one priority is one task coming      *)
(* back.  Sleeping, full deques and stop are in WorkerParking.             *)
(***************************************************************************)
EXTENDS Integers, SequencesExt

CONSTANTS Poppers,                       \* the workers
          Critical, Normal, Background,  \* the tasks, by priority
          AgingInterval,                 \* kAgingInterval
          DrainBatch,                    \* kGlobalDrainBatch
          Streams,                       \* who never stops submitting, as sets of
                                         \* "outside" (threads) and "inside" (bodies)
          EmptyHand

ASSUME AgingAssumption ==
    /\ AgingInterval \in Nat \ {0} /\ DrainBatch \in Nat \ {0}
    /\ Streams \subseteq SUBSET {"outside", "inside"}

PriorityTasks == Critical \cup Normal \cup Background

(* the index of a task's queue: 0 is served first *)
Priority(t) == IF t \in Critical THEN 0 ELSE IF t \in Normal THEN 1 ELSE 2
Priorities == 0 .. 2

VARIABLES streams,       \* which submitters never stop in this behaviour
          global,        \* GlobalQueue: per priority, the oldest first
          local,         \* worker.queues: per worker and priority, the oldest first
          popIndex,      \* worker.pop_index, modulo AgingInterval
          apc, hand,     \* where each worker is in acquire_next(); the task it got
          drained,       \* tasks it has taken in the drain that is going on
          submitted,     \* history: tasks submitted from outside
          passed         \* history: tasks it ran while the same background work stayed in global

queueVars == <<streams, global, local>>
agingVars == <<streams, global, local, popIndex, apc, hand, drained, submitted, passed>>

AgingInit ==
    /\ streams \in Streams
    /\ global = [p \in Priorities |-> << >>]
    /\ local = [w \in Poppers |-> [p \in Priorities |-> << >>]]
    /\ popIndex = [w \in Poppers |-> 0]
    /\ apc = [w \in Poppers |-> "acquire"]
    /\ hand = [w \in Poppers |-> EmptyHand]
    /\ drained = [w \in Poppers |-> 0]
    /\ submitted = {}
    /\ passed = [w \in Poppers |-> 0]

Idle(t) ==
    /\ \A w \in Poppers : hand[w] # t /\ \A p \in Priorities : t \notin ToSet(local[w][p])
    /\ \A p \in Priorities : t \notin ToSet(global[p])

-----------------------------------------------------------------------------
(* enqueue_ready(): from outside the runtime ... *)
Submit(t) ==
    /\ Idle(t)
    /\ "outside" \in streams \/ t \notin submitted
    /\ submitted' = submitted \cup {t}
    /\ global' = [global EXCEPT ![Priority(t)] = Append(@, t)]
    /\ passed' = IF global[2] = << >> THEN [w \in Poppers |-> 0] ELSE passed
    /\ UNCHANGED <<streams, local, popIndex, apc, hand, drained>>

(* ... and from a body, to the worker's own deque *)
SpawnLocal(w, t) ==
    /\ "inside" \in streams
    /\ apc[w] = "body"
    /\ Idle(t)
    /\ local' = [local EXCEPT ![w][Priority(t)] = Append(@, t)]
    /\ UNCHANGED <<streams, global, popIndex, apc, hand, drained, submitted, passed>>

(* The body ends, having submitted another task like itself or not.        *)
AgingBodyReturn(w) ==
    /\ apc[w] = "body"
    /\ \/ UNCHANGED local
       \/ /\ "inside" \in streams
          /\ local' = [local EXCEPT ![w][Priority(hand[w])] = Append(@, hand[w])]
    /\ hand' = [hand EXCEPT ![w] = EmptyHand]
    /\ apc' = [apc EXCEPT ![w] = "acquire"]
    /\ UNCHANGED <<streams, global, popIndex, drained, submitted, passed>>

-----------------------------------------------------------------------------
(* aging_pop_favours_lowest() *)
FavoursLowest(w) == popIndex[w] = AgingInterval - 1

(* The priority a scan stops at: the first non-empty one. *)
Highest(q) == CHOOSE p \in Priorities : q[p] # << >> /\ \A r \in 0 .. p - 1 : q[r] = << >>
Lowest(q)  == CHOOSE p \in Priorities : q[p] # << >> /\ \A r \in p + 1 .. 2 : q[r] = << >>
Scan(w, q) == IF FavoursLowest(w) THEN Lowest(q) ELSE Highest(q)

Empty(q) == \A p \in Priorities : q[p] = << >>

(* Worker w leaves acquire_next() with t, or goes on draining. *)
Got(w, t, next) ==
    /\ hand' = [hand EXCEPT ![w] = t]
    /\ apc' = [apc EXCEPT ![w] = next]
    /\ passed' = [passed EXCEPT ![w] =
                    IF global[2] # << >> /\ Head(global[2]) # t THEN @ + 1 ELSE 0]

CountPop(w) == popIndex' = [popIndex EXCEPT ![w] = (@ + 1) % AgingInterval]

PopGlobal(p) == global' = [global EXCEPT ![p] = Tail(@)]

(* Faulty variant: an aging turn starts with the local deque *)
AgingTurnLocal(w) ==
    /\ apc[w] = "acquire"
    /\ apc' = [apc EXCEPT ![w] = "local"]
    /\ UNCHANGED <<queueVars, popIndex, hand, drained, submitted, passed>>

(* On an aging turn, the lowest priority in the global queue goes first.   *)
AgingTurn(w) ==
    /\ apc[w] = "acquire"
    /\ IF FavoursLowest(w) /\ ~Empty(global)
       THEN LET p == Lowest(global) IN
            PopGlobal(p) /\ CountPop(w) /\ Got(w, Head(global[p]), "body")
       ELSE apc' = [apc EXCEPT ![w] = "local"] /\ UNCHANGED <<global, popIndex, hand, passed>>
    /\ UNCHANGED <<streams, local, drained, submitted>>

(* Faulty variant: the scan of the deques is never inverted *)
PopLocalHighest(w) ==
    /\ apc[w] = "local"
    /\ IF Empty(local[w])
       THEN apc' = [apc EXCEPT ![w] = "global"] /\ UNCHANGED <<local, popIndex, hand, passed>>
       ELSE LET p == Highest(local[w]) IN
            /\ local' = [local EXCEPT ![w][p] = Front(@)]
            /\ CountPop(w) /\ Got(w, Last(local[w][p]), "body")
    /\ UNCHANGED <<streams, global, drained, submitted>>

(* pop_local(): the youngest task of the first non-empty deque *)
PopLocal(w) ==
    /\ apc[w] = "local"
    /\ IF Empty(local[w])
       THEN apc' = [apc EXCEPT ![w] = "global"] /\ UNCHANGED <<local, popIndex, hand, passed>>
       ELSE LET p == Scan(w, local[w]) IN
            /\ local' = [local EXCEPT ![w][p] = Front(@)]
            /\ CountPop(w) /\ Got(w, Last(local[w][p]), "body")
    /\ UNCHANGED <<streams, global, drained, submitted>>

(* drain_global(): one task to run ... *)
DrainFirst(w) ==
    /\ apc[w] = "global"
    /\ IF Empty(global)
       THEN apc' = [apc EXCEPT ![w] = "steal"] /\ UNCHANGED <<global, popIndex, hand, passed>>
       ELSE LET p == Scan(w, global) IN
            PopGlobal(p) /\ CountPop(w) /\ Got(w, Head(global[p]), "drain")
    /\ drained' = [drained EXCEPT ![w] = 1]
    /\ UNCHANGED <<streams, local, submitted>>

(* ... and a batch, the highest priorities first, for the worker's deques  *)
DrainMore(w) ==
    /\ apc[w] = "drain"
    /\ IF drained[w] < DrainBatch /\ ~Empty(global)
       THEN LET p == Highest(global) IN
            /\ PopGlobal(p)
            /\ local' = [local EXCEPT ![w][p] = Append(@, Head(global[p]))]
            /\ drained' = [drained EXCEPT ![w] = @ + 1]
            /\ UNCHANGED apc
       ELSE /\ drained' = [drained EXCEPT ![w] = 0]
            /\ apc' = [apc EXCEPT ![w] = "body"]
            /\ UNCHANGED <<global, local>>
    /\ UNCHANGED <<streams, popIndex, hand, submitted, passed>>

(* steal_from_others(): the oldest task of a victim's first non-empty      *)
(* deque; not counted as a pop.                                            *)
Steal(w) ==
    /\ apc[w] = "steal"
    /\ IF \A v \in Poppers \ {w} : Empty(local[v])
       THEN apc' = [apc EXCEPT ![w] = "acquire"] /\ UNCHANGED <<local, hand, passed>>
       ELSE \E v \in Poppers \ {w} :
            /\ ~Empty(local[v])
            /\ LET p == Highest(local[v]) IN
               /\ local' = [local EXCEPT ![v][p] = Tail(@)]
               /\ Got(w, Head(local[v][p]), "body")
    /\ drained' = [drained EXCEPT ![w] = 0]
    /\ UNCHANGED <<streams, global, popIndex, submitted>>

-----------------------------------------------------------------------------
PopperStep(w) ==
    AgingTurn(w) \/ PopLocal(w) \/ DrainFirst(w) \/ DrainMore(w) \/ Steal(w) \/ AgingBodyReturn(w)

AgingNext ==
    \/ \E t \in PriorityTasks : Submit(t) \/ \E w \in Poppers : SpawnLocal(w, t)
    \/ \E w \in Poppers : PopperStep(w)

(* The workers keep running and bodies return; nobody has to submit.       *)
AgingSpec == AgingInit /\ [][AgingNext]_agingVars /\ \A w \in Poppers : WF_agingVars(PopperStep(w))

-----------------------------------------------------------------------------
(* "Background work receives at least one pop in kAgingInterval": no       *)
(* worker runs more than AgingInterval tasks while the background tasks of *)
(* the global queue stay there, whatever stream feeds it.                  *)
AgingBound == \A w \in Poppers : passed[w] <= AgingInterval

(* "Low-priority work cannot be starved indefinitely by a steady stream of *)
(* higher-priority work": a background task submitted is executed.         *)
BackgroundRuns ==
    \A t \in Background : ~Idle(t) ~> \E w \in Poppers : hand[w] = t

=============================================================================
