------------------------------ MODULE TaskGraph ------------------------------
(***************************************************************************)
(* core/taskgraph: a graph of tasks is built node by node and edge by      *)
(* edge, ordered by Kahn's algorithm, refused when it has a cycle, and     *)
(* otherwise handed to the runtime with submit_after(), a node at a time,  *)
(* while nodes submitted earlier already run.                              *)
(*                                                                         *)
(* The runtime is TaskRuntimeSpec, which TaskLifecycle implements.  A      *)
(* handle is the node it was returned for; what a std::vector<TaskHandle>  *)
(* holds before it is assigned is NoHandle, which submit_after() takes for *)
(* a task that is complete.  Asserts are off, as in a release build.       *)
(***************************************************************************)
EXTENDS Integers, SequencesExt, FiniteSets

CONSTANTS MaxNodes,    \* bound: nodes of the graph
          MaxEdges,    \* bound: edges of the graph
          NoHandle     \* TaskHandle{}

ASSUME GraphAssumption ==
    /\ MaxNodes \in Nat /\ MaxEdges \in Nat
    /\ NoHandle \notin 0 .. MaxNodes - 1

NodeIds == 0 .. MaxNodes - 1

VARIABLES nodeCount,      \* nodes_.size()
          predecessors,   \* per node, in the order the edges came
          successors,
          edgeCount,      \* edge_count_
          gpc,            \* where the client is
          remaining,      \* remaining_predecessors
          ready, order,   \* Kahn's queue and result
          visiting,       \* successors of the node just ordered, not yet counted down
          handles,        \* per node
          waiting,        \* the handles submit_and_wait() has yet to wait for
          phase, after    \* the runtime's side

buildVars == <<nodeCount, predecessors, successors, edgeCount>>
kahnVars  == <<remaining, ready, order, visiting>>
callVars  == <<handles, waiting>>
vars == <<nodeCount, predecessors, successors, edgeCount, gpc, remaining, ready, order, visiting,
          handles, waiting, phase, after>>

Runtime == INSTANCE TaskRuntimeSpec WITH Tasks <- NodeIds

Nodes == 0 .. nodeCount - 1

Init ==
    /\ nodeCount = 0
    /\ predecessors = [n \in NodeIds |-> << >>]
    /\ successors = [n \in NodeIds |-> << >>]
    /\ edgeCount = 0
    /\ gpc = "build"
    /\ remaining = [n \in NodeIds |-> 0]
    /\ ready = << >>
    /\ order = << >>
    /\ visiting = << >>
    /\ handles = [n \in NodeIds |-> NoHandle]
    /\ waiting = << >>
    /\ Runtime!Init

-----------------------------------------------------------------------------
Add ==
    /\ gpc = "build"
    /\ nodeCount < MaxNodes
    /\ nodeCount' = nodeCount + 1
    /\ UNCHANGED <<predecessors, successors, edgeCount, gpc, kahnVars, callVars, phase, after>>

(* an edge from or to a node that is not there, or to itself, is ignored *)
AddEdge(before, next) ==
    /\ gpc = "build"
    /\ edgeCount < MaxEdges
    /\ IF before < nodeCount /\ next < nodeCount /\ before # next
       THEN /\ predecessors' = [predecessors EXCEPT ![next] = Append(@, before)]
            /\ successors' = [successors EXCEPT ![before] = Append(@, next)]
            /\ edgeCount' = edgeCount + 1
       ELSE UNCHANGED <<predecessors, successors, edgeCount>>
    /\ UNCHANGED <<nodeCount, gpc, kahnVars, callVars, phase, after>>

-----------------------------------------------------------------------------
(* submit_and_wait() calls submit(), which calls topological_order() *)

(* the order in which a loop over the ids pushes those that are in S *)
Ascending(S) ==
    LET D == 1 .. Cardinality(S)
    IN  CHOOSE s \in [D -> S] : \A i, j \in D : i < j => s[i] < s[j]

Submit ==
    /\ gpc = "build"
    /\ nodeCount > 0
    /\ remaining' = [n \in NodeIds |-> Len(predecessors[n])]
    /\ ready' = Ascending({n \in Nodes : predecessors[n] = << >>})
    /\ gpc' = "kahn"
    /\ UNCHANGED <<buildVars, order, visiting, callVars, phase, after>>

(* the next node that is ready joins the order *)
KahnTake ==
    /\ gpc = "kahn"
    /\ visiting = << >>
    /\ ready # << >>
    /\ order' = Append(order, Head(ready))
    /\ visiting' = successors[Head(ready)]
    /\ ready' = Tail(ready)
    /\ UNCHANGED <<buildVars, gpc, remaining, callVars, phase, after>>

(* Faulty variant: of edges drawn twice only one is counted down *)
KahnVisitDistinct ==
    /\ gpc = "kahn"
    /\ visiting # << >>
    /\ LET n == Head(visiting) IN
       /\ remaining' = [remaining EXCEPT ![n] = @ - 1]
       /\ ready' = IF remaining[n] = 1 THEN Append(ready, n) ELSE ready
       /\ visiting' = SelectSeq(visiting, LAMBDA m : m # n)
    /\ UNCHANGED <<buildVars, gpc, order, callVars, phase, after>>

(* and each of its successors, once per edge, is one step nearer *)
KahnVisit ==
    /\ gpc = "kahn"
    /\ visiting # << >>
    /\ LET n == Head(visiting) IN
       /\ remaining' = [remaining EXCEPT ![n] = @ - 1]
       /\ ready' = IF remaining[n] = 1 THEN Append(ready, n) ELSE ready
    /\ visiting' = Tail(visiting)
    /\ UNCHANGED <<buildVars, gpc, order, callVars, phase, after>>

(* fewer nodes out than in: the graph is refused *)
KahnDone ==
    /\ gpc = "kahn"
    /\ visiting = << >>
    /\ ready = << >>
    /\ gpc' = IF Len(order) = nodeCount THEN "submit" ELSE "refused"
    /\ UNCHANGED <<buildVars, kahnVars, callVars, phase, after>>

(* Faulty variant: the nodes are submitted in the order of their ids *)
SubmitNodeById ==
    /\ gpc = "submit"
    /\ order # << >>
    /\ LET id   == CHOOSE n \in ToSet(order) : \A m \in ToSet(order) : n <= m
           deps == [i \in DOMAIN predecessors[id] |-> handles[predecessors[id][i]]]
       IN  /\ Runtime!Submit(id, ToSet(deps) \ {NoHandle})
           /\ handles' = [handles EXCEPT ![id] = id]
           /\ order' = SelectSeq(order, LAMBDA n : n # id)
    /\ UNCHANGED <<buildVars, gpc, remaining, ready, visiting, waiting>>

(* submit_after() for the next node of the order, with the handles its     *)
(* predecessors have by now                                                *)
SubmitNode ==
    /\ gpc = "submit"
    /\ order # << >>
    /\ LET id   == Head(order)
           deps == [i \in DOMAIN predecessors[id] |-> handles[predecessors[id][i]]]
       IN  /\ Runtime!Submit(id, ToSet(deps) \ {NoHandle})
           /\ handles' = [handles EXCEPT ![id] = id]
    /\ order' = Tail(order)
    /\ UNCHANGED <<buildVars, gpc, remaining, ready, visiting, waiting>>

(* Faulty variant: the handles are waited for without the last one *)
SubmittedShort ==
    /\ gpc = "submit"
    /\ order = << >>
    /\ waiting' = [i \in 1 .. nodeCount - 1 |-> handles[i - 1]]
    /\ gpc' = "wait"
    /\ UNCHANGED <<buildVars, kahnVars, handles, phase, after>>

Submitted ==
    /\ gpc = "submit"
    /\ order = << >>
    /\ waiting' = [i \in 1 .. nodeCount |-> handles[i - 1]]
    /\ gpc' = "wait"
    /\ UNCHANGED <<buildVars, kahnVars, handles, phase, after>>

(* wait(handle) returns *)
WaitNode ==
    /\ gpc = "wait"
    /\ waiting # << >>
    /\ Head(waiting) # NoHandle => phase[Head(waiting)] = "finished"
    /\ waiting' = Tail(waiting)
    /\ UNCHANGED <<buildVars, gpc, kahnVars, handles, phase, after>>

Return ==
    /\ gpc = "wait"
    /\ waiting = << >>
    /\ gpc' = "returned"
    /\ UNCHANGED <<buildVars, kahnVars, callVars, phase, after>>

RuntimeStep ==
    /\ \E n \in NodeIds : Runtime!Start(n) \/ Runtime!Finish(n)
    /\ UNCHANGED <<buildVars, gpc, kahnVars, callVars>>

Over == gpc \in {"refused", "returned"} /\ UNCHANGED vars

-----------------------------------------------------------------------------
ClientStep == KahnTake \/ KahnVisit \/ KahnDone \/ SubmitNode \/ Submitted \/ WaitNode \/ Return

Next ==
    \/ Add
    \/ \E b, n \in 0 .. MaxNodes : AddEdge(b, n)
    \/ Submit \/ ClientStep \/ RuntimeStep \/ Over

Spec == Init /\ [][Next]_vars

-----------------------------------------------------------------------------
Before(n) == ToSet(predecessors[n])

(* A cycle, told without an algorithm: some nodes of which each waits for  *)
(* another of them.                                                        *)
HasCycle == \E S \in (SUBSET Nodes) \ {{}} : \A n \in S : Before(n) \cap S # {}

(* submit() refuses the graphs with a cycle and only those, duplicate and  *)
(* ignored edges notwithstanding.                                          *)
CycleVerdict ==
    /\ gpc = "refused" => HasCycle
    /\ gpc \in {"submit", "wait", "returned"} => ~HasCycle

(* From the edges to the execution: a node runs only after all its         *)
(* predecessors have finished, though nodes run while others are still     *)
(* being submitted and a missing handle would count as a finished task.    *)
RunsAfterPredecessors ==
    \A n \in Nodes :
        phase[n] \in {"running", "finished"} => \A p \in Before(n) : phase[p] = "finished"

(* submit_and_wait() returns true only when every node has finished. *)
AllFinishedOnReturn == gpc = "returned" => \A n \in Nodes : phase[n] = "finished"

=============================================================================
