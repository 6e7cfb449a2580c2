---------------------------- MODULE MCStructures -----------------------------
(***************************************************************************)
(* The data structures under the schedulers, for TLC: the work-stealing    *)
(* deque, the task pool and the task bodies.  They share no state, so a    *)
(* behaviour is one of the three, the others staying where they start.     *)
(***************************************************************************)
EXTENDS AbpDeque, TaskPool, TaskBody

VARIABLE structure

(* The pool stops when every thread has ended. *)
PoolOver == (\A t \in Threads : pc[t] = "exited") /\ UNCHANGED allPoolVars

StructureInit ==
    /\ structure \in {"deque", "pool", "bodies"}
    /\ Init /\ PoolInit
    /\ BodyInit /\ (structure # "bodies" => inPlace)

StructureNext ==
    /\ UNCHANGED structure
    /\ \/ structure = "deque" /\ Next /\ UNCHANGED <<allPoolVars, allBodyVars>>
       \/ structure = "pool" /\ (PoolNext \/ PoolOver) /\ UNCHANGED <<vars, allBodyVars>>
       \/ structure = "bodies" /\ BodyNext /\ UNCHANGED <<vars, allPoolVars>>

StructureSpec ==
    StructureInit /\ [][StructureNext]_<<vars, allPoolVars, allBodyVars, structure>>

=============================================================================
