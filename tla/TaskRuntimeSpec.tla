--------------------------- MODULE TaskRuntimeSpec ---------------------------
(***************************************************************************)
(* What ITaskRuntime promises about the tasks handed to it: a submitted    *)
(* task starts once, not before every task it was submitted after has      *)
(* finished, and it does finish.  Slots, queues, workers and counters are  *)
(* of no concern here.                                                     *)
(***************************************************************************)
CONSTANT Tasks

VARIABLES phase,    \* where each task is in its life
          after     \* the tasks each task was submitted after

vars == <<phase, after>>

Init ==
    /\ phase = [t \in Tasks |-> "none"]
    /\ after = [t \in Tasks |-> {}]

Submit(t, deps) ==
    /\ phase[t] = "none"
    /\ \A d \in deps : phase[d] # "none"
    /\ phase' = [phase EXCEPT ![t] = "submitted"]
    /\ after' = [after EXCEPT ![t] = deps]

Start(t) ==
    /\ phase[t] = "submitted"
    /\ \A d \in after[t] : phase[d] = "finished"
    /\ phase' = [phase EXCEPT ![t] = "running"]
    /\ UNCHANGED after

Finish(t) ==
    /\ phase[t] = "running"
    /\ phase' = [phase EXCEPT ![t] = "finished"]
    /\ UNCHANGED after

Next ==
    \E t \in Tasks :
        \/ \E deps \in SUBSET (Tasks \ {t}) : Submit(t, deps)
        \/ Start(t)
        \/ Finish(t)

Safety == Init /\ [][Next]_vars

(* Submitting is the caller's choice; running what was submitted is not.   *)
Spec ==
    /\ Safety
    /\ \A t \in Tasks : WF_vars(Start(t)) /\ WF_vars(Finish(t))

=============================================================================
