--------------------------- MODULE MCCompletionWait ---------------------------
(* CompletionWait for TLC. *)
EXTENDS CompletionWait, TLC

(* Workers, threads and slots are only ever compared for equality: safety  *)
(* is the same under any renaming.                                         *)
Interchangeable == Permutations(Workers) \cup Permutations(Threads) \cup Permutations(Slots)

(* A thread that stands for all of them: no two differ in what they may do *)
(* or in the fairness they enjoy.                                          *)
AThread == CHOOSE e \in Threads : TRUE

(* WaitReturns for that thread: its wait(handle) returns.                  *)
AWaitReturns == WaitOf(AThread)

(* What holds of wait_all(), for that thread: the call returns, unless it  *)
(* is asleep while outstanding_ is zero by a decrement that tells nobody   *)
(* (run_inline(), the catch blocks of submit_emplace()).                   *)
AWaitAllReturnsIfTold == WaitAllToldOf(AThread)

=============================================================================
