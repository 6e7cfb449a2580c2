----------------------------- MODULE ParallelFor -----------------------------
(***************************************************************************)
(* ITaskRuntime::parallel_for() (api/ITaskRuntime.hpp): a few tasks claim  *)
(* chunks of [begin, end) from one atomic cursor on the caller's stack     *)
(* until it is past the end, and the caller waits for all of them.         *)
(* std::size_t is Width bits wide and its sums wrap.  submit() runs a task *)
(* at some time before wait() on it returns, on whatever thread.           *)
(***************************************************************************)
EXTENDS Integers, FiniteSets

CONSTANTS Width,         \* bits of std::size_t
          WorkerCount    \* worker_count()

ASSUME LoopAssumption == Width \in Nat \ {0} /\ WorkerCount \in Nat \ {0}

Size == 0 .. 2 ^ Width - 1
Wrap(n) == n % 2 ^ Width

VARIABLES begin, end, grain,   \* the arguments
          cursor,              \* the shared cursor
          cpc,                 \* where the caller is
          tasks,               \* task_count
          next,                \* the task the caller submits or waits for next
          tpc,                 \* where each task is
          lo,                  \* the chunk it has claimed
          threw,               \* tasks whose body threw
          calls                \* history: how often the body got each index, 2 for more

args == <<begin, end, grain>>
loopVars == <<begin, end, grain, cursor, cpc, tasks, next, tpc, lo, threw, calls>>

TaskIds == 1 .. WorkerCount

LoopInit ==
    /\ begin \in Size /\ end \in Size /\ grain \in Size
    /\ cursor = 0
    /\ cpc = "called"
    /\ tasks = 0
    /\ next = 1
    /\ tpc = [t \in TaskIds |-> "none"]
    /\ lo = [t \in TaskIds |-> 0]
    /\ threw = {}
    /\ calls = [i \in Size |-> 0]

-----------------------------------------------------------------------------
(* Faulty variant: the last, shorter chunk is not counted *)
BatchCountRoundedDown == (end - begin) \div (IF grain = 0 THEN 1 ELSE grain)

(* (count + grain - 1) / grain, the sum of width Width *)
BatchCount ==
    LET g == IF grain = 0 THEN 1 ELSE grain IN Wrap(end - begin + g - 1) \div g

(* An empty range needs no task. *)
ReturnAtOnce ==
    /\ cpc = "called"
    /\ begin >= end
    /\ cpc' = "returned"
    /\ UNCHANGED <<args, cursor, tasks, next, tpc, lo, threw, calls>>

(* no more tasks than chunks, no more than workers *)
Prepare ==
    /\ cpc = "called"
    /\ begin < end
    /\ grain' = IF grain = 0 THEN 1 ELSE grain
    /\ tasks' = IF BatchCount < WorkerCount THEN BatchCount ELSE WorkerCount
    /\ cursor' = begin
    /\ cpc' = "submit"
    /\ UNCHANGED <<begin, end, next, tpc, lo, threw, calls>>

SubmitTask ==
    /\ cpc = "submit"
    /\ next <= tasks
    /\ tpc' = [tpc EXCEPT ![next] = "claim"]
    /\ next' = next + 1
    /\ UNCHANGED <<args, cursor, cpc, tasks, lo, threw, calls>>

(* Faulty variant: the wait starts with the second task *)
SubmittedSkipsFirst ==
    /\ cpc = "submit"
    /\ next > tasks
    /\ next' = 2
    /\ cpc' = "wait"
    /\ UNCHANGED <<args, cursor, tasks, tpc, lo, threw, calls>>

LoopSubmitted ==
    /\ cpc = "submit"
    /\ next > tasks
    /\ next' = 1
    /\ cpc' = "wait"
    /\ UNCHANGED <<args, cursor, tasks, tpc, lo, threw, calls>>

WaitTask ==
    /\ cpc = "wait"
    /\ next <= tasks
    /\ tpc[next] = "complete"
    /\ next' = next + 1
    /\ UNCHANGED <<args, cursor, cpc, tasks, tpc, lo, threw, calls>>

LoopReturn ==
    /\ cpc = "wait"
    /\ next > tasks
    /\ cpc' = "returned"
    /\ UNCHANGED <<args, cursor, tasks, next, tpc, lo, threw, calls>>

-----------------------------------------------------------------------------
(* The body of a task *)

(* cursor.fetch_add(grain) *)
Claim(t) ==
    /\ tpc[t] = "claim"
    /\ lo' = [lo EXCEPT ![t] = cursor]
    /\ cursor' = Wrap(cursor + grain)
    /\ tpc' = [tpc EXCEPT ![t] = IF cursor >= end THEN "complete" ELSE "run"]
    /\ UNCHANGED <<args, cpc, tasks, next, threw, calls>>

(* one more, saturating *)
Again == [n \in 0 .. 2 |-> IF n = 2 THEN 2 ELSE n + 1]

(* body(lo, hi) is called and returns, or throws, which ends the task *)
RunBody(t) ==
    LET hi == IF Wrap(lo[t] + grain) < end THEN Wrap(lo[t] + grain) ELSE end IN
    /\ tpc[t] = "run"
    /\ calls' = [i \in Size |-> IF lo[t] <= i /\ i < hi THEN Again[calls[i]] ELSE calls[i]]
    /\ \/ tpc' = [tpc EXCEPT ![t] = "claim"] /\ UNCHANGED threw
       \/ tpc' = [tpc EXCEPT ![t] = "complete"] /\ threw' = threw \cup {t}
    /\ UNCHANGED <<args, cursor, cpc, tasks, next, lo>>

LoopOver == cpc = "returned" /\ UNCHANGED loopVars

LoopNext ==
    \/ ReturnAtOnce \/ Prepare \/ SubmitTask \/ LoopSubmitted \/ WaitTask \/ LoopReturn \/ LoopOver
    \/ \E t \in TaskIds : Claim(t) \/ RunBody(t)

LoopSpec == LoopInit /\ [][LoopNext]_loopVars

-----------------------------------------------------------------------------
(* No task is left that could touch the caller's cursor or body once the   *)
(* call has returned.                                                      *)
NoTaskOutlivesCall == cpc = "returned" => \A t \in TaskIds : tpc[t] \in {"none", "complete"}

(* The sums the tasks will make stay below 2^Width: every chunk and one    *)
(* claim past the end for each task.                                       *)
NoOverflow ==
    LET g       == IF grain = 0 THEN 1 ELSE grain
        batches == (end - begin + g - 1) \div g
    IN  begin + (batches + WorkerCount) * g < 2 ^ Width

(* "Executes body(begin_i, end_i) over [begin, end) in chunks of at most   *)
(* `grain` items": the body gets every index of the range, once, and no    *)
(* other index; only when it threw in every task can one be left out.      *)
Covered ==
    /\ \A i \in Size : calls[i] <= 1 /\ (calls[i] = 1 => begin <= i /\ i < end)
    /\ cpc = "returned" /\ begin < end /\ (tasks = 0 \/ Cardinality(threw) < tasks) =>
        \A i \in begin .. end - 1 : calls[i] = 1

(* That holds of every range and grain for which no sum wraps, whichever   *)
(* tasks claim the chunks and whichever of them throw.                     *)
CoveredWithoutOverflow == NoOverflow => Covered

=============================================================================
