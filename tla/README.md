# ThunderBolt-HT: a TLA+ development

ThunderBolt-HT is a C++ task runtime (`src/thunderbolt`): a work-stealing
scheduler with a bounded task pool, dependencies, waiting, task graphs and
`parallel_for`, a simpler baseline runtime behind the same interface, and a
small game simulation (`src/engine`, `src/game_benchmarks`) that uses it.
This directory holds TLA+ modules translated from that code, TLC
configurations that check them on small instances, and TLAPS proofs.

`PROJECT.json` has the machine-readable side: which definition stands for which
source lines (`map`), the runs, a plausible bug per property that TLC must
catch (`mutants`), the hazards, the findings and the theorems.

To check a run: `tlc -workers 2 -config X.cfg M`. To check the proofs:
`tlapm AbpDequeProofs.tla`, and so for the other `…Proofs`.

## 1. The system

| Component (source) | State | Operations | Correct when |
|---|---|---|---|
| Work-stealing deque, `core/executor/AbpDeque.hpp` | `top_`, `bottom_`, a ring of 8-byte handles | owner: `push`, `pop`; other workers: `steal` | every pushed handle is returned once, whole; fails as "full" or "empty" only truthfully |
| Task lifecycle, `runtime/RuntimeBase.cpp`, `core/task/Task.hpp` | per slot: generation, state, pending count, successor list; `outstanding_` | `submit`, `submit_emplace`, `submit_after`, `run_inline`, `execute`, `complete` | a task runs once, after its dependencies, and `outstanding_` reaches zero only when all are done |
| Waiting, `runtime/RuntimeBase.cpp` | `handle_waiters_`, `all_waiters_`, the waiter slots and their overflow count, `completion_mutex_`, `completion_cv_` | `wait`, `wait_all`, `is_complete`, the end of `complete` | no lost wakeup, no early return |
| Help-on-wait, `runtime/RuntimeBase.cpp` | the worker's own stack | a worker's `wait` and `wait_all` execute other tasks | a waiting worker makes progress; no ring of waits and stacks |
| Thunderbolt scheduler, `runtime/ThunderboltRuntime.cpp`, `core/executor/GlobalQueue.hpp` | global queue, deque and inbox per worker, `sleeping_`, `sleep_mutex_`, `running_` | `enqueue_ready`, `try_pop_or_steal`, `park`, the worker loop, the destructor | queued work never lies beside sleeping workers only; shutdown joins and drops nothing |
| Priorities and aging, the same files | pop counters | which level a pop prefers | no level starves |
| Task pool, `core/task/TaskPool.cpp` | free lists per shard, a cache per thread, the registry of live pools | `acquire`, `release`, construction, destruction, thread exit | a slot is in one place; a dead pool is never written to |
| Task graph, `core/taskgraph/TaskGraph.cpp` | nodes, adjacency | `add`, `add_edge`, `submit`, `submit_and_wait` | refused exactly when cyclic; predecessors first |
| `parallel_for`, `api/ITaskRuntime.hpp` | a cursor on the caller's stack | the call | each index once; nothing outlives the call |
| Standard runtime, `runtime/StandardRuntime.cpp` | one queue, one mutex, one condition variable | `enqueue_ready`, the worker loop, the destructor | no lost wakeup; shutdown drops nothing |
| Sharded counters, `core/ShardedCounter.*` | relaxed counters, thread slots | `increment`, `thread_slot` | statistics only; the slot chooses a home shard |
| Simulation engine, `src/engine/core` | two world buffers, three cursors per tick | `tick`, `tick_serial` | a parallel frame equals the serial one |
| Task function, `api/TaskFunction.hpp` | 48 bytes in place and two function pointers | construct, `emplace`, move, assign, `reset`, call | a callable is destroyed once, when its task is done, and called once |
| Game benchmarks, `src/game_benchmarks` | — | the same tick on another library | as above |
| Configuration, build information, affinity, topology, benchmark harness | — | — | see section 8 |

**How they interact.** A client's `submit` takes a slot from the pool, counts
the task in `outstanding_` and hands the handle to the scheduler through the
virtual `enqueue_ready`. A worker takes a handle from its deque, the global
queue or another worker's deque and calls `execute`, then `complete`:
successors are taken and the state published, the slot is released (which
bumps its generation, so that older handles read as "complete"), dependents are
released — these come back through `enqueue_ready` on the completing worker's
own deque — and finally `outstanding_` is decremented and waiters are notified
if the completer sees any. The graph, `parallel_for` and the engine are clients
that use only `submit`, `submit_after`, `wait` and `worker_count`.

**What is hard.** The interleavings of the owner and thieves in the deque; the
store-then-read handshakes without a lock on both sleeping paths (a waiter
against a completer, a parking worker against an enqueuer); dependencies that
finish, and whose slots are reused, while they are being registered; a pool
that runs dry in the middle of a submission; thread caches that outlive pools;
destructors running beside workers on their way to sleep; and tasks that refer
to their caller's stack. Nothing is persisted and nothing is sent over a
network, so there are no crash or message-loss behaviours. `hazards` in
`PROJECT.json` names each at its line.

## 2. The modules

One step of a model is one access to shared memory, or one critical section
where the code holds a mutex throughout. A thread's position and locals are
variables (`…pc` and the names of the locals).

| Module | Models | How it corresponds to the code |
|---|---|---|
| `WorkDeque` | what a deque promises | abstract: a bounded sequence, one step per operation. "Empty" from `steal` is allowed with at most one element left |
| `AbpDeque` | `AbpDeque.hpp` | `PushCheck … PushPublish`, `PopClaim … PopRestore`, `StealTop … StealCasWon/Lost` follow the three functions access by access. The unsynchronised 8-byte element is two halves (`bufLo`, `bufHi`) read and written separately |
| `AbpDequeProofs`, `TaskLifecycleProofs`, `CompletionWaitProofs`, `WorkerParkingProofs`, `TaskPoolProofs`, `TaskBodyProofs` | theorems about the module each is named after | section 6 |
| `SchedulerProofs` | theorems about `StandardRuntime` and `PriorityAging` | section 6 |
| `ClientProofs` | theorems about `TaskGraph`, `ParallelFor` and `FrameSim` | section 6 |
| `TaskRuntimeSpec` | what `ITaskRuntime` promises about tasks | abstract: submit with dependencies, start after they finished, finish |
| `TaskLifecycle` | `RuntimeBase`: submission, registration of dependencies, execution, completion | client side `SubmitCount … Enqueue` with the `Exhausted`/`Inline…` and `ConstructThrows…` branches; worker side `Execute … CompleteCount` |
| `CompletionWait` | `RuntimeBase`: `wait`, `wait_all`, `is_complete_internal`, waiter registration and the notifying end of `complete`; submission as far as it touches slots and `outstanding_` | caller side `SubmitCount … Rethrow` (queued, run inline, or undone by an exception with a slot or without), `WaitHandle … Unregister`, `WaitAll … UncountAllWaiter`; worker side `Decrement … NotifyAll` |
| `MCCompletionWait` | — | symmetry and the representative thread for TLC |
| `MCStructures` | — | `AbpDeque`, `TaskPool` and `TaskBody` in one instance for TLC |
| `MCSchedulers` | — | `StandardRuntime` and `PriorityAging` in one instance for TLC |
| `MCClients` | — | `TaskGraph`, `ParallelFor` and `FrameSim` in one instance for TLC, with the scenes and the pairs of legs |
| `WorkerParking` | `ThunderboltRuntime.cpp` | `enqueue_ready` (submitter and worker side), own deque / drain of the global queue / steal / inbox, `park`, the worker loop, the destructor |
| `TaskPool` | `TaskPool.cpp` | `Acquire`/`Release` through the cache (`CacheLookup`, `PopCache`, `Refill`, `PutCache`, `Spill`) or the shards; `Rebound`/`Flush…` when a cache changes pool or its thread exits; `Construct`, `Unregister`, `Free` |
| `TaskBody` | `TaskFunction.hpp`, `TaskDesc.hpp`, and what moves a body: `submit`, `submit_emplace`, `acquire`, `run_inline`, `TaskGraph::add`/`submit`, `execute`, `release` | `ResetFn`, `InitFn`, `MoveFrom`, `MoveAssign` are the member functions, on a memory of objects (parameters, locals, slots, nodes); `BuildDesc … SubmitReturn`, `Inline…`, `CountEmplace … DescThrows` a caller, `TakeReady … UncountBody` a worker |
| `TaskGraph` | `core/taskgraph` | `Add`, `AddEdge`, Kahn's sort, `SubmitNode`, `Submitted`, `WaitNode`; the runtime it calls is `INSTANCE TaskRuntimeSpec` |
| `ParallelFor` | `ITaskRuntime::parallel_for` | batch arithmetic modulo `2^Width`, task loop, waits |
| `PriorityAging` | `SchedulerMode.hpp`, `GlobalQueue.hpp`, `acquire_next` and what it calls | `AgingTurn`, `PopLocal`, `DrainFirst`/`DrainMore`, `Steal` in the order `acquire_next` tries them; `popIndex` is counted exactly where `pop_index` is |
| `StandardRuntime` | `StandardRuntime.cpp`, help-on-wait of `RuntimeBase.cpp` | `enqueue_ready`, worker loop with the predicate and the falling asleep as two steps, destructor; in a body `Spawn`, `WaitCall`, `DependencyWait`, then `WaitCheck` and `Help` in turn, the tasks a worker executes being the stack `frames` |
| `FrameSim` | `src/engine/core`, `TaskflowSim.cpp`, the verification in `SimBenchmark.cpp` | `Seeded` worlds; `submit_stage`, claiming tasks, barriers, waits, swap; `tick_serial`; the same frame on the other library; `StateHash` and `CompareLeg` |

**How they fit together.** The components are large, so each is modelled
against what the next one *promises*. `AbpDeque` implements `WorkDeque`
(checked and proved, `ImplementsWorkDeque`); `WorkerParking` uses deques whose operations
are single steps, `WorkDeque`'s. `TaskLifecycle` implements the safety part of
`TaskRuntimeSpec` (checked and proved, `ImplementsTaskRuntime`); `TaskGraph` is composed
with `TaskRuntimeSpec`. `TaskLifecycle` and `CompletionWait` are two views of
`RuntimeBase` that share the slots, the generations and `outstanding_`:
splitting it keeps both within TLC's reach, at the price that a dependency and
a blocking waiter never occur in one behaviour. `ParallelFor` and `FrameSim`
take from the runtime that a task runs once, at some time between its
submission and the return of a wait for it, and that a barrier submitted after
some tasks runs after them. `WorkerParking` and `PriorityAging` are two views
of `ThunderboltRuntime`: the first has sleeping, bounded deques and stop and
one priority, the second has the priorities and pop counters and none of those.

`TaskBody` looks at `RuntimeBase` a third time, from the side of the callable:
who owns it, rather than what state its task is in.

`MCStructures`, `MCSchedulers` and `MCClients` put unrelated modules into one instance: a
behaviour picks one of them and leaves the others where they start. Nothing is
said about an interaction, because the code has none; the invariants of all of
them are checked in one exploration.

**Memory model.** Every model interleaves sequentially consistently. In the
deque and in the two sleep handshakes that is what the code's `seq_cst` fences
and operations are there to give; that each of them is *needed* is not shown.
In `AbpDeque` the one access without any ordering, the element copy, is
modelled as torn.

**The external parts.** `std::condition_variable` is a set of sleepers:
`wait` unlocks and joins it in one step, `notify` removes one or all and is not
remembered, and a sleeper may leave without a reason. `std::thread::join`,
`std::mutex` and the third-party library of `TaskflowSim` are modelled from
their use.

## 3. The runs

| Run | Instance | What it shows |
|---|---|---|
| `structures` | deque: 2 thieves, 3 items, capacity 2; pool: 2 threads, 2 shards, capacities 1 and 3, 2 pools, 2 addresses; bodies: 2 callers, 2 workers, 3 bodies, 2 slots, a graph of up to 2 nodes (3.3 M states) | `ExactlyOnce`: no handle lost, duplicated or both in the deque and delivered. `NoTornDelivery`: the speculative copy never gets past the CAS. `ImplementsWorkDeque`: refinement, which also covers when "full" and "empty" may be said. `SlotConservation`: every slot of a usable pool is on a free list, in a cache, held by a client or in one thread's hands: exactly one of them. `NoFlushIntoDeadPool`. `QuietExhaustion`: an `acquire` during which nobody else touches the pool fails only when all its shards are empty. `BodyLedger`: as many callables are alive as `TaskFunction`s own one; a free slot owns none, a finished task's body is gone. `BodyRunsOnce`: each body is called once, whichever of the ways it took. |
| `lifecycle` | 2 workers, 2 clients, 3 tasks, 2 slots, up to 2 handles per `submit_after`, caches on (2.8 M) | `PendingAccount`: a pending count is the guard plus the registered dependencies not yet released. `HandleNamesTask`: while a handle resolves, its slot holds the task it was returned for, and it reads as complete only when that task has finished. `WaitAllSound`: when `outstanding_` is zero every submitted task has finished and every slot is free again. `ImplementsTaskRuntime`. No deadlock: nothing is left unfinished |
| `waiting` | 2 workers, 2 callers, 2 slots, 2 submissions, 1 waiter slot; submissions may run inline or throw (1.1 M) | `NoLostHandleWakeup`, `NoLostIdleWakeup`: a sleeper whose condition holds has a notification on its way; the second excepts an `outstanding_` brought to zero by a decrement that tells nobody (section 5, A). `WaiterBookkeeping`: the counters and the slots describe the callers that are registered. `WaitSound`: `wait` returns only after the task finished |
| `waiting_progress` | 1 worker, 2 callers, 2 slots, 2 submissions, which may run inline or throw (501 k) | `AWaitReturns`: `wait` returns. `AWaitAllReturnsIfTold`: so does `wait_all`, unless its caller is asleep while `outstanding_` is zero by a decrement that tells nobody |
| `waiting_untold` | 1 worker, 2 callers, 1 slot, 2 submissions, which may run inline or throw | **violated**: `WaitAllReturns`; section 5, A |
| `parking` | 2 workers, 1 submitter, 3 tasks, deque capacity 1, both modes (70 k) | `TaskConservation`: a task is queued, in hand or executed, in one place. `NotAllAsleep`: queued work and all workers asleep only with a wakeup on its way. `NothingDiscarded`, `ShutdownReturns`: the destructor. `StealingRunsEveryTask`: in stealing mode each task is executed |
| `parking_static_wakeup` | static mode, 2 workers, 1 task | **violated**: `EveryTaskRuns`; section 5, B |
| `clients` | graph: every graph of up to 4 nodes and 4 edges, parallel edges included (self-loops are ignored by `add_edge`); `parallel_for`: every begin, end and grain of a 4-bit `size_t`, 2 workers; benchmark: 6 small scenes, 0 to 3 workers, 3 ticks per leg, the legs serial then parallel, or parallel then the other library (1.1 M) | `CycleVerdict`, `RunsAfterPredecessors`, `AllFinishedOnReturn` of a graph. `NoTaskOutlivesCall` always; `CoveredWithoutOverflow`: each index exactly once unless the sums wrap. `SameAsSerial`: every field holds what serial ticks leave and the benchmark's legs agree. `NoTaskOutlivesTick`: no task touches a buffer that has been swapped |
| `schedulers` | baseline: 2 workers, 2 submitters, 3 tasks, each of which may submit and wait; aging: 2 workers, one task of each of 3 priorities, interval 3, drain of 3, a stream from outside or from bodies (302 k) | `ATaskEnds` and `NoRingOfWaits`, as long as the pool has room: helping never closes a ring of waits and stacks, and no notification is lost. `ShutdownReturns`, `NothingDiscarded`. `AgingBound`: no worker runs more than `AgingInterval` tasks while the same background work stays in the global queue. `BackgroundRuns`: every background task is executed |
| `standard_exhausted` | the baseline of `schedulers` | **violated**: `WaitsReturn`; section 5, D |
| `aging_starved` | the aging of `schedulers`, with both streams at once | **violated**: `BackgroundRuns`; section 5, C |
| `graph_resubmitted` | the bodies of `structures`, with a graph that may be submitted twice | **violated**: `ExecutedHoldsBody`; section 5, E |

`TypeOK` and `PoolTypeOK` say beside these that the variables keep their ranges
and, where a module has several program counters, that they agree.

**Why these bounds.**
- `structures`, the deque: with capacity 2 and three items the ring wraps, so a thief that read
  `top_` before a lap meets an overwritten cell, and two thieves race each
  other as well as the owner for a last element. The proofs lift the bounds.
- `lifecycle`: two slots for three tasks force reuse of a slot while its former
  handle is still named as a dependency; the cache option makes a submission
  fail although a slot is free, which leads to the inline path.
- `waiting`: one waiter slot and two callers make the registration overflow.
  The second submission may reuse a slot or, when the pool is dry, run inline, and
  either may be undone by an exception while the other is executed: the three
  decrements that notify nobody occur beside the one of `complete`.
- `parking`: capacity 1 makes a drained batch overflow back to the global
  queue; with two workers both roles of a steal and of a wakeup occur. The
  spin count is 1, since a higher one only repeats the search. `NotAllAsleep` for
  any number of workers is proved (section 6).
- `structures`, the pool: in the code a batch is `min(64, capacity / (16 * 4))` and only pools
  of at least 1024 slots have caches. With the divisor and the threshold as
  constants (both 2 here), capacities 1 and 3
  give pools without a cache and with a batch of one. Two pools and two
  addresses allow a new pool at the place of a dead one and beside a live one.
- `clients`, graphs: four nodes are the fewest with a diamond; four edges allow it, a
  cycle through all nodes and doubled edges.
- `clients`, `parallel_for`: four bits cover the arithmetic exhaustively, wrap-around
  included.
- `clients`, the benchmark: the scenes have a chain shorter than a batch, one with a shorter
  last batch, one with none and one larger than the perception window; three
  ticks use each buffer as source and as target, and two legs one after the other
  are what it takes for a leg to inherit something.
- `structures`, the bodies: two slots and three bodies leave one for the inline
  path while a worker is between the call and the release of another; two
  graph nodes let one be submitted while the other waits for its turn.
- `schedulers`, the baseline: two workers and three tasks give a stack of two frames on one
  worker beside a task on another, and a frame with two tasks on top of it; a
  shorter chain cannot bury anything. Three tasks are enough for a ring through
  a wait and a stack.
- `schedulers`, the aging: an interval of 3 instead of 8 and a drain of 3 instead of 32 keep the
  order of the two that matters (a drain can outlast an aging interval). One
  task per priority is enough because a task that has run comes back.

**Deadlock checking.** It is on except in `CompletionWait.cfg`,
`CompletionWaitProgress.cfg` and `CompletionWaitUntold.cfg`. There a behaviour may really stop: callers may
make no further call, both submissions may have thrown so that there is no handle to
wait for, and finding A leaves a caller asleep. Elsewhere the intended ends are
actions of their own (`AtRest`, `Over`, `Gone`, `PoolOver`), so that any other stop is an
error. In `lifecycle` this is the liveness check: a state in which a task is
unfinished and no step can be taken would be reported.

**Symmetry.** `waiting` checks safety only, under permutations of workers,
callers and slots, which the module compares for equality only.
`waiting_progress` uses no symmetry; it states the two liveness properties for
one caller, chosen by `CHOOSE`; `ATaskEnds` of `schedulers` does the same for a
task. `Init`, `Next` and the fairness are invariant
under such renamings, so that what holds for one holds for all.

## 4. Fairness

- `TaskLifecycle`: weak fairness of each client's and each worker's next step;
  the program's choice to submit is not fair. No property of its run uses it.
- `CompletionWait`, `WorkerParking`, `StandardRuntime`: each thread that is
  inside an operation takes its next step (the operating system schedules every
  thread), and a thread that keeps asking for a mutex that keeps becoming free
  obtains it. A thread is at one place at a time, so both are one formula,
  strong fairness of the thread's whole step: where the step needs no mutex it
  stays enabled once enabled, and strong and weak fairness agree. For idle
  workers, which look for work again and again, it is likewise no more than
  weak fairness, because only finitely many tasks make any step of the search
  succeed.
- `PriorityAging`: weak fairness of each worker's step. Bodies return and workers
  search without sleeping; nobody is obliged to submit.
  `MCSchedulers` gives each worker one strong fairness for both models; an aging
  worker's step is never disabled, so there it is no more than the weak one.
- A worker of `StandardRuntime` that waits alternates between looking at its
  handle and helping, as the code's loop does; that it never sleeps there is why
  it needs no wakeup.
- Nothing is assumed of callers (they need not submit, wait or destroy), and
  nothing of spurious wakeups: they may happen and no property relies on one.
- A body returns. A body that never does keeps its waiters for ever, as in the
  code.
- The mutex assumption is the one about `std::mutex` that its users make; the
  standard does not promise it.
- `notify_one` wakes some sleeper, not a particular one, and not in order of
  arrival.

`AWaitAllReturnsIfTold` takes it that submissions cease: `wait_all` waits for
`outstanding_` to be zero at a moment it looks, and a client that submits for
ever can keep it from that. The bound on submissions makes them cease. Its
exception is as narrow as the finding: a caller that is asleep while such a
decrement has left the count at zero. One that looks after the decrement leaves,
and so does one that a worker notifies.

## 5. Disagreements with the code's own words

**A. Three decrements do not wake `wait_all`** (`RuntimeBase.cpp:119`, `:105` and
`:226`; run `waiting_untold`). When the pool is
exhausted, `run_inline` executes the body in the caller and ends with
`outstanding_.fetch_sub(1)`. When copying the callable throws in
`submit_emplace`, the catch block does the same before it rethrows, after giving
back the slot (`:119`) or with none to give back (`:105`). Unlike `complete()` none of the
three looks at `all_waiters_` or notifies. If theirs is the last task outstanding,
a thread asleep in `wait_all()` stays asleep with nothing outstanding;
`ITaskRuntime.hpp:91` says it "Blocks until no submitted task remains
outstanding". The inline case needs an exhausted pool and a worker that finishes
the other tasks meanwhile. The exception needs neither: one submission suffices, if
another thread enters `wait_all()` after the increment (`:95`) and takes its last look at
`outstanding_` before the decrement. TLC's counterexample is this one; with `ConstructorsThrow = FALSE` in
`CompletionWaitUntold.cfg` it is the inline one. A later completion that leaves nothing outstanding wakes the
sleeper. `untoldZero` remembers that such a decrement
made the count zero; it is the exception in `NoLostIdleWakeup` and in
`AWaitAllReturnsIfTold`, which say that this is the only way for a `wait_all`
to be forgotten.

**B. Static mode may wake the wrong worker** (`ThunderboltRuntime.cpp:151`; run
`parking_static_wakeup`). `enqueue_ready` puts the task in one worker's inbox
and calls `notify_one` on the condition variable all workers share. The worker
woken may be another: its inbox is empty, but `any_work_available()` sees the
other inbox, so it never parks again and spins, while the owner sleeps on.
`test_scheduler_modes.cpp:145` says "static mode runs every task without
stealing". `NotAllAsleep` holds (somebody is awake); `EveryTaskRuns` does not.

**C. Aging does not reach a worker's own deque while the global queue is fed**
(`ThunderboltRuntime.cpp:308`; run `aging_starved`). On an aging turn
`acquire_next` takes the lowest-priority task of the *global* queue, counts the
pop and returns; the next turn is an ordinary one again. As long as the global
queue has anything in it at each aging turn, `pop_local` is called on ordinary
turns only, and takes the highest priority. A background task in the worker's
own deque (a body submitted it, or `drain_global` moved it there) is then
executed by nobody as long as critical work keeps arriving from both sides: one
stream from outside that keeps the global queue non-empty and one from bodies
that keeps the deques so. `SchedulerMode.hpp:28` says "aging so that
low-priority work cannot be starved indefinitely by a steady stream of
higher-priority work", and the comment at `ThunderboltRuntime.cpp:299` "look for
the LOWEST-priority work available anywhere". With either stream alone
`BackgroundRuns` holds (run `schedulers`), and for tasks in the global queue so does
the bound by a task count, `AgingBound`.

**D. An exhausted `submit_after` can wait for a frame below it**
(`RuntimeBase.cpp:147`; run `standard_exhausted`). With a slot, `submit_after`
registers its dependencies and returns. Without one it calls `wait` for each.
In a body this runs on top of the worker's stack: if a dependency is a task
further down that stack, or a task that waits for this body, neither goes on.
No such program waits for anything in a ring by itself; the same bodies finish
when the pool has room. The comment at line 144 says "Wait for the predecessors
first, then run inline. Safe from a worker because wait() helps rather than
parking", and the one at line 494 "Nothing runnable, but our task is still
outstanding, so another worker holds it": here the worker that holds it is the
one that waits. `NoRingOfWaits` shows that waits for a body's own children
never come to this, whatever the helpers pick up.

**E. A graph can be submitted once, and nothing says so**
(`TaskGraph.cpp:111`; run `graph_resubmitted`). `TaskGraph::submit` moves each
node's description into the runtime and keeps the node. A second `submit`, as a
program with one graph per frame might make, hands over empty `TaskFunction`s.
They get slots and are executed: `execute` calls `task->function` without a
look, through a null `invoke_`. The comment at `TaskFunction.hpp:70` says
"Callers on the execution path already know the task holds a body; checking
again on every dispatch would cost a branch per task to guard against a bug the
pool cannot produce". `run_inline` does check, so that with an exhausted pool
the same program runs nothing and does not fail. An empty `TaskDesc` given to
`submit` comes to the same.

Behaviours worth knowing, none of them contradicted by a document:
- *Drain window* (`ThunderboltRuntime.cpp:230`): a batch taken from the global
  queue is in no queue until it is pushed to the drainer's deque. Another
  worker that looks meanwhile may park although work exists; the drainer runs
  the work itself, so nothing is lost, only parallelism.
- *Exhaustion need not be genuine* (`TaskPool.cpp:219`): `acquire` may fail
  although slots are free, in other threads' caches or moved behind the search.
  The caller then runs the task inline.
- *Captures of an inline task* (`RuntimeBase.cpp:226`): `run_inline` decrements
  `outstanding_` before its local is destroyed, so a `wait_all` elsewhere may
  return while what the body captured is still alive. A pooled body is
  destroyed before its decrement. `BodyLedger` has this as its one exception.
- *Aging in the baseline*: `StandardRuntime::pop_locked` always scans from the
  highest priority and never asks `aging_pop_favours_lowest`, so the mode has no
  effect there.
- *Aging of drained tasks*: `AgingBound` counts from the global queue. A
  background task that a drain has moved to a deque waits for an aging turn that
  finds the global queue empty, or for a thief.
- *`pop_inbox`* (`ThunderboltRuntime.cpp:187`) asks for the aging turn too, but is
  only called in static mode, where the answer is always no.
- *Duplicate edges* (`TaskGraph.hpp:42`) are kept and counted, consistently on
  both sides; the sort is right with them.
- *`parallel_for` near `SIZE_MAX`* (`ITaskRuntime.hpp:178`):
  `count + grain - 1` can wrap, giving too few batches or none, and the cursor
  can wrap past `end`; hence the precondition of `CoveredWithoutOverflow`.

## 6. What is proved

Eight modules hold proofs. Each theorem holds for every set of threads, tasks and
slots and every value of the limits; the runs of section 3 show the same
property on one instance.

| Module | Theorem | Statement |
|---|---|---|
| `AbpDequeProofs` | `TypeCorrect`, `ExactlyOnceHolds`, `NoTornDeliveryHolds` | `[]TypeOK`, `[]ExactlyOnce`, `[]NoTornDelivery` |
| | `DequeRefinement` | `Spec => ImplementsWorkDeque` |
| `TaskLifecycleProofs` | `TypeCorrect`, `PendingAccountHolds`, `HandleNamesTaskHolds`, `WaitAllSoundHolds` | `[]TypeOK`, `[]PendingAccount`, `[]HandleNamesTask`, `[]WaitAllSound` |
| | `TaskRuntimeRefinement` | `Spec => ImplementsTaskRuntime` |
| `CompletionWaitProofs` | `WaiterBookkeepingHolds`, `NoLostHandleWakeupHolds`, `NoLostIdleWakeupHolds` | `[]WaiterBookkeeping`, `[]NoLostHandleWakeup`, `[]NoLostIdleWakeup` |
| | `WaitSoundHolds` | `Spec => WaitSound`, an action property |
| `WorkerParkingProofs` | `TypeCorrect`, `TaskConservationHolds`, `NotAllAsleepHolds`, `NothingDiscardedHolds` | `[]TypeOK`, `[]TaskConservation`, `[]NotAllAsleep`, `[]NothingDiscarded` |
| `SchedulerProofs` | `NothingDiscardedHolds`, `NoRingOfWaitsHolds` | `[]NothingDiscarded`, `[]NoRingOfWaits` |
| | `BackgroundIsNotPassed` | `[]AgingBound` |
| `TaskPoolProofs` | `TypeCorrect`, `SlotsConserved`, `FlushesReachLivePools`, `ExhaustionIsReal` | `[]PoolTypeOK`, `[]SlotConservation`, `[]NoFlushIntoDeadPool`, `[]QuietExhaustion` |
| `TaskBodyProofs` | `BodyTypeCorrect`, `CallablesAccounted`, `BodiesAreCalledOnce` | `[]BodyTypeInv`, `[]BodyLedger`, `[]BodyRunsOnce` |
| | `ExecutedTasksHaveBodies` | `[]ExecutedHoldsBody`, if a graph is submitted once at most |
| `ClientProofs` | `CyclesAreRefused`, `PredecessorsComeFirst`, `ReturnsWhenFinished` | `[]CycleVerdict`, `[]RunsAfterPredecessors`, `[]AllFinishedOnReturn` |
| | `CallWaitsForTasks`, `EachIndexOnce` | `[]NoTaskOutlivesCall`, `[]CoveredWithoutOverflow` |
| | `FrameTypeCorrect`, `TicksWaitForTasks`, `ParallelIsSerial` | `[]FrameTypeInv`, `[]NoTaskOutlivesTick`, `[]SameAsSerial` |

Every invariant of the passing runs is a theorem here, as are their one action
property, `WaitSound`, and the two refinements.

**How the proofs are built.** None of these properties is inductive. Each module
has an `IInv` (`AgingIInv`, `LoopIInv`, `GraphIInv`, `BodyIInv` where it shares a file or a name), a conjunction of named layers, with `InitIInv`, one step lemma
per layer (or per action, in `AbpDequeProofs`) that goes through the disjuncts of
`Next`, and `Invariance`, which combines them to `Spec => []IInv`
by `PTL`. The properties are then consequences of `IInv` in one state, except
the action properties and refinements, which look at one step from a state in
`IInv`. The layers were checked by TLC on small instances before they were proved,
but for `RankInv`, which quantifies over all numberings.

**Assumptions.** The constants' only: at least one slot in a deque; sets of
threads that are finite where the code counts them (`FinitelyManyThreads` of
`CompletionWait`, `NumWorkers` of `WorkerParking`, `BodyAssumption` of `TaskBody`);
limits that are naturals, and intervals, widths, batches and worker counts that are
positive (`AgingAssumption`, `LoopAssumption`, `FrameAssumption`); and
markers (`NoTask`, `Nobody`, `Invalid`, `NoHandle`, …) that are not members of the sets they
stand beside (`ValuesAssumption`, `NoneAssumption`, `PoolAssumption`,
`GraphAssumption`, `BodyAssumption`). `ExecutedTasksHaveBodies` alone assumes more,
`GraphSubmissions \in 0 .. 1`, in its statement; finding E is what happens without. They are named in the
modules that declare the constants, and TLC evaluates them on every run. There
is no bound on the number of operations: indices and generations are naturals
(their width: section 8). Sequential consistency is assumed as everywhere.

### The deque

- `IndexInv`: the window from `top` to `Limit` never exceeds the capacity.
  `Limit` is `bottom`, or one more while `pop` has lowered it and not yet
  decided. Without it a push could overwrite a cell still in the window.
- `OwnerInv`: what the owner has written half of, and what it has read before
  its CAS, are what its locals say.
- `WindowInv`: the cells in the window are whole, hold distinct pushed items,
  and nobody has been given them. Distinctness is what makes one removal
  remove one item.
- `AccountInv`: each pushed item is in the window or taken once; nothing else
  has been taken.
- `ThiefInv`: a thief whose saved `t` still equals `top` has read exactly the
  top element. This is the heart of it: `top` only grows, so a successful CAS
  proves the copy was not overwritten, although other laps may have torn copies
  of thieves whose CAS will fail.

`SlotInRange`, `SlotDivision`, `MultiplesApart` and `SlotDistinct` say that two
indices less than a lap apart have different cells, which is the arithmetic
behind every write that must not hit the window (`PushMissesWindow`).
That the capacity is a power of two is not needed, since the model's cell is
`i % Capacity`. Each item is pushed at most once, because handles are unique.

`DequeRefinement` maps the abstract sequence to the window. A push takes effect
when it publishes `bottom`, a pop when it lowers `bottom` or wins its CAS, a
steal when it wins its CAS; every other step leaves the window as it is and is a
stutter.

### The life of a task

`IInv` says of each slot who has it and what follows from that:

- `SlotInv`: a slot is on the free list, or a client is building a callable in
  it, or it has a task (`FreeInv`, `ConstructInv`); a task is in one slot
  (`OwnInv`); a task whose handle was not returned yet has a client that holds
  its slot (`HolderInv`).
- `ClientInv`, `WorkerInv`: what a thread inside `submit` or `complete` may
  conclude from its locals. A worker inside `complete` is alone on its slot, and
  only it bumps the generation.
- `ReadyInv`: a queued handle is current and its task waits for nothing. This
  needs the counts: the thread that brings `pending` to zero is the only one.
- `PhaseInv`, `HandleInv`: a task is finished whenever its slot is closed, reads
  `Completed` or has moved on to another generation. It is what makes "the lookup failed, so
  the predecessor is done" right in `submit_after` and in `wait`.
- `EdgeInv`, `DepInv`: an edge in a successor list leads to a task that is still
  `Waiting`, so it cannot outlive the dependent's slot; and for each unfinished
  dependency of a waiting task there is an edge, or a registration under way.
- `CountInv`: `pending` is the number of notifications owed, as a cardinality of
  the set `Owed(s)` of edges, edges taken by a completer, and calls not made
  yet. `CountLoses`, `CountStays`, `CallTaken` say how a step changes the set.
- `UnitInv`: `outstanding_` is the cardinality of the set `Units` of the tasks on
  their way, wherever they are: with a client, in a slot, or with a worker that has
  given the slot back and not yet decremented.

`HolderInv`, `ReadyInv` and `EdgeInv` depend on `CountInv` in the state before the
step and `CountInv` on them, so they are proved as one invariant. `Forever` is an
action property used on the way: no step takes back that a task has finished,
or a handle it has issued.

`TaskRuntimeRefinement`: accepting a task (`Acquire`, `Publish` or `Exhausted`) is
`Submit`; `Execute` and `InlineStart` are `Start`, whose guard is `DepInv` (through
`ReadyInv` for a worker); `BodyReturn` and `InlineFinish` are `Finish`; every
other step is a stutter.

### Waiting

`PlaceInv` (types and places), `BookInv` (`WaiterBookkeeping`: who is registered
where), `SlotInv` and `IssueInv` (a slot has one holder, and a handle's generation is the
slot's until its body is over), `WaiterCounts` and `OutstandingCount` (the three
counters are exact cardinalities), `AnswerInv` (`is_complete_internal` concludes
only what is true between its reads), and `HandleInv` and `IdleInv`. The last
two are the wake-up properties extended backwards: they also speak of a caller
that has registered and not yet slept, because what makes the handshake right is
that registration precedes the caller's last look, and completion the
completer's look for waiters. `WaitSound` follows from `AnswerInv` in each
step that returns.

`ReservedInv` is about submission: the slot a caller fills is off the free list and in
no other caller's, queue's or worker's hands, and its handle has the slot's generation. With
`IssueInv` this says that nobody was given the handle (`ReservedUnissued`), which is why undoing
a submission (`ConstructThrows`), which bumps the slot's generation and frees it, cannot
make a handle somebody waits for read as complete.

`NoLostIdleWakeup` has its exception for `untoldZero` (finding A).

### Parking and shutdown

`WorkerParkingProofs`: `CountInv` (`sleeping_` is the number of workers between
counting themselves and waking), `ModeInv` (each scheduler leaves the queues of
the other empty), `TaskInv` (every task has one holder), `ScanInv` (while all others
sleep and no submitter is before its lock, the queues a worker on its way to sleep
has already scanned are empty), `SleepInv` and `EndInv`. `ScanInv` is the argument of the handshake: an
enqueuer that reads `sleeping_ = 0` did so before the worker counted itself, and
so had published its task before the worker's last scan.

`SchedulerProofs`, on the baseline: `AccountInv` (an enqueued task is queued, on a stack or
finished), `FamilyInv` (only started tasks have children or wait), and
`RankInv`: the tasks can be numbered in the order in which they were started so that
each stack grows upwards and each child ranks above its parent. In any set of
tasks the one started last (`LastOfMany`, from the library's facts about
well-founded relations) is stuck behind none of the others, so there is no ring,
as long as bodies wait for their own children.

### Aging

`passed[w]`, which `AgingBound` bounds, is how many tasks worker `w` has popped while
the same background work lay in the global queue. `PassedInv` ties it to the pop
counter: `passed[w] <= popIndex[w] + 1`, and `popIndex` is kept modulo the interval. The bound
follows if `passed` is back at zero whenever the counter wraps, so the rest of
the invariant says where on an aging turn the background queue has just been
served or found empty: on the way from the failed look at it to the local deque and
to stealing (`NothingPassed`). `LowestFirst` is the fact about `acquire_next`'s
scan that this needs: a scan from below finds the background queue whenever it is not
empty.

### Graphs

- `KahnInv`: during the sort, `remaining[n]` is the number of edges into `n` from nodes not
  in the order yet, plus those of the node being visited that are still to be
  counted down; a node is ready or in the order exactly when that is zero, and in
  neither twice; and every node in the order comes after its predecessors. Edges are
  places in the sequences of `add_edge`, so that a doubled edge counts twice on both sides
  (`Occurs`).
- The verdict (`KahnDoneStep`): the order is as long as the node list exactly if
  it has every node (`FullOrder`). If it has, the first node of a supposed cycle
  in the order has a predecessor before it (`OrderedHasNoCycle`, by `LeastNatural`);
  if it has not, the nodes left out each have a predecessor that is left out, which is
  a cycle.
- `SubmitInv`, `AfterInv`: in that order each node is submitted with the handles of all
  its predecessors and none of them empty; then the runtime's promise (`TaskRuntimeSpec`)
  gives `RunsAfterPredecessors`. `WaitInv`: what has not finished is still to be waited for.

`HasCycle` speaks of sets of nodes and the sort only of counts, so no step needs an
induction over the edges. The code's ready list begins in ascending order; `Ascending`
is a choice among functions, of which the proof uses only that it lists the set.

### parallel_for

`ChunkInv`, for arguments with which no sum wraps: the cursor is a whole number of grains
from `begin`, no more of them than batches plus tasks that are through; the chunks in
hand are behind the cursor and disjoint; and an index was called once if it is behind the
cursor and in nobody's hand, and never otherwise. That the `size_t` arithmetic does not wrap
during the run follows from the precondition and the bound on the cursor
(`WrapSmall`); this is why the number of tasks that overshoot is part of the
invariant. Division is reduced to a quotient that fits (`Quotient`). `CallWaitsForTasks` needs none of
it and holds for all arguments, wrapping ones too.

### The simulation

`StageInv` says by the main thread's place which chains are untouched, handed to the
runtime, behind their barrier or over. `FieldInv`: the current buffer is what
`ticks` serial ticks leave, and in the next buffer each batch is unclaimed and unwritten,
or with one task that has written the fields of its kernels so far, or written by all. A
kernel reads fields of its own chain's earlier kernels for its own entity and else the
current buffer (`KernelOrder`), so what it writes is what the serial tick writes.
At the swap every batch is written; hence the hashes of the legs agree, for any number
of legs one after the other.

### The callables

What is to be shown is that one thing, a callable, is always in one place, although
the code moves it through up to six objects. `OwnInv` says for each `TaskFunction`
what it owns in terms of the place of the thread that uses it, and so that each
target of a move is empty (`MoveFrom` would otherwise lose a callable); `LiveInv` then counts the
constructed ones. `BodyRunsOnce` needs more, because a body is somewhere between the offer and the
end even while it has no callable yet (`submit_emplace` before the construction) or none any
more (a runner between `release` and the decrement): `HeldInv` gives every
offered body that has not ended exactly one *custodian*, a caller, a slot in the
queues, a node, or the runner that called it. `HeldGain`, `HeldHand`, `HeldDrop` and `HeldEnd`
are the four ways custody changes; each action is one of them or leaves it. `CallInv`
reads off who has been called, and `CountInv`, which equates `outstanding_` with callers in
flight, queued slots and busy runners, says that nobody but a caller or
a graph that has yet to submit has anything left when it is zero (`NothingCounted`).

`OwnedIsHeld` connects the two accounts: what owns a callable of a body is in the
hands of its custodian. Hence a finished task's body is gone, with the exception of
`run_inline`'s local.

`FilledInv` is separate: nodes not yet submitted, submissions under way and
queued slots all have a body. A second `TaskGraph::submit` breaks its clause about the nodes; with one at
most it is inductive, and `execute()`'s unchecked call is right. No passing run
checks it; with `GraphSubmissions = 1` in `TaskBodyResubmitted.cfg` TLC
finds it to hold on the small instance.

### The pool

A *box* of a pool is whatever may have a slot of it: a shard's list, a thread's
cache while it names the pool, the hand of a thread in `release`, and the clients.
`PoolOk` says of a pool's boxes that they have only its slots (`Within`), no two have the
same one (`Apart`), and, if the pool can be used, that none is missing (`Covers`). With
`RepeatInv`, which rules out a slot twice in one list, that is
`SlotConservation` (`PlacesAreInBoxes`, `OnePlacePerBox`). The invariant says more
than the property does: `Within` and `Apart` also hold of pools that are dead, because
a cache may still name one.

Every operation moves slots from one box to another (`MovedBoxes`), drops those of
a pool that can no longer be used (`ShrunkBoxes`: `Free`, and a rebinding that does not find
the pool in the registry), or makes a pool (`DealFacts`: the round-robin deals every
slot once, for any capacity and number of shards). The lists are real
sequences, so the proof also says that `Append`, `Front`, `SubSeq`, concatenation
and `Reverse` lose and repeat nothing, as `acquire`, `release`, refill, spill and
flush use them.

- `PlaceInv`, `CacheInv`: what a thread's place says of its locals, and that a
  cache names no pool or one that has caches, and fits its array. The second is what
  makes a slot cached for a pool off the registry a slot of no use.
- `FlushInv`: a thread that flushes holds the registry's mutex, and its cache's
  pool is registered; a pool leaves the registry only under that mutex. That is
  `NoFlushIntoDeadPool`. A pool's number is never given twice, which is why a new
  pool at a dead one's address does not matter.
- `QuietInv`: the shards a search has passed are empty, unless a list of that pool
  changed since. At the end of the search these are all shards (`SearchSeesAll`).

### Only model-checked

- Liveness (`AWaitReturns`, `AWaitAllReturnsIfTold`, `ShutdownReturns`,
  `StealingRunsEveryTask`, `ATaskEnds`, `BackgroundRuns`) and absence of deadlock:
  fairness and `ENABLED` are out of the prover's reach.
- The findings of section 5, which are counterexamples.

## 7. Plan

Written and checked: every module of section 2. What is left to model, in order:
1. A store-buffer variant of the deque that shows what the fences of `pop` and
   `steal` are for.
2. `PriorityAging` and help-on-wait over the same scheduler: a worker that waits
   pops in the order of `acquire_next`.

The invariants of the runs are all proved. What would be worth proving next goes beyond what
the runs state: that `CompletionWait` and `TaskLifecycle` agree on the state they
share, and that `WorkerParking`'s queues implement the ready tasks of
`TaskLifecycle`.

## 8. What is not modelled

- **Help-on-wait on the Thunderbolt runtime**: the loop is the same code of
  `RuntimeBase`; it is modelled over the baseline's queue, where a pop may take
  any queued task, which the other scheduler's order narrows. `wait_all` from a
  body never returns, as its assertion says, and is not modelled; nor is the
  limit of `WaitDepthGuard`, an assertion in debug builds.
- **Priorities** outside `PriorityAging`: the models let a scheduler take any
  queued task (`TaskLifecycle`, `StandardRuntime`) or the first in one queue
  (`WorkerParking`).
- **The bytes of a `TaskFunction`**: its size, alignment and the compile-time
  checks; that a throwing copy leaves nothing behind in the storage is C++'s
  placement new.
- **Statistics and counters**: relaxed and read by no decision.
- **Affinity, CPU topology, configuration, build information**: operating
  system queries and plain data; the options that matter are constants.
- **Benchmark harness and experiments**, and in `SimBenchmark.cpp` everything but
  the verification of the legs: they measure and print.
- **The kernels' arithmetic** in the engine: only which fields of which frame a
  kernel reads and writes, which is what decides whether a parallel frame can
  differ from a serial one, on one machine with one compiler.
- **Weaker memory orders**: see section 2.
- **Wrap-around of the 32-bit generation** (`TaskPool.cpp:289`): 2^32 reuses of
  one slot while a handle is kept are outside any bound.
