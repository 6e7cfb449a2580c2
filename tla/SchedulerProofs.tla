-------------------------- MODULE SchedulerProofs --------------------------
(***************************************************************************)
(* Theorems about the two schedulers of MCSchedulers.  About               *)
(* StandardRuntime, for every set of workers, submitters and tasks:        *)
(* shutdown discards nothing, and no ring of waits and stacks ever closes  *)
(* while bodies wait for their own children only.  About PriorityAging,    *)
(* for every set of workers and tasks, interval and batch: the bound on    *)
(* what runs before the background work.                                   *)
(*                                                                         *)
(* The inductive invariant of StandardRuntime:                             *)
(*   TypeInv     the ranges                                                *)
(*   PlaceInv    a worker has frames exactly when it is inside execute()   *)
(*   AccountInv  an enqueued task is queued, on a stack or finished        *)
(*   FamilyInv   who has children and who waits has been started           *)
(*   RankInv     the tasks can be numbered in the order they were started, *)
(*               below which every stack and every family is sorted        *)
(*   EndInv      what DestroyDrained has established                       *)
(***************************************************************************)
EXTENDS StandardRuntime, PriorityAging, WellFoundedInduction, TLAPS

InBody == {"body", "spawnNotify", "waiting", "help"}
WorkerStates == {"loop", "lock", "predicate", "sleep", "asleep", "exited"} \cup InBody

TypeInv ==
    /\ enqueued \subseteq Tasks
    /\ queue \subseteq enqueued
    /\ running \in BOOLEAN
    /\ asleep \subseteq Workers
    /\ wpc \in [Workers -> WorkerStates]
    /\ frames \in [Workers -> Seq(Tasks)]
    /\ awaits \in [Tasks -> Tasks \cup {NoTask}]
    /\ parent \in [Tasks -> Tasks \cup {NoTask}]
    /\ finished \subseteq Tasks
    /\ runs \in [Tasks -> Nat]
    /\ dpc \in {"alive", "stop", "notify", "join", "gone"}

PlaceInv ==
    /\ \A w \in Workers : w \in asleep <=> wpc[w] = "asleep"
    /\ \A w \in Workers : wpc[w] \in InBody <=> frames[w] # << >>

OnStack(t) == \E w \in Workers : \E i \in 1 .. Len(frames[w]) : frames[w][i] = t

AccountInv ==
    \A t \in Tasks :
        /\ t \notin enqueued \/ t \in queue => runs[t] = 0
        /\ runs[t] = 0 => ~OnStack(t) /\ t \notin finished
        /\ t \in enqueued \ queue => runs[t] = 1 /\ (OnStack(t) \/ t \in finished)

FamilyInv ==
    \A t \in Tasks :
        /\ parent[t] # NoTask => t \in enqueued /\ runs[parent[t]] # 0
        /\ awaits[t] # NoTask => /\ runs[t] # 0
                                 /\ awaits[t] \in enqueued
                                 /\ ~exhausted => parent[awaits[t]] = t

(* r numbers the tasks that were started, below n, each after its parent   *)
(* and after those beneath it on its stack.                                *)
Ranked(n, r) ==
    /\ \A t \in Tasks : runs[t] # 0 => r[t] < n
    /\ \A t \in Tasks : runs[t] # 0 /\ parent[t] # NoTask => r[parent[t]] < r[t]
    /\ \A w \in Workers : \A i \in 1 .. Len(frames[w]) - 1 : r[frames[w][i]] < r[frames[w][i + 1]]

RankInv == \E n \in Nat : \E r \in [Tasks -> Nat] : Ranked(n, r)

EndInv ==
    /\ running <=> dpc \in {"alive", "stop"}
    /\ dpc # "alive" => queue = {} /\ \A w \in Workers : frames[w] = << >>

IInv == TypeInv /\ PlaceInv /\ AccountInv /\ FamilyInv /\ RankInv /\ EndInv

-----------------------------------------------------------------------------
(* Stacks *)

(* execute() puts a frame on top. *)
LEMMA PushFrame ==
    ASSUME NEW q \in Seq(Tasks), NEW t \in Tasks
    PROVE  /\ Append(q, t) \in Seq(Tasks) /\ Append(q, t) # << >>
           /\ Len(Append(q, t)) = Len(q) + 1 /\ Len(q) \in Nat
           /\ Append(q, t)[Len(q) + 1] = t
           /\ \A i \in 1 .. Len(q) : Append(q, t)[i] = q[i]
  OBVIOUS

(* ... and takes it off again. *)
LEMMA PopFrame ==
    ASSUME NEW q \in Seq(Tasks), q # << >>
    PROVE  /\ Front(q) \in Seq(Tasks)
           /\ Len(q) \in Nat /\ Len(q) >= 1
           /\ Len(Front(q)) = Len(q) - 1
           /\ \A i \in 1 .. Len(q) - 1 : Front(q)[i] = q[i]
           /\ Last(q) = q[Len(q)] /\ Last(q) \in Tasks
           /\ Front(q) = << >> <=> Len(q) = 1
  <1> DEFINE n == Len(q)
  <1>1. n \in Nat /\ n >= 1
    OBVIOUS
  <1>2. Front(q) = SubSeq(q, 1, n - 1)
    BY DEF Front
  <1>3. Last(q) = q[n] /\ q[n] \in Tasks
    BY <1>1 DEF Last
  <1>4. n = Len(q)
    OBVIOUS
  <1> HIDE DEF n
  <1>5. /\ SubSeq(q, 1, n - 1) \in Seq(Tasks) /\ Len(SubSeq(q, 1, n - 1)) = n - 1
        /\ \A i \in 1 .. n - 1 : SubSeq(q, 1, n - 1)[i] = q[i]
    BY <1>1, <1>4
  <1>6. \A p \in Seq(Tasks) : p = << >> <=> Len(p) = 0
    OBVIOUS
  <1>7. Front(q) = << >> <=> n = 1
    BY <1>1, <1>2, <1>5, <1>6
  <1> QED BY <1>1, <1>2, <1>3, <1>5, <1>7 DEF n

-----------------------------------------------------------------------------
(* The steps, sorted by what they do to the tasks. *)

TasksStill == UNCHANGED <<queue, frames, awaits, finished, parent, enqueued, runs>>

(* A worker takes a task from the queue, from worker_loop() or from wait(). *)
Take(w, t) ==
    /\ wpc[w] \in {"predicate", "help"}
    /\ Pop(w, t)
    /\ UNCHANGED <<awaits, finished, parent, enqueued>>

Waits(w, t) == WaitCall(w, t) \/ DependencyWait(w, t)

(* Every step is one of six that move tasks, or moves none. *)
LEMMA StepKinds ==
    ASSUME [Next]_vars
    PROVE  /\ exhausted' = exhausted
           /\ \/ TasksStill
              \/ \E s \in Submitters, t \in Tasks : Enqueue(s, t)
              \/ \E w \in Workers, t \in Tasks : Spawn(w, t) \/ Take(w, t) \/ Waits(w, t)
              \/ \E w \in Workers : BodyReturn(w) \/ WaitCheck(w)
  <1>1. CASE \E s \in Submitters : NotifyOne(s)
    BY <1>1 DEF NotifyOne, TasksStill, taskVars
  <1>2. CASE \E s \in Submitters, t \in Tasks : Enqueue(s, t)
    BY <1>2 DEF Enqueue, taskVars
  <1>3. CASE \E w \in Workers : LoopTop(w) \/ Lock(w) \/ WokenForShutdown(w) \/ PredicateFalse(w)
    BY <1>3 DEF LoopTop, Lock, WokenForShutdown, PredicateFalse, TasksStill, taskVars
  <1>4. CASE \E w \in Workers : Sleep(w) \/ SpawnNotify(w) \/ SpuriousWakeup(w)
    BY <1>4 DEF Sleep, SpawnNotify, SpuriousWakeup, TasksStill, taskVars
  <1>5. CASE \E w \in Workers : PopTask(w)
    BY <1>5 DEF PopTask, Take, taskVars
  <1>6. CASE \E w \in Workers : Help(w)
    BY <1>6 DEF Help, Take, TasksStill, taskVars
  <1>7. CASE \E w \in Workers : WaitCheck(w) \/ BodyReturn(w)
    BY <1>7 DEF WaitCheck, BodyReturn
  <1>8. CASE \E w \in Workers, t \in Tasks : Spawn(w, t)
    BY <1>8 DEF Spawn
  <1>9. CASE \E w \in Workers, t \in Tasks : WaitCall(w, t) \/ DependencyWait(w, t)
    BY <1>9 DEF WaitCall, DependencyWait, Await, Waits
  <1>10. CASE DestroyDrained \/ DestructorStep
    BY <1>10 DEF DestroyDrained, DestructorStep, DestroyStop, DestroyNotify, DestroyJoin, TasksStill,
                 taskVars
  <1>11. CASE UNCHANGED vars
    BY <1>11 DEF vars, TasksStill
  <1> QED
    BY <1>1, <1>2, <1>3, <1>4, <1>5, <1>6, <1>7, <1>8, <1>9, <1>10, <1>11
    DEF Next, WorkerStep, Gone


-----------------------------------------------------------------------------
(* TypeInv and PlaceInv *)

(* notify_one() wakes a worker that has no frame, or none. *)
LEMMA WakeOnePlace ==
    ASSUME TypeInv, PlaceInv, NEW rest \in [Workers -> WorkerStates], WakeOne(rest),
           \A w \in Workers : rest[w] \in InBody <=> wpc[w] \in InBody,
           \A w \in Workers : rest[w] = "asleep" <=> wpc[w] = "asleep", UNCHANGED frames
    PROVE  /\ asleep' \subseteq Workers /\ wpc' \in [Workers -> WorkerStates]
           /\ PlaceInv'
  <1>1. CASE asleep = {}
    BY <1>1 DEF WakeOne, TypeInv, PlaceInv
  <1>2. CASE asleep # {}
    <2>1. PICK v \in asleep : asleep' = asleep \ {v} /\ wpc' = [rest EXCEPT ![v] = "lock"]
      BY <1>2 DEF WakeOne
    <2>2. v \in Workers /\ wpc[v] = "asleep"
      BY DEF TypeInv, PlaceInv
    <2> QED BY <2>1, <2>2 DEF TypeInv, PlaceInv, WorkerStates, InBody
  <1> QED BY <1>1, <1>2

(* The ranges of what StepKinds does not tell, and the places. *)
LEMMA PlaceStep ==
    TypeInv /\ PlaceInv /\ [Next]_vars =>
        /\ running' \in BOOLEAN /\ dpc' \in {"alive", "stop", "notify", "join", "gone"}
        /\ asleep' \subseteq Workers /\ wpc' \in [Workers -> WorkerStates]
        /\ PlaceInv'
  <1> SUFFICES ASSUME TypeInv, PlaceInv, [Next]_vars
               PROVE  /\ running' \in BOOLEAN /\ dpc' \in {"alive", "stop", "notify", "join", "gone"}
                      /\ asleep' \subseteq Workers /\ wpc' \in [Workers -> WorkerStates]
                      /\ PlaceInv'
    OBVIOUS
  <1>1. ASSUME NEW s \in Submitters, NotifyOne(s)
        PROVE  /\ asleep' \subseteq Workers /\ wpc' \in [Workers -> WorkerStates]
               /\ PlaceInv' /\ UNCHANGED <<running, dpc>>
    BY <1>1, WakeOnePlace DEF NotifyOne, TypeInv
  <1>2. CASE \E s \in Submitters, t \in Tasks : Enqueue(s, t)
    BY <1>2 DEF Enqueue, TypeInv, PlaceInv
  <1>3. CASE \E w \in Workers : LoopTop(w) \/ Lock(w) \/ WokenForShutdown(w) \/ PredicateFalse(w)
    BY ZenonT(40), <1>3
    DEF LoopTop, Lock, WokenForShutdown, PredicateFalse, Goto, TypeInv, PlaceInv, WorkerStates, InBody
  <1>4. CASE \E w \in Workers : Sleep(w) \/ SpuriousWakeup(w)
    BY <1>4 DEF Sleep, SpuriousWakeup, Goto, TypeInv, PlaceInv, WorkerStates, InBody
  <1>5. ASSUME NEW w \in Workers, SpawnNotify(w)
        PROVE  /\ asleep' \subseteq Workers /\ wpc' \in [Workers -> WorkerStates]
               /\ PlaceInv' /\ UNCHANGED <<running, dpc>>
    <2> DEFINE rest == [wpc EXCEPT ![w] = "body"]
    <2>1. /\ rest \in [Workers -> WorkerStates]
          /\ \A v \in Workers : rest[v] \in InBody <=> wpc[v] \in InBody
          /\ \A v \in Workers : rest[v] = "asleep" <=> wpc[v] = "asleep"
      BY <1>5 DEF SpawnNotify, TypeInv, WorkerStates, InBody
    <2>2. WakeOne(rest) /\ UNCHANGED <<frames, running, dpc>>
      BY <1>5 DEF SpawnNotify
    <2> HIDE DEF rest
    <2> QED BY <2>1, <2>2, WakeOnePlace
  <1>6. CASE \E w \in Workers : PopTask(w)
    <2>1. PICK w \in Workers, t \in Tasks : Pop(w, t) /\ wpc[w] = "predicate" /\ UNCHANGED <<asleep, running, dpc>>
      BY <1>6 DEF PopTask
    <2>2. Append(frames[w], t) # << >>
      BY PushFrame DEF TypeInv
    <2> QED BY <2>1, <2>2 DEF Pop, Goto, TypeInv, PlaceInv, WorkerStates, InBody
  <1>7. CASE \E w \in Workers : Help(w)
    <2>1. PICK w \in Workers : Help(w)
      BY <1>7
    <2>2. wpc[w] = "help" /\ UNCHANGED <<asleep, running, dpc>>
      BY <2>1 DEF Help
    <2>3. CASE \E t \in Tasks : Pop(w, t)
      <3>1. PICK t \in Tasks : Pop(w, t)
        BY <2>3
      <3>2. Append(frames[w], t) # << >>
        BY PushFrame DEF TypeInv
      <3> QED BY <2>2, <3>1, <3>2 DEF Pop, Goto, TypeInv, PlaceInv, WorkerStates, InBody
    <2>4. CASE Goto(w, "waiting") /\ UNCHANGED frames
      BY <2>2, <2>4 DEF Goto, TypeInv, PlaceInv, WorkerStates, InBody
    <2> QED BY <2>1, <2>3, <2>4 DEF Help
  <1>8. CASE \E w \in Workers : WaitCheck(w)
    BY <1>8 DEF WaitCheck, Goto, TypeInv, PlaceInv, WorkerStates, InBody
  <1>9. CASE \E w \in Workers : BodyReturn(w)
    <2>1. PICK w \in Workers : BodyReturn(w)
      BY <1>9
    <2>2. wpc[w] = "body" /\ UNCHANGED <<asleep, running, dpc>>
      BY <2>1 DEF BodyReturn
    <2>3. frames[w] \in Seq(Tasks) /\ frames[w] # << >>
      BY <2>2 DEF TypeInv, PlaceInv, InBody
    <2>4. Front(frames[w]) = << >> <=> Len(frames[w]) = 1
      BY <2>3, PopFrame
    <2> QED BY <2>1, <2>2, <2>4 DEF BodyReturn, Goto, TypeInv, PlaceInv, WorkerStates, InBody
  <1>10. CASE \E w \in Workers, t \in Tasks : Spawn(w, t) \/ Await(w, t)
    BY <1>10 DEF Spawn, Await, Goto, TypeInv, PlaceInv, WorkerStates, InBody
  <1>11. CASE DestroyDrained \/ DestroyStop \/ DestroyJoin
    BY <1>11 DEF DestroyDrained, DestroyStop, DestroyJoin, TypeInv, PlaceInv
  <1>12. CASE DestroyNotify
    BY <1>12 DEF DestroyNotify, TypeInv, PlaceInv, WorkerStates, InBody
  <1>13. CASE UNCHANGED vars
    BY <1>13 DEF vars, TypeInv, PlaceInv
  <1> QED
    BY <1>1, <1>2, <1>3, <1>4, <1>5, <1>6, <1>7, <1>8, <1>9, <1>10, <1>11, <1>12, <1>13
    DEF Next, WorkerStep, DestructorStep, Gone, WaitCall, DependencyWait, TypeInv

(* TypeInv is kept. *)
LEMMA TypeStep == TypeInv /\ PlaceInv /\ [Next]_vars => TypeInv'
  <1> SUFFICES ASSUME TypeInv, PlaceInv, [Next]_vars PROVE TypeInv'
    OBVIOUS
  <1>1. /\ running' \in BOOLEAN /\ dpc' \in {"alive", "stop", "notify", "join", "gone"}
        /\ asleep' \subseteq Workers /\ wpc' \in [Workers -> WorkerStates]
    BY PlaceStep
  <1> SUFFICES /\ enqueued' \subseteq Tasks /\ queue' \subseteq enqueued'
               /\ frames' \in [Workers -> Seq(Tasks)]
               /\ awaits' \in [Tasks -> Tasks \cup {NoTask}]
               /\ parent' \in [Tasks -> Tasks \cup {NoTask}]
               /\ finished' \subseteq Tasks /\ runs' \in [Tasks -> Nat]
    BY <1>1 DEF TypeInv
  <1>2. \A w \in Workers : wpc[w] \in InBody => Top(w) \in Tasks /\ Front(frames[w]) \in Seq(Tasks)
    BY PopFrame DEF TypeInv, PlaceInv, Top
  <1>3. CASE TasksStill
    BY <1>3 DEF TasksStill, TypeInv
  <1>4. CASE \E s \in Submitters, t \in Tasks : Enqueue(s, t)
    BY <1>4 DEF Enqueue, Push, taskVars, TypeInv
  <1>5. CASE \E w \in Workers, t \in Tasks : Spawn(w, t)
    BY <1>2, <1>5 DEF Spawn, Push, TypeInv, InBody
  <1>6. CASE \E w \in Workers, t \in Tasks : Take(w, t)
    <2>1. PICK w \in Workers, t \in Tasks : Take(w, t)
      BY <1>6
    <2>2. Append(frames[w], t) \in Seq(Tasks)
      BY PushFrame DEF TypeInv
    <2> QED BY <2>1, <2>2 DEF Take, Pop, TypeInv
  <1>7. CASE \E w \in Workers, t \in Tasks : Await(w, t)
    BY <1>2, <1>7 DEF Await, TypeInv, InBody
  <1>8. CASE \E w \in Workers : BodyReturn(w)
    BY <1>2, <1>8 DEF BodyReturn, TypeInv, InBody
  <1>9. CASE \E w \in Workers : WaitCheck(w)
    BY <1>2, <1>9 DEF WaitCheck, TypeInv, InBody
  <1> QED
    BY <1>3, <1>4, <1>5, <1>6, <1>7, <1>8, <1>9, StepKinds DEF Waits, WaitCall, DependencyWait

-----------------------------------------------------------------------------
(* Where the tasks are *)

(* A push onto w's stack adds its task to those on the stacks. *)
LEMMA StackGains ==
    ASSUME TypeInv, NEW w \in Workers, NEW t \in Tasks,
           frames' = [frames EXCEPT ![w] = Append(frames[w], t)], NEW u \in Tasks
    PROVE  OnStack(u)' <=> OnStack(u) \/ u = t
  <1>1. frames[w] \in Seq(Tasks)
    BY DEF TypeInv
  <1> DEFINE n == Len(frames[w])
  <1>2. /\ n \in Nat /\ Len(frames'[w]) = n + 1
        /\ frames'[w][n + 1] = t /\ \A i \in 1 .. n : frames'[w][i] = frames[w][i]
    BY <1>1, PushFrame DEF TypeInv
  <1>3. \A v \in Workers \ {w} : frames'[v] = frames[v]
    BY DEF TypeInv
  <1> HIDE DEF n
  <1>4. ASSUME OnStack(u) PROVE OnStack(u)'
    <2>1. PICK v \in Workers : \E i \in 1 .. Len(frames[v]) : frames[v][i] = u
      BY <1>4 DEF OnStack
    <2>2. PICK i \in 1 .. Len(frames[v]) : frames[v][i] = u
      BY <2>1
    <2>3. CASE v = w
      <3>1. i \in 1 .. n /\ i \in 1 .. n + 1
        BY <1>2, <2>2, <2>3 DEF n
      <3> QED BY <1>2, <2>2, <2>3, <3>1 DEF OnStack
    <2>4. CASE v # w
      BY <1>3, <2>2, <2>4 DEF OnStack
    <2> QED BY <2>3, <2>4
  <1>5. ASSUME u = t PROVE OnStack(u)'
    <2>1. n + 1 \in 1 .. n + 1
      BY <1>2
    <2> QED BY <1>2, <1>5, <2>1 DEF OnStack
  <1>6. ASSUME OnStack(u)' PROVE OnStack(u) \/ u = t
    <2>1. PICK v \in Workers : \E i \in 1 .. Len(frames'[v]) : frames'[v][i] = u
      BY <1>6 DEF OnStack
    <2>2. PICK i \in 1 .. Len(frames'[v]) : frames'[v][i] = u
      BY <2>1
    <2>3. CASE v = w
      <3>1. i = n + 1 \/ i \in 1 .. n
        BY <1>2, <2>2, <2>3
      <3>2. CASE i \in 1 .. n
        BY <1>2, <2>2, <2>3, <3>2 DEF OnStack, n
      <3> QED BY <1>2, <2>2, <2>3, <3>1, <3>2
    <2>4. CASE v # w
      BY <1>3, <2>2, <2>4 DEF OnStack
    <2> QED BY <2>3, <2>4
  <1> QED BY <1>4, <1>5, <1>6

(* A return leaves the others on the stacks, and puts nobody there. *)
LEMMA StackLoses ==
    ASSUME TypeInv, NEW w \in Workers, frames[w] # << >>,
           frames' = [frames EXCEPT ![w] = Front(frames[w])], NEW u \in Tasks
    PROVE  /\ OnStack(u)' => OnStack(u)
           /\ OnStack(u) => OnStack(u)' \/ u = Top(w)
  <1>1. frames[w] \in Seq(Tasks)
    BY DEF TypeInv
  <1> DEFINE n == Len(frames[w])
  <1>2. /\ n \in Nat /\ n >= 1 /\ Len(frames'[w]) = n - 1
        /\ Top(w) = frames[w][n] /\ \A i \in 1 .. n - 1 : frames'[w][i] = frames[w][i]
    BY <1>1, PopFrame DEF TypeInv, Top
  <1>3. \A v \in Workers \ {w} : frames'[v] = frames[v]
    BY DEF TypeInv
  <1> HIDE DEF n
  <1>4. ASSUME OnStack(u) PROVE OnStack(u)' \/ u = Top(w)
    <2>1. PICK v \in Workers : \E i \in 1 .. Len(frames[v]) : frames[v][i] = u
      BY <1>4 DEF OnStack
    <2>2. PICK i \in 1 .. Len(frames[v]) : frames[v][i] = u
      BY <2>1
    <2>3. CASE v = w
      <3>1. i = n \/ i \in 1 .. n - 1
        BY <1>2, <2>2, <2>3 DEF n
      <3> QED BY <1>2, <2>2, <2>3, <3>1 DEF OnStack
    <2>4. CASE v # w
      BY <1>3, <2>2, <2>4 DEF OnStack
    <2> QED BY <2>3, <2>4
  <1>5. ASSUME OnStack(u)' PROVE OnStack(u)
    <2>1. PICK v \in Workers : \E i \in 1 .. Len(frames'[v]) : frames'[v][i] = u
      BY <1>5 DEF OnStack
    <2>2. PICK i \in 1 .. Len(frames'[v]) : frames'[v][i] = u
      BY <2>1
    <2>3. CASE v = w
      <3>1. i \in 1 .. n - 1 /\ i \in 1 .. n
        BY <1>2, <2>2, <2>3
      <3> QED BY <1>2, <2>2, <2>3, <3>1 DEF OnStack, n
    <2>4. CASE v # w
      BY <1>3, <2>2, <2>4 DEF OnStack
    <2> QED BY <2>3, <2>4
  <1> QED BY <1>4, <1>5

(* AccountInv is kept. *)
LEMMA AccountStep == TypeInv /\ PlaceInv /\ AccountInv /\ [Next]_vars => AccountInv'
  <1> SUFFICES ASSUME TypeInv, PlaceInv, AccountInv, [Next]_vars PROVE AccountInv'
    OBVIOUS
  <1>1. ASSUME UNCHANGED <<queue, frames, finished, enqueued, runs>> PROVE AccountInv'
    BY <1>1 DEF AccountInv, OnStack
  <1>2. ASSUME NEW t \in Tasks, Push(t), UNCHANGED <<frames, finished, runs>>
        PROVE  AccountInv'
    <2>1. \A u \in Tasks : OnStack(u)' <=> OnStack(u)
      BY <1>2 DEF OnStack
    <2> QED BY <1>2, <2>1 DEF Push, AccountInv, TypeInv
  <1>3. CASE \E w \in Workers, t \in Tasks : Take(w, t)
    <2>1. PICK w \in Workers, t \in Tasks : Take(w, t)
      BY <1>3
    <2>2. /\ t \in queue /\ queue' = queue \ {t}
          /\ frames' = [frames EXCEPT ![w] = Append(frames[w], t)]
          /\ runs' = [runs EXCEPT ![t] = runs[t] + 1] /\ UNCHANGED <<enqueued, finished>>
      BY <2>1 DEF Take, Pop
    <2>3. \A u \in Tasks : OnStack(u)' <=> OnStack(u) \/ u = t
      BY <2>2, StackGains
    <2>4. runs[t] = 0 /\ runs'[t] = 1 /\ \A u \in Tasks \ {t} : runs'[u] = runs[u]
      BY <2>2 DEF AccountInv, TypeInv
    <2> QED BY <2>2, <2>3, <2>4 DEF AccountInv, TypeInv
  <1>4. CASE \E w \in Workers : BodyReturn(w)
    <2>1. PICK w \in Workers : BodyReturn(w)
      BY <1>4
    <2>2. frames[w] # << >> /\ frames[w] \in Seq(Tasks)
      BY <2>1 DEF BodyReturn, PlaceInv, InBody, TypeInv
    <2>3. Top(w) \in Tasks /\ OnStack(Top(w))
      <3>1. Last(frames[w]) = frames[w][Len(frames[w])] /\ Last(frames[w]) \in Tasks
        BY <2>2, PopFrame
      <3>2. Len(frames[w]) \in 1 .. Len(frames[w])
        BY <2>2, PopFrame
      <3> QED BY <3>1, <3>2 DEF Top, OnStack
    <2>4. \A u \in Tasks : /\ OnStack(u)' => OnStack(u)
                           /\ OnStack(u) => OnStack(u)' \/ u = Top(w)
      BY <2>1, <2>2, StackLoses DEF BodyReturn
    <2>5. finished' = finished \cup {Top(w)} /\ UNCHANGED <<queue, enqueued, runs>>
      BY <2>1 DEF BodyReturn
    <2> QED BY <2>3, <2>4, <2>5 DEF AccountInv
  <1> QED
    BY <1>1, <1>2, <1>3, <1>4, StepKinds
    DEF Enqueue, Spawn, Waits, WaitCall, DependencyWait, Await, WaitCheck, TasksStill, taskVars

-----------------------------------------------------------------------------
(* Parents and waits *)

(* The innermost task of a stack has been started. *)
LEMMA TopStarted ==
    ASSUME TypeInv, PlaceInv, AccountInv, NEW w \in Workers, wpc[w] \in InBody
    PROVE  Top(w) \in Tasks /\ runs[Top(w)] # 0
  <1>1. frames[w] # << >> /\ frames[w] \in Seq(Tasks)
    BY DEF PlaceInv, TypeInv
  <1>2. /\ Last(frames[w]) = frames[w][Len(frames[w])] /\ Last(frames[w]) \in Tasks
        /\ Len(frames[w]) \in 1 .. Len(frames[w])
    BY <1>1, PopFrame
  <1> QED BY <1>2 DEF Top, AccountInv, OnStack

(* FamilyInv is kept. *)
LEMMA FamilyStep == TypeInv /\ PlaceInv /\ AccountInv /\ FamilyInv /\ [Next]_vars => FamilyInv'
  <1> SUFFICES ASSUME TypeInv, PlaceInv, AccountInv, FamilyInv, [Next]_vars PROVE FamilyInv'
    OBVIOUS
  <1>1. exhausted' = exhausted
    BY StepKinds
  <1>2. CASE TasksStill
    BY <1>1, <1>2 DEF TasksStill, FamilyInv
  <1>3. CASE \E s \in Submitters, t \in Tasks : Enqueue(s, t)
    BY <1>1, <1>3 DEF Enqueue, Push, taskVars, FamilyInv
  <1>4. CASE \E w \in Workers, t \in Tasks : Spawn(w, t)
    <2>1. PICK w \in Workers, t \in Tasks : Spawn(w, t)
      BY <1>4
    <2>2. /\ t \notin enqueued /\ enqueued' = enqueued \cup {t}
          /\ parent' = [parent EXCEPT ![t] = Top(w)] /\ UNCHANGED <<awaits, runs>>
      BY <2>1 DEF Spawn, Push
    <2>3. Top(w) \in Tasks /\ runs[Top(w)] # 0
      BY <2>1, TopStarted DEF Spawn, InBody
    <2>4. \A u \in Tasks : u # t => parent'[u] = parent[u]
      BY <2>2 DEF TypeInv
    <2>5. parent'[t] = Top(w)
      BY <2>2 DEF TypeInv
    <2>6. \A u \in Tasks : awaits[u] # NoTask => awaits[u] # t /\ awaits[u] \in Tasks
      BY <2>2 DEF FamilyInv, TypeInv
    <2> QED BY <1>1, <2>2, <2>3, <2>4, <2>5, <2>6 DEF FamilyInv
  <1>5. CASE \E w \in Workers, t \in Tasks : Take(w, t)
    <2>1. PICK w \in Workers, t \in Tasks : Take(w, t)
      BY <1>5
    <2>2. runs' = [runs EXCEPT ![t] = runs[t] + 1] /\ UNCHANGED <<awaits, parent, enqueued>>
      BY <2>1 DEF Take, Pop
    <2>3. \A u \in Tasks : runs[u] # 0 => runs'[u] # 0
      BY <2>2 DEF TypeInv
    <2>4. \A u \in Tasks : parent[u] # NoTask => parent[u] \in Tasks
      BY DEF TypeInv
    <2> QED BY <1>1, <2>2, <2>3, <2>4 DEF FamilyInv
  <1>6. CASE \E w \in Workers, t \in Tasks : Waits(w, t)
    <2>1. PICK w \in Workers, t \in Tasks : Waits(w, t)
      BY <1>6
    <2>2. Await(w, t) /\ (~exhausted => parent[t] = Top(w))
      BY <2>1 DEF Waits, WaitCall, DependencyWait
    <2>3. /\ t \in enqueued /\ awaits' = [awaits EXCEPT ![Top(w)] = t]
          /\ UNCHANGED <<parent, enqueued, runs>>
      BY <2>2 DEF Await
    <2>4. Top(w) \in Tasks /\ runs[Top(w)] # 0
      BY <2>2, TopStarted DEF Await, InBody
    <2> QED BY <1>1, <2>2, <2>3, <2>4 DEF FamilyInv, TypeInv
  <1>7. CASE \E w \in Workers : BodyReturn(w)
    BY <1>1, <1>7 DEF BodyReturn, FamilyInv
  <1>8. CASE \E w \in Workers : WaitCheck(w)
    <2>1. PICK w \in Workers : WaitCheck(w)
      BY <1>8
    <2>2. /\ awaits' = awaits \/ awaits' = [awaits EXCEPT ![Top(w)] = NoTask]
          /\ UNCHANGED <<parent, enqueued, runs>>
      BY <2>1 DEF WaitCheck
    <2>3. \A u \in Tasks : awaits'[u] # NoTask => awaits'[u] = awaits[u]
      BY <2>2 DEF TypeInv
    <2> QED BY <1>1, <2>2, <2>3 DEF FamilyInv
  <1> QED BY <1>2, <1>3, <1>4, <1>5, <1>6, <1>7, <1>8, StepKinds

-----------------------------------------------------------------------------
(* The order of starting *)

(* Nobody is numbered anew when nothing is started. *)
LEMMA RankKept ==
    ASSUME NEW n, NEW r, Ranked(n, r), UNCHANGED <<frames, runs>>,
           \A t \in Tasks : runs[t] # 0 => parent'[t] = parent[t]
    PROVE  Ranked(n, r)'
  BY DEF Ranked

(* A task that starts gets the next number: it is in no family and on no   *)
(* stack as one that was started.                                          *)
LEMMA RankTaken ==
    ASSUME TypeInv, AccountInv, FamilyInv, NEW n \in Nat, NEW r \in [Tasks -> Nat], Ranked(n, r),
           NEW w \in Workers, NEW t \in Tasks, Take(w, t)
    PROVE  Ranked(n + 1, [r EXCEPT ![t] = n])'
  <1> DEFINE z == [r EXCEPT ![t] = n]
  <1>1. /\ t \in queue /\ UNCHANGED parent
        /\ frames' = [frames EXCEPT ![w] = Append(frames[w], t)]
        /\ runs' = [runs EXCEPT ![t] = runs[t] + 1]
    BY DEF Take, Pop
  <1>2. runs[t] = 0
    BY <1>1 DEF AccountInv
  <1>3. /\ \A u \in Tasks : u # t => z[u] = r[u]
        /\ z[t] = n /\ z \in [Tasks -> Nat]
    OBVIOUS
  <1> HIDE DEF z
  <1>4. \A u \in Tasks : u # t => runs'[u] = runs[u]
    BY <1>1 DEF TypeInv
  <1>5. ASSUME NEW u \in Tasks, runs'[u] # 0 PROVE z[u] < n + 1
    BY <1>3, <1>4, <1>5 DEF Ranked
  <1>6. ASSUME NEW u \in Tasks, runs'[u] # 0, parent'[u] # NoTask PROVE z[parent'[u]] < z[u]
    <2>1. parent[u] \in Tasks /\ runs[parent[u]] # 0 /\ parent'[u] = parent[u]
      BY <1>1, <1>6 DEF TypeInv, FamilyInv
    <2>2. z[parent[u]] = r[parent[u]] /\ r[parent[u]] < n
      BY <1>2, <1>3, <2>1 DEF Ranked
    <2>3. CASE u = t
      BY <1>3, <2>1, <2>2, <2>3
    <2>4. CASE u # t
      BY <1>3, <1>4, <1>6, <2>1, <2>2, <2>4 DEF Ranked
    <2> QED BY <2>3, <2>4
  <1>7. ASSUME NEW v \in Workers, NEW i \in 1 .. Len(frames'[v]) - 1
        PROVE  z[frames'[v][i]] < z[frames'[v][i + 1]]
    <2> DEFINE m == Len(frames[v])
    <2>1. frames[v] \in Seq(Tasks) /\ m \in Nat
      BY DEF TypeInv
    <2>2. \A j \in 1 .. m : frames[v][j] \in Tasks /\ runs[frames[v][j]] # 0
      BY <2>1 DEF AccountInv, OnStack
    <2>3. \A j \in 1 .. m : /\ z[frames[v][j]] = r[frames[v][j]] /\ r[frames[v][j]] < n
      BY <1>2, <1>3, <2>2 DEF Ranked
    <2>4. \A j \in 1 .. m - 1 : r[frames[v][j]] < r[frames[v][j + 1]]
      BY DEF Ranked
    <2>5. CASE v # w
      <3>1. frames'[v] = frames[v]
        BY <1>1, <2>5 DEF TypeInv
      <3>2. i \in 1 .. m - 1 /\ i \in 1 .. m /\ i + 1 \in 1 .. m
        BY <2>1, <3>1
      <3> QED BY <2>3, <2>4, <3>1, <3>2
    <2>6. CASE v = w
      <3>1. /\ Len(frames'[v]) = m + 1 /\ frames'[v][m + 1] = t
            /\ \A j \in 1 .. m : frames'[v][j] = frames[v][j]
        BY <1>1, <2>1, <2>6, PushFrame DEF TypeInv
      <3> HIDE DEF m
      <3>2. CASE i = m
        <4>1. i \in 1 .. m
          BY <2>1, <3>1, <3>2
        <4> QED BY <1>3, <2>3, <3>1, <3>2, <4>1
      <3>3. CASE i # m
        <4>1. i \in 1 .. m - 1 /\ i \in 1 .. m /\ i + 1 \in 1 .. m
          BY <2>1, <3>1, <3>3
        <4> QED BY <2>3, <2>4, <3>1, <4>1
      <3> QED BY <3>2, <3>3
    <2> QED BY <2>5, <2>6
  <1> QED BY <1>5, <1>6, <1>7 DEF Ranked, z

(* RankInv is kept. *)
LEMMA RankStep ==
    TypeInv /\ PlaceInv /\ AccountInv /\ FamilyInv /\ RankInv /\ [Next]_vars => RankInv'
  <1> SUFFICES ASSUME TypeInv, PlaceInv, AccountInv, FamilyInv, RankInv, [Next]_vars
               PROVE  RankInv'
    OBVIOUS
  <1>1. PICK n \in Nat, r \in [Tasks -> Nat] : Ranked(n, r)
    BY DEF RankInv
  <1>2. ASSUME Ranked(n, r)' PROVE RankInv'
    BY <1>2 DEF RankInv
  <1>3. CASE UNCHANGED <<frames, runs, parent>>
    BY <1>1, <1>2, <1>3, RankKept
  <1>4. CASE \E w \in Workers, t \in Tasks : Spawn(w, t)
    <2>1. PICK w \in Workers, t \in Tasks : Spawn(w, t)
      BY <1>4
    <2>2. t \notin enqueued /\ parent' = [parent EXCEPT ![t] = Top(w)] /\ UNCHANGED <<frames, runs>>
      BY <2>1 DEF Spawn, Push
    <2>3. \A u \in Tasks : runs[u] # 0 => parent'[u] = parent[u]
      BY <2>2 DEF AccountInv, TypeInv
    <2> QED BY <1>1, <1>2, <2>2, <2>3, RankKept
  <1>5. CASE \E w \in Workers, t \in Tasks : Take(w, t)
    <2>1. PICK w \in Workers, t \in Tasks : Take(w, t)
      BY <1>5
    <2>2. Ranked(n + 1, [r EXCEPT ![t] = n])'
      BY <1>1, <2>1, RankTaken
    <2>3. n + 1 \in Nat /\ [r EXCEPT ![t] = n] \in [Tasks -> Nat]
      OBVIOUS
    <2> QED BY <2>2, <2>3 DEF RankInv
  <1>6. CASE \E w \in Workers : BodyReturn(w)
    <2>1. PICK w \in Workers : BodyReturn(w)
      BY <1>6
    <2>2. frames' = [frames EXCEPT ![w] = Front(frames[w])] /\ UNCHANGED <<runs, parent>>
      BY <2>1 DEF BodyReturn
    <2>3. frames[w] \in Seq(Tasks) /\ frames[w] # << >>
      BY <2>1 DEF BodyReturn, PlaceInv, InBody, TypeInv
    <2>4. ASSUME NEW v \in Workers, NEW i \in 1 .. Len(frames'[v]) - 1
          PROVE  r[frames'[v][i]] < r[frames'[v][i + 1]]
      <3>1. CASE v # w
        BY <1>1, <2>2, <3>1 DEF TypeInv, Ranked
      <3>2. CASE v = w
        <4> DEFINE m == Len(frames[w])
        <4>1. /\ m \in Nat /\ m >= 1 /\ Len(frames'[w]) = m - 1
              /\ \A j \in 1 .. m - 1 : frames'[w][j] = frames[w][j]
          BY <2>2, <2>3, PopFrame DEF TypeInv
        <4>2. \A j \in 1 .. m - 1 : r[frames[w][j]] < r[frames[w][j + 1]]
          BY <1>1 DEF Ranked
        <4> HIDE DEF m
        <4>3. i \in 1 .. m - 1 /\ i + 1 \in 1 .. m - 1
          BY <3>2, <4>1
        <4> QED BY <3>2, <4>1, <4>2, <4>3
      <3> QED BY <3>1, <3>2
    <2>5. Ranked(n, r)'
      BY <1>1, <2>2, <2>4 DEF Ranked
    <2> QED BY <1>2, <2>5
  <1> QED
    BY <1>3, <1>4, <1>5, <1>6, StepKinds
    DEF Enqueue, Waits, WaitCall, DependencyWait, Await, WaitCheck, TasksStill, taskVars

-----------------------------------------------------------------------------
(* The end *)

(* EndInv is kept: once the destructor has seen an empty runtime, there is *)
(* nothing to take and nobody in a body to enqueue more.                   *)
LEMMA EndStep == TypeInv /\ PlaceInv /\ EndInv /\ [Next]_vars => EndInv'
  <1> SUFFICES ASSUME TypeInv, PlaceInv, EndInv, [Next]_vars PROVE EndInv'
    OBVIOUS
  <1>1. CASE DestroyDrained \/ DestroyStop \/ DestroyNotify \/ DestroyJoin
    BY <1>1 DEF DestroyDrained, DestroyStop, DestroyNotify, DestroyJoin, EndInv
  <1>2. CASE ~(DestroyDrained \/ DestroyStop \/ DestroyNotify \/ DestroyJoin)
    <2>1. UNCHANGED <<running, dpc>>
      BY <1>2
      DEF Next, WorkerStep, DestructorStep, Gone, vars, NotifyOne, Enqueue, LoopTop, Lock, PopTask,
          WokenForShutdown, PredicateFalse, Sleep, SpawnNotify, WaitCheck, Help, BodyReturn,
          SpuriousWakeup, Spawn, WaitCall, DependencyWait, Await
    <2>2. CASE dpc = "alive"
      BY <2>1, <2>2 DEF EndInv
    <2>3. CASE dpc # "alive"
      <3>1. queue = {} /\ \A w \in Workers : frames[w] = << >> /\ wpc[w] \notin InBody
        BY <2>3 DEF EndInv, PlaceInv
      <3>2. UNCHANGED <<queue, frames>>
        BY <2>3, <3>1, StepKinds
        DEF TasksStill, Enqueue, Spawn, Take, Pop, Waits, WaitCall, DependencyWait, Await, BodyReturn,
            WaitCheck, InBody
      <3> QED BY <2>1, <2>3, <3>1, <3>2 DEF EndInv
    <2> QED BY <2>2, <2>3
  <1> QED BY <1>1, <1>2

-----------------------------------------------------------------------------
(* The layers together *)

(* Init establishes every layer. *)
LEMMA InitIInv == Init => IInv
  <1> SUFFICES ASSUME Init PROVE IInv
    OBVIOUS
  <1>1. TypeInv
    BY DEF Init, TypeInv, WorkerStates
  <1>2. PlaceInv
    BY DEF Init, PlaceInv, InBody
  <1>3. \A t \in Tasks : ~OnStack(t)
    <2>1. \A w \in Workers : Len(frames[w]) = 0
      BY DEF Init
    <2> QED BY <2>1 DEF OnStack
  <1>4. AccountInv
    BY <1>3 DEF Init, AccountInv
  <1>5. FamilyInv
    BY DEF Init, FamilyInv
  <1>6. RankInv
    <2> DEFINE r == [t \in Tasks |-> 0]
    <2>1. \A w \in Workers : 1 .. Len(frames[w]) - 1 = {}
      BY DEF Init
    <2>2. Ranked(0, r)
      BY <2>1 DEF Init, Ranked
    <2>3. r \in [Tasks -> Nat]
      OBVIOUS
    <2> HIDE DEF r
    <2> QED BY <2>2, <2>3 DEF RankInv
  <1>7. EndInv
    BY DEF Init, EndInv
  <1> QED BY <1>1, <1>2, <1>4, <1>5, <1>6, <1>7 DEF IInv

(* Every step keeps every layer. *)
LEMMA NextIInv == IInv /\ [Next]_vars => IInv'
  BY PlaceStep, TypeStep, AccountStep, FamilyStep, RankStep, EndStep DEF IInv

(* The inductive invariant of the baseline runtime. *)
THEOREM Invariance == Spec => []IInv
  <1>1. Init => IInv
    BY InitIInv
  <1>2. IInv /\ [Next]_vars => IInv'
    BY NextIInv
  <1> QED BY <1>1, <1>2, PTL DEF Spec

(* When the destructor clears running_, every task given to                *)
(* enqueue_ready() has been executed, once, and has ended.                 *)
THEOREM NothingDiscardedHolds == Spec => []NothingDiscarded
  <1>1. IInv => NothingDiscarded
    <2> SUFFICES ASSUME IInv, ~running, NEW t \in enqueued
                 PROVE  runs[t] = 1 /\ t \in finished
      BY DEF NothingDiscarded
    <2>1. queue = {} /\ \A w \in Workers : frames[w] = << >>
      BY DEF IInv, EndInv
    <2>2. ~OnStack(t)
      <3>1. \A w \in Workers : Len(frames[w]) = 0
        BY <2>1
      <3> QED BY <3>1 DEF OnStack
    <2> QED BY <2>1, <2>2 DEF IInv, TypeInv, AccountInv
  <1> QED BY <1>1, Invariance, PTL

(* A set of numbered tasks has a last one. *)
LEMMA LastOfMany ==
    ASSUME NEW n \in Nat, NEW r \in [Tasks -> Nat], NEW S \in SUBSET Tasks, S # {},
           \A t \in S : r[t] < n
    PROVE  \E t \in S : \A u \in S : ~(r[t] < r[u])
  <1> DEFINE T == {n - r[t] : t \in S}
             R == OpToRel(<, Nat)
  <1>1. T \subseteq Nat /\ T # {}
    OBVIOUS
  <1>2. \A i, j \in Nat : i < j <=> <<i, j>> \in R
    BY DEF OpToRel
  <1>3. IsWellFoundedOn(R, Nat)
    BY NatLessThanWellFounded
  <1> HIDE DEF R, T
  <1>4. PICK x \in T : \A y \in T : ~(<<y, x>> \in R)
    BY <1>1, <1>3, WFMin
  <1>5. PICK t \in S : x = n - r[t]
    BY DEF T
  <1>6. ASSUME NEW u \in S PROVE ~(r[t] < r[u])
    <2>1. n - r[u] \in T
      BY DEF T
    <2>2. ~(n - r[u] < n - r[t])
      BY <1>1, <1>2, <1>4, <1>5, <2>1
    <2>3. r[u] \in Nat /\ r[t] \in Nat
      OBVIOUS
    <2> QED BY <2>2, <2>3
  <1> QED BY <1>6

(* As long as bodies wait for their own children only, no ring of waits    *)
(* and stacks closes, whatever the helpers pick up: in any set of tasks    *)
(* the one that was started last is stuck behind none of the others.       *)
THEOREM NoRingOfWaitsHolds == Spec => []NoRingOfWaits
  <1>1. IInv => NoRingOfWaits
    <2> SUFFICES ASSUME IInv, ~exhausted, NEW S \in SUBSET Tasks, S # {},
                        \A t \in S : \E u \in S : Behind(t, u)
                 PROVE  FALSE
      BY DEF NoRingOfWaits
    <2>1. PICK n \in Nat, r \in [Tasks -> Nat] : Ranked(n, r)
      BY DEF IInv, RankInv
    <2>2. ASSUME NEW t \in Tasks, NEW u \in Tasks, Behind(t, u)
          PROVE  runs[t] # 0 /\ (runs[u] # 0 => r[t] < r[u])
      <3>1. CASE awaits[t] = u
        <4>1. runs[t] # 0 /\ parent[u] = t
          BY <3>1, NoneAssumption DEF IInv, FamilyInv
        <4> QED BY <2>1, <4>1, NoneAssumption DEF Ranked
      <3>2. CASE \E w \in Workers : \E i \in 1 .. Len(frames[w]) - 1 :
                     frames[w][i] = t /\ frames[w][i + 1] = u
        <4>1. PICK w \in Workers : \E i \in 1 .. Len(frames[w]) - 1 :
                     frames[w][i] = t /\ frames[w][i + 1] = u
          BY <3>2
        <4>2. PICK i \in 1 .. Len(frames[w]) - 1 : frames[w][i] = t /\ frames[w][i + 1] = u
          BY <4>1
        <4>3. Len(frames[w]) \in Nat
          BY DEF IInv, TypeInv
        <4>4. i \in 1 .. Len(frames[w])
          BY <4>3
        <4>5. runs[t] # 0
          BY <4>2, <4>4 DEF IInv, AccountInv, OnStack
        <4> QED BY <2>1, <4>2, <4>5 DEF Ranked
      <3> QED BY <2>2, <3>1, <3>2 DEF Behind
    <2>3. \A t \in S : runs[t] # 0
      BY <2>2
    <2>4. PICK t \in S : \A u \in S : ~(r[t] < r[u])
      <3>1. \A t \in S : r[t] < n
        BY <2>1, <2>3 DEF Ranked
      <3> QED BY <3>1, LastOfMany
    <2> QED BY <2>2, <2>3, <2>4
  <1> QED BY <1>1, Invariance, PTL

-----------------------------------------------------------------------------
(* The aging mode.  popIndex counts a worker's pops within a period, and   *)
(* passed cannot be more than one ahead of it: one steal in the period is  *)
(* not counted as a pop.                                                   *)

AgingPlaces == {"acquire", "local", "global", "drain", "steal", "body"}

AgingTypeInv ==
    /\ \A p \in Priorities : global[p] \in Seq(PriorityTasks)
    /\ global = [p \in Priorities |-> global[p]]
    /\ popIndex \in [Poppers -> 0 .. AgingInterval - 1]
    /\ apc \in [Poppers -> AgingPlaces]
    /\ passed \in [Poppers -> Nat]

(* Nothing in the global queue has waited for worker w. *)
NothingPassed(w) == global[2] = << >> \/ passed[w] = 0

PassedInv ==
    \A w \in Poppers :
        /\ passed[w] <= popIndex[w] + 1
        /\ FavoursLowest(w) /\ apc[w] \in {"local", "global"} => NothingPassed(w)
        /\ apc[w] = "steal" => NothingPassed(w)

AgingIInv == AgingTypeInv /\ PassedInv

(* A scan from below finds the background queue when it is not empty, and  *)
(* any scan of a queue that is not empty finds something.                  *)
LEMMA LowestFirst ==
    ASSUME NEW q, ~Empty(q)
    PROVE  /\ Lowest(q) \in Priorities /\ q[Lowest(q)] # << >>
           /\ q[2] # << >> => Lowest(q) = 2
<1>1. CASE q[2] # << >>
  <2>1. 2 \in Priorities /\ \A r \in 2 + 1 .. 2 : q[r] = << >>
    BY DEF Priorities
  <2>2. \A p \in Priorities : p # 2 => 2 \in p + 1 .. 2
    BY DEF Priorities
  <2> QED BY <1>1, <2>1, <2>2 DEF Lowest
<1>2. CASE q[2] = << >>
  <2>1. \E p \in {0, 1} : q[p] # << >> /\ \A r \in p + 1 .. 2 : q[r] = << >>
    <3>1. CASE q[1] # << >>
      BY <1>2, <3>1
    <3>2. CASE q[1] = << >>
      <4>1. q[0] # << >>
        BY <1>2, <3>2 DEF Empty, Priorities
      <4>2. \A r \in 0 + 1 .. 2 : q[r] = << >>
        BY <1>2, <3>2
      <4> QED BY <4>1, <4>2
    <3> QED BY <3>1, <3>2
  <2>2. \A p \in {0, 1} : p \in Priorities
    BY DEF Priorities
  <2> QED BY <1>2, <2>1, <2>2 DEF Lowest
<1> QED BY <1>1, <1>2

(* The same of a scan from above. *)
LEMMA HighestFound ==
    ASSUME NEW q, ~Empty(q)
    PROVE  Highest(q) \in Priorities /\ q[Highest(q)] # << >>
<1>1. \E p \in Priorities : q[p] # << >> /\ \A r \in 0 .. p - 1 : q[r] = << >>
  <2>1. CASE q[0] # << >>
    BY <2>1 DEF Priorities
  <2>2. CASE q[0] = << >> /\ q[1] # << >>
    <3>1. \A r \in 0 .. 1 - 1 : q[r] = << >>
      BY <2>2
    <3> QED BY <2>2, <3>1 DEF Priorities
  <2>3. CASE q[0] = << >> /\ q[1] = << >>
    <3>1. \A r \in 0 .. 2 - 1 : q[r] = << >>
      BY <2>3
    <3>2. q[2] # << >>
      BY <2>3 DEF Empty, Priorities
    <3> QED BY <3>1, <3>2 DEF Priorities
  <2> QED BY <2>1, <2>2, <2>3
<1> QED BY <1>1 DEF Highest

(* Taking the first task of a global queue leaves the others, and an empty *)
(* background queue, as they are.                                          *)
LEMMA PopGlobalType ==
    ASSUME AgingTypeInv, NEW p \in Priorities, global[p] # << >>, PopGlobal(p)
    PROVE  /\ \A r \in Priorities : global'[r] \in Seq(PriorityTasks)
           /\ global' = [r \in Priorities |-> global'[r]]
           /\ global[2] = << >> => global'[2] = << >>
<1>1. Tail(global[p]) \in Seq(PriorityTasks)
  BY DEF AgingTypeInv
<1>2. \A r \in Priorities : global'[r] = IF r = p THEN Tail(global[p]) ELSE global[r]
  BY DEF AgingTypeInv, PopGlobal
<1>3. 2 \in Priorities
  BY DEF Priorities
<1> QED BY <1>1, <1>2, <1>3 DEF AgingTypeInv, PopGlobal

(* The steps of one worker leave the others with less to wait for.         *)
LEMMA OthersKeep ==
    ASSUME AgingIInv, NEW w \in Poppers, AgingTypeInv',
           global[2] = << >> => global'[2] = << >>,
           \A v \in Poppers \ {w} : /\ popIndex'[v] = popIndex[v] /\ apc'[v] = apc[v]
                                    /\ passed'[v] = passed[v],
           passed'[w] <= popIndex'[w] + 1,
           popIndex'[w] = AgingInterval - 1 /\ apc'[w] \in {"local", "global"} =>
               global'[2] = << >> \/ passed'[w] = 0,
           apc'[w] = "steal" => global'[2] = << >> \/ passed'[w] = 0
    PROVE  AgingIInv'
BY DEF AgingIInv, PassedInv, FavoursLowest, NothingPassed

(* The invariant holds at the start.                                       *)
LEMMA AgingInitInv == AgingInit => AgingIInv
<1> SUFFICES ASSUME AgingInit PROVE AgingIInv
  OBVIOUS
<1> USE AgingAssumption DEF AgingInit
<1>1. AgingTypeInv
  BY DEF AgingTypeInv, AgingPlaces
<1>2. PassedInv
  BY DEF PassedInv, FavoursLowest, NothingPassed
<1> QED BY <1>1, <1>2 DEF AgingIInv

(* What Got does to the count and the place of its worker.                 *)
LEMMA GotCounts ==
    ASSUME AgingTypeInv, NEW w \in Poppers, NEW t, NEW next \in AgingPlaces, Got(w, t, next)
    PROVE  /\ passed' \in [Poppers -> Nat] /\ apc' \in [Poppers -> AgingPlaces]
           /\ apc'[w] = next
           /\ passed'[w] <= passed[w] + 1
           /\ global[2] = << >> \/ t = Head(global[2]) => passed'[w] = 0
           /\ \A v \in Poppers \ {w} : apc'[v] = apc[v] /\ passed'[v] = passed[v]
<1>1. passed'[w] = IF global[2] # << >> /\ Head(global[2]) # t THEN passed[w] + 1 ELSE 0
  BY DEF AgingTypeInv, Got
<1> QED BY <1>1 DEF AgingTypeInv, Got

(* A counted pop ends the period or goes one further in it.                *)
LEMMA PopCounts ==
    ASSUME AgingTypeInv, NEW w \in Poppers, CountPop(w)
    PROVE  /\ popIndex' \in [Poppers -> 0 .. AgingInterval - 1]
           /\ \A v \in Poppers \ {w} : popIndex'[v] = popIndex[v]
           /\ popIndex'[w] = IF FavoursLowest(w) THEN 0 ELSE popIndex[w] + 1
<1>1. popIndex[w] \in 0 .. AgingInterval - 1 /\ AgingInterval \in Nat \ {0}
  BY AgingAssumption DEF AgingTypeInv
<1>2. (popIndex[w] + 1) % AgingInterval =
          IF popIndex[w] = AgingInterval - 1 THEN 0 ELSE popIndex[w] + 1
  BY <1>1
<1> QED BY <1>1, <1>2 DEF AgingTypeInv, CountPop, FavoursLowest

(* A worker that gets a task by a counted pop: on an aging turn it passed  *)
(* none, or got the first background task; else the count and the index    *)
(* grow together.                                                          *)
LEMMA PopStep ==
    ASSUME AgingIInv, NEW w \in Poppers, NEW t, NEW next \in {"body", "drain"},
           Got(w, t, next), CountPop(w),
           \A p \in Priorities : global'[p] \in Seq(PriorityTasks),
           global' = [p \in Priorities |-> global'[p]],
           global[2] = << >> => global'[2] = << >>,
           FavoursLowest(w) => NothingPassed(w) \/ global[2] = << >> \/ t = Head(global[2])
    PROVE  AgingIInv'
<1>0. AgingTypeInv /\ next \in AgingPlaces /\ 2 \in Priorities
  BY DEF AgingIInv, AgingPlaces, Priorities
<1>1. /\ passed' \in [Poppers -> Nat] /\ apc' \in [Poppers -> AgingPlaces]
      /\ apc'[w] = next
      /\ passed'[w] <= passed[w] + 1
      /\ global[2] = << >> \/ t = Head(global[2]) => passed'[w] = 0
      /\ \A v \in Poppers \ {w} : apc'[v] = apc[v] /\ passed'[v] = passed[v]
  BY <1>0, GotCounts
<1>2. /\ popIndex' \in [Poppers -> 0 .. AgingInterval - 1]
      /\ \A v \in Poppers \ {w} : popIndex'[v] = popIndex[v]
      /\ popIndex'[w] = IF FavoursLowest(w) THEN 0 ELSE popIndex[w] + 1
  BY <1>0, PopCounts
<1>3. AgingTypeInv'
  BY <1>1, <1>2 DEF AgingTypeInv
<1>4. passed[w] <= popIndex[w] + 1 /\ passed[w] \in Nat /\ popIndex[w] \in Nat
  BY <1>0 DEF AgingIInv, PassedInv, AgingTypeInv
<1>5. passed'[w] <= popIndex'[w] + 1
  <2>1. CASE FavoursLowest(w)
    <3>1. passed[w] = 0 \/ passed'[w] = 0
      BY <1>1, <2>1 DEF NothingPassed
    <3>2. passed'[w] <= 1
      BY <1>1, <1>4, <3>1
    <3> QED BY <1>2, <2>1, <3>2
  <2>2. CASE ~FavoursLowest(w)
    <3>1. popIndex'[w] = popIndex[w] + 1
      BY <1>2, <2>2
    <3>2. passed'[w] \in Nat
      BY <1>1
    <3> QED BY <1>1, <1>4, <3>1, <3>2
  <2> QED BY <2>1, <2>2
<1>6. apc'[w] \notin {"local", "global", "steal"}
  BY <1>1
<1> QED BY <1>1, <1>2, <1>3, <1>5, <1>6, OthersKeep

(* A step that only moves the worker to another place, where it looks on.  *)
LEMMA LookOn ==
    ASSUME AgingIInv, NEW w \in Poppers, NEW next \in AgingPlaces,
           apc' = [apc EXCEPT ![w] = next], UNCHANGED <<global, popIndex, passed>>,
           FavoursLowest(w) /\ next \in {"local", "global"} => NothingPassed(w),
           next = "steal" => NothingPassed(w)
    PROVE  AgingIInv'
<1>1. AgingTypeInv'
  BY DEF AgingIInv, AgingTypeInv
<1>2. apc'[w] = next /\ \A v \in Poppers \ {w} : apc'[v] = apc[v]
  BY DEF AgingIInv, AgingTypeInv
<1>3. passed'[w] <= popIndex'[w] + 1
  BY DEF AgingIInv, PassedInv
<1> QED BY <1>1, <1>2, <1>3, OthersKeep DEF FavoursLowest, NothingPassed

(* Submitting: whoever was before the aging turn with nothing passed keeps *)
(* that, because a queue that was empty starts the counts again.           *)
LEMMA AgingSubmit ==
    ASSUME AgingIInv, NEW t \in PriorityTasks, Submit(t)
    PROVE  AgingIInv'
<1>1. Priority(t) \in Priorities /\ 2 \in Priorities
  BY DEF Priority, Priorities
<1>2. \A p \in Priorities : global'[p] = IF p = Priority(t) THEN Append(global[p], t)
                                                           ELSE global[p]
  BY <1>1 DEF AgingIInv, AgingTypeInv, Submit
<1>3. \A p \in Priorities : global'[p] \in Seq(PriorityTasks)
  <2> TAKE p \in Priorities
  <2>1. global[p] \in Seq(PriorityTasks)
    BY DEF AgingIInv, AgingTypeInv
  <2>2. Append(global[p], t) \in Seq(PriorityTasks)
    BY <2>1
  <2> QED BY <1>2, <2>1, <2>2
<1>4. global' = [p \in Priorities |-> global'[p]]
  BY <1>1 DEF AgingIInv, AgingTypeInv, Submit
<1>5. UNCHANGED <<popIndex, apc>>
  BY DEF Submit
<1>6. CASE global[2] = << >>
  <2>1. passed' = [w \in Poppers |-> 0]
    BY <1>6 DEF Submit
  <2>2. AgingTypeInv'
    BY <1>3, <1>4, <1>5, <2>1 DEF AgingIInv, AgingTypeInv
  <2>3. PassedInv'
    BY <1>5, <2>1 DEF AgingIInv, AgingTypeInv, PassedInv, FavoursLowest, NothingPassed
  <2> QED BY <2>2, <2>3 DEF AgingIInv
<1>7. CASE global[2] # << >>
  <2>1. passed' = passed
    BY <1>7 DEF Submit
  <2>2. AgingTypeInv'
    BY <1>3, <1>4, <1>5, <2>1 DEF AgingIInv, AgingTypeInv
  <2>3. PassedInv'
    BY <1>5, <1>7, <2>1 DEF AgingIInv, PassedInv, FavoursLowest, NothingPassed
  <2> QED BY <2>2, <2>3 DEF AgingIInv
<1> QED BY <1>6, <1>7

(* AgingTurn.                                                              *)
LEMMA AgingTurnStep ==
    ASSUME AgingIInv, NEW w \in Poppers, AgingTurn(w)
    PROVE  AgingIInv'
<1>0. AgingTypeInv
  BY DEF AgingIInv
<1>1. CASE FavoursLowest(w) /\ ~Empty(global)
  <2> DEFINE p == Lowest(global)
  <2>1. PopGlobal(p) /\ CountPop(w) /\ Got(w, Head(global[p]), "body")
    BY <1>1 DEF AgingTurn
  <2>2. p \in Priorities /\ global[p] # << >> /\ (global[2] # << >> => p = 2)
    BY <1>1, LowestFirst
  <2> HIDE DEF p
  <2>3. /\ \A r \in Priorities : global'[r] \in Seq(PriorityTasks)
        /\ global' = [r \in Priorities |-> global'[r]]
        /\ global[2] = << >> => global'[2] = << >>
    BY <1>0, <2>1, <2>2, PopGlobalType
  <2> QED BY <2>1, <2>2, <2>3, PopStep
<1>2. CASE ~(FavoursLowest(w) /\ ~Empty(global))
  <2>1. apc' = [apc EXCEPT ![w] = "local"] /\ UNCHANGED <<global, popIndex, passed>>
    BY <1>2 DEF AgingTurn
  <2>2. FavoursLowest(w) => NothingPassed(w)
    BY <1>2 DEF Empty, NothingPassed, Priorities
  <2>3. "local" \in AgingPlaces
    BY DEF AgingPlaces
  <2> QED BY <2>1, <2>2, <2>3, LookOn
<1> QED BY <1>1, <1>2

(* PopLocal: on an aging turn the global queue has nothing that waited.    *)
LEMMA PopLocalStep ==
    ASSUME AgingIInv, NEW w \in Poppers, PopLocal(w)
    PROVE  AgingIInv'
<1>0. AgingTypeInv /\ (FavoursLowest(w) => NothingPassed(w))
  BY DEF AgingIInv, PassedInv, PopLocal
<1>1. CASE Empty(local[w])
  <2>1. apc' = [apc EXCEPT ![w] = "global"] /\ UNCHANGED <<global, popIndex, passed>>
    BY <1>1 DEF PopLocal
  <2>2. "global" \in AgingPlaces
    BY DEF AgingPlaces
  <2> QED BY <1>0, <2>1, <2>2, LookOn
<1>2. CASE ~Empty(local[w])
  <2>1. PICK t : CountPop(w) /\ Got(w, t, "body")
    BY <1>2 DEF PopLocal
  <2>2. UNCHANGED global
    BY DEF PopLocal
  <2> QED BY <1>0, <2>1, <2>2, PopStep DEF AgingTypeInv
<1> QED BY <1>1, <1>2

(* DrainFirst.                                                             *)
LEMMA DrainFirstStep ==
    ASSUME AgingIInv, NEW w \in Poppers, DrainFirst(w)
    PROVE  AgingIInv'
<1>0. AgingTypeInv /\ (FavoursLowest(w) => NothingPassed(w))
  BY DEF AgingIInv, PassedInv, DrainFirst
<1>1. CASE Empty(global)
  <2>1. apc' = [apc EXCEPT ![w] = "steal"] /\ UNCHANGED <<global, popIndex, passed>>
    BY <1>1 DEF DrainFirst
  <2>2. NothingPassed(w)
    BY <1>1 DEF Empty, NothingPassed, Priorities
  <2>3. "steal" \in AgingPlaces
    BY DEF AgingPlaces
  <2> QED BY <2>1, <2>2, <2>3, LookOn
<1>2. CASE ~Empty(global)
  <2> DEFINE p == Scan(w, global)
  <2>1. PopGlobal(p) /\ CountPop(w) /\ Got(w, Head(global[p]), "drain")
    BY <1>2 DEF DrainFirst
  <2>2. p \in Priorities /\ global[p] # << >>
    BY <1>2, LowestFirst, HighestFound DEF Scan
  <2> HIDE DEF p
  <2>3. /\ \A r \in Priorities : global'[r] \in Seq(PriorityTasks)
        /\ global' = [r \in Priorities |-> global'[r]]
        /\ global[2] = << >> => global'[2] = << >>
    BY <1>0, <2>1, <2>2, PopGlobalType
  <2> QED BY <1>0, <2>1, <2>3, PopStep
<1> QED BY <1>1, <1>2

(* DrainMore counts nothing.                                               *)
LEMMA DrainMoreStep ==
    ASSUME AgingIInv, NEW w \in Poppers, DrainMore(w)
    PROVE  AgingIInv'
<1>0. AgingTypeInv /\ UNCHANGED <<popIndex, passed>>
  BY DEF AgingIInv, DrainMore
<1>1. CASE drained[w] < DrainBatch /\ ~Empty(global)
  <2> DEFINE p == Highest(global)
  <2>1. PopGlobal(p) /\ UNCHANGED apc
    BY <1>1 DEF DrainMore
  <2>2. p \in Priorities /\ global[p] # << >>
    BY <1>1, HighestFound
  <2> HIDE DEF p
  <2>3. /\ \A r \in Priorities : global'[r] \in Seq(PriorityTasks)
        /\ global' = [r \in Priorities |-> global'[r]]
        /\ global[2] = << >> => global'[2] = << >>
    BY <1>0, <2>1, <2>2, PopGlobalType
  <2>4. AgingTypeInv'
    BY <1>0, <2>1, <2>3 DEF AgingTypeInv
  <2> QED BY <1>0, <2>1, <2>3, <2>4 DEF AgingIInv, PassedInv, FavoursLowest, NothingPassed
<1>2. CASE ~(drained[w] < DrainBatch /\ ~Empty(global))
  <2>1. apc' = [apc EXCEPT ![w] = "body"] /\ UNCHANGED <<global, popIndex, passed>>
    BY <1>0, <1>2 DEF DrainMore
  <2>2. "body" \in AgingPlaces
    BY DEF AgingPlaces
  <2> QED BY <2>1, <2>2, LookOn
<1> QED BY <1>1, <1>2

(* Steal is not counted as a pop, but nothing has been passed before it.   *)
LEMMA StealStep ==
    ASSUME AgingIInv, NEW w \in Poppers, Steal(w)
    PROVE  AgingIInv'
<1>0. AgingTypeInv /\ NothingPassed(w) /\ UNCHANGED <<global, popIndex>>
  BY DEF AgingIInv, PassedInv, Steal
<1>1. CASE \A v \in Poppers \ {w} : Empty(local[v])
  <2>1. apc' = [apc EXCEPT ![w] = "acquire"] /\ UNCHANGED <<global, popIndex, passed>>
    BY <1>0, <1>1 DEF Steal
  <2>2. "acquire" \in AgingPlaces
    BY DEF AgingPlaces
  <2> QED BY <1>0, <2>1, <2>2, LookOn
<1>2. CASE ~\A v \in Poppers \ {w} : Empty(local[v])
  <2>1. PICK t : Got(w, t, "body")
    BY <1>2 DEF Steal
  <2>2. /\ passed' \in [Poppers -> Nat] /\ apc' \in [Poppers -> AgingPlaces]
        /\ apc'[w] = "body"
        /\ passed'[w] <= passed[w] + 1
        /\ global[2] = << >> \/ t = Head(global[2]) => passed'[w] = 0
        /\ \A v \in Poppers \ {w} : apc'[v] = apc[v] /\ passed'[v] = passed[v]
    BY <1>0, <2>1, GotCounts DEF AgingPlaces
  <2>3. AgingTypeInv'
    BY <1>0, <2>2 DEF AgingTypeInv
  <2>4. passed'[w] <= 1 /\ passed'[w] \in Nat /\ popIndex'[w] \in Nat
    BY <1>0, <2>2 DEF NothingPassed, AgingTypeInv
  <2>5. passed'[w] <= popIndex'[w] + 1
    BY <2>4
  <2> QED BY <1>0, <2>2, <2>3, <2>5, OthersKeep
<1> QED BY <1>1, <1>2

(* Every step keeps the invariant.                                         *)
LEMMA AgingNextInv == AgingIInv /\ [AgingNext]_agingVars => AgingIInv'
<1> SUFFICES ASSUME AgingIInv, [AgingNext]_agingVars PROVE AgingIInv'
  OBVIOUS
<1>1. CASE UNCHANGED agingVars
  BY <1>1 DEF agingVars, AgingIInv, AgingTypeInv, PassedInv, FavoursLowest, NothingPassed
<1>2. ASSUME NEW t \in PriorityTasks, Submit(t)
      PROVE  AgingIInv'
  BY <1>2, AgingSubmit
<1>3. ASSUME NEW w \in Poppers, NEW t \in PriorityTasks, SpawnLocal(w, t)
      PROVE  AgingIInv'
  BY <1>3 DEF SpawnLocal, AgingIInv, AgingTypeInv, PassedInv, FavoursLowest, NothingPassed
<1>4. ASSUME NEW w \in Poppers, AgingBodyReturn(w)
      PROVE  AgingIInv'
  <2>1. apc' = [apc EXCEPT ![w] = "acquire"] /\ UNCHANGED <<global, popIndex, passed>>
    BY <1>4 DEF AgingBodyReturn
  <2>2. "acquire" \in AgingPlaces
    BY DEF AgingPlaces
  <2> QED BY <2>1, <2>2, LookOn
<1>5. ASSUME NEW w \in Poppers, PopperStep(w)
      PROVE  AgingIInv'
  BY <1>4, <1>5, AgingTurnStep, PopLocalStep, DrainFirstStep, DrainMoreStep, StealStep
     DEF PopperStep
<1> QED BY <1>1, <1>2, <1>3, <1>5 DEF AgingNext

(* AgingBound: no worker runs more than AgingInterval tasks while the      *)
(* background tasks of the global queue stay there.                        *)
THEOREM BackgroundIsNotPassed == AgingSpec => []AgingBound
<1>1. AgingIInv => AgingBound
  <2> SUFFICES ASSUME AgingIInv, NEW w \in Poppers PROVE passed[w] <= AgingInterval
    BY DEF AgingBound
  <2>1. popIndex[w] \in 0 .. AgingInterval - 1 /\ passed[w] \in Nat /\ AgingInterval \in Nat
    BY AgingAssumption DEF AgingIInv, AgingTypeInv
  <2>2. passed[w] <= popIndex[w] + 1
    BY DEF AgingIInv, PassedInv
  <2> QED BY <2>1, <2>2
<1> QED BY <1>1, AgingInitInv, AgingNextInv, PTL DEF AgingSpec

=============================================================================
