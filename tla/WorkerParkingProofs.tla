------------------------- MODULE WorkerParkingProofs -------------------------
(***************************************************************************)
(* Theorems about WorkerParking for every number of workers, submitters    *)
(* and tasks, both schedulers, and every value of the three limits.        *)
(*                                                                         *)
(* The inductive invariant is built in layers:                             *)
(*   PlaceInv    the ranges, and what a thread's place says of its locals; *)
(*   CountInv    sleeping_ counts the workers between ParkCount and Woken; *)
(*   ModeInv     each scheduler leaves the queues of the other one empty;  *)
(*   TaskInv     every task is held by one queue or one worker, once;      *)
(*   ScanInv     what a worker on its way to sleep has already looked at;  *)
(*   SleepInv    when all sleep and nobody is about to notify, no queue    *)
(*               holds anything;                                           *)
(*   EndInv      what DestroyDrained has established.                      *)
(***************************************************************************)
EXTENDS WorkerParking, FiniteSetTheorems, TLAPS

Draining == {"drain", "drainPush"}
Bodies   == {"body", "spawnReadSleeping", "spawnLock", "spawnNotify"}
Parking  == {"parkRunning", "parkGlobal", "parkScan"}
Counted  == Parking \cup {"asleep", "woken"}
Stealing == {"local", "global", "steal", "stealCas"} \cup Draining

WorkerStates    == {"loop", "inbox", "park", "exited"} \cup Stealing \cup Bodies \cup Counted
SubmitterStates == {"idle", "readSleeping", "lock", "notify"}

-----------------------------------------------------------------------------
(* The ranges of the variables that all threads share ... *)
RangeInv ==
    /\ mode \in Modes
    /\ cursor \in Workers
    /\ sleeping \in Int
    /\ mutex \in Workers \cup {Nobody}
    /\ running \in BOOLEAN
    /\ spc \in [Submitters -> SubmitterStates]
    /\ dpc \in {"alive", "stop", "notify", "join", "gone"}
    /\ enqueued \subseteq Tasks

(* ... and of the places and counters of the workers. *)
PcInv    == wpc \in [Workers -> WorkerStates]
RunsInv  == runs \in [Tasks -> Nat]
LocalInv ==
    /\ toScan \in [Workers -> SUBSET Workers]
    /\ drained \in [Workers -> 0 .. DrainBatch]
    /\ spins \in [Workers -> 0 .. SpinLimit - 1]

(* The queues hold tasks, a deque no more than its capacity. *)
QueueInv ==
    /\ global \in Seq(Tasks)
    /\ deque \in [Workers -> Seq(Tasks)]
    /\ inbox \in [Workers -> Seq(Tasks)]
    /\ \A w \in Workers : Len(deque[w]) <= DequeCapacity

(* What a worker has in hand, by its place. *)
HandInv ==
    /\ hand \in [Workers -> Tasks \cup {NoTask}]
    /\ extra \in [Workers -> Tasks \cup {NoTask}]
    /\ \A w \in Workers :
        /\ wpc[w] \in Draining \cup Bodies => hand[w] \in Tasks
        /\ extra[w] \in Tasks <=> wpc[w] = "drainPush"

(* What its CAS is aimed at: a victim, and the task read from it. *)
AimInv ==
    /\ aim \in [Workers -> (Workers \X Tasks) \cup {NoAim}]
    /\ \A w \in Workers : wpc[w] = "stealCas" <=> aim[w] # NoAim

(* sleep_mutex_ and sleep_cv_: held by the one worker between ParkCount    *)
(* and its sleep, waited on by the workers that sleep.                     *)
LockInv ==
    /\ asleep = {w \in Workers : wpc[w] = "asleep"}
    /\ \A w \in Workers : wpc[w] \in Parking <=> mutex = w

TypeInv  == RangeInv /\ PcInv /\ RunsInv /\ LocalInv /\ QueueInv /\ HandInv /\ AimInv
PlaceInv == TypeInv /\ LockInv

CountedWorkers == {w \in Workers : wpc[w] \in Counted}

CountInv == sleeping = Cardinality(CountedWorkers)

ModeInv ==
    /\ mode = "Static" => /\ global = << >>
                          /\ \A w \in Workers : deque[w] = << >> /\ wpc[w] \notin Stealing
    /\ mode # "Static" => \A w \in Workers : inbox[w] = << >> /\ wpc[w] # "inbox"

-----------------------------------------------------------------------------
(* Where a task can be held: the global queue, a deque, an inbox, on its   *)
(* way from the one to the other, or in the hand of a worker that goes on  *)
(* draining before it runs it.                                             *)
Kinds == {"global", "deque", "inbox", "extra", "hand"}
Homes == Kinds \X Workers

InQueue(q, t) == \E i \in 1 .. Len(q) : q[i] = t
NoRepeat(q)   == \A i, j \in 1 .. Len(q) : q[i] = q[j] => i = j

Holds(k, w, t) ==
    \/ k = "global" /\ w = 0 /\ InQueue(global, t)
    \/ k = "deque" /\ InQueue(deque[w], t)
    \/ k = "inbox" /\ InQueue(inbox[w], t)
    \/ k = "extra" /\ extra[w] = t
    \/ k = "hand" /\ hand[w] = t /\ wpc[w] \in Draining

Held == {p \in Homes \X Tasks : Holds(p[1][1], p[1][2], p[2])}

(* A task that was enqueued is held by one home until it is run, and then  *)
(* by none; a task that was not is held by none.                           *)
AccountInv ==
    \A t \in Tasks :
        /\ t \notin enqueued => runs[t] = 0
        /\ t \in enqueued => runs[t] \in {0, 1}
        /\ t \notin enqueued \/ runs[t] = 1 => \A h \in Homes : <<h, t>> \notin Held
        /\ t \in enqueued /\ runs[t] = 0 =>
            \E h \in Homes : \A k \in Homes : <<k, t>> \in Held <=> k = h

(* ... and by one position of it, when that is a queue. *)
RepeatInv ==
    /\ NoRepeat(global)
    /\ \A w \in Workers : NoRepeat(deque[w]) /\ NoRepeat(inbox[w])

TaskInv == AccountInv /\ RepeatInv

-----------------------------------------------------------------------------
(* The queue of worker v that its scheduler uses. *)
OwnQueue(v) == IF mode = "Static" THEN inbox[v] ELSE deque[v]

(* Some submitter has published a task and not yet passed sleep_mutex_: it *)
(* will, after the worker that holds it now.                               *)
BeforeLock == \E s \in Submitters : spc[s] \in {"readSleeping", "lock"}

(* A worker in any_work_available(), while all others sleep and no         *)
(* submitter is before its lock, can rely on what it has looked at.        *)
ScanInv ==
    \A w \in Workers :
        /\ wpc[w] = "parkScan"
        /\ \A v \in Workers \ {w} : wpc[v] = "asleep"
        /\ ~BeforeLock
        => /\ global = << >>
           /\ \A v \in Workers \ toScan[w] : OwnQueue(v) = << >>

(* All asleep and nobody about to wake one: nothing is queued. *)
SleepInv ==
    (\A w \in Workers : wpc[w] = "asleep") /\ ~WakeupPending
    => global = << >> /\ \A v \in Workers : OwnQueue(v) = << >>

(* The destructor is past its wait_all(): everything enqueued has run, and *)
(* no body is left that could enqueue more.                                *)
EndInv ==
    /\ running <=> dpc \in {"alive", "stop"}
    /\ dpc # "alive" => /\ \A t \in enqueued : runs[t] = 1
                        /\ \A w \in Workers : wpc[w] \notin Bodies

IInv == PlaceInv /\ CountInv /\ ModeInv /\ TaskInv /\ ScanInv /\ SleepInv /\ EndInv

-----------------------------------------------------------------------------
(* Queues: what the operations on them do to the tasks they hold. *)

(* push_back and push *)
LEMMA AppendFacts ==
    ASSUME NEW q \in Seq(Tasks), NEW t \in Tasks
    PROVE  /\ Append(q, t) \in Seq(Tasks)
           /\ Len(Append(q, t)) = Len(q) + 1
           /\ \A u \in Tasks : InQueue(Append(q, t), u) <=> InQueue(q, u) \/ u = t
           /\ NoRepeat(q) /\ ~InQueue(q, t) => NoRepeat(Append(q, t))
           /\ Append(q, t) # << >>
  <1>1. /\ Append(q, t) \in Seq(Tasks)
        /\ Len(Append(q, t)) = Len(q) + 1
        /\ \A i \in 1 .. Len(q) : Append(q, t)[i] = q[i]
        /\ Append(q, t)[Len(q) + 1] = t
        /\ Len(q) \in Nat
    OBVIOUS
  <1> DEFINE r == Append(q, t)
  <1>2. r # << >>
    BY <1>1
  <1> HIDE DEF r
  <1>3. \A i \in 1 .. Len(q) + 1 : i \in 1 .. Len(q) \/ i = Len(q) + 1
    BY <1>1
  <1>4. \A u \in Tasks : InQueue(r, u) <=> InQueue(q, u) \/ u = t
    <2>1. ASSUME NEW u \in Tasks, InQueue(r, u) PROVE InQueue(q, u) \/ u = t
      BY <1>1, <1>3, <2>1 DEF InQueue, r
    <2>2. ASSUME NEW u \in Tasks, InQueue(q, u) PROVE InQueue(r, u)
      BY <1>1, <2>2 DEF InQueue, r
    <2>3. Len(q) + 1 \in 1 .. Len(q) + 1
      BY <1>1
    <2>4. InQueue(r, t)
      BY <1>1, <2>3 DEF InQueue, r
    <2> QED BY <2>1, <2>2, <2>4
  <1>5. ASSUME NoRepeat(q), ~InQueue(q, t) PROVE NoRepeat(r)
    <2> SUFFICES ASSUME NEW i \in 1 .. Len(q) + 1, NEW j \in 1 .. Len(q) + 1, r[i] = r[j]
                 PROVE  i = j
      BY <1>1 DEF NoRepeat, r
    <2>1. CASE i \in 1 .. Len(q) /\ j \in 1 .. Len(q)
      BY <1>1, <1>5, <2>1 DEF NoRepeat, r
    <2>2. CASE i \in 1 .. Len(q) /\ j = Len(q) + 1
      BY <1>1, <1>5, <2>2 DEF InQueue, r
    <2>3. CASE j \in 1 .. Len(q) /\ i = Len(q) + 1
      BY <1>1, <1>5, <2>3 DEF InQueue, r
    <2> QED BY <1>3, <2>1, <2>2, <2>3
  <1> QED BY <1>1, <1>2, <1>4, <1>5 DEF r

(* pop_front and steal *)
LEMMA TailFacts ==
    ASSUME NEW q \in Seq(Tasks), q # << >>
    PROVE  /\ Tail(q) \in Seq(Tasks) /\ Head(q) \in Tasks
           /\ Len(Tail(q)) = Len(q) - 1
           /\ InQueue(q, Head(q))
           /\ NoRepeat(q) => /\ \A u \in Tasks :
                                   InQueue(Tail(q), u) <=> InQueue(q, u) /\ u # Head(q)
                             /\ NoRepeat(Tail(q))
  <1>1. /\ Len(q) \in Nat \ {0} /\ Tail(q) \in Seq(Tasks) /\ Len(Tail(q)) = Len(q) - 1
        /\ \A i \in 1 .. Len(q) - 1 : Tail(q)[i] = q[i + 1]
        /\ Head(q) = q[1] /\ q[1] \in Tasks /\ 1 \in 1 .. Len(q)
    OBVIOUS
  <1> DEFINE r == Tail(q)
             h == Head(q)
  <1> HIDE DEF r, h
  <1>2. InQueue(q, h)
    BY <1>1 DEF InQueue, h
  <1>3. \A i \in 1 .. Len(q) - 1 : i + 1 \in 1 .. Len(q) /\ i + 1 # 1
    BY <1>1
  <1>4. \A j \in 1 .. Len(q) : j = 1 \/ (j - 1 \in 1 .. Len(q) - 1 /\ (j - 1) + 1 = j)
    BY <1>1
  <1>5. ASSUME NoRepeat(q), NEW u \in Tasks, InQueue(r, u) PROVE InQueue(q, u) /\ u # h
    <2>1. PICK i \in 1 .. Len(q) - 1 : r[i] = u
      BY <1>1, <1>5 DEF InQueue, r
    <2>2. q[i + 1] = u /\ i + 1 \in 1 .. Len(q) /\ i + 1 # 1
      BY <1>1, <1>3, <2>1 DEF r
    <2>3. q[1] = h /\ 1 \in 1 .. Len(q)
      BY <1>1 DEF h
    <2> QED BY <1>5, <2>2, <2>3 DEF NoRepeat, InQueue
  <1>6. ASSUME NEW u \in Tasks, InQueue(q, u), u # h PROVE InQueue(r, u)
    <2>1. PICK j \in 1 .. Len(q) : q[j] = u
      BY <1>6 DEF InQueue
    <2>2. j # 1
      BY <1>1, <1>6, <2>1 DEF h
    <2>3. j - 1 \in 1 .. Len(q) - 1 /\ r[j - 1] = u
      BY <1>1, <1>4, <2>1, <2>2 DEF r
    <2> QED BY <1>1, <2>3 DEF InQueue, r
  <1>7. ASSUME NoRepeat(q) PROVE NoRepeat(r)
    <2> SUFFICES ASSUME NEW i \in 1 .. Len(q) - 1, NEW j \in 1 .. Len(q) - 1, r[i] = r[j]
                 PROVE  i = j
      BY <1>1 DEF NoRepeat, r
    <2>1. q[i + 1] = q[j + 1]
      BY <1>1 DEF r
    <2>2. i + 1 = j + 1
      BY <1>3, <1>7, <2>1 DEF NoRepeat
    <2> QED BY <2>2
  <1> QED BY <1>1, <1>2, <1>5, <1>6, <1>7 DEF r, h

(* pop *)
LEMMA FrontFacts ==
    ASSUME NEW q \in Seq(Tasks), q # << >>
    PROVE  /\ Front(q) \in Seq(Tasks) /\ Last(q) \in Tasks
           /\ Len(Front(q)) = Len(q) - 1
           /\ InQueue(q, Last(q))
           /\ NoRepeat(q) => /\ \A u \in Tasks :
                                   InQueue(Front(q), u) <=> InQueue(q, u) /\ u # Last(q)
                             /\ NoRepeat(Front(q))
  <1>1. Len(q) \in Nat \ {0} /\ Len(q) \in 1 .. Len(q)
    OBVIOUS
  <1> DEFINE r == Front(q)
             z == Last(q)
             n == Len(q)
  <1>2. /\ r \in Seq(Tasks) /\ Len(r) = n - 1
        /\ \A i \in 1 .. n - 1 : r[i] = q[i]
    <2>1. r = SubSeq(q, 1, n - 1)
      BY DEF Front
    <2>0. n \in Nat /\ n >= 1 /\ Len(q) = n
      BY <1>1
    <2> HIDE DEF r, n
    <2>2. /\ SubSeq(q, 1, n - 1) \in Seq(Tasks) /\ Len(SubSeq(q, 1, n - 1)) = n - 1
          /\ \A i \in 1 .. n - 1 : SubSeq(q, 1, n - 1)[i] = q[i]
      BY <2>0
    <2> QED BY <2>1, <2>2 DEF n
  <1>3. z = q[n] /\ q[n] \in Tasks
    BY <1>1 DEF Last
  <1> HIDE DEF r, z
  <1>4. InQueue(q, z)
    BY <1>1, <1>3 DEF InQueue
  <1>5. \A i \in 1 .. n - 1 : i \in 1 .. n /\ i # n
    BY <1>1
  <1>6. \A j \in 1 .. n : j = n \/ j \in 1 .. n - 1
    BY <1>1
  <1>7. ASSUME NoRepeat(q), NEW u \in Tasks, InQueue(r, u) PROVE InQueue(q, u) /\ u # z
    <2>1. PICK i \in 1 .. n - 1 : r[i] = u
      BY <1>2, <1>7 DEF InQueue
    <2>2. q[i] = u /\ i \in 1 .. n /\ i # n
      BY <1>2, <1>5, <2>1
    <2> QED BY <1>1, <1>3, <1>7, <2>2 DEF NoRepeat, InQueue
  <1>8. ASSUME NEW u \in Tasks, InQueue(q, u), u # z PROVE InQueue(r, u)
    BY <1>2, <1>3, <1>6, <1>8 DEF InQueue
  <1>9. ASSUME NoRepeat(q) PROVE NoRepeat(r)
    BY <1>2, <1>5, <1>9 DEF NoRepeat
  <1> QED BY <1>2, <1>3, <1>4, <1>7, <1>8, <1>9 DEF r, z

(* A queue that holds no task is the empty one, and the empty one holds    *)
(* none.                                                                   *)
LEMMA EmptyFacts ==
    /\ \A q \in Seq(Tasks) : q # << >> => InQueue(q, Head(q)) /\ Head(q) \in Tasks
    /\ << >> \in Seq(Tasks) /\ Len(<< >>) = 0
    /\ \A t : ~InQueue(<< >>, t)
    /\ NoRepeat(<< >>)
  <1>1. \A q \in Seq(Tasks) : q # << >> => InQueue(q, Head(q)) /\ Head(q) \in Tasks
    BY TailFacts
  <1> QED BY <1>1 DEF InQueue, NoRepeat


-----------------------------------------------------------------------------
(* The layers, one after the other: each is kept by every step. *)

(* Round-robin and spin counters wrap inside their ranges; worker 0 is     *)
(* there.                                                                  *)
LEMMA Counters ==
    /\ 0 \in Workers
    /\ \A c \in Workers : (c + 1) % NumWorkers \in Workers
    /\ \A x \in 0 .. SpinLimit - 1 : (x + 1) % SpinLimit \in 0 .. SpinLimit - 1
    /\ 0 \in 0 .. SpinLimit - 1
    /\ DrainBatch \in Nat \ {0} /\ DequeCapacity \in Nat \ {0}
  <1>1. NumWorkers \in Nat \ {0} /\ SpinLimit \in Nat \ {0}
    BY ParkingAssumption
  <1>2. \A n \in Nat \ {0} : \A x \in Nat : x % n \in 0 .. n - 1
    BY Z3T(30)
  <1>3. \A c \in Workers : (c + 1) % NumWorkers \in Workers
    BY <1>1, <1>2 DEF Workers
  <1>4. \A x \in 0 .. SpinLimit - 1 : (x + 1) % SpinLimit \in 0 .. SpinLimit - 1
    BY <1>1, <1>2
  <1> QED BY <1>1, <1>3, <1>4, ParkingAssumption DEF Workers

(* RangeInv *)
LEMMA RangeStep == TypeInv /\ [Next]_vars => RangeInv'
  <1> SUFFICES ASSUME TypeInv, [Next]_vars PROVE RangeInv'
    OBVIOUS
  <1> USE DEF TypeInv, RangeInv, queueVars, sleepVars, otherVars, SubmitterStates
  <1>1. CASE \E s \in Submitters : ReadSleeping(s)
    BY <1>1, Counters
    DEF ReadSleeping
  <1>2. CASE \E s \in Submitters : LockUnlock(s)
    BY <1>2, Counters
    DEF LockUnlock
  <1>3. CASE \E s \in Submitters : NotifyOne(s)
    BY <1>3, Counters
    DEF NotifyOne, WakeOne
  <1>4. CASE \E s \in Submitters, t \in Tasks : Enqueue(s, t)
    BY <1>4, Counters
    DEF Enqueue, EnqueueStatic, EnqueueGlobal
  <1>5. CASE \E w \in Workers : LoopTop(w)
    BY <1>5, Counters
    DEF LoopTop, Goto
  <1>6. CASE \E w \in Workers : PopInbox(w)
    BY <1>6, Counters
    DEF PopInbox, Run, FoundNothing, Goto
  <1>7. CASE \E w \in Workers : PopLocal(w)
    BY <1>7, Counters
    DEF PopLocal, Run, Goto
  <1>8. CASE \E w \in Workers : DrainFirst(w)
    BY <1>8, Counters
    DEF DrainFirst, Goto
  <1>9. CASE \E w \in Workers : DrainTake(w)
    BY <1>9, Counters
    DEF DrainTake, Goto
  <1>10. CASE \E w \in Workers : DrainPush(w)
    BY <1>10, Counters
    DEF DrainPush, Goto
  <1>11. CASE \E w \in Workers : DrainDone(w)
    BY <1>11, Counters
    DEF DrainDone, Run, Goto
  <1>12. CASE \E w \in Workers, v \in Workers : StealRead(w, v)
    BY <1>12, Counters
    DEF StealRead, Goto
  <1>13. CASE \E w \in Workers, v \in Workers : StealNothing(w, v)
    BY <1>13, Counters
    DEF StealNothing, Goto
  <1>14. CASE \E w \in Workers : StealWon(w)
    BY <1>14, Counters
    DEF StealWon, Run, Goto
  <1>15. CASE \E w \in Workers : StealAborted(w)
    BY <1>15, Counters
    DEF StealAborted, Goto
  <1>16. CASE \E w \in Workers : StealFailed(w)
    BY <1>16, Counters
    DEF StealFailed, FoundNothing, Goto
  <1>17. CASE \E w \in Workers : BodyReturn(w)
    BY <1>17, Counters
    DEF BodyReturn, Goto
  <1>18. CASE \E w \in Workers : SpawnReadSleeping(w)
    BY <1>18, Counters
    DEF SpawnReadSleeping, Goto
  <1>19. CASE \E w \in Workers : SpawnLockUnlock(w)
    BY <1>19, Counters
    DEF SpawnLockUnlock, Goto
  <1>20. CASE \E w \in Workers : SpawnNotify(w)
    BY <1>20, Counters
    DEF SpawnNotify, WakeOne, Goto
  <1>21. CASE \E w \in Workers : ParkCount(w)
    BY <1>21, Counters
    DEF ParkCount, Goto
  <1>22. CASE \E w \in Workers : ParkRunning(w)
    BY <1>22, Counters
    DEF ParkRunning, Unpark, Goto
  <1>23. CASE \E w \in Workers : ParkGlobal(w)
    BY <1>23, Counters
    DEF ParkGlobal, Unpark, Goto
  <1>24. CASE \E w \in Workers : ParkScan(w)
    BY <1>24, Counters
    DEF ParkScan, Unpark, Goto
  <1>25. CASE \E w \in Workers : Sleep(w)
    BY <1>25, Counters
    DEF Sleep, Goto
  <1>26. CASE \E w \in Workers : Woken(w)
    BY <1>26, Counters
    DEF Woken, Goto
  <1>27. CASE \E w \in Workers : SpuriousWakeup(w)
    BY <1>27, Counters
    DEF SpuriousWakeup, Goto
  <1>28. CASE \E w \in Workers, t \in Tasks : Spawn(w, t)
    BY <1>28, Counters
    DEF Spawn, EnqueueStatic, EnqueueLocal, EnqueueGlobal, Goto
  <1>29. CASE DestroyDrained
    BY <1>29, Counters
    DEF DestroyDrained
  <1>30. CASE DestroyStop
    BY <1>30, Counters
    DEF DestroyStop
  <1>31. CASE DestroyNotify
    BY <1>31, Counters
    DEF DestroyNotify
  <1>32. CASE DestroyJoin
    BY <1>32, Counters
    DEF DestroyJoin
  <1>33. CASE UNCHANGED vars
    BY <1>33 DEF vars
  <1> QED BY <1>1, <1>2, <1>3, <1>4, <1>5, <1>6, <1>7, <1>8, <1>9, <1>10, <1>11, <1>12,
             <1>13, <1>14, <1>15, <1>16, <1>17, <1>18, <1>19, <1>20, <1>21, <1>22,
             <1>23, <1>24, <1>25, <1>26, <1>27, <1>28, <1>29, <1>30, <1>31, <1>32, <1>33
    DEF Next, SubmitterStep, WorkerStep, DestructorStep, Gone

(* PcInv *)
LEMMA PcStep == TypeInv /\ [Next]_vars => PcInv'
  <1> SUFFICES ASSUME TypeInv, [Next]_vars PROVE PcInv'
    OBVIOUS
  <1> USE DEF TypeInv, PcInv, WorkerStates, SubmitterStates, Stealing, Draining, Bodies,
              Counted, Parking
  <1>1. CASE \E s \in Submitters : ReadSleeping(s)
    BY <1>1
    DEF ReadSleeping
  <1>2. CASE \E s \in Submitters : LockUnlock(s)
    BY <1>2
    DEF LockUnlock
  <1>3. CASE \E s \in Submitters : NotifyOne(s)
    BY <1>3
    DEF NotifyOne, WakeOne
  <1>4. CASE \E s \in Submitters, t \in Tasks : Enqueue(s, t)
    BY <1>4
    DEF Enqueue, EnqueueStatic, EnqueueGlobal
  <1>5. CASE \E w \in Workers : LoopTop(w)
    BY <1>5
    DEF LoopTop, Goto
  <1>6. CASE \E w \in Workers : PopInbox(w)
    BY <1>6
    DEF PopInbox, Run, FoundNothing, Goto
  <1>7. CASE \E w \in Workers : PopLocal(w)
    BY <1>7
    DEF PopLocal, Run, Goto
  <1>8. CASE \E w \in Workers : DrainFirst(w)
    BY <1>8
    DEF DrainFirst, Goto
  <1>9. CASE \E w \in Workers : DrainTake(w)
    BY <1>9
    DEF DrainTake, Goto
  <1>10. CASE \E w \in Workers : DrainPush(w)
    BY <1>10
    DEF DrainPush, Goto
  <1>11. CASE \E w \in Workers : DrainDone(w)
    BY <1>11
    DEF DrainDone, Run, Goto
  <1>12. CASE \E w \in Workers, v \in Workers : StealRead(w, v)
    BY <1>12
    DEF StealRead, Goto
  <1>13. CASE \E w \in Workers, v \in Workers : StealNothing(w, v)
    BY <1>13
    DEF StealNothing, Goto
  <1>14. CASE \E w \in Workers : StealWon(w)
    BY <1>14
    DEF StealWon, Run, Goto
  <1>15. CASE \E w \in Workers : StealAborted(w)
    BY <1>15
    DEF StealAborted, Goto
  <1>16. CASE \E w \in Workers : StealFailed(w)
    BY <1>16
    DEF StealFailed, FoundNothing, Goto
  <1>17. CASE \E w \in Workers : BodyReturn(w)
    BY <1>17
    DEF BodyReturn, Goto
  <1>18. CASE \E w \in Workers : SpawnReadSleeping(w)
    BY <1>18
    DEF SpawnReadSleeping, Goto
  <1>19. CASE \E w \in Workers : SpawnLockUnlock(w)
    BY <1>19
    DEF SpawnLockUnlock, Goto
  <1>20. CASE \E w \in Workers : SpawnNotify(w)
    BY <1>20
    DEF SpawnNotify, WakeOne, Goto
  <1>21. CASE \E w \in Workers : ParkCount(w)
    BY <1>21
    DEF ParkCount, Goto
  <1>22. CASE \E w \in Workers : ParkRunning(w)
    BY <1>22
    DEF ParkRunning, Unpark, Goto
  <1>23. CASE \E w \in Workers : ParkGlobal(w)
    BY <1>23
    DEF ParkGlobal, Unpark, Goto
  <1>24. CASE \E w \in Workers : ParkScan(w)
    BY <1>24
    DEF ParkScan, Unpark, Goto
  <1>25. CASE \E w \in Workers : Sleep(w)
    BY <1>25
    DEF Sleep, Goto
  <1>26. CASE \E w \in Workers : Woken(w)
    BY <1>26
    DEF Woken, Goto
  <1>27. CASE \E w \in Workers : SpuriousWakeup(w)
    BY <1>27
    DEF SpuriousWakeup, Goto
  <1>28. CASE \E w \in Workers, t \in Tasks : Spawn(w, t)
    BY <1>28
    DEF Spawn, EnqueueStatic, EnqueueLocal, EnqueueGlobal, Goto
  <1>29. CASE DestroyDrained
    BY <1>29
    DEF DestroyDrained
  <1>30. CASE DestroyStop
    BY <1>30
    DEF DestroyStop
  <1>31. CASE DestroyNotify
    BY <1>31
    DEF DestroyNotify
  <1>32. CASE DestroyJoin
    BY <1>32
    DEF DestroyJoin
  <1>33. CASE UNCHANGED vars
    BY <1>33 DEF vars
  <1> QED BY <1>1, <1>2, <1>3, <1>4, <1>5, <1>6, <1>7, <1>8, <1>9, <1>10, <1>11, <1>12,
             <1>13, <1>14, <1>15, <1>16, <1>17, <1>18, <1>19, <1>20, <1>21, <1>22,
             <1>23, <1>24, <1>25, <1>26, <1>27, <1>28, <1>29, <1>30, <1>31, <1>32, <1>33
    DEF Next, SubmitterStep, WorkerStep, DestructorStep, Gone

(* One more execution is counted. *)
LEMMA RunCounted ==
    ASSUME RunsInv, NEW t, runs' = [runs EXCEPT ![t] = runs[t] + 1]
    PROVE  RunsInv'
  <1>1. CASE t \in Tasks
    BY <1>1 DEF RunsInv
  <1>2. CASE t \notin Tasks
    <2>1. runs' = runs
      BY <1>2 DEF RunsInv
    <2> QED BY <2>1 DEF RunsInv
  <1> QED BY <1>1, <1>2

(* RunsInv *)
LEMMA RunsStep == TypeInv /\ [Next]_vars => RunsInv'
  <1> SUFFICES ASSUME TypeInv, [Next]_vars PROVE RunsInv'
    OBVIOUS
  <1> USE DEF TypeInv, RunsInv
  <1>1. CASE \E s \in Submitters : ReadSleeping(s)
    BY <1>1
    DEF ReadSleeping
  <1>2. CASE \E s \in Submitters : LockUnlock(s)
    BY <1>2
    DEF LockUnlock
  <1>3. CASE \E s \in Submitters : NotifyOne(s)
    BY <1>3
    DEF NotifyOne, WakeOne
  <1>4. CASE \E s \in Submitters, t \in Tasks : Enqueue(s, t)
    BY <1>4
    DEF Enqueue, EnqueueStatic, EnqueueGlobal
  <1>5. CASE \E w \in Workers : LoopTop(w)
    BY <1>5
    DEF LoopTop, Goto
  <1>6. CASE \E w \in Workers : PopInbox(w)
    BY <1>6
    DEF PopInbox, Run, FoundNothing, Goto
  <1>7. CASE \E w \in Workers : PopLocal(w)
    BY <1>7
    DEF PopLocal, Run, Goto
  <1>8. CASE \E w \in Workers : DrainFirst(w)
    BY <1>8
    DEF DrainFirst, Goto
  <1>9. CASE \E w \in Workers : DrainTake(w)
    BY <1>9
    DEF DrainTake, Goto
  <1>10. CASE \E w \in Workers : DrainPush(w)
    BY <1>10
    DEF DrainPush, Goto
  <1>11. CASE \E w \in Workers : DrainDone(w)
    <2>1. PICK w \in Workers : DrainDone(w)
      BY <1>11
    <2>2. runs' = [runs EXCEPT ![hand[w]] = runs[hand[w]] + 1]
      BY <2>1 DEF DrainDone, Run
    <2> QED BY <2>2, RunCounted DEF TypeInv
  <1>12. CASE \E w \in Workers, v \in Workers : StealRead(w, v)
    BY <1>12
    DEF StealRead, Goto
  <1>13. CASE \E w \in Workers, v \in Workers : StealNothing(w, v)
    BY <1>13
    DEF StealNothing, Goto
  <1>14. CASE \E w \in Workers : StealWon(w)
    <2>1. PICK w \in Workers : StealWon(w)
      BY <1>14
    <2>2. runs' = [runs EXCEPT ![aim[w][2]] = runs[aim[w][2]] + 1]
      BY <2>1 DEF StealWon, Run
    <2> QED BY <2>2, RunCounted DEF TypeInv
  <1>15. CASE \E w \in Workers : StealAborted(w)
    BY <1>15
    DEF StealAborted, Goto
  <1>16. CASE \E w \in Workers : StealFailed(w)
    BY <1>16
    DEF StealFailed, FoundNothing, Goto
  <1>17. CASE \E w \in Workers : BodyReturn(w)
    BY <1>17
    DEF BodyReturn, Goto
  <1>18. CASE \E w \in Workers : SpawnReadSleeping(w)
    BY <1>18
    DEF SpawnReadSleeping, Goto
  <1>19. CASE \E w \in Workers : SpawnLockUnlock(w)
    BY <1>19
    DEF SpawnLockUnlock, Goto
  <1>20. CASE \E w \in Workers : SpawnNotify(w)
    BY <1>20
    DEF SpawnNotify, WakeOne, Goto
  <1>21. CASE \E w \in Workers : ParkCount(w)
    BY <1>21
    DEF ParkCount, Goto
  <1>22. CASE \E w \in Workers : ParkRunning(w)
    BY <1>22
    DEF ParkRunning, Unpark, Goto
  <1>23. CASE \E w \in Workers : ParkGlobal(w)
    BY <1>23
    DEF ParkGlobal, Unpark, Goto
  <1>24. CASE \E w \in Workers : ParkScan(w)
    BY <1>24
    DEF ParkScan, Unpark, Goto
  <1>25. CASE \E w \in Workers : Sleep(w)
    BY <1>25
    DEF Sleep, Goto
  <1>26. CASE \E w \in Workers : Woken(w)
    BY <1>26
    DEF Woken, Goto
  <1>27. CASE \E w \in Workers : SpuriousWakeup(w)
    BY <1>27
    DEF SpuriousWakeup, Goto
  <1>28. CASE \E w \in Workers, t \in Tasks : Spawn(w, t)
    BY <1>28
    DEF Spawn, EnqueueStatic, EnqueueLocal, EnqueueGlobal, Goto
  <1>29. CASE DestroyDrained
    BY <1>29
    DEF DestroyDrained
  <1>30. CASE DestroyStop
    BY <1>30
    DEF DestroyStop
  <1>31. CASE DestroyNotify
    BY <1>31
    DEF DestroyNotify
  <1>32. CASE DestroyJoin
    BY <1>32
    DEF DestroyJoin
  <1>33. CASE UNCHANGED vars
    BY <1>33 DEF vars
  <1> QED BY <1>1, <1>2, <1>3, <1>4, <1>5, <1>6, <1>7, <1>8, <1>9, <1>10, <1>11, <1>12,
             <1>13, <1>14, <1>15, <1>16, <1>17, <1>18, <1>19, <1>20, <1>21, <1>22,
             <1>23, <1>24, <1>25, <1>26, <1>27, <1>28, <1>29, <1>30, <1>31, <1>32, <1>33
    DEF Next, SubmitterStep, WorkerStep, DestructorStep, Gone

(* LocalInv: the drain stops at its batch, the spins wrap around. *)
LEMMA LocalStep == TypeInv /\ [Next]_vars => LocalInv'
  <1> SUFFICES ASSUME TypeInv, [Next]_vars PROVE LocalInv'
    OBVIOUS
  <1> USE DEF TypeInv, LocalInv, localVars
  <1>1. CASE \E s \in Submitters : ReadSleeping(s)
    BY <1>1, Counters
    DEF ReadSleeping
  <1>2. CASE \E s \in Submitters : LockUnlock(s)
    BY <1>2, Counters
    DEF LockUnlock
  <1>3. CASE \E s \in Submitters : NotifyOne(s)
    BY <1>3, Counters
    DEF NotifyOne, WakeOne
  <1>4. CASE \E s \in Submitters, t \in Tasks : Enqueue(s, t)
    BY <1>4, Counters
    DEF Enqueue, EnqueueStatic, EnqueueGlobal
  <1>5. CASE \E w \in Workers : LoopTop(w)
    BY <1>5, Counters
    DEF LoopTop, Goto
  <1>6. CASE \E w \in Workers : PopInbox(w)
    <2>1. PICK w \in Workers : PopInbox(w)
      BY <1>6
    <2>2. UNCHANGED <<toScan, drained>>
      BY <2>1 DEF PopInbox
    <2>3. \/ spins' = [spins EXCEPT ![w] = 0]
          \/ spins' = [spins EXCEPT ![w] = (spins[w] + 1) % SpinLimit]
      BY <2>1 DEF PopInbox, Run, FoundNothing
    <2> QED BY <2>2, <2>3, Counters
  <1>7. CASE \E w \in Workers : PopLocal(w)
    BY <1>7, Counters
    DEF PopLocal, Run, Goto
  <1>8. CASE \E w \in Workers : DrainFirst(w)
    <2>1. PICK w \in Workers : DrainFirst(w)
      BY <1>8
    <2>2. UNCHANGED spins
      BY <2>1 DEF DrainFirst
    <2>3. drained' = drained \/ drained' = [drained EXCEPT ![w] = 1]
      BY <2>1 DEF DrainFirst
    <2>4. toScan' = toScan \/ toScan' = [toScan EXCEPT ![w] = Workers \ {w}]
      BY <2>1 DEF DrainFirst
    <2> QED BY <2>2, <2>3, <2>4, Counters
  <1>9. CASE \E w \in Workers : DrainTake(w)
    <2>1. PICK w \in Workers : DrainTake(w)
      BY <1>9
    <2>2. UNCHANGED <<toScan, spins>> /\ drained[w] < DrainBatch
      BY <2>1 DEF DrainTake
    <2>3. drained' = [drained EXCEPT ![w] = drained[w] + 1]
      BY <2>1 DEF DrainTake
    <2> QED BY <2>2, <2>3, Counters
  <1>10. CASE \E w \in Workers : DrainPush(w)
    <2>1. PICK w \in Workers : DrainPush(w)
      BY <1>10
    <2>2. UNCHANGED <<toScan, spins>>
      BY <2>1 DEF DrainPush
    <2>3. drained' = drained \/ drained' = [drained EXCEPT ![w] = DrainBatch]
      BY <2>1 DEF DrainPush
    <2> QED BY <2>2, <2>3, Counters
  <1>11. CASE \E w \in Workers : DrainDone(w)
    BY <1>11, Counters
    DEF DrainDone, Run, Goto
  <1>12. CASE \E w \in Workers, v \in Workers : StealRead(w, v)
    BY <1>12, Counters
    DEF StealRead, Goto
  <1>13. CASE \E w \in Workers, v \in Workers : StealNothing(w, v)
    BY <1>13, Counters
    DEF StealNothing, Goto
  <1>14. CASE \E w \in Workers : StealWon(w)
    <2>1. PICK w \in Workers : StealWon(w)
      BY <1>14
    <2>2. drained' = drained /\ toScan' = [toScan EXCEPT ![w] = {}]
      BY <2>1 DEF StealWon
    <2>3. spins' = [spins EXCEPT ![w] = 0]
      BY <2>1 DEF StealWon, Run
    <2> QED BY <2>2, <2>3, Counters
  <1>15. CASE \E w \in Workers : StealAborted(w)
    <2>1. PICK w \in Workers : StealAborted(w)
      BY <1>15
    <2>2. UNCHANGED <<drained, spins>>
      BY <2>1 DEF StealAborted
    <2>3. toScan' = [toScan EXCEPT ![w] = toScan[w] \ {aim[w][1]}]
      BY <2>1 DEF StealAborted
    <2> QED BY <2>2, <2>3
  <1>16. CASE \E w \in Workers : StealFailed(w)
    BY <1>16, Counters
    DEF StealFailed, FoundNothing, Goto
  <1>17. CASE \E w \in Workers : BodyReturn(w)
    BY <1>17, Counters
    DEF BodyReturn, Goto
  <1>18. CASE \E w \in Workers : SpawnReadSleeping(w)
    BY <1>18, Counters
    DEF SpawnReadSleeping, Goto
  <1>19. CASE \E w \in Workers : SpawnLockUnlock(w)
    BY <1>19, Counters
    DEF SpawnLockUnlock, Goto
  <1>20. CASE \E w \in Workers : SpawnNotify(w)
    BY <1>20, Counters
    DEF SpawnNotify, WakeOne, Goto
  <1>21. CASE \E w \in Workers : ParkCount(w)
    BY <1>21, Counters
    DEF ParkCount, Goto
  <1>22. CASE \E w \in Workers : ParkRunning(w)
    BY <1>22, Counters
    DEF ParkRunning, Unpark, Goto
  <1>23. CASE \E w \in Workers : ParkGlobal(w)
    BY ZenonT(40), <1>23, Counters
    DEF ParkGlobal, Unpark, Goto
  <1>24. CASE \E w \in Workers : ParkScan(w)
    <2>1. PICK w \in Workers : ParkScan(w)
      BY <1>24
    <2>2. UNCHANGED <<drained, spins>>
      BY <2>1 DEF ParkScan
    <2>3. \/ toScan' = [toScan EXCEPT ![w] = {}]
          \/ \E v : toScan' = [toScan EXCEPT ![w] = toScan[w] \ {v}]
      BY <2>1 DEF ParkScan, Unpark
    <2> QED BY <2>2, <2>3
  <1>25. CASE \E w \in Workers : Sleep(w)
    BY <1>25, Counters
    DEF Sleep, Goto
  <1>26. CASE \E w \in Workers : Woken(w)
    BY <1>26, Counters
    DEF Woken, Goto
  <1>27. CASE \E w \in Workers : SpuriousWakeup(w)
    BY <1>27, Counters
    DEF SpuriousWakeup, Goto
  <1>28. CASE \E w \in Workers, t \in Tasks : Spawn(w, t)
    BY <1>28, Counters
    DEF Spawn, EnqueueStatic, EnqueueLocal, EnqueueGlobal, Goto
  <1>29. CASE DestroyDrained
    BY <1>29, Counters
    DEF DestroyDrained
  <1>30. CASE DestroyStop
    BY <1>30, Counters
    DEF DestroyStop
  <1>31. CASE DestroyNotify
    BY <1>31, Counters
    DEF DestroyNotify
  <1>32. CASE DestroyJoin
    BY <1>32, Counters
    DEF DestroyJoin
  <1>33. CASE UNCHANGED vars
    BY <1>33 DEF vars
  <1> QED BY <1>1, <1>2, <1>3, <1>4, <1>5, <1>6, <1>7, <1>8, <1>9, <1>10, <1>11, <1>12,
             <1>13, <1>14, <1>15, <1>16, <1>17, <1>18, <1>19, <1>20, <1>21, <1>22,
             <1>23, <1>24, <1>25, <1>26, <1>27, <1>28, <1>29, <1>30, <1>31, <1>32, <1>33
    DEF Next, SubmitterStep, WorkerStep, DestructorStep, Gone


(* An aim is not the empty one. *)
LEMMA AimIsNotNone == \A v \in Workers, t \in Tasks : <<v, t>> # NoAim /\ <<v, t>> \in Workers \X Tasks
  BY DEF NoAim

(* The steps that wake: a place changes from asleep to woken only, but for *)
(* the caller's own.                                                       *)
LEMMA WakingSteps ==
    ASSUME PlaceInv,
           \/ \E s \in Submitters : NotifyOne(s)
           \/ \E w \in Workers : SpawnNotify(w) \/ SpuriousWakeup(w)
           \/ DestroyNotify
    PROVE  /\ UNCHANGED <<global, deque, inbox, cursor, sleeping, mutex, hand, extra, aim, toScan,
                         mode, enqueued, runs>>
           /\ wpc' \in [Workers -> WorkerStates]
           /\ \A w \in Workers :
                \/ wpc'[w] = wpc[w]
                \/ wpc[w] = "asleep" /\ wpc'[w] = "woken"
                \/ wpc[w] = "spawnNotify" /\ wpc'[w] = "body"
  <1>1. UNCHANGED <<global, deque, inbox, cursor, sleeping, mutex, hand, extra, aim, toScan,
                         mode, enqueued, runs>>
    BY DEF NotifyOne, SpawnNotify, SpuriousWakeup, DestroyNotify, queueVars, localVars,
           otherVars
  <1>2. /\ wpc \in [Workers -> WorkerStates] /\ \A w \in asleep : wpc[w] = "asleep"
        /\ "woken" \in WorkerStates /\ "body" \in WorkerStates
    BY DEF PlaceInv, TypeInv, PcInv, LockInv, WorkerStates, Counted, Bodies
  <1> DEFINE Kept(f) == /\ f \in [Workers -> WorkerStates]
                        /\ \A w \in Workers :
                             \/ f[w] = wpc[w]
                             \/ wpc[w] = "asleep" /\ f[w] = "woken"
                             \/ wpc[w] = "spawnNotify" /\ f[w] = "body"
  <1> SUFFICES Kept(wpc')
    BY <1>1
  <1>3. CASE \E s \in Submitters : NotifyOne(s)
    <2>1. wpc' = wpc \/ \E v \in asleep : wpc' = [wpc EXCEPT ![v] = "woken"]
      BY <1>3 DEF NotifyOne, WakeOne
    <2> QED BY <1>2, <2>1
  <1>4. CASE \E w \in Workers : SpawnNotify(w)
    <2>1. PICK w \in Workers : SpawnNotify(w)
      BY <1>4
    <2> DEFINE f == [wpc EXCEPT ![w] = "body"]
    <2>2. wpc' = f \/ \E v \in asleep : wpc' = [f EXCEPT ![v] = "woken"]
      BY <2>1 DEF SpawnNotify, WakeOne
    <2>3. Kept(f) /\ wpc[w] = "spawnNotify"
      BY <1>2, <2>1 DEF SpawnNotify
    <2>4. \A v \in asleep : f[v] = wpc[v]
      BY <1>2, <2>3
    <2> HIDE DEF f
    <2> QED BY <1>2, <2>2, <2>3, <2>4
  <1>5. CASE \E w \in Workers : SpuriousWakeup(w)
    BY <1>2, <1>5 DEF SpuriousWakeup, Goto
  <1>6. CASE DestroyNotify
    BY <1>2, <1>6 DEF DestroyNotify
  <1> QED BY <1>3, <1>4, <1>5, <1>6

(* AimInv: steal() aims at an element it has read. *)
LEMMA AimStep == PlaceInv /\ [Next]_vars => AimInv'
  <1> SUFFICES ASSUME PlaceInv, [Next]_vars PROVE AimInv'
    OBVIOUS
  <1> USE DEF PlaceInv, TypeInv, PcInv, AimInv, localVars
  <1>1. CASE \E s \in Submitters : ReadSleeping(s)
    BY <1>1
    DEF ReadSleeping
  <1>2. CASE \E s \in Submitters : LockUnlock(s)
    BY <1>2
    DEF LockUnlock
  <1>3. CASE \E s \in Submitters : NotifyOne(s)
    BY <1>3, WakingSteps
  <1>4. CASE \E s \in Submitters, t \in Tasks : Enqueue(s, t)
    BY <1>4
    DEF Enqueue, EnqueueStatic, EnqueueGlobal
  <1>5. CASE \E w \in Workers : LoopTop(w)
    BY <1>5
    DEF LoopTop, Goto
  <1>6. CASE \E w \in Workers : PopInbox(w)
    BY <1>6
    DEF PopInbox, Run, FoundNothing, Goto
  <1>7. CASE \E w \in Workers : PopLocal(w)
    BY <1>7
    DEF PopLocal, Run, Goto
  <1>8. CASE \E w \in Workers : DrainFirst(w)
    BY <1>8
    DEF DrainFirst, Goto
  <1>9. CASE \E w \in Workers : DrainTake(w)
    BY <1>9
    DEF DrainTake, Goto
  <1>10. CASE \E w \in Workers : DrainPush(w)
    BY <1>10
    DEF DrainPush, Goto
  <1>11. CASE \E w \in Workers : DrainDone(w)
    BY <1>11
    DEF DrainDone, Run, Goto
  <1>12. CASE \E w \in Workers, v \in Workers : StealRead(w, v)
    <2>1. PICK w \in Workers, v \in Workers : StealRead(w, v)
      BY <1>12
    <2>2. /\ aim' = [aim EXCEPT ![w] = <<v, Head(deque[v])>>]
          /\ wpc' = [wpc EXCEPT ![w] = "stealCas"]
      BY <2>1 DEF StealRead, Goto
    <2>3. Head(deque[v]) \in Tasks
      BY <2>1, TailFacts DEF StealRead, QueueInv
    <2>4. <<v, Head(deque[v])>> # NoAim /\ <<v, Head(deque[v])>> \in Workers \X Tasks
      BY <2>3, AimIsNotNone
    <2> QED BY <2>2, <2>4 DEF PcInv
  <1>13. CASE \E w \in Workers, v \in Workers : StealNothing(w, v)
    BY <1>13
    DEF StealNothing, Goto
  <1>14. CASE \E w \in Workers : StealWon(w)
    <2>1. PICK w \in Workers : StealWon(w)
      BY <1>14
    <2>2. /\ aim' = [aim EXCEPT ![w] = NoAim]
          /\ wpc' = [wpc EXCEPT ![w] = "body"]
      BY <2>1 DEF StealWon, Goto, Run
    <2> QED BY <2>2 DEF PcInv
  <1>15. CASE \E w \in Workers : StealAborted(w)
    <2>1. PICK w \in Workers : StealAborted(w)
      BY <1>15
    <2>2. /\ aim' = [aim EXCEPT ![w] = NoAim]
          /\ wpc' = [wpc EXCEPT ![w] = "steal"]
      BY <2>1 DEF StealAborted, Goto, Run
    <2> QED BY <2>2 DEF PcInv
  <1>16. CASE \E w \in Workers : StealFailed(w)
    BY <1>16
    DEF StealFailed, FoundNothing, Goto
  <1>17. CASE \E w \in Workers : BodyReturn(w)
    BY <1>17
    DEF BodyReturn, Goto
  <1>18. CASE \E w \in Workers : SpawnReadSleeping(w)
    BY <1>18
    DEF SpawnReadSleeping, Goto
  <1>19. CASE \E w \in Workers : SpawnLockUnlock(w)
    BY <1>19
    DEF SpawnLockUnlock, Goto
  <1>20. CASE \E w \in Workers : SpawnNotify(w)
    BY <1>20, WakingSteps
  <1>21. CASE \E w \in Workers : ParkCount(w)
    BY <1>21
    DEF ParkCount, Goto
  <1>22. CASE \E w \in Workers : ParkRunning(w)
    BY <1>22
    DEF ParkRunning, Unpark, Goto
  <1>23. CASE \E w \in Workers : ParkGlobal(w)
    BY <1>23
    DEF ParkGlobal, Unpark, Goto
  <1>24. CASE \E w \in Workers : ParkScan(w)
    BY <1>24
    DEF ParkScan, Unpark, Goto
  <1>25. CASE \E w \in Workers : Sleep(w)
    BY <1>25
    DEF Sleep, Goto
  <1>26. CASE \E w \in Workers : Woken(w)
    BY <1>26
    DEF Woken, Goto
  <1>27. CASE \E w \in Workers : SpuriousWakeup(w)
    BY <1>27, WakingSteps
  <1>28. CASE \E w \in Workers, t \in Tasks : Spawn(w, t)
    BY <1>28
    DEF Spawn, EnqueueStatic, EnqueueLocal, EnqueueGlobal, Goto
  <1>29. CASE DestroyDrained
    BY <1>29
    DEF DestroyDrained
  <1>30. CASE DestroyStop
    BY <1>30
    DEF DestroyStop
  <1>31. CASE DestroyNotify
    BY <1>31, WakingSteps
  <1>32. CASE DestroyJoin
    BY <1>32
    DEF DestroyJoin
  <1>33. CASE UNCHANGED vars
    BY <1>33 DEF vars
  <1> QED BY <1>1, <1>2, <1>3, <1>4, <1>5, <1>6, <1>7, <1>8, <1>9, <1>10, <1>11, <1>12,
             <1>13, <1>14, <1>15, <1>16, <1>17, <1>18, <1>19, <1>20, <1>21, <1>22,
             <1>23, <1>24, <1>25, <1>26, <1>27, <1>28, <1>29, <1>30, <1>31, <1>32, <1>33
    DEF Next, SubmitterStep, WorkerStep, DestructorStep, Gone

(* HandInv *)
LEMMA HandStep == PlaceInv /\ [Next]_vars => HandInv'
  <1> SUFFICES ASSUME PlaceInv, [Next]_vars PROVE HandInv'
    OBVIOUS
  <1> USE DEF PlaceInv, TypeInv, PcInv, HandInv, localVars, Stealing, Draining, Bodies,
              Counted, Parking
  <1>1. CASE \E s \in Submitters : ReadSleeping(s)
    BY <1>1, NoneAssumption
    DEF ReadSleeping
  <1>2. CASE \E s \in Submitters : LockUnlock(s)
    BY <1>2, NoneAssumption
    DEF LockUnlock
  <1>3. CASE \E s \in Submitters : NotifyOne(s)
    BY <1>3, WakingSteps
  <1>4. CASE \E s \in Submitters, t \in Tasks : Enqueue(s, t)
    BY <1>4, NoneAssumption
    DEF Enqueue, EnqueueStatic, EnqueueGlobal
  <1>5. CASE \E w \in Workers : LoopTop(w)
    BY <1>5, NoneAssumption
    DEF LoopTop, Goto
  <1>6. CASE \E w \in Workers : PopInbox(w)
    <2>1. PICK w \in Workers : PopInbox(w)
      BY <1>6
    <2>2. inbox[w] # << >> => Head(inbox[w]) \in Tasks
      BY <2>1, TailFacts DEF QueueInv
    <2>3. extra' = extra /\ wpc[w] = "inbox"
      BY <2>1 DEF PopInbox
    <2>4. \/ inbox[w] # << >> /\ hand' = [hand EXCEPT ![w] = Head(inbox[w])] /\ wpc' = [wpc EXCEPT ![w] = "body"]
          \/ hand' = hand /\ \E l \in {"loop", "park", "global", "steal"} : wpc' = [wpc EXCEPT ![w] = l]
      BY <2>1 DEF PopInbox, Goto, Run, FoundNothing
    <2> QED BY <2>2, <2>3, <2>4, NoneAssumption
  <1>7. CASE \E w \in Workers : PopLocal(w)
    <2>1. PICK w \in Workers : PopLocal(w)
      BY <1>7
    <2>2. deque[w] # << >> => Last(deque[w]) \in Tasks
      BY <2>1, FrontFacts DEF QueueInv
    <2>3. extra' = extra /\ wpc[w] = "local"
      BY <2>1 DEF PopLocal
    <2>4. \/ deque[w] # << >> /\ hand' = [hand EXCEPT ![w] = Last(deque[w])] /\ wpc' = [wpc EXCEPT ![w] = "body"]
          \/ hand' = hand /\ \E l \in {"loop", "park", "global", "steal"} : wpc' = [wpc EXCEPT ![w] = l]
      BY <2>1 DEF PopLocal, Goto, Run, FoundNothing
    <2> QED BY <2>2, <2>3, <2>4, NoneAssumption
  <1>8. CASE \E w \in Workers : DrainFirst(w)
    <2>1. PICK w \in Workers : DrainFirst(w)
      BY <1>8
    <2>2. global # << >> => Head(global) \in Tasks
      BY <2>1, TailFacts DEF QueueInv
    <2>3. extra' = extra /\ wpc[w] = "global"
      BY <2>1 DEF DrainFirst
    <2>4. \/ global # << >> /\ hand' = [hand EXCEPT ![w] = Head(global)] /\ wpc' = [wpc EXCEPT ![w] = "drain"]
          \/ hand' = hand /\ \E l \in {"loop", "park", "global", "steal"} : wpc' = [wpc EXCEPT ![w] = l]
      BY <2>1 DEF DrainFirst, Goto, Run, FoundNothing
    <2> QED BY <2>2, <2>3, <2>4, NoneAssumption
  <1>9. CASE \E w \in Workers : DrainTake(w)
    <2>1. PICK w \in Workers : DrainTake(w)
      BY <1>9
    <2>2. global # << >> => Head(global) \in Tasks
      BY <2>1, TailFacts DEF QueueInv
    <2>3. hand' = hand /\ wpc[w] = "drain"
      BY <2>1 DEF DrainTake
    <2>4. global # << >> /\ extra' = [extra EXCEPT ![w] = Head(global)] /\ wpc' = [wpc EXCEPT ![w] = "drainPush"]
      BY <2>1 DEF DrainTake, Goto
    <2> QED BY <2>2, <2>3, <2>4, NoneAssumption
  <1>10. CASE \E w \in Workers : DrainPush(w)
    BY <1>10, NoneAssumption
    DEF DrainPush, Goto
  <1>11. CASE \E w \in Workers : DrainDone(w)
    BY <1>11, NoneAssumption
    DEF DrainDone, Run, Goto
  <1>12. CASE \E w \in Workers, v \in Workers : StealRead(w, v)
    BY <1>12, NoneAssumption
    DEF StealRead, Goto
  <1>13. CASE \E w \in Workers, v \in Workers : StealNothing(w, v)
    BY <1>13, NoneAssumption
    DEF StealNothing, Goto
  <1>14. CASE \E w \in Workers : StealWon(w)
    <2>1. PICK w \in Workers : StealWon(w)
      BY <1>14
    <2>2. /\ hand' = [hand EXCEPT ![w] = aim[w][2]]
          /\ wpc' = [wpc EXCEPT ![w] = "body"] /\ extra' = extra
      BY <2>1 DEF StealWon, Run, Goto
    <2>3. aim[w][2] \in Tasks
      BY <2>1 DEF StealWon, AimInv
    <2>4. wpc[w] = "stealCas"
      BY <2>1 DEF StealWon
    <2> QED BY <2>2, <2>3, <2>4
  <1>15. CASE \E w \in Workers : StealAborted(w)
    BY <1>15, NoneAssumption
    DEF StealAborted, Goto
  <1>16. CASE \E w \in Workers : StealFailed(w)
    BY <1>16, NoneAssumption
    DEF StealFailed, FoundNothing, Goto
  <1>17. CASE \E w \in Workers : BodyReturn(w)
    BY <1>17, NoneAssumption
    DEF BodyReturn, Goto
  <1>18. CASE \E w \in Workers : SpawnReadSleeping(w)
    BY <1>18, NoneAssumption
    DEF SpawnReadSleeping, Goto
  <1>19. CASE \E w \in Workers : SpawnLockUnlock(w)
    BY <1>19, NoneAssumption
    DEF SpawnLockUnlock, Goto
  <1>20. CASE \E w \in Workers : SpawnNotify(w)
    BY <1>20, WakingSteps
  <1>21. CASE \E w \in Workers : ParkCount(w)
    BY <1>21, NoneAssumption
    DEF ParkCount, Goto
  <1>22. CASE \E w \in Workers : ParkRunning(w)
    BY <1>22, NoneAssumption
    DEF ParkRunning, Unpark, Goto
  <1>23. CASE \E w \in Workers : ParkGlobal(w)
    BY <1>23, NoneAssumption
    DEF ParkGlobal, Unpark, Goto
  <1>24. CASE \E w \in Workers : ParkScan(w)
    BY <1>24, NoneAssumption
    DEF ParkScan, Unpark, Goto
  <1>25. CASE \E w \in Workers : Sleep(w)
    BY <1>25, NoneAssumption
    DEF Sleep, Goto
  <1>26. CASE \E w \in Workers : Woken(w)
    BY <1>26, NoneAssumption
    DEF Woken, Goto
  <1>27. CASE \E w \in Workers : SpuriousWakeup(w)
    BY <1>27, WakingSteps
  <1>28. CASE \E w \in Workers, t \in Tasks : Spawn(w, t)
    BY <1>28, NoneAssumption
    DEF Spawn, EnqueueStatic, EnqueueLocal, EnqueueGlobal, Goto
  <1>29. CASE DestroyDrained
    BY <1>29, NoneAssumption
    DEF DestroyDrained
  <1>30. CASE DestroyStop
    BY <1>30, NoneAssumption
    DEF DestroyStop
  <1>31. CASE DestroyNotify
    BY <1>31, WakingSteps
  <1>32. CASE DestroyJoin
    BY <1>32, NoneAssumption
    DEF DestroyJoin
  <1>33. CASE UNCHANGED vars
    BY <1>33 DEF vars
  <1> QED BY <1>1, <1>2, <1>3, <1>4, <1>5, <1>6, <1>7, <1>8, <1>9, <1>10, <1>11, <1>12,
             <1>13, <1>14, <1>15, <1>16, <1>17, <1>18, <1>19, <1>20, <1>21, <1>22,
             <1>23, <1>24, <1>25, <1>26, <1>27, <1>28, <1>29, <1>30, <1>31, <1>32, <1>33
    DEF Next, SubmitterStep, WorkerStep, DestructorStep, Gone

(* LockInv: one worker at a time between ParkCount and its sleep. *)
LEMMA LockStep == PlaceInv /\ [Next]_vars => LockInv'
  <1> SUFFICES ASSUME PlaceInv, [Next]_vars PROVE LockInv'
    OBVIOUS
  <1> USE DEF PlaceInv, TypeInv, RangeInv, PcInv, LockInv, sleepVars, Stealing,
              Draining, Bodies, Counted, Parking
  <1>1. CASE \E s \in Submitters : ReadSleeping(s)
    BY <1>1, NoneAssumption
    DEF ReadSleeping
  <1>2. CASE \E s \in Submitters : LockUnlock(s)
    BY <1>2, NoneAssumption
    DEF LockUnlock
  <1>3. CASE \E s \in Submitters : NotifyOne(s)
    BY <1>3, NoneAssumption
    DEF NotifyOne, WakeOne
  <1>4. CASE \E s \in Submitters, t \in Tasks : Enqueue(s, t)
    BY <1>4, NoneAssumption
    DEF Enqueue, EnqueueStatic, EnqueueGlobal
  <1>5. CASE \E w \in Workers : LoopTop(w)
    BY <1>5, NoneAssumption
    DEF LoopTop, Goto
  <1>6. CASE \E w \in Workers : PopInbox(w)
    BY <1>6, NoneAssumption
    DEF PopInbox, Run, FoundNothing, Goto
  <1>7. CASE \E w \in Workers : PopLocal(w)
    BY <1>7, NoneAssumption
    DEF PopLocal, Run, Goto
  <1>8. CASE \E w \in Workers : DrainFirst(w)
    BY <1>8, NoneAssumption
    DEF DrainFirst, Goto
  <1>9. CASE \E w \in Workers : DrainTake(w)
    BY <1>9, NoneAssumption
    DEF DrainTake, Goto
  <1>10. CASE \E w \in Workers : DrainPush(w)
    BY <1>10, NoneAssumption
    DEF DrainPush, Goto
  <1>11. CASE \E w \in Workers : DrainDone(w)
    BY <1>11, NoneAssumption
    DEF DrainDone, Run, Goto
  <1>12. CASE \E w \in Workers, v \in Workers : StealRead(w, v)
    BY <1>12, NoneAssumption
    DEF StealRead, Goto
  <1>13. CASE \E w \in Workers, v \in Workers : StealNothing(w, v)
    BY <1>13, NoneAssumption
    DEF StealNothing, Goto
  <1>14. CASE \E w \in Workers : StealWon(w)
    BY <1>14, NoneAssumption
    DEF StealWon, Run, Goto
  <1>15. CASE \E w \in Workers : StealAborted(w)
    BY <1>15, NoneAssumption
    DEF StealAborted, Goto
  <1>16. CASE \E w \in Workers : StealFailed(w)
    BY <1>16, NoneAssumption
    DEF StealFailed, FoundNothing, Goto
  <1>17. CASE \E w \in Workers : BodyReturn(w)
    BY <1>17, NoneAssumption
    DEF BodyReturn, Goto
  <1>18. CASE \E w \in Workers : SpawnReadSleeping(w)
    BY <1>18, NoneAssumption
    DEF SpawnReadSleeping, Goto
  <1>19. CASE \E w \in Workers : SpawnLockUnlock(w)
    BY <1>19, NoneAssumption
    DEF SpawnLockUnlock, Goto
  <1>20. CASE \E w \in Workers : SpawnNotify(w)
    BY <1>20, NoneAssumption
    DEF SpawnNotify, WakeOne, Goto
  <1>21. CASE \E w \in Workers : ParkCount(w)
    BY <1>21, NoneAssumption
    DEF ParkCount, Goto
  <1>22. CASE \E w \in Workers : ParkRunning(w)
    BY <1>22, NoneAssumption
    DEF ParkRunning, Unpark, Goto
  <1>23. CASE \E w \in Workers : ParkGlobal(w)
    BY <1>23, NoneAssumption
    DEF ParkGlobal, Unpark, Goto
  <1>24. CASE \E w \in Workers : ParkScan(w)
    BY <1>24, NoneAssumption
    DEF ParkScan, Unpark, Goto
  <1>25. CASE \E w \in Workers : Sleep(w)
    BY <1>25, NoneAssumption
    DEF Sleep, Goto
  <1>26. CASE \E w \in Workers : Woken(w)
    BY <1>26, NoneAssumption
    DEF Woken, Goto
  <1>27. CASE \E w \in Workers : SpuriousWakeup(w)
    BY <1>27, NoneAssumption
    DEF SpuriousWakeup, Goto
  <1>28. CASE \E w \in Workers, t \in Tasks : Spawn(w, t)
    BY <1>28, NoneAssumption
    DEF Spawn, EnqueueStatic, EnqueueLocal, EnqueueGlobal, Goto
  <1>29. CASE DestroyDrained
    BY <1>29, NoneAssumption
    DEF DestroyDrained
  <1>30. CASE DestroyStop
    BY <1>30, NoneAssumption
    DEF DestroyStop
  <1>31. CASE DestroyNotify
    BY <1>31, NoneAssumption
    DEF DestroyNotify
  <1>32. CASE DestroyJoin
    BY <1>32, NoneAssumption
    DEF DestroyJoin
  <1>33. CASE UNCHANGED vars
    BY <1>33 DEF vars
  <1> QED BY <1>1, <1>2, <1>3, <1>4, <1>5, <1>6, <1>7, <1>8, <1>9, <1>10, <1>11, <1>12,
             <1>13, <1>14, <1>15, <1>16, <1>17, <1>18, <1>19, <1>20, <1>21, <1>22,
             <1>23, <1>24, <1>25, <1>26, <1>27, <1>28, <1>29, <1>30, <1>31, <1>32, <1>33
    DEF Next, SubmitterStep, WorkerStep, DestructorStep, Gone


-----------------------------------------------------------------------------
(* The accounting of tasks, apart from the queues: what becomes of it when *)
(* one task enters, moves from one home to another, or is run.             *)

(* Nothing moves. *)
LEMMA TaskStays ==
    ASSUME AccountInv, Held' = Held, UNCHANGED <<enqueued, runs>>
    PROVE  AccountInv'
  BY DEF AccountInv

(* enqueue_ready(): a new task gets its first home. *)
LEMMA TaskEnters ==
    ASSUME AccountInv, NEW h \in Homes, NEW t \in Tasks, t \notin enqueued,
           Held' = Held \cup {<<h, t>>}, enqueued' = enqueued \cup {t}, UNCHANGED runs
    PROVE  AccountInv'
  <1> SUFFICES ASSUME NEW u \in Tasks
               PROVE  /\ u \notin enqueued' => runs'[u] = 0
                      /\ u \in enqueued' => runs'[u] \in {0, 1}
                      /\ u \notin enqueued' \/ runs'[u] = 1 => \A k \in Homes : <<k, u>> \notin Held'
                      /\ u \in enqueued' /\ runs'[u] = 0 =>
                            \E j \in Homes : \A k \in Homes : <<k, u>> \in Held' <=> k = j
    BY DEF AccountInv
  <1>1. CASE u = t
    BY <1>1 DEF AccountInv
  <1>2. CASE u # t
    <2>1. \A k \in Homes : <<k, u>> \in Held' <=> <<k, u>> \in Held
      BY <1>2
    <2> QED BY <1>2, <2>1 DEF AccountInv
  <1> QED BY <1>1, <1>2

(* A task changes its home. *)
LEMMA TaskMoves ==
    ASSUME AccountInv, NEW g \in Homes, NEW h \in Homes, NEW t \in Tasks, <<g, t>> \in Held,
           Held' = (Held \ {<<g, t>>}) \cup {<<h, t>>}, UNCHANGED <<enqueued, runs>>
    PROVE  AccountInv'
  <1> SUFFICES ASSUME NEW u \in Tasks
               PROVE  /\ u \notin enqueued' => runs'[u] = 0
                      /\ u \in enqueued' => runs'[u] \in {0, 1}
                      /\ u \notin enqueued' \/ runs'[u] = 1 => \A k \in Homes : <<k, u>> \notin Held'
                      /\ u \in enqueued' /\ runs'[u] = 0 =>
                            \E j \in Homes : \A k \in Homes : <<k, u>> \in Held' <=> k = j
    BY DEF AccountInv
  <1>1. CASE u = t
    <2>1. t \in enqueued /\ runs[t] = 0
      BY DEF AccountInv
    <2>2. \A k \in Homes : <<k, t>> \in Held <=> k = g
      BY <2>1 DEF AccountInv
    <2>3. \A k \in Homes : <<k, t>> \in Held' <=> k = h
      BY <2>2
    <2> QED BY <1>1, <2>1, <2>3
  <1>2. CASE u # t
    <2>1. \A k \in Homes : <<k, u>> \in Held' <=> <<k, u>> \in Held
      BY <1>2
    <2> QED BY <1>2, <2>1 DEF AccountInv
  <1> QED BY <1>1, <1>2

(* A task leaves its home to be run. *)
LEMMA TaskRuns ==
    ASSUME AccountInv, RunsInv, NEW g \in Homes, NEW t \in Tasks, <<g, t>> \in Held,
           Held' = Held \ {<<g, t>>}, runs' = [runs EXCEPT ![t] = runs[t] + 1],
           UNCHANGED enqueued
    PROVE  AccountInv'
  <1> SUFFICES ASSUME NEW u \in Tasks
               PROVE  /\ u \notin enqueued' => runs'[u] = 0
                      /\ u \in enqueued' => runs'[u] \in {0, 1}
                      /\ u \notin enqueued' \/ runs'[u] = 1 => \A k \in Homes : <<k, u>> \notin Held'
                      /\ u \in enqueued' /\ runs'[u] = 0 =>
                            \E j \in Homes : \A k \in Homes : <<k, u>> \in Held' <=> k = j
    BY DEF AccountInv
  <1>1. CASE u = t
    <2>1. t \in enqueued /\ runs[t] = 0
      BY DEF AccountInv
    <2>2. \A k \in Homes : <<k, t>> \in Held <=> k = g
      BY <2>1 DEF AccountInv
    <2>3. \A k \in Homes : <<k, t>> \notin Held'
      BY <2>2
    <2>4. runs'[t] = 1
      BY <2>1 DEF RunsInv
    <2> QED BY <1>1, <2>1, <2>3, <2>4
  <1>2. CASE u # t
    <2>1. \A k \in Homes : <<k, u>> \in Held' <=> <<k, u>> \in Held
      BY <1>2
    <2>2. runs'[u] = runs[u]
      BY <1>2 DEF RunsInv
    <2> QED BY <1>2, <2>1, <2>2 DEF AccountInv
  <1> QED BY <1>1, <1>2

(* What each home holds. *)
LEMMA HeldBy ==
    \A w \in Workers, t \in Tasks :
        /\ <<<<"global", w>>, t>> \in Held <=> w = 0 /\ InQueue(global, t)
        /\ <<<<"deque", w>>, t>> \in Held <=> InQueue(deque[w], t)
        /\ <<<<"inbox", w>>, t>> \in Held <=> InQueue(inbox[w], t)
        /\ <<<<"extra", w>>, t>> \in Held <=> extra[w] = t
        /\ <<<<"hand", w>>, t>> \in Held <=> hand[w] = t /\ wpc[w] \in Draining
  BY DEF Held, Holds, Homes, Kinds

(* ... and what it holds after a step. *)
LEMMA HeldByNext ==
    \A w \in Workers, t \in Tasks :
        /\ <<<<"global", w>>, t>> \in Held' <=> w = 0 /\ InQueue(global', t)
        /\ <<<<"deque", w>>, t>> \in Held' <=> InQueue(deque'[w], t)
        /\ <<<<"inbox", w>>, t>> \in Held' <=> InQueue(inbox'[w], t)
        /\ <<<<"extra", w>>, t>> \in Held' <=> extra'[w] = t
        /\ <<<<"hand", w>>, t>> \in Held' <=> hand'[w] = t /\ wpc'[w] \in Draining
  BY DEF Held, Holds, Homes, Kinds, InQueue

(* Held is known by its five kinds of pairs. *)
LEMMA HeldIs ==
    ASSUME NEW S \in SUBSET (Homes \X Tasks),
           \A k \in Kinds, v \in Workers, u \in Tasks :
               <<<<k, v>>, u>> \in Held' <=> <<<<k, v>>, u>> \in S
    PROVE  Held' = S
  <1>1. Held' \subseteq Homes \X Tasks
    BY DEF Held
  <1>2. \A p \in Homes \X Tasks : p \in Held' <=> p \in S
    BY DEF Homes
  <1> QED BY <1>1, <1>2

(* One home gains one task. *)
LEMMA HeldGains ==
    ASSUME NEW k \in Kinds, NEW w \in Workers, NEW t \in Tasks,
           \A v \in Workers, u \in Tasks :
               /\ (v = 0 /\ InQueue(global', u)) <=>
                    (v = 0 /\ InQueue(global, u)) \/ (k = "global" /\ v = w /\ u = t)
               /\ (InQueue(deque'[v], u)) <=>
                    (InQueue(deque[v], u)) \/ (k = "deque" /\ v = w /\ u = t)
               /\ (InQueue(inbox'[v], u)) <=>
                    (InQueue(inbox[v], u)) \/ (k = "inbox" /\ v = w /\ u = t)
               /\ (extra'[v] = u) <=>
                    (extra[v] = u) \/ (k = "extra" /\ v = w /\ u = t)
               /\ (hand'[v] = u /\ wpc'[v] \in Draining) <=>
                    (hand[v] = u /\ wpc[v] \in Draining) \/ (k = "hand" /\ v = w /\ u = t)
    PROVE  Held' = Held \cup {<<<<k, w>>, t>>}
  <1> DEFINE S == Held \cup {<<<<k, w>>, t>>}
  <1>1. S \in SUBSET (Homes \X Tasks)
    BY DEF Held, Homes
  <1>2. ASSUME NEW l \in Kinds, NEW v \in Workers, NEW u \in Tasks
        PROVE  <<<<l, v>>, u>> \in S <=>
                   <<<<l, v>>, u>> \in Held \/ (k = l /\ v = w /\ u = t)
    <2>1. <<<<l, v>>, u>> = <<<<k, w>>, t>> <=> k = l /\ v = w /\ u = t
      OBVIOUS
    <2> QED BY <2>1
  <1>3. ASSUME NEW l \in Kinds, NEW v \in Workers, NEW u \in Tasks
        PROVE  <<<<l, v>>, u>> \in Held' <=>
                   <<<<l, v>>, u>> \in Held \/ (k = l /\ v = w /\ u = t)
    <2> DEFINE Changed(i) == <<<<i, v>>, u>> \in Held' <=>
                   <<<<i, v>>, u>> \in Held \/ (k = i /\ v = w /\ u = t)
    <2>1. Changed("global")
      BY HeldBy, HeldByNext
    <2>2. Changed("deque")
      BY HeldBy, HeldByNext
    <2>3. Changed("inbox")
      BY HeldBy, HeldByNext
    <2>4. Changed("extra")
      BY HeldBy, HeldByNext
    <2>5. Changed("hand")
      BY HeldBy, HeldByNext
    <2> QED BY <2>1, <2>2, <2>3, <2>4, <2>5 DEF Kinds
  <1> HIDE DEF S
  <1>4. \A l \in Kinds, v \in Workers, u \in Tasks :
            <<<<l, v>>, u>> \in Held' <=> <<<<l, v>>, u>> \in S
    BY <1>2, <1>3
  <1> QED BY <1>1, <1>4, HeldIs DEF S

(* One home loses one task. *)
LEMMA HeldLoses ==
    ASSUME NEW k \in Kinds, NEW w \in Workers, NEW t \in Tasks,
           \A v \in Workers, u \in Tasks :
               /\ (v = 0 /\ InQueue(global', u)) <=>
                    (v = 0 /\ InQueue(global, u)) /\ ~(k = "global" /\ v = w /\ u = t)
               /\ (InQueue(deque'[v], u)) <=>
                    (InQueue(deque[v], u)) /\ ~(k = "deque" /\ v = w /\ u = t)
               /\ (InQueue(inbox'[v], u)) <=>
                    (InQueue(inbox[v], u)) /\ ~(k = "inbox" /\ v = w /\ u = t)
               /\ (extra'[v] = u) <=>
                    (extra[v] = u) /\ ~(k = "extra" /\ v = w /\ u = t)
               /\ (hand'[v] = u /\ wpc'[v] \in Draining) <=>
                    (hand[v] = u /\ wpc[v] \in Draining) /\ ~(k = "hand" /\ v = w /\ u = t)
    PROVE  Held' = Held \ {<<<<k, w>>, t>>}
  <1> DEFINE S == Held \ {<<<<k, w>>, t>>}
  <1>1. S \in SUBSET (Homes \X Tasks)
    BY DEF Held, Homes
  <1>2. ASSUME NEW l \in Kinds, NEW v \in Workers, NEW u \in Tasks
        PROVE  <<<<l, v>>, u>> \in S <=>
                   <<<<l, v>>, u>> \in Held /\ ~(k = l /\ v = w /\ u = t)
    <2>1. <<<<l, v>>, u>> = <<<<k, w>>, t>> <=> k = l /\ v = w /\ u = t
      OBVIOUS
    <2> QED BY <2>1
  <1>3. ASSUME NEW l \in Kinds, NEW v \in Workers, NEW u \in Tasks
        PROVE  <<<<l, v>>, u>> \in Held' <=>
                   <<<<l, v>>, u>> \in Held /\ ~(k = l /\ v = w /\ u = t)
    <2> DEFINE Changed(i) == <<<<i, v>>, u>> \in Held' <=>
                   <<<<i, v>>, u>> \in Held /\ ~(k = i /\ v = w /\ u = t)
    <2>1. Changed("global")
      BY HeldBy, HeldByNext
    <2>2. Changed("deque")
      BY HeldBy, HeldByNext
    <2>3. Changed("inbox")
      BY HeldBy, HeldByNext
    <2>4. Changed("extra")
      BY ZenonT(40), HeldBy, HeldByNext
    <2>5. Changed("hand")
      BY ZenonT(40), HeldBy, HeldByNext
    <2> QED BY <2>1, <2>2, <2>3, <2>4, <2>5 DEF Kinds
  <1> HIDE DEF S
  <1>4. \A l \in Kinds, v \in Workers, u \in Tasks :
            <<<<l, v>>, u>> \in Held' <=> <<<<l, v>>, u>> \in S
    BY <1>2, <1>3
  <1> QED BY <1>1, <1>4, HeldIs DEF S

(* The five kinds, when task t goes from home <<j, x>> to home <<k, w>>. *)
Moved(j, x, k, w, t) ==
    \A v \in Workers, u \in Tasks :
        /\ (v = 0 /\ InQueue(global', u)) <=>
             ((v = 0 /\ InQueue(global, u)) /\ ~(j = "global" /\ v = x /\ u = t)) \/ (k = "global" /\ v = w /\ u = t)
        /\ (InQueue(deque'[v], u)) <=>
             ((InQueue(deque[v], u)) /\ ~(j = "deque" /\ v = x /\ u = t)) \/ (k = "deque" /\ v = w /\ u = t)
        /\ (InQueue(inbox'[v], u)) <=>
             ((InQueue(inbox[v], u)) /\ ~(j = "inbox" /\ v = x /\ u = t)) \/ (k = "inbox" /\ v = w /\ u = t)
        /\ (extra'[v] = u) <=>
             ((extra[v] = u) /\ ~(j = "extra" /\ v = x /\ u = t)) \/ (k = "extra" /\ v = w /\ u = t)
        /\ (hand'[v] = u /\ wpc'[v] \in Draining) <=>
             ((hand[v] = u /\ wpc[v] \in Draining) /\ ~(j = "hand" /\ v = x /\ u = t)) \/ (k = "hand" /\ v = w /\ u = t)

(* One task goes from one home to another. *)
LEMMA HeldMoves ==
    ASSUME NEW j \in Kinds, NEW x \in Workers, NEW k \in Kinds, NEW w \in Workers, NEW t \in Tasks,
           Moved(j, x, k, w, t)
    PROVE  Held' = (Held \ {<<<<j, x>>, t>>}) \cup {<<<<k, w>>, t>>}
  <1> DEFINE S == (Held \ {<<<<j, x>>, t>>}) \cup {<<<<k, w>>, t>>}
  <1>1. S \in SUBSET (Homes \X Tasks)
    BY DEF Held, Homes
  <1>2. ASSUME NEW l \in Kinds, NEW v \in Workers, NEW u \in Tasks
        PROVE  <<<<l, v>>, u>> \in S <=>
                   (<<<<l, v>>, u>> \in Held /\ ~(j = l /\ v = x /\ u = t)) \/ (k = l /\ v = w /\ u = t)
    <2>1. <<<<l, v>>, u>> = <<<<j, x>>, t>> <=> j = l /\ v = x /\ u = t
      OBVIOUS
    <2>2. <<<<l, v>>, u>> = <<<<k, w>>, t>> <=> k = l /\ v = w /\ u = t
      OBVIOUS
    <2>3. <<<<l, v>>, u>> \in S <=> \/ /\ <<<<l, v>>, u>> \in Held
                                      /\ <<<<l, v>>, u>> # <<<<j, x>>, t>>
                                   \/ <<<<l, v>>, u>> = <<<<k, w>>, t>>
      OBVIOUS
    <2> QED BY <2>1, <2>2, <2>3
  <1>3. ASSUME NEW l \in Kinds, NEW v \in Workers, NEW u \in Tasks
        PROVE  <<<<l, v>>, u>> \in Held' <=>
                   (<<<<l, v>>, u>> \in Held /\ ~(j = l /\ v = x /\ u = t)) \/ (k = l /\ v = w /\ u = t)
    <2> DEFINE Changed(i) == <<<<i, v>>, u>> \in Held' <=>
                   (<<<<i, v>>, u>> \in Held /\ ~(j = i /\ v = x /\ u = t)) \/ (k = i /\ v = w /\ u = t)
    <2>1. Changed("global")
      BY HeldBy, HeldByNext DEF Moved
    <2>2. Changed("deque")
      BY HeldBy, HeldByNext DEF Moved
    <2>3. Changed("inbox")
      BY HeldBy, HeldByNext DEF Moved
    <2>4. Changed("extra")
      BY ZenonT(40), HeldBy, HeldByNext DEF Moved
    <2>5. Changed("hand")
      BY ZenonT(40), HeldBy, HeldByNext DEF Moved
    <2> QED BY <2>1, <2>2, <2>3, <2>4, <2>5 DEF Kinds
  <1> HIDE DEF S
  <1>4. \A l \in Kinds, v \in Workers, u \in Tasks :
            <<<<l, v>>, u>> \in Held' <=> <<<<l, v>>, u>> \in S
    BY <1>2, <1>3
  <1> QED BY <1>1, <1>4, HeldIs DEF S

-----------------------------------------------------------------------------
(* One queue gains or loses one task, the others stay as they are. *)

(* global_queue_.push() *)
LEMMA GlobalGains ==
    ASSUME QueueInv, RepeatInv, NEW t \in Tasks, ~InQueue(global, t),
           global' = Append(global, t), UNCHANGED <<deque, inbox>>
    PROVE  /\ QueueInv' /\ RepeatInv'
           /\ \A u \in Tasks : InQueue(global', u) <=> InQueue(global, u) \/ u = t
  BY AppendFacts DEF QueueInv, RepeatInv

(* a deque that is not full *)
LEMMA DequeGains ==
    ASSUME QueueInv, RepeatInv, NEW t \in Tasks, NEW w \in Workers, ~InQueue(deque[w], t),
           Len(deque[w]) < DequeCapacity,
           deque' = [deque EXCEPT ![w] = Append(deque[w], t)], UNCHANGED <<global, inbox>>
    PROVE  /\ QueueInv' /\ RepeatInv'
           /\ \A v \in Workers, u \in Tasks :
                InQueue(deque'[v], u) <=> InQueue(deque[v], u) \/ (v = w /\ u = t)
  <1> DEFINE q == Append(deque[w], t)
  <1>1. /\ q \in Seq(Tasks) /\ Len(q) = Len(deque[w]) + 1 /\ Len(deque[w]) \in Nat
        /\ \A u \in Tasks : InQueue(q, u) <=> InQueue(deque[w], u) \/ u = t
        /\ NoRepeat(q)
    BY AppendFacts DEF QueueInv, RepeatInv
  <1>2. deque' = [deque EXCEPT ![w] = q]
    OBVIOUS
  <1>3. Len(q) <= DequeCapacity
    BY <1>1, Counters
  <1> HIDE DEF q
  <1>4. deque'[w] = q /\ \A v \in Workers \ {w} : deque'[v] = deque[v]
    BY <1>2 DEF QueueInv
  <1>5. QueueInv'
    BY <1>1, <1>2, <1>3 DEF QueueInv
  <1>6. RepeatInv'
    BY <1>1, <1>4 DEF RepeatInv
  <1> QED BY <1>1, <1>4, <1>5, <1>6

(* an inbox *)
LEMMA InboxGains ==
    ASSUME QueueInv, RepeatInv, NEW t \in Tasks, NEW w \in Workers, ~InQueue(inbox[w], t),
           inbox' = [inbox EXCEPT ![w] = Append(inbox[w], t)], UNCHANGED <<global, deque>>
    PROVE  /\ QueueInv' /\ RepeatInv'
           /\ \A v \in Workers, u \in Tasks :
                InQueue(inbox'[v], u) <=> InQueue(inbox[v], u) \/ (v = w /\ u = t)
  <1> DEFINE q == Append(inbox[w], t)
  <1>1. /\ q \in Seq(Tasks)
        /\ \A u \in Tasks : InQueue(q, u) <=> InQueue(inbox[w], u) \/ u = t
        /\ NoRepeat(q)
    BY AppendFacts DEF QueueInv, RepeatInv
  <1>2. inbox' = [inbox EXCEPT ![w] = q]
    OBVIOUS
  <1> HIDE DEF q
  <1>3. inbox'[w] = q /\ \A v \in Workers \ {w} : inbox'[v] = inbox[v]
    BY <1>2 DEF QueueInv
  <1>4. QueueInv'
    BY <1>1, <1>2 DEF QueueInv
  <1>5. RepeatInv'
    BY <1>1, <1>3 DEF RepeatInv
  <1> QED BY <1>1, <1>3, <1>4, <1>5

(* global_queue_.try_pop() *)
LEMMA GlobalLoses ==
    ASSUME QueueInv, RepeatInv, global # << >>, global' = Tail(global), UNCHANGED <<deque, inbox>>
    PROVE  /\ QueueInv' /\ RepeatInv'
           /\ Head(global) \in Tasks /\ InQueue(global, Head(global))
           /\ \A u \in Tasks : InQueue(global', u) <=> InQueue(global, u) /\ u # Head(global)
  BY TailFacts DEF QueueInv, RepeatInv

(* steal() *)
LEMMA DequeLosesHead ==
    ASSUME QueueInv, RepeatInv, NEW w \in Workers, deque[w] # << >>,
           deque' = [deque EXCEPT ![w] = Tail(deque[w])], UNCHANGED <<global, inbox>>
    PROVE  /\ QueueInv' /\ RepeatInv'
           /\ Head(deque[w]) \in Tasks /\ InQueue(deque[w], Head(deque[w]))
           /\ \A v \in Workers, u \in Tasks :
                InQueue(deque'[v], u) <=> InQueue(deque[v], u) /\ ~(v = w /\ u = Head(deque[w]))
  <1> DEFINE q == Tail(deque[w])
             h == Head(deque[w])
  <1>1. /\ q \in Seq(Tasks) /\ Len(q) = Len(deque[w]) - 1 /\ Len(deque[w]) \in Nat
        /\ \A u \in Tasks : InQueue(q, u) <=> InQueue(deque[w], u) /\ u # h
        /\ NoRepeat(q) /\ h \in Tasks /\ InQueue(deque[w], h)
    BY TailFacts DEF QueueInv, RepeatInv
  <1>2. deque' = [deque EXCEPT ![w] = q]
    OBVIOUS
  <1> SUFFICES /\ QueueInv' /\ RepeatInv'
               /\ h \in Tasks /\ InQueue(deque[w], h)
               /\ \A v \in Workers, u \in Tasks :
                    InQueue(deque'[v], u) <=> InQueue(deque[v], u) /\ ~(v = w /\ u = h)
    OBVIOUS
  <1> HIDE DEF q, h
  <1>3. Len(q) <= DequeCapacity
    BY <1>1, Counters DEF QueueInv
  <1>4. deque'[w] = q /\ \A v \in Workers \ {w} : deque'[v] = deque[v]
    BY <1>2 DEF QueueInv
  <1>5. QueueInv'
    BY <1>1, <1>2, <1>3 DEF QueueInv
  <1>6. RepeatInv'
    BY <1>1, <1>4 DEF RepeatInv
  <1> QED BY <1>1, <1>4, <1>5, <1>6

(* pop() *)
LEMMA DequeLosesLast ==
    ASSUME QueueInv, RepeatInv, NEW w \in Workers, deque[w] # << >>,
           deque' = [deque EXCEPT ![w] = Front(deque[w])], UNCHANGED <<global, inbox>>
    PROVE  /\ QueueInv' /\ RepeatInv'
           /\ Last(deque[w]) \in Tasks /\ InQueue(deque[w], Last(deque[w]))
           /\ \A v \in Workers, u \in Tasks :
                InQueue(deque'[v], u) <=> InQueue(deque[v], u) /\ ~(v = w /\ u = Last(deque[w]))
  <1> DEFINE q == Front(deque[w])
             h == Last(deque[w])
  <1>1. /\ q \in Seq(Tasks) /\ Len(q) = Len(deque[w]) - 1 /\ Len(deque[w]) \in Nat
        /\ \A u \in Tasks : InQueue(q, u) <=> InQueue(deque[w], u) /\ u # h
        /\ NoRepeat(q) /\ h \in Tasks /\ InQueue(deque[w], h)
    BY FrontFacts DEF QueueInv, RepeatInv
  <1>2. deque' = [deque EXCEPT ![w] = q]
    OBVIOUS
  <1> SUFFICES /\ QueueInv' /\ RepeatInv'
               /\ h \in Tasks /\ InQueue(deque[w], h)
               /\ \A v \in Workers, u \in Tasks :
                    InQueue(deque'[v], u) <=> InQueue(deque[v], u) /\ ~(v = w /\ u = h)
    OBVIOUS
  <1> HIDE DEF q, h
  <1>3. Len(q) <= DequeCapacity
    BY <1>1, Counters DEF QueueInv
  <1>4. deque'[w] = q /\ \A v \in Workers \ {w} : deque'[v] = deque[v]
    BY <1>2 DEF QueueInv
  <1>5. QueueInv'
    BY <1>1, <1>2, <1>3 DEF QueueInv
  <1>6. RepeatInv'
    BY <1>1, <1>4 DEF RepeatInv
  <1> QED BY <1>1, <1>4, <1>5, <1>6

(* the pop of an inbox *)
LEMMA InboxLoses ==
    ASSUME QueueInv, RepeatInv, NEW w \in Workers, inbox[w] # << >>,
           inbox' = [inbox EXCEPT ![w] = Tail(inbox[w])], UNCHANGED <<global, deque>>
    PROVE  /\ QueueInv' /\ RepeatInv'
           /\ Head(inbox[w]) \in Tasks /\ InQueue(inbox[w], Head(inbox[w]))
           /\ \A v \in Workers, u \in Tasks :
                InQueue(inbox'[v], u) <=> InQueue(inbox[v], u) /\ ~(v = w /\ u = Head(inbox[w]))
  <1> DEFINE q == Tail(inbox[w])
             h == Head(inbox[w])
  <1>1. /\ q \in Seq(Tasks)
        /\ \A u \in Tasks : InQueue(q, u) <=> InQueue(inbox[w], u) /\ u # h
        /\ NoRepeat(q) /\ h \in Tasks /\ InQueue(inbox[w], h)
    BY TailFacts DEF QueueInv, RepeatInv
  <1>2. inbox' = [inbox EXCEPT ![w] = q]
    OBVIOUS
  <1> SUFFICES /\ QueueInv' /\ RepeatInv'
               /\ h \in Tasks /\ InQueue(inbox[w], h)
               /\ \A v \in Workers, u \in Tasks :
                    InQueue(inbox'[v], u) <=> InQueue(inbox[v], u) /\ ~(v = w /\ u = h)
    OBVIOUS
  <1> HIDE DEF q, h
  <1>3. inbox'[w] = q /\ \A v \in Workers \ {w} : inbox'[v] = inbox[v]
    BY <1>2 DEF QueueInv
  <1>4. QueueInv'
    BY <1>1, <1>2 DEF QueueInv
  <1>5. RepeatInv'
    BY <1>1, <1>3 DEF RepeatInv
  <1> QED BY <1>1, <1>3, <1>4, <1>5


-----------------------------------------------------------------------------
(* TaskInv, operation by operation. *)

(* The homes have their names. *)
LEMMA HomeNames ==
    /\ <<"global", 0>> \in Homes
    /\ \A w \in Workers : /\ <<"deque", w>> \in Homes /\ <<"inbox", w>> \in Homes
                          /\ <<"extra", w>> \in Homes /\ <<"hand", w>> \in Homes
  BY Counters DEF Homes, Kinds

(* A task that is new is in no queue. *)
LEMMA NewIsNowhere ==
    ASSUME AccountInv, NEW t \in Tasks, t \notin enqueued
    PROVE  /\ ~InQueue(global, t)
           /\ \A w \in Workers : ~InQueue(deque[w], t) /\ ~InQueue(inbox[w], t)
  <1>1. \A h \in Homes : <<h, t>> \notin Held
    BY DEF AccountInv
  <1> QED BY <1>1, HomeNames, HeldBy, Counters

(* A task that has a home has no other. *)
LEMMA OneHome ==
    ASSUME AccountInv, NEW t \in Tasks, NEW g \in Homes, <<g, t>> \in Held
    PROVE  \A h \in Homes : <<h, t>> \in Held => h = g
  BY DEF AccountInv

(* The three ways of publishing a task. *)
LEMMA Published ==
    ASSUME TypeInv, TaskInv, NEW t \in Tasks, NEW w \in Workers, t \notin enqueued,
           EnqueueStatic(t) \/ EnqueueGlobal(t) \/ EnqueueLocal(w, t),
           UNCHANGED <<extra, hand>>,
           \A v \in Workers : wpc'[v] \in Draining <=> wpc[v] \in Draining
    PROVE  /\ QueueInv' /\ RepeatInv'
           /\ \E h \in Homes : Held' = Held \cup {<<h, t>>}
  <1>1. /\ ~InQueue(global, t)
        /\ \A v \in Workers : ~InQueue(deque[v], t) /\ ~InQueue(inbox[v], t)
    BY NewIsNowhere DEF TaskInv
  <1>2. QueueInv /\ RepeatInv /\ Held \subseteq Homes \X Tasks /\ cursor \in Workers
    BY DEF TypeInv, RangeInv, TaskInv, Held
  <1>3. CASE EnqueueStatic(t)
    <2> DEFINE h == <<"inbox", cursor>>
    <2>1. /\ QueueInv' /\ RepeatInv'
          /\ \A v \in Workers, u \in Tasks :
                InQueue(inbox'[v], u) <=> InQueue(inbox[v], u) \/ (v = cursor /\ u = t)
      BY <1>1, <1>2, <1>3, InboxGains DEF EnqueueStatic
    <2>2. h \in Homes
      BY <1>2, HomeNames
    <2>3. Held' = Held \cup {<<h, t>>}
      BY <1>2, <1>3, <2>1, <2>2, HeldGains, Counters DEF EnqueueStatic, Kinds
    <2> QED BY <2>1, <2>2, <2>3
  <1>4. CASE EnqueueGlobal(t)
    <2> DEFINE h == <<"global", 0>>
    <2>1. /\ QueueInv' /\ RepeatInv'
          /\ \A u \in Tasks : InQueue(global', u) <=> InQueue(global, u) \/ u = t
      BY <1>1, <1>2, <1>4, GlobalGains DEF EnqueueGlobal
    <2>2. h \in Homes
      BY HomeNames
    <2>3. Held' = Held \cup {<<h, t>>}
      BY <1>2, <1>4, <2>1, <2>2, HeldGains, Counters DEF EnqueueGlobal, Kinds
    <2> QED BY <2>1, <2>2, <2>3
  <1>5. CASE EnqueueLocal(w, t) /\ ~EnqueueGlobal(t)
    <2> DEFINE h == <<"deque", w>>
    <2>1. /\ QueueInv' /\ RepeatInv'
          /\ \A v \in Workers, u \in Tasks :
                InQueue(deque'[v], u) <=> InQueue(deque[v], u) \/ (v = w /\ u = t)
      BY <1>1, <1>2, <1>5, DequeGains DEF EnqueueLocal
    <2>2. h \in Homes
      BY HomeNames
    <2>3. Held' = Held \cup {<<h, t>>}
      BY <1>2, <1>5, <2>1, <2>2, HeldGains, Counters DEF EnqueueLocal, Kinds
    <2> QED BY <2>1, <2>2, <2>3
  <1> QED BY <1>3, <1>4, <1>5

(* enqueue_ready() from outside *)
LEMMA EnqueueTask ==
    ASSUME TypeInv, TaskInv, NEW s \in Submitters, NEW t \in Tasks, Enqueue(s, t)
    PROVE  QueueInv' /\ TaskInv'
  <1>1. /\ t \notin enqueued /\ enqueued' = enqueued \cup {t}
        /\ UNCHANGED <<extra, hand, wpc, runs>>
        /\ EnqueueStatic(t) \/ EnqueueGlobal(t)
    BY DEF Enqueue, localVars
  <1>2. QueueInv' /\ RepeatInv' /\ \E h \in Homes : Held' = Held \cup {<<h, t>>}
    BY <1>1, Published, Counters
  <1>3. AccountInv'
    BY <1>1, <1>2, TaskEnters DEF TaskInv
  <1> QED BY <1>2, <1>3 DEF TaskInv

(* enqueue_ready() from a body *)
LEMMA SpawnTask ==
    ASSUME TypeInv, TaskInv, NEW w \in Workers, NEW t \in Tasks, Spawn(w, t)
    PROVE  QueueInv' /\ TaskInv'
  <1>1. /\ t \notin enqueued /\ enqueued' = enqueued \cup {t}
        /\ UNCHANGED <<extra, hand, runs>>
        /\ wpc[w] = "body" /\ wpc' = [wpc EXCEPT ![w] = "spawnReadSleeping"]
        /\ EnqueueStatic(t) \/ EnqueueLocal(w, t)
    BY DEF Spawn, localVars, Goto
  <1>2. \A v \in Workers : wpc'[v] \in Draining <=> wpc[v] \in Draining
    BY <1>1 DEF TypeInv, PcInv, Draining
  <1>3. QueueInv' /\ RepeatInv' /\ \E h \in Homes : Held' = Held \cup {<<h, t>>}
    BY <1>1, <1>2, Published
  <1>4. AccountInv'
    BY <1>1, <1>3, TaskEnters DEF TaskInv
  <1> QED BY <1>3, <1>4 DEF TaskInv

(* A worker takes a task from a queue and runs it. *)
LEMMA RunFromQueue ==
    ASSUME TypeInv, TaskInv, NEW w \in Workers, NEW t \in Tasks, NEW g \in Homes, <<g, t>> \in Held,
           wpc[w] \notin Draining, Run(w, t), Held' = Held \ {<<g, t>>}, UNCHANGED enqueued,
           QueueInv', RepeatInv'
    PROVE  QueueInv' /\ TaskInv'
  BY TaskRuns DEF TaskInv, Run, TypeInv

(* acquire_next(), static mode *)
LEMMA PopInboxTask ==
    ASSUME TypeInv, TaskInv, NEW w \in Workers, PopInbox(w), inbox[w] # << >>
    PROVE  QueueInv' /\ TaskInv'
  <1> DEFINE t == Head(inbox[w])
             g == <<"inbox", w>>
  <1>1. /\ inbox' = [inbox EXCEPT ![w] = Tail(inbox[w])] /\ wpc[w] = "inbox"
        /\ UNCHANGED <<global, deque, extra, enqueued>>
        /\ Run(w, t)
    BY DEF PopInbox
  <1>2. hand' = [hand EXCEPT ![w] = t] /\ wpc' = [wpc EXCEPT ![w] = "body"]
    BY <1>1 DEF Run, Goto
  <1>3. QueueInv /\ RepeatInv /\ Held \subseteq Homes \X Tasks
    BY DEF TypeInv, TaskInv, Held
  <1>4. /\ QueueInv' /\ RepeatInv' /\ t \in Tasks /\ InQueue(inbox[w], t)
        /\ \A v \in Workers, u \in Tasks :
                InQueue(inbox'[v], u) <=> InQueue(inbox[v], u) /\ ~(v = w /\ u = t)
    BY <1>1, <1>3, InboxLoses
  <1> HIDE DEF t
  <1>5. g \in Homes /\ <<g, t>> \in Held
    BY <1>4, HomeNames, HeldBy
  <1>6. \A v \in Workers, u \in Tasks :
            hand'[v] = u /\ wpc'[v] \in Draining <=> hand[v] = u /\ wpc[v] \in Draining
    BY <1>1, <1>2 DEF TypeInv, PcInv, HandInv, Draining
  <1>7. Held' = Held \ {<<g, t>>}
    BY SMTT(20), <1>1, <1>3, <1>4, <1>5, <1>6, HeldLoses DEF Kinds
  <1>8. wpc[w] \notin Draining
    BY <1>1 DEF Draining
  <1> QED BY <1>1, <1>4, <1>5, <1>7, <1>8, RunFromQueue

(* acquire_next(): the own deque *)
LEMMA PopLocalTask ==
    ASSUME TypeInv, TaskInv, NEW w \in Workers, PopLocal(w), deque[w] # << >>
    PROVE  QueueInv' /\ TaskInv'
  <1> DEFINE t == Last(deque[w])
             g == <<"deque", w>>
  <1>1. /\ deque' = [deque EXCEPT ![w] = Front(deque[w])] /\ wpc[w] = "local"
        /\ UNCHANGED <<global, inbox, extra, enqueued>>
        /\ Run(w, t)
    BY DEF PopLocal
  <1>2. hand' = [hand EXCEPT ![w] = t] /\ wpc' = [wpc EXCEPT ![w] = "body"]
    BY <1>1 DEF Run, Goto
  <1>3. QueueInv /\ RepeatInv /\ Held \subseteq Homes \X Tasks
    BY DEF TypeInv, TaskInv, Held
  <1>4. /\ QueueInv' /\ RepeatInv' /\ t \in Tasks /\ InQueue(deque[w], t)
        /\ \A v \in Workers, u \in Tasks :
                InQueue(deque'[v], u) <=> InQueue(deque[v], u) /\ ~(v = w /\ u = t)
    BY <1>1, <1>3, DequeLosesLast
  <1> HIDE DEF t
  <1>5. g \in Homes /\ <<g, t>> \in Held
    BY <1>4, HomeNames, HeldBy
  <1>6. \A v \in Workers, u \in Tasks :
            hand'[v] = u /\ wpc'[v] \in Draining <=> hand[v] = u /\ wpc[v] \in Draining
    BY <1>1, <1>2 DEF TypeInv, PcInv, HandInv, Draining
  <1>7. Held' = Held \ {<<g, t>>}
    BY <1>1, <1>3, <1>4, <1>5, <1>6, HeldLoses DEF Kinds
  <1>8. wpc[w] \notin Draining
    BY <1>1 DEF Draining
  <1> QED BY <1>1, <1>4, <1>5, <1>7, <1>8, RunFromQueue

(* steal_from_others(): the CAS that succeeds *)
LEMMA StealWonTask ==
    ASSUME TypeInv, TaskInv, NEW w \in Workers, StealWon(w)
    PROVE  QueueInv' /\ TaskInv'
  <1> DEFINE x == aim[w][1]
             t == aim[w][2]
             g == <<"deque", x>>
  <1>1. /\ deque[x] # << >> /\ Head(deque[x]) = t
        /\ deque' = [deque EXCEPT ![x] = Tail(deque[x])] /\ wpc[w] = "stealCas"
        /\ UNCHANGED <<global, inbox, extra, enqueued>>
        /\ Run(w, t)
    BY DEF StealWon
  <1>2. hand' = [hand EXCEPT ![w] = t] /\ wpc' = [wpc EXCEPT ![w] = "body"]
    BY <1>1 DEF Run, Goto
  <1>3. QueueInv /\ RepeatInv /\ Held \subseteq Homes \X Tasks
    BY DEF TypeInv, TaskInv, Held
  <1>4. x \in Workers
    BY <1>1 DEF TypeInv, AimInv
  <1> HIDE DEF x, t
  <1>5. /\ QueueInv' /\ RepeatInv' /\ t \in Tasks /\ InQueue(deque[x], t)
        /\ \A v \in Workers, u \in Tasks :
                InQueue(deque'[v], u) <=> InQueue(deque[v], u) /\ ~(v = x /\ u = t)
    BY <1>1, <1>3, <1>4, DequeLosesHead
  <1>6. g \in Homes /\ <<g, t>> \in Held
    BY <1>4, <1>5, HomeNames, HeldBy
  <1>7. \A v \in Workers, u \in Tasks :
            hand'[v] = u /\ wpc'[v] \in Draining <=> hand[v] = u /\ wpc[v] \in Draining
    BY <1>1, <1>2 DEF TypeInv, PcInv, HandInv, Draining
  <1>8. Held' = Held \ {<<g, t>>}
    BY <1>1, <1>3, <1>4, <1>5, <1>6, <1>7, HeldLoses DEF Kinds
  <1>9. wpc[w] \notin Draining
    BY <1>1 DEF Draining
  <1> QED BY <1>1, <1>5, <1>6, <1>8, <1>9, RunFromQueue


(* drain_global(): the first task comes into the worker's hand. *)
LEMMA DrainFirstTask ==
    ASSUME TypeInv, TaskInv, NEW w \in Workers, DrainFirst(w), global # << >>
    PROVE  QueueInv' /\ TaskInv'
  <1> DEFINE t == Head(global)
  <1>1. /\ global' = Tail(global) /\ wpc[w] = "global"
        /\ UNCHANGED <<deque, inbox, extra, enqueued, runs>>
        /\ hand' = [hand EXCEPT ![w] = t] /\ wpc' = [wpc EXCEPT ![w] = "drain"]
    BY DEF DrainFirst, Goto
  <1>2. QueueInv /\ RepeatInv /\ AccountInv
    BY DEF TypeInv, TaskInv
  <1>3. /\ QueueInv' /\ RepeatInv' /\ t \in Tasks /\ InQueue(global, t)
        /\ \A u \in Tasks : InQueue(global', u) <=> InQueue(global, u) /\ u # t
    BY <1>1, <1>2, GlobalLoses
  <1> HIDE DEF t
  <1>4. \A v \in Workers, u \in Tasks :
            hand'[v] = u /\ wpc'[v] \in Draining <=>
                (hand[v] = u /\ wpc[v] \in Draining) \/ (v = w /\ u = t)
    BY <1>1, <1>3 DEF TypeInv, PcInv, HandInv, Draining
  <1>5. 0 \in Workers /\ <<"global", 0>> \in Homes /\ <<"hand", w>> \in Homes
    BY HomeNames, Counters
  <1>6. <<<<"global", 0>>, t>> \in Held
    BY <1>3, <1>5, HeldBy
  <1>7. Held' = (Held \ {<<<<"global", 0>>, t>>}) \cup {<<<<"hand", w>>, t>>}
    <2>1. Moved("global", 0, "hand", w, t)
      BY <1>1, <1>3, <1>4, <1>5 DEF Moved
    <2> QED BY <2>1, <1>3, HeldMoves, Counters DEF Kinds
  <1>8. AccountInv'
    BY <1>1, <1>2, <1>3, <1>5, <1>6, <1>7, TaskMoves
  <1> QED BY <1>3, <1>8 DEF TaskInv

(* ... a further task leaves the global queue for no queue at all ... *)
LEMMA DrainTakeTask ==
    ASSUME TypeInv, TaskInv, NEW w \in Workers, DrainTake(w)
    PROVE  QueueInv' /\ TaskInv'
  <1> DEFINE t == Head(global)
  <1>1. /\ global # << >> /\ global' = Tail(global) /\ wpc[w] = "drain"
        /\ UNCHANGED <<deque, inbox, hand, enqueued, runs>>
        /\ extra' = [extra EXCEPT ![w] = t] /\ wpc' = [wpc EXCEPT ![w] = "drainPush"]
    BY DEF DrainTake, Goto
  <1>2. QueueInv /\ RepeatInv /\ AccountInv
    BY DEF TypeInv, TaskInv
  <1>3. /\ QueueInv' /\ RepeatInv' /\ t \in Tasks /\ InQueue(global, t)
        /\ \A u \in Tasks : InQueue(global', u) <=> InQueue(global, u) /\ u # t
    BY <1>1, <1>2, GlobalLoses
  <1> HIDE DEF t
  <1>4. \A v \in Workers, u \in Tasks :
            hand'[v] = u /\ wpc'[v] \in Draining <=> hand[v] = u /\ wpc[v] \in Draining
    BY <1>1 DEF TypeInv, PcInv, Draining
  <1>5. \A v \in Workers, u \in Tasks : extra'[v] = u <=> extra[v] = u \/ (v = w /\ u = t)
    BY <1>1, <1>3 DEF TypeInv, HandInv
  <1>6. 0 \in Workers /\ <<"global", 0>> \in Homes /\ <<"extra", w>> \in Homes
    BY HomeNames, Counters
  <1>7. <<<<"global", 0>>, t>> \in Held
    BY <1>3, <1>6, HeldBy
  <1>8. Held' = (Held \ {<<<<"global", 0>>, t>>}) \cup {<<<<"extra", w>>, t>>}
    <2>1. Moved("global", 0, "extra", w, t)
      BY <1>1, <1>3, <1>4, <1>5, <1>6 DEF Moved
    <2> QED BY <2>1, <1>3, HeldMoves, Counters DEF Kinds
  <1>9. AccountInv'
    BY <1>1, <1>2, <1>3, <1>6, <1>7, <1>8, TaskMoves
  <1> QED BY <1>3, <1>9 DEF TaskInv

(* ... and into the deque, or back to the global queue. *)
LEMMA DrainPushTask ==
    ASSUME TypeInv, TaskInv, NEW w \in Workers, DrainPush(w)
    PROVE  QueueInv' /\ TaskInv'
  <1> DEFINE t == extra[w]
  <1>1. /\ wpc[w] = "drainPush"
        /\ UNCHANGED <<inbox, hand, enqueued, runs>>
        /\ extra' = [extra EXCEPT ![w] = NoTask] /\ wpc' = [wpc EXCEPT ![w] = "drain"]
    BY DEF DrainPush, Goto
  <1>2. QueueInv /\ RepeatInv /\ AccountInv
    BY DEF TypeInv, TaskInv
  <1>3. t \in Tasks
    BY <1>1 DEF TypeInv, HandInv
  <1>4. \A v \in Workers, u \in Tasks :
            hand'[v] = u /\ wpc'[v] \in Draining <=> hand[v] = u /\ wpc[v] \in Draining
    BY <1>1 DEF TypeInv, PcInv, Draining
  <1>5. \A v \in Workers, u \in Tasks : extra'[v] = u <=> extra[v] = u /\ ~(v = w /\ u = t)
    BY <1>1, NoneAssumption DEF TypeInv, HandInv
  <1>6. /\ 0 \in Workers /\ <<"global", 0>> \in Homes /\ <<"extra", w>> \in Homes
        /\ <<"deque", w>> \in Homes
    BY HomeNames, Counters
  <1>7. <<<<"extra", w>>, t>> \in Held
    BY <1>3, HeldBy
  <1>8. /\ <<<<"deque", w>>, t>> \notin Held
        /\ <<<<"global", 0>>, t>> \notin Held
    BY <1>2, <1>3, <1>6, <1>7, OneHome
  <1>9. ~InQueue(deque[w], t) /\ ~InQueue(global, t)
    BY <1>3, <1>6, <1>8, HeldBy
  <1>10. \/ /\ Len(deque[w]) < DequeCapacity
            /\ deque' = [deque EXCEPT ![w] = Append(deque[w], t)] /\ UNCHANGED global
         \/ global' = Append(global, t) /\ UNCHANGED deque
    BY DEF DrainPush
  <1> HIDE DEF t
  <1>11. CASE /\ Len(deque[w]) < DequeCapacity
              /\ deque' = [deque EXCEPT ![w] = Append(deque[w], t)] /\ UNCHANGED global
    <2>1. /\ QueueInv' /\ RepeatInv'
          /\ \A v \in Workers, u \in Tasks :
                InQueue(deque'[v], u) <=> InQueue(deque[v], u) \/ (v = w /\ u = t)
      BY <1>1, <1>2, <1>3, <1>9, <1>11, DequeGains
    <2>2. Held' = (Held \ {<<<<"extra", w>>, t>>}) \cup {<<<<"deque", w>>, t>>}
      <3>1. Moved("extra", w, "deque", w, t)
        BY <1>1, <1>3, <1>4, <1>5, <1>11, <2>1 DEF Moved
      <3> QED BY <3>1, <1>3, HeldMoves, Counters DEF Kinds
    <2>3. AccountInv'
      BY <1>1, <1>2, <1>3, <1>6, <1>7, <2>2, TaskMoves
    <2> QED BY <2>1, <2>3 DEF TaskInv
  <1>12. CASE global' = Append(global, t) /\ UNCHANGED deque
    <2>1. /\ QueueInv' /\ RepeatInv'
          /\ \A u \in Tasks : InQueue(global', u) <=> InQueue(global, u) \/ u = t
      BY <1>1, <1>2, <1>3, <1>9, <1>12, GlobalGains
    <2>2. Held' = (Held \ {<<<<"extra", w>>, t>>}) \cup {<<<<"global", 0>>, t>>}
      <3>1. Moved("extra", w, "global", 0, t)
        BY <1>1, <1>3, <1>4, <1>5, <1>6, <1>12, <2>1 DEF Moved
      <3> QED BY <3>1, <1>3, HeldMoves, Counters DEF Kinds
    <2>3. AccountInv'
      BY <1>1, <1>2, <1>3, <1>6, <1>7, <2>2, TaskMoves
    <2> QED BY <2>1, <2>3 DEF TaskInv
  <1> QED BY <1>10, <1>11, <1>12

(* The drain is over: the task in hand is run. *)
LEMMA DrainDoneTask ==
    ASSUME TypeInv, TaskInv, NEW w \in Workers, DrainDone(w)
    PROVE  QueueInv' /\ TaskInv'
  <1> DEFINE t == hand[w]
  <1>1. /\ wpc[w] = "drain"
        /\ UNCHANGED <<global, deque, inbox, extra, enqueued>>
        /\ hand' = [hand EXCEPT ![w] = t] /\ wpc' = [wpc EXCEPT ![w] = "body"]
        /\ runs' = [runs EXCEPT ![t] = runs[t] + 1]
    BY DEF DrainDone, Run, Goto, queueVars
  <1>2. QueueInv /\ RepeatInv /\ AccountInv /\ RunsInv
    BY DEF TypeInv, TaskInv
  <1>3. t \in Tasks
    BY <1>1 DEF TypeInv, HandInv, Draining
  <1>4. \A v \in Workers, u \in Tasks :
            hand'[v] = u /\ wpc'[v] \in Draining <=>
                hand[v] = u /\ wpc[v] \in Draining /\ ~(v = w /\ u = t)
    BY <1>1 DEF TypeInv, PcInv, HandInv, Draining
  <1>5. <<"hand", w>> \in Homes /\ <<<<"hand", w>>, t>> \in Held
    BY <1>1, <1>3, HomeNames, HeldBy DEF Draining
  <1> HIDE DEF t
  <1>6. Held' = Held \ {<<<<"hand", w>>, t>>}
    BY <1>1, <1>3, <1>4, HeldLoses DEF Kinds
  <1>7. AccountInv'
    BY <1>1, <1>2, <1>3, <1>5, <1>6, TaskRuns
  <1>8. QueueInv' /\ RepeatInv'
    BY <1>1, <1>2 DEF QueueInv, RepeatInv
  <1> QED BY <1>7, <1>8 DEF TaskInv

(* Every other step leaves the homes alone. *)
LEMMA HomesUntouched ==
    ASSUME TypeInv, TaskInv,
           UNCHANGED <<global, deque, inbox, extra, enqueued, runs>>,
           \A v \in Workers : wpc'[v] \in Draining <=> wpc[v] \in Draining,
           \A v \in Workers : wpc[v] \in Draining => hand'[v] = hand[v]
    PROVE  QueueInv' /\ TaskInv'
  <1>1. \A k \in Kinds, v \in Workers, u \in Tasks :
            <<<<k, v>>, u>> \in Held' <=> <<<<k, v>>, u>> \in Held
    BY ZenonT(40), HeldBy, HeldByNext DEF Kinds
  <1>2. Held \in SUBSET (Homes \X Tasks)
    BY DEF Held
  <1>3. Held' = Held
    BY <1>1, <1>2, HeldIs
  <1>4. AccountInv'
    BY <1>3, TaskStays DEF TaskInv
  <1>5. QueueInv' /\ RepeatInv'
    BY DEF TypeInv, TaskInv, QueueInv, RepeatInv
  <1> QED BY <1>4, <1>5 DEF TaskInv

(* Every step keeps the queues in their range and every task in its one    *)
(* home.                                                                   *)
LEMMA TaskStep == PlaceInv /\ TaskInv /\ [Next]_vars => QueueInv' /\ TaskInv'
  <1> SUFFICES ASSUME PlaceInv, TaskInv, [Next]_vars PROVE QueueInv' /\ TaskInv'
    OBVIOUS
  <1> USE DEF PlaceInv
  <1>1. CASE \E s \in Submitters : ReadSleeping(s)
    <2>1. UNCHANGED <<global, deque, inbox, extra, enqueued, runs>> /\ UNCHANGED <<hand, wpc>>
      BY <1>1 DEF ReadSleeping, queueVars, localVars
    <2> QED BY <2>1, HomesUntouched DEF PlaceInv
  <1>2. CASE \E s \in Submitters : LockUnlock(s)
    <2>1. UNCHANGED <<global, deque, inbox, extra, enqueued, runs>> /\ UNCHANGED <<hand, wpc>>
      BY <1>2 DEF LockUnlock, queueVars, localVars
    <2> QED BY <2>1, HomesUntouched DEF PlaceInv
  <1>3. CASE \E s \in Submitters : NotifyOne(s)
    <2>1. UNCHANGED <<global, deque, inbox, extra, enqueued, runs>> /\ hand' = hand
      BY <1>3, WakingSteps
    <2>2. \A w \in Workers : wpc'[w] \in Draining <=> wpc[w] \in Draining
      BY <1>3, WakingSteps DEF Draining
    <2> QED BY <2>1, <2>2, HomesUntouched DEF PlaceInv
  <1>4. CASE \E s \in Submitters, t \in Tasks : Enqueue(s, t)
    BY <1>4, EnqueueTask
  <1>5. CASE \E w \in Workers : LoopTop(w)
    <2>1. PICK w \in Workers : LoopTop(w)
      BY <1>5
    <2>2. UNCHANGED <<global, deque, inbox, extra, enqueued, runs>>
      BY <2>1 DEF LoopTop, queueVars, localVars
    <2>3. wpc[w] \notin Draining /\ \A v \in Workers \ {w} : hand'[v] = hand[v]
      BY <2>1 DEF LoopTop, localVars, Draining, PlaceInv, TypeInv, HandInv
    <2>4. wpc' = wpc \/ \E l \in WorkerStates \ Draining : wpc' = [wpc EXCEPT ![w] = l]
      BY <2>1
      DEF LoopTop, Goto, WorkerStates, Stealing, Draining, Bodies,
          Counted, Parking
    <2> QED BY <2>2, <2>3, <2>4, HomesUntouched DEF PlaceInv, TypeInv, PcInv
  <1>6. CASE \E w \in Workers : PopInbox(w)
    <2>1. PICK w \in Workers : PopInbox(w)
      BY <1>6
    <2>2. CASE inbox[w] # << >>
      BY <2>1, <2>2, PopInboxTask
    <2>3. CASE inbox[w] = << >>
      <3>1. UNCHANGED <<global, deque, inbox, extra, enqueued, runs>>
        BY <2>1, <2>3 DEF PopInbox, FoundNothing, queueVars
      <3>2. /\ hand' = hand /\ wpc[w] \notin Draining
            /\ \E l \in WorkerStates \ Draining : wpc' = [wpc EXCEPT ![w] = l]
        BY <2>1, <2>3 DEF PopInbox, FoundNothing, Goto, WorkerStates, Stealing, Draining, Bodies,
                        Counted, Parking
      <3> QED BY <3>1, <3>2, HomesUntouched DEF TypeInv, PcInv
    <2> QED BY <2>2, <2>3
  <1>7. CASE \E w \in Workers : PopLocal(w)
    <2>1. PICK w \in Workers : PopLocal(w)
      BY <1>7
    <2>2. CASE deque[w] # << >>
      BY <2>1, <2>2, PopLocalTask
    <2>3. CASE deque[w] = << >>
      <3>1. UNCHANGED <<global, deque, inbox, extra, enqueued, runs>>
        BY <2>1, <2>3 DEF PopLocal, FoundNothing, queueVars
      <3>2. /\ hand' = hand /\ wpc[w] \notin Draining
            /\ \E l \in WorkerStates \ Draining : wpc' = [wpc EXCEPT ![w] = l]
        BY <2>1, <2>3 DEF PopLocal, FoundNothing, Goto, WorkerStates, Stealing, Draining, Bodies,
                        Counted, Parking
      <3> QED BY <3>1, <3>2, HomesUntouched DEF TypeInv, PcInv
    <2> QED BY <2>2, <2>3
  <1>8. CASE \E w \in Workers : DrainFirst(w)
    <2>1. PICK w \in Workers : DrainFirst(w)
      BY <1>8
    <2>2. CASE global # << >>
      BY <2>1, <2>2, DrainFirstTask
    <2>3. CASE global = << >>
      <3>1. UNCHANGED <<global, deque, inbox, extra, enqueued, runs>>
        BY <2>1, <2>3 DEF DrainFirst, FoundNothing, queueVars
      <3>2. /\ hand' = hand /\ wpc[w] \notin Draining
            /\ \E l \in WorkerStates \ Draining : wpc' = [wpc EXCEPT ![w] = l]
        BY <2>1, <2>3 DEF DrainFirst, FoundNothing, Goto, WorkerStates, Stealing, Draining, Bodies,
                        Counted, Parking
      <3> QED BY <3>1, <3>2, HomesUntouched DEF TypeInv, PcInv
    <2> QED BY <2>2, <2>3
  <1>9. CASE \E w \in Workers : DrainTake(w)
    BY <1>9, DrainTakeTask
  <1>10. CASE \E w \in Workers : DrainPush(w)
    BY <1>10, DrainPushTask
  <1>11. CASE \E w \in Workers : DrainDone(w)
    BY <1>11, DrainDoneTask
  <1>12. CASE \E w \in Workers, v \in Workers : StealRead(w, v)
    <2>1. PICK w \in Workers, v \in Workers : StealRead(w, v)
      BY <1>12
    <2>2. UNCHANGED <<global, deque, inbox, extra, enqueued, runs>>
      BY <2>1 DEF StealRead, queueVars, localVars
    <2>3. wpc[w] \notin Draining /\ \A x \in Workers \ {w} : hand'[x] = hand[x]
      BY <2>1 DEF StealRead, localVars, Draining, PlaceInv, TypeInv, HandInv
    <2>4. wpc' = wpc \/ \E l \in WorkerStates \ Draining : wpc' = [wpc EXCEPT ![w] = l]
      BY <2>1
      DEF StealRead, Goto, WorkerStates, Stealing, Draining, Bodies,
          Counted, Parking
    <2> QED BY <2>2, <2>3, <2>4, HomesUntouched DEF PlaceInv, TypeInv, PcInv
  <1>13. CASE \E w \in Workers, v \in Workers : StealNothing(w, v)
    <2>1. PICK w \in Workers, v \in Workers : StealNothing(w, v)
      BY <1>13
    <2>2. UNCHANGED <<global, deque, inbox, extra, enqueued, runs>>
      BY <2>1 DEF StealNothing, queueVars, localVars
    <2>3. wpc[w] \notin Draining /\ \A x \in Workers \ {w} : hand'[x] = hand[x]
      BY <2>1 DEF StealNothing, localVars, Draining, PlaceInv, TypeInv, HandInv
    <2>4. wpc' = wpc \/ \E l \in WorkerStates \ Draining : wpc' = [wpc EXCEPT ![w] = l]
      BY <2>1
      DEF StealNothing, Goto, WorkerStates, Stealing, Draining, Bodies,
          Counted, Parking
    <2> QED BY <2>2, <2>3, <2>4, HomesUntouched DEF PlaceInv, TypeInv, PcInv
  <1>14. CASE \E w \in Workers : StealWon(w)
    BY <1>14, StealWonTask
  <1>15. CASE \E w \in Workers : StealAborted(w)
    <2>1. PICK w \in Workers : StealAborted(w)
      BY <1>15
    <2>2. UNCHANGED <<global, deque, inbox, extra, enqueued, runs>>
      BY <2>1 DEF StealAborted, queueVars, localVars
    <2>3. wpc[w] \notin Draining /\ \A v \in Workers \ {w} : hand'[v] = hand[v]
      BY <2>1 DEF StealAborted, localVars, Draining, PlaceInv, TypeInv, HandInv
    <2>4. wpc' = wpc \/ \E l \in WorkerStates \ Draining : wpc' = [wpc EXCEPT ![w] = l]
      BY <2>1
      DEF StealAborted, Goto, WorkerStates, Stealing, Draining, Bodies,
          Counted, Parking
    <2> QED BY <2>2, <2>3, <2>4, HomesUntouched DEF PlaceInv, TypeInv, PcInv
  <1>16. CASE \E w \in Workers : StealFailed(w)
    <2>1. PICK w \in Workers : StealFailed(w)
      BY <1>16
    <2>2. UNCHANGED <<global, deque, inbox, extra, enqueued, runs>>
      BY <2>1 DEF StealFailed, FoundNothing, queueVars, localVars
    <2>3. wpc[w] \notin Draining /\ \A v \in Workers \ {w} : hand'[v] = hand[v]
      BY <2>1 DEF StealFailed, FoundNothing, localVars, Draining, PlaceInv, TypeInv, HandInv
    <2>4. wpc' = wpc \/ \E l \in WorkerStates \ Draining : wpc' = [wpc EXCEPT ![w] = l]
      BY <2>1
      DEF StealFailed, FoundNothing, Goto, WorkerStates, Stealing, Draining, Bodies,
          Counted, Parking
    <2> QED BY <2>2, <2>3, <2>4, HomesUntouched DEF PlaceInv, TypeInv, PcInv
  <1>17. CASE \E w \in Workers : BodyReturn(w)
    <2>1. PICK w \in Workers : BodyReturn(w)
      BY <1>17
    <2>2. UNCHANGED <<global, deque, inbox, extra, enqueued, runs>>
      BY <2>1 DEF BodyReturn, queueVars, localVars
    <2>3. wpc[w] \notin Draining /\ \A v \in Workers \ {w} : hand'[v] = hand[v]
      BY <2>1 DEF BodyReturn, localVars, Draining, PlaceInv, TypeInv, HandInv
    <2>4. wpc' = wpc \/ \E l \in WorkerStates \ Draining : wpc' = [wpc EXCEPT ![w] = l]
      BY <2>1
      DEF BodyReturn, Goto, WorkerStates, Stealing, Draining, Bodies,
          Counted, Parking
    <2> QED BY <2>2, <2>3, <2>4, HomesUntouched DEF PlaceInv, TypeInv, PcInv
  <1>18. CASE \E w \in Workers : SpawnReadSleeping(w)
    <2>1. PICK w \in Workers : SpawnReadSleeping(w)
      BY <1>18
    <2>2. UNCHANGED <<global, deque, inbox, extra, enqueued, runs>>
      BY <2>1 DEF SpawnReadSleeping, queueVars, localVars
    <2>3. wpc[w] \notin Draining /\ \A v \in Workers \ {w} : hand'[v] = hand[v]
      BY <2>1 DEF SpawnReadSleeping, localVars, Draining, PlaceInv, TypeInv, HandInv
    <2>4. wpc' = wpc \/ \E l \in WorkerStates \ Draining : wpc' = [wpc EXCEPT ![w] = l]
      BY <2>1
      DEF SpawnReadSleeping, Goto, WorkerStates, Stealing, Draining, Bodies,
          Counted, Parking
    <2> QED BY <2>2, <2>3, <2>4, HomesUntouched DEF PlaceInv, TypeInv, PcInv
  <1>19. CASE \E w \in Workers : SpawnLockUnlock(w)
    <2>1. PICK w \in Workers : SpawnLockUnlock(w)
      BY <1>19
    <2>2. UNCHANGED <<global, deque, inbox, extra, enqueued, runs>>
      BY <2>1 DEF SpawnLockUnlock, queueVars, localVars
    <2>3. wpc[w] \notin Draining /\ \A v \in Workers \ {w} : hand'[v] = hand[v]
      BY <2>1 DEF SpawnLockUnlock, localVars, Draining, PlaceInv, TypeInv, HandInv
    <2>4. wpc' = wpc \/ \E l \in WorkerStates \ Draining : wpc' = [wpc EXCEPT ![w] = l]
      BY <2>1
      DEF SpawnLockUnlock, Goto, WorkerStates, Stealing, Draining, Bodies,
          Counted, Parking
    <2> QED BY <2>2, <2>3, <2>4, HomesUntouched DEF PlaceInv, TypeInv, PcInv
  <1>20. CASE \E w \in Workers : SpawnNotify(w)
    <2>1. UNCHANGED <<global, deque, inbox, extra, enqueued, runs>> /\ hand' = hand
      BY <1>20, WakingSteps
    <2>2. \A w \in Workers : wpc'[w] \in Draining <=> wpc[w] \in Draining
      BY <1>20, WakingSteps DEF Draining
    <2> QED BY <2>1, <2>2, HomesUntouched DEF PlaceInv
  <1>21. CASE \E w \in Workers : ParkCount(w)
    <2>1. PICK w \in Workers : ParkCount(w)
      BY <1>21
    <2>2. UNCHANGED <<global, deque, inbox, extra, enqueued, runs>>
      BY <2>1 DEF ParkCount, queueVars, localVars
    <2>3. wpc[w] \notin Draining /\ \A v \in Workers \ {w} : hand'[v] = hand[v]
      BY <2>1 DEF ParkCount, localVars, Draining, PlaceInv, TypeInv, HandInv
    <2>4. wpc' = wpc \/ \E l \in WorkerStates \ Draining : wpc' = [wpc EXCEPT ![w] = l]
      BY <2>1
      DEF ParkCount, Goto, WorkerStates, Stealing, Draining, Bodies,
          Counted, Parking
    <2> QED BY <2>2, <2>3, <2>4, HomesUntouched DEF PlaceInv, TypeInv, PcInv
  <1>22. CASE \E w \in Workers : ParkRunning(w)
    <2>1. PICK w \in Workers : ParkRunning(w)
      BY <1>22
    <2>2. UNCHANGED <<global, deque, inbox, extra, enqueued, runs>>
      BY <2>1 DEF ParkRunning, queueVars, localVars
    <2>3. wpc[w] \notin Draining /\ \A v \in Workers \ {w} : hand'[v] = hand[v]
      BY <2>1 DEF ParkRunning, Unpark, localVars, Draining, PlaceInv, TypeInv, HandInv
    <2>4. wpc' = wpc \/ \E l \in WorkerStates \ Draining : wpc' = [wpc EXCEPT ![w] = l]
      BY <2>1
      DEF ParkRunning, Unpark, Goto, WorkerStates, Stealing, Draining, Bodies,
          Counted, Parking
    <2> QED BY <2>2, <2>3, <2>4, HomesUntouched DEF PlaceInv, TypeInv, PcInv
  <1>23. CASE \E w \in Workers : ParkGlobal(w)
    <2>1. PICK w \in Workers : ParkGlobal(w)
      BY <1>23
    <2>2. UNCHANGED <<global, deque, inbox, extra, enqueued, runs>>
      BY <2>1 DEF ParkGlobal, queueVars, localVars
    <2>3. wpc[w] \notin Draining /\ \A v \in Workers \ {w} : hand'[v] = hand[v]
      BY <2>1 DEF ParkGlobal, Unpark, localVars, Draining, PlaceInv, TypeInv, HandInv
    <2>4. wpc' = wpc \/ \E l \in WorkerStates \ Draining : wpc' = [wpc EXCEPT ![w] = l]
      BY <2>1
      DEF ParkGlobal, Unpark, Goto, WorkerStates, Stealing, Draining, Bodies,
          Counted, Parking
    <2> QED BY <2>2, <2>3, <2>4, HomesUntouched DEF PlaceInv, TypeInv, PcInv
  <1>24. CASE \E w \in Workers : ParkScan(w)
    <2>1. PICK w \in Workers : ParkScan(w)
      BY <1>24
    <2>2. UNCHANGED <<global, deque, inbox, extra, enqueued, runs>>
      BY <2>1 DEF ParkScan, queueVars, localVars
    <2>3. wpc[w] \notin Draining /\ \A v \in Workers \ {w} : hand'[v] = hand[v]
      BY <2>1 DEF ParkScan, Unpark, localVars, Draining, PlaceInv, TypeInv, HandInv
    <2>4. wpc' = wpc \/ \E l \in WorkerStates \ Draining : wpc' = [wpc EXCEPT ![w] = l]
      BY <2>1
      DEF ParkScan, Unpark, Goto, WorkerStates, Stealing, Draining, Bodies,
          Counted, Parking
    <2> QED BY <2>2, <2>3, <2>4, HomesUntouched DEF PlaceInv, TypeInv, PcInv
  <1>25. CASE \E w \in Workers : Sleep(w)
    <2>1. PICK w \in Workers : Sleep(w)
      BY <1>25
    <2>2. UNCHANGED <<global, deque, inbox, extra, enqueued, runs>>
      BY <2>1 DEF Sleep, queueVars, localVars
    <2>3. wpc[w] \notin Draining /\ \A v \in Workers \ {w} : hand'[v] = hand[v]
      BY <2>1 DEF Sleep, localVars, Draining, PlaceInv, TypeInv, HandInv
    <2>4. wpc' = wpc \/ \E l \in WorkerStates \ Draining : wpc' = [wpc EXCEPT ![w] = l]
      BY <2>1
      DEF Sleep, Goto, WorkerStates, Stealing, Draining, Bodies,
          Counted, Parking
    <2> QED BY <2>2, <2>3, <2>4, HomesUntouched DEF PlaceInv, TypeInv, PcInv
  <1>26. CASE \E w \in Workers : Woken(w)
    <2>1. PICK w \in Workers : Woken(w)
      BY <1>26
    <2>2. UNCHANGED <<global, deque, inbox, extra, enqueued, runs>>
      BY <2>1 DEF Woken, queueVars, localVars
    <2>3. wpc[w] \notin Draining /\ \A v \in Workers \ {w} : hand'[v] = hand[v]
      BY <2>1 DEF Woken, localVars, Draining, PlaceInv, TypeInv, HandInv
    <2>4. wpc' = wpc \/ \E l \in WorkerStates \ Draining : wpc' = [wpc EXCEPT ![w] = l]
      BY <2>1
      DEF Woken, Goto, WorkerStates, Stealing, Draining, Bodies,
          Counted, Parking
    <2> QED BY <2>2, <2>3, <2>4, HomesUntouched DEF PlaceInv, TypeInv, PcInv
  <1>27. CASE \E w \in Workers : SpuriousWakeup(w)
    <2>1. UNCHANGED <<global, deque, inbox, extra, enqueued, runs>> /\ hand' = hand
      BY <1>27, WakingSteps
    <2>2. \A w \in Workers : wpc'[w] \in Draining <=> wpc[w] \in Draining
      BY <1>27, WakingSteps DEF Draining
    <2> QED BY <2>1, <2>2, HomesUntouched DEF PlaceInv
  <1>28. CASE \E w \in Workers, t \in Tasks : Spawn(w, t)
    BY <1>28, SpawnTask
  <1>29. CASE DestroyDrained
    <2>1. UNCHANGED <<global, deque, inbox, extra, enqueued, runs>> /\ UNCHANGED <<hand, wpc>>
      BY <1>29 DEF DestroyDrained, queueVars, localVars
    <2> QED BY <2>1, HomesUntouched DEF PlaceInv
  <1>30. CASE DestroyStop
    <2>1. UNCHANGED <<global, deque, inbox, extra, enqueued, runs>> /\ UNCHANGED <<hand, wpc>>
      BY <1>30 DEF DestroyStop, queueVars, localVars
    <2> QED BY <2>1, HomesUntouched DEF PlaceInv
  <1>31. CASE DestroyNotify
    <2>1. UNCHANGED <<global, deque, inbox, extra, enqueued, runs>> /\ hand' = hand
      BY <1>31, WakingSteps
    <2>2. \A w \in Workers : wpc'[w] \in Draining <=> wpc[w] \in Draining
      BY <1>31, WakingSteps DEF Draining
    <2> QED BY <2>1, <2>2, HomesUntouched DEF PlaceInv
  <1>32. CASE DestroyJoin
    <2>1. UNCHANGED <<global, deque, inbox, extra, enqueued, runs>> /\ UNCHANGED <<hand, wpc>>
      BY <1>32 DEF DestroyJoin, queueVars, localVars
    <2> QED BY <2>1, HomesUntouched DEF PlaceInv
  <1>33. CASE UNCHANGED vars
    BY <1>33 DEF vars, PlaceInv, TypeInv, TaskInv, QueueInv, AccountInv, RepeatInv, Held, Holds
  <1> QED BY <1>1, <1>2, <1>3, <1>4, <1>5, <1>6, <1>7, <1>8, <1>9, <1>10, <1>11, <1>12,
             <1>13, <1>14, <1>15, <1>16, <1>17, <1>18, <1>19, <1>20, <1>21, <1>22,
             <1>23, <1>24, <1>25, <1>26, <1>27, <1>28, <1>29, <1>30, <1>31, <1>32, <1>33
    DEF Next, SubmitterStep, WorkerStep, DestructorStep, Gone


-----------------------------------------------------------------------------
(* sleeping_ *)

(* There are worker_count_ workers. *)
LEMMA WorkersFinite == IsFiniteSet(Workers) /\ Cardinality(Workers) = NumWorkers
  <1>1. 0 \in Int /\ NumWorkers - 1 \in Int /\ 0 <= NumWorkers - 1
    BY ParkingAssumption
  <1> QED BY <1>1, ParkingAssumption, FS_Interval DEF Workers

(* Counted workers come and go one at a time. *)
LEMMA CountedCard ==
    /\ IsFiniteSet(CountedWorkers)
    /\ Cardinality(CountedWorkers) \in 0 .. NumWorkers
    /\ \A w \in Workers \ CountedWorkers :
            Cardinality(CountedWorkers \cup {w}) = Cardinality(CountedWorkers) + 1
    /\ \A w \in CountedWorkers :
            /\ Cardinality(CountedWorkers \ {w}) = Cardinality(CountedWorkers) - 1
            /\ Cardinality(CountedWorkers) >= 1
  <1> DEFINE C == CountedWorkers
  <1>1. C \subseteq Workers
    BY DEF CountedWorkers
  <1>2. IsFiniteSet(C) /\ Cardinality(C) \in Nat /\ Cardinality(C) <= NumWorkers
    BY <1>1, WorkersFinite, FS_Subset, FS_CardinalityType
  <1> HIDE DEF C
  <1>3. \A w : w \notin C => Cardinality(C \cup {w}) = Cardinality(C) + 1
    BY <1>2, FS_AddElement
  <1>4. ASSUME NEW w \in C
        PROVE  Cardinality(C \ {w}) = Cardinality(C) - 1 /\ Cardinality(C) >= 1
    <2>1. Cardinality(C \ {w}) = Cardinality(C) - 1
      BY <1>2, FS_RemoveElement
    <2>2. Cardinality(C \ {w}) \in Nat
      BY <1>2, FS_RemoveElement, FS_CardinalityType
    <2> QED BY <1>2, <2>1, <2>2
  <1> QED BY <1>2, <1>3, <1>4, ParkingAssumption DEF C

(* CountInv: one up in ParkCount, one down on the way back to the loop.    *)
LEMMA CountStep == PlaceInv /\ CountInv /\ [Next]_vars => CountInv'
  <1> SUFFICES ASSUME PlaceInv, CountInv, [Next]_vars PROVE CountInv'
    OBVIOUS
  <1> USE DEF PlaceInv
  <1>1. CASE \E s \in Submitters : ReadSleeping(s)
    <2>1. sleeping' = sleeping /\ CountedWorkers' = CountedWorkers
      BY <1>1
      DEF ReadSleeping, CountedWorkers, TypeInv, PcInv, LockInv, sleepVars, localVars,
          Counted, Parking, Stealing, Draining, Bodies
    <2> QED BY <2>1 DEF CountInv
  <1>2. CASE \E s \in Submitters : LockUnlock(s)
    <2>1. sleeping' = sleeping /\ CountedWorkers' = CountedWorkers
      BY <1>2
      DEF LockUnlock, CountedWorkers, TypeInv, PcInv, LockInv, sleepVars, localVars,
          Counted, Parking, Stealing, Draining, Bodies
    <2> QED BY <2>1 DEF CountInv
  <1>3. CASE \E s \in Submitters : NotifyOne(s)
    <2>1. sleeping' = sleeping /\ CountedWorkers' = CountedWorkers
      BY <1>3, WakingSteps
      DEF CountedWorkers, Counted, Parking, Stealing, Draining, Bodies
    <2> QED BY <2>1 DEF CountInv
  <1>4. CASE \E s \in Submitters, t \in Tasks : Enqueue(s, t)
    <2>1. sleeping' = sleeping /\ CountedWorkers' = CountedWorkers
      BY <1>4
      DEF Enqueue, EnqueueStatic, EnqueueGlobal, CountedWorkers, TypeInv, PcInv,
          LockInv, sleepVars, localVars, Counted, Parking, Stealing, Draining, Bodies
    <2> QED BY <2>1 DEF CountInv
  <1>5. CASE \E w \in Workers : LoopTop(w)
    <2>1. sleeping' = sleeping /\ CountedWorkers' = CountedWorkers
      BY <1>5
      DEF LoopTop, Goto, CountedWorkers, TypeInv, PcInv, LockInv, sleepVars, localVars,
          Counted, Parking, Stealing, Draining, Bodies
    <2> QED BY <2>1 DEF CountInv
  <1>6. CASE \E w \in Workers : PopInbox(w)
    <2>1. sleeping' = sleeping /\ CountedWorkers' = CountedWorkers
      BY <1>6
      DEF PopInbox, Run, FoundNothing, Goto, CountedWorkers, TypeInv, PcInv, LockInv,
          sleepVars, localVars, Counted, Parking, Stealing, Draining, Bodies
    <2> QED BY <2>1 DEF CountInv
  <1>7. CASE \E w \in Workers : PopLocal(w)
    <2>1. sleeping' = sleeping /\ CountedWorkers' = CountedWorkers
      BY <1>7
      DEF PopLocal, Run, Goto, CountedWorkers, TypeInv, PcInv, LockInv, sleepVars,
          localVars, Counted, Parking, Stealing, Draining, Bodies
    <2> QED BY <2>1 DEF CountInv
  <1>8. CASE \E w \in Workers : DrainFirst(w)
    <2>1. sleeping' = sleeping /\ CountedWorkers' = CountedWorkers
      BY <1>8
      DEF DrainFirst, Goto, CountedWorkers, TypeInv, PcInv, LockInv, sleepVars,
          localVars, Counted, Parking, Stealing, Draining, Bodies
    <2> QED BY <2>1 DEF CountInv
  <1>9. CASE \E w \in Workers : DrainTake(w)
    <2>1. sleeping' = sleeping /\ CountedWorkers' = CountedWorkers
      BY <1>9
      DEF DrainTake, Goto, CountedWorkers, TypeInv, PcInv, LockInv, sleepVars,
          localVars, Counted, Parking, Stealing, Draining, Bodies
    <2> QED BY <2>1 DEF CountInv
  <1>10. CASE \E w \in Workers : DrainPush(w)
    <2>1. sleeping' = sleeping /\ CountedWorkers' = CountedWorkers
      BY <1>10
      DEF DrainPush, Goto, CountedWorkers, TypeInv, PcInv, LockInv, sleepVars,
          localVars, Counted, Parking, Stealing, Draining, Bodies
    <2> QED BY <2>1 DEF CountInv
  <1>11. CASE \E w \in Workers : DrainDone(w)
    <2>1. sleeping' = sleeping /\ CountedWorkers' = CountedWorkers
      BY <1>11
      DEF DrainDone, Run, Goto, CountedWorkers, TypeInv, PcInv, LockInv, sleepVars,
          localVars, Counted, Parking, Stealing, Draining, Bodies
    <2> QED BY <2>1 DEF CountInv
  <1>12. CASE \E w \in Workers, v \in Workers : StealRead(w, v)
    <2>1. sleeping' = sleeping /\ CountedWorkers' = CountedWorkers
      BY <1>12
      DEF StealRead, Goto, CountedWorkers, TypeInv, PcInv, LockInv, sleepVars,
          localVars, Counted, Parking, Stealing, Draining, Bodies
    <2> QED BY <2>1 DEF CountInv
  <1>13. CASE \E w \in Workers, v \in Workers : StealNothing(w, v)
    <2>1. sleeping' = sleeping /\ CountedWorkers' = CountedWorkers
      BY <1>13
      DEF StealNothing, Goto, CountedWorkers, TypeInv, PcInv, LockInv, sleepVars,
          localVars, Counted, Parking, Stealing, Draining, Bodies
    <2> QED BY <2>1 DEF CountInv
  <1>14. CASE \E w \in Workers : StealWon(w)
    <2>1. sleeping' = sleeping /\ CountedWorkers' = CountedWorkers
      BY <1>14
      DEF StealWon, Run, Goto, CountedWorkers, TypeInv, PcInv, LockInv, sleepVars,
          localVars, Counted, Parking, Stealing, Draining, Bodies
    <2> QED BY <2>1 DEF CountInv
  <1>15. CASE \E w \in Workers : StealAborted(w)
    <2>1. sleeping' = sleeping /\ CountedWorkers' = CountedWorkers
      BY <1>15
      DEF StealAborted, Goto, CountedWorkers, TypeInv, PcInv, LockInv, sleepVars,
          localVars, Counted, Parking, Stealing, Draining, Bodies
    <2> QED BY <2>1 DEF CountInv
  <1>16. CASE \E w \in Workers : StealFailed(w)
    <2>1. sleeping' = sleeping /\ CountedWorkers' = CountedWorkers
      BY <1>16
      DEF StealFailed, FoundNothing, Goto, CountedWorkers, TypeInv, PcInv, LockInv,
          sleepVars, localVars, Counted, Parking, Stealing, Draining, Bodies
    <2> QED BY <2>1 DEF CountInv
  <1>17. CASE \E w \in Workers : BodyReturn(w)
    <2>1. sleeping' = sleeping /\ CountedWorkers' = CountedWorkers
      BY <1>17
      DEF BodyReturn, Goto, CountedWorkers, TypeInv, PcInv, LockInv, sleepVars,
          localVars, Counted, Parking, Stealing, Draining, Bodies
    <2> QED BY <2>1 DEF CountInv
  <1>18. CASE \E w \in Workers : SpawnReadSleeping(w)
    <2>1. sleeping' = sleeping /\ CountedWorkers' = CountedWorkers
      BY <1>18
      DEF SpawnReadSleeping, Goto, CountedWorkers, TypeInv, PcInv, LockInv, sleepVars,
          localVars, Counted, Parking, Stealing, Draining, Bodies
    <2> QED BY <2>1 DEF CountInv
  <1>19. CASE \E w \in Workers : SpawnLockUnlock(w)
    <2>1. sleeping' = sleeping /\ CountedWorkers' = CountedWorkers
      BY <1>19
      DEF SpawnLockUnlock, Goto, CountedWorkers, TypeInv, PcInv, LockInv, sleepVars,
          localVars, Counted, Parking, Stealing, Draining, Bodies
    <2> QED BY <2>1 DEF CountInv
  <1>20. CASE \E w \in Workers : SpawnNotify(w)
    <2>1. sleeping' = sleeping /\ CountedWorkers' = CountedWorkers
      BY <1>20, WakingSteps
      DEF CountedWorkers, Counted, Parking, Stealing, Draining, Bodies
    <2> QED BY <2>1 DEF CountInv
  <1>21. CASE \E w \in Workers : ParkCount(w)
    <2>1. PICK w \in Workers : ParkCount(w)
      BY <1>21
    <2>2. sleeping' = sleeping + 1 /\ w \in Workers \ CountedWorkers
      BY <2>1 DEF ParkCount, CountedWorkers, Counted, Parking
    <2>3. CountedWorkers' = CountedWorkers \cup {w}
      BY <2>1 DEF ParkCount, Goto, CountedWorkers, TypeInv, PcInv, Counted, Parking
    <2>4. Cardinality(CountedWorkers \cup {w}) = Cardinality(CountedWorkers) + 1
      BY <2>2, CountedCard
    <2> QED BY <2>2, <2>3, <2>4 DEF CountInv
  <1>22. CASE \E w \in Workers : ParkRunning(w)
    <2>1. PICK w \in Workers : ParkRunning(w)
      BY <1>22
    <2>2. CASE ~Unpark(w)
      <3>1. sleeping' = sleeping /\ CountedWorkers' = CountedWorkers
        BY <2>1, <2>2 DEF ParkRunning, Goto, CountedWorkers, TypeInv, PcInv, Counted, Parking, sleepVars
      <3> QED BY <3>1 DEF CountInv
    <2>3. CASE Unpark(w)
      <3>1. wpc[w] \in Parking
        BY <2>1 DEF ParkRunning, Parking
      <3>2. sleeping' = sleeping - 1 /\ w \in CountedWorkers
        BY <2>3, <3>1 DEF Unpark, CountedWorkers, Counted
      <3>3. CountedWorkers' = CountedWorkers \ {w}
        BY <2>3, <3>1 DEF Unpark, Goto, CountedWorkers, TypeInv, PcInv, Counted, Parking
      <3>4. Cardinality(CountedWorkers \ {w}) = Cardinality(CountedWorkers) - 1
        BY <3>2, CountedCard
      <3> QED BY <3>2, <3>3, <3>4 DEF CountInv
    <2> QED BY <2>2, <2>3
  <1>23. CASE \E w \in Workers : ParkGlobal(w)
    <2>1. PICK w \in Workers : ParkGlobal(w)
      BY <1>23
    <2>2. CASE ~Unpark(w)
      <3>1. sleeping' = sleeping /\ CountedWorkers' = CountedWorkers
        BY <2>1, <2>2 DEF ParkGlobal, Goto, CountedWorkers, TypeInv, PcInv, Counted, Parking, sleepVars
      <3> QED BY <3>1 DEF CountInv
    <2>3. CASE Unpark(w)
      <3>1. wpc[w] \in Parking
        BY <2>1 DEF ParkGlobal, Parking
      <3>2. sleeping' = sleeping - 1 /\ w \in CountedWorkers
        BY <2>3, <3>1 DEF Unpark, CountedWorkers, Counted
      <3>3. CountedWorkers' = CountedWorkers \ {w}
        BY <2>3, <3>1 DEF Unpark, Goto, CountedWorkers, TypeInv, PcInv, Counted, Parking
      <3>4. Cardinality(CountedWorkers \ {w}) = Cardinality(CountedWorkers) - 1
        BY <3>2, CountedCard
      <3> QED BY <3>2, <3>3, <3>4 DEF CountInv
    <2> QED BY <2>2, <2>3
  <1>24. CASE \E w \in Workers : ParkScan(w)
    <2>1. PICK w \in Workers : ParkScan(w)
      BY <1>24
    <2>2. CASE ~Unpark(w)
      <3>1. sleeping' = sleeping /\ CountedWorkers' = CountedWorkers
        BY <2>1, <2>2 DEF ParkScan, Goto, CountedWorkers, TypeInv, PcInv, Counted, Parking, sleepVars
      <3> QED BY <3>1 DEF CountInv
    <2>3. CASE Unpark(w)
      <3>1. wpc[w] \in Parking
        BY <2>1 DEF ParkScan, Parking
      <3>2. sleeping' = sleeping - 1 /\ w \in CountedWorkers
        BY <2>3, <3>1 DEF Unpark, CountedWorkers, Counted
      <3>3. CountedWorkers' = CountedWorkers \ {w}
        BY <2>3, <3>1 DEF Unpark, Goto, CountedWorkers, TypeInv, PcInv, Counted, Parking
      <3>4. Cardinality(CountedWorkers \ {w}) = Cardinality(CountedWorkers) - 1
        BY <3>2, CountedCard
      <3> QED BY <3>2, <3>3, <3>4 DEF CountInv
    <2> QED BY <2>2, <2>3
  <1>25. CASE \E w \in Workers : Sleep(w)
    <2>1. sleeping' = sleeping /\ CountedWorkers' = CountedWorkers
      BY <1>25
      DEF Sleep, Goto, CountedWorkers, TypeInv, PcInv, LockInv, sleepVars, localVars,
          Counted, Parking, Stealing, Draining, Bodies
    <2> QED BY <2>1 DEF CountInv
  <1>26. CASE \E w \in Workers : Woken(w)
    <2>1. PICK w \in Workers : Woken(w)
      BY <1>26
    <2>2. sleeping' = sleeping - 1 /\ w \in CountedWorkers
      BY <2>1 DEF Woken, Goto, CountedWorkers, Counted, Parking
    <2>3. CountedWorkers' = CountedWorkers \ {w}
      BY <2>1 DEF Woken, Goto, CountedWorkers, TypeInv, PcInv, Counted, Parking
    <2>4. Cardinality(CountedWorkers \ {w}) = Cardinality(CountedWorkers) - 1
      BY <2>2, CountedCard
    <2> QED BY <2>2, <2>3, <2>4 DEF CountInv
  <1>27. CASE \E w \in Workers : SpuriousWakeup(w)
    <2>1. sleeping' = sleeping /\ CountedWorkers' = CountedWorkers
      BY <1>27, WakingSteps
      DEF CountedWorkers, Counted, Parking, Stealing, Draining, Bodies
    <2> QED BY <2>1 DEF CountInv
  <1>28. CASE \E w \in Workers, t \in Tasks : Spawn(w, t)
    <2>1. sleeping' = sleeping /\ CountedWorkers' = CountedWorkers
      BY <1>28
      DEF Spawn, EnqueueStatic, EnqueueLocal, EnqueueGlobal, Goto, CountedWorkers,
          TypeInv, PcInv, LockInv, sleepVars, localVars, Counted, Parking, Stealing,
          Draining, Bodies
    <2> QED BY <2>1 DEF CountInv
  <1>29. CASE DestroyDrained
    <2>1. sleeping' = sleeping /\ CountedWorkers' = CountedWorkers
      BY <1>29
      DEF DestroyDrained, CountedWorkers, TypeInv, PcInv, LockInv, sleepVars, localVars,
          Counted, Parking, Stealing, Draining, Bodies
    <2> QED BY <2>1 DEF CountInv
  <1>30. CASE DestroyStop
    <2>1. sleeping' = sleeping /\ CountedWorkers' = CountedWorkers
      BY <1>30
      DEF DestroyStop, CountedWorkers, TypeInv, PcInv, LockInv, sleepVars, localVars,
          Counted, Parking, Stealing, Draining, Bodies
    <2> QED BY <2>1 DEF CountInv
  <1>31. CASE DestroyNotify
    <2>1. sleeping' = sleeping /\ CountedWorkers' = CountedWorkers
      BY <1>31, WakingSteps
      DEF CountedWorkers, Counted, Parking, Stealing, Draining, Bodies
    <2> QED BY <2>1 DEF CountInv
  <1>32. CASE DestroyJoin
    <2>1. sleeping' = sleeping /\ CountedWorkers' = CountedWorkers
      BY <1>32
      DEF DestroyJoin, CountedWorkers, TypeInv, PcInv, LockInv, sleepVars, localVars,
          Counted, Parking, Stealing, Draining, Bodies
    <2> QED BY <2>1 DEF CountInv
  <1>33. CASE UNCHANGED vars
    BY <1>33 DEF vars, CountInv, CountedWorkers
  <1> QED BY <1>1, <1>2, <1>3, <1>4, <1>5, <1>6, <1>7, <1>8, <1>9, <1>10, <1>11, <1>12,
             <1>13, <1>14, <1>15, <1>16, <1>17, <1>18, <1>19, <1>20, <1>21, <1>22,
             <1>23, <1>24, <1>25, <1>26, <1>27, <1>28, <1>29, <1>30, <1>31, <1>32, <1>33
    DEF Next, SubmitterStep, WorkerStep, DestructorStep, Gone

(* ModeInv: the schedulers do not touch each other's queues.               *)
LEMMA ModeStep == PlaceInv /\ ModeInv /\ [Next]_vars => ModeInv'
  <1> SUFFICES ASSUME PlaceInv, ModeInv, [Next]_vars PROVE ModeInv'
    OBVIOUS
  <1> USE DEF PlaceInv, TypeInv, PcInv, QueueInv, ModeInv, queueVars, otherVars,
              Stealing, Draining
  <1>1. CASE \E s \in Submitters : ReadSleeping(s)
    BY <1>1, Counters
    DEF ReadSleeping
  <1>2. CASE \E s \in Submitters : LockUnlock(s)
    BY <1>2, Counters
    DEF LockUnlock
  <1>3. CASE \E s \in Submitters : NotifyOne(s)
    BY <1>3, WakingSteps
  <1>4. CASE \E s \in Submitters, t \in Tasks : Enqueue(s, t)
    BY <1>4, Counters
    DEF Enqueue, EnqueueStatic, EnqueueGlobal
  <1>5. CASE \E w \in Workers : LoopTop(w)
    BY <1>5, Counters
    DEF LoopTop, Goto
  <1>6. CASE \E w \in Workers : PopInbox(w)
    BY <1>6, Counters
    DEF PopInbox, Run, FoundNothing, Goto
  <1>7. CASE \E w \in Workers : PopLocal(w)
    BY <1>7, Counters
    DEF PopLocal, Run, Goto
  <1>8. CASE \E w \in Workers : DrainFirst(w)
    BY <1>8, Counters
    DEF DrainFirst, Goto
  <1>9. CASE \E w \in Workers : DrainTake(w)
    BY <1>9, Counters
    DEF DrainTake, Goto
  <1>10. CASE \E w \in Workers : DrainPush(w)
    BY <1>10, Counters
    DEF DrainPush, Goto
  <1>11. CASE \E w \in Workers : DrainDone(w)
    BY <1>11, Counters
    DEF DrainDone, Run, Goto
  <1>12. CASE \E w \in Workers, v \in Workers : StealRead(w, v)
    BY <1>12, Counters
    DEF StealRead, Goto
  <1>13. CASE \E w \in Workers, v \in Workers : StealNothing(w, v)
    BY <1>13, Counters
    DEF StealNothing, Goto
  <1>14. CASE \E w \in Workers : StealWon(w)
    BY <1>14, Counters
    DEF StealWon, Run, Goto
  <1>15. CASE \E w \in Workers : StealAborted(w)
    BY <1>15, Counters
    DEF StealAborted, Goto
  <1>16. CASE \E w \in Workers : StealFailed(w)
    BY <1>16, Counters
    DEF StealFailed, FoundNothing, Goto
  <1>17. CASE \E w \in Workers : BodyReturn(w)
    BY <1>17, Counters
    DEF BodyReturn, Goto
  <1>18. CASE \E w \in Workers : SpawnReadSleeping(w)
    BY <1>18, Counters
    DEF SpawnReadSleeping, Goto
  <1>19. CASE \E w \in Workers : SpawnLockUnlock(w)
    BY <1>19, Counters
    DEF SpawnLockUnlock, Goto
  <1>20. CASE \E w \in Workers : SpawnNotify(w)
    BY <1>20, WakingSteps
  <1>21. CASE \E w \in Workers : ParkCount(w)
    BY <1>21, Counters
    DEF ParkCount, Goto
  <1>22. CASE \E w \in Workers : ParkRunning(w)
    BY <1>22, Counters
    DEF ParkRunning, Unpark, Goto
  <1>23. CASE \E w \in Workers : ParkGlobal(w)
    BY <1>23, Counters
    DEF ParkGlobal, Unpark, Goto
  <1>24. CASE \E w \in Workers : ParkScan(w)
    BY <1>24, Counters
    DEF ParkScan, Unpark, Goto
  <1>25. CASE \E w \in Workers : Sleep(w)
    BY <1>25, Counters
    DEF Sleep, Goto
  <1>26. CASE \E w \in Workers : Woken(w)
    BY <1>26, Counters
    DEF Woken, Goto
  <1>27. CASE \E w \in Workers : SpuriousWakeup(w)
    BY <1>27, WakingSteps
  <1>28. CASE \E w \in Workers, t \in Tasks : Spawn(w, t)
    BY <1>28, Counters
    DEF Spawn, EnqueueStatic, EnqueueLocal, EnqueueGlobal, Goto
  <1>29. CASE DestroyDrained
    BY <1>29, Counters
    DEF DestroyDrained
  <1>30. CASE DestroyStop
    BY <1>30, Counters
    DEF DestroyStop
  <1>31. CASE DestroyNotify
    BY <1>31, WakingSteps
  <1>32. CASE DestroyJoin
    BY <1>32, Counters
    DEF DestroyJoin
  <1>33. CASE UNCHANGED vars
    BY <1>33 DEF vars
  <1> QED BY <1>1, <1>2, <1>3, <1>4, <1>5, <1>6, <1>7, <1>8, <1>9, <1>10, <1>11, <1>12,
             <1>13, <1>14, <1>15, <1>16, <1>17, <1>18, <1>19, <1>20, <1>21, <1>22,
             <1>23, <1>24, <1>25, <1>26, <1>27, <1>28, <1>29, <1>30, <1>31, <1>32, <1>33
    DEF Next, SubmitterStep, WorkerStep, DestructorStep, Gone


-----------------------------------------------------------------------------
(* The handshake between wake_one_worker() and park_worker(). *)

(* One worker at a time looks around: it holds sleep_mutex_.               *)
LEMMA OneScans ==
    ASSUME PlaceInv, NEW w \in Workers, NEW v \in Workers, wpc[w] = "parkScan",
           wpc[v] \in Parking
    PROVE  v = w
  BY DEF PlaceInv, LockInv, Parking

(* A worker that is counted makes sleeping_ positive. *)
LEMMA CountedIsSeen ==
    ASSUME PlaceInv, CountInv, NEW w \in Workers, wpc[w] \in Counted
    PROVE  sleeping # 0
  <1>1. w \in CountedWorkers
    BY DEF CountedWorkers
  <1>2. Cardinality(CountedWorkers) >= 1
    BY <1>1, CountedCard
  <1>3. Cardinality(CountedWorkers) \in Int
    BY CountedCard, ParkingAssumption
  <1> QED BY <1>2, <1>3 DEF CountInv


(* What ScanInv claims of one worker after a step. *)
ScanGoal(w) ==
    /\ wpc'[w] = "parkScan"
    /\ \A v \in Workers \ {w} : wpc'[v] = "asleep"
    /\ ~BeforeLock'
    => /\ global' = << >>
       /\ \A v \in Workers \ toScan'[w] :
            IF mode' = "Static" THEN inbox'[v] = << >> ELSE deque'[v] = << >>

(* Put together, it is ScanInv after the step. *)
LEMMA ScanGoals == (\A w \in Workers : ScanGoal(w)) => ScanInv'
  BY DEF ScanGoal, ScanInv, OwnQueue

(* The step of a worker that is neither parking nor put to sleep by it     *)
(* makes no worker rely on more.                                           *)
LEMMA ScanAwake ==
    ASSUME PlaceInv, NEW x \in Workers, wpc[x] # "parkScan", wpc'[x] \notin {"parkScan", "asleep"}
    PROVE  \A w \in Workers : ScanGoal(w)
  BY DEF ScanGoal

(* A step that touches no worker and no queue. *)
LEMMA ScanFrame ==
    ASSUME ScanInv, UNCHANGED <<global, deque, inbox, mode, toScan, wpc>>, BeforeLock => BeforeLock'
    PROVE  \A w \in Workers : ScanGoal(w)
  BY DEF ScanInv, ScanGoal, OwnQueue

(* ScanInv: a submitter that publishes a task after a worker has looked is *)
(* held up by sleep_mutex_ until that worker sleeps.                       *)
LEMMA ScanStep == PlaceInv /\ CountInv /\ ScanInv /\ [Next]_vars => ScanInv'
  <1> SUFFICES ASSUME PlaceInv, CountInv, ScanInv, [Next]_vars PROVE \A w \in Workers : ScanGoal(w)
    BY ScanGoals
  <1>1. CASE \E s \in Submitters : ReadSleeping(s)
    <2>1. PICK s \in Submitters : ReadSleeping(s)
      BY <1>1
    <2>2. UNCHANGED <<global, deque, inbox, mode, toScan, wpc>>
      BY <2>1 DEF ReadSleeping, queueVars, localVars
    <2>3. CASE sleeping = 0
      <3>1. \A x \in Workers : wpc'[x] # "parkScan"
        BY <2>2, <2>3, CountedIsSeen DEF Counted, Parking
      <3> QED BY <3>1 DEF ScanGoal
    <2>4. CASE sleeping # 0
      <3>1. BeforeLock'
        BY <2>1, <2>4 DEF ReadSleeping, BeforeLock, PlaceInv, TypeInv, RangeInv
      <3> QED BY <3>1 DEF ScanGoal
    <2> QED BY <2>3, <2>4
  <1>2. CASE \E s \in Submitters : LockUnlock(s)
    <2>1. PICK s \in Submitters : LockUnlock(s)
      BY <1>2
    <2>2. wpc' = wpc /\ mutex = Nobody
      BY <2>1 DEF LockUnlock
    <2>3. \A x \in Workers : wpc'[x] # "parkScan"
      BY <2>2, NoneAssumption DEF PlaceInv, LockInv, Parking
    <2> QED BY <2>3 DEF ScanGoal
  <1>3. CASE \E s \in Submitters : NotifyOne(s)
    <2>1. PICK s \in Submitters : NotifyOne(s)
      BY <1>3
    <2>2. UNCHANGED <<global, deque, inbox, mode, toScan>>
      BY <2>1 DEF NotifyOne, queueVars, localVars
    <2>3. BeforeLock => BeforeLock'
      BY <2>1 DEF NotifyOne, BeforeLock, PlaceInv, TypeInv, RangeInv
    <2>4. CASE asleep = {}
      <3>1. wpc' = wpc
        BY <2>1, <2>4 DEF NotifyOne, WakeOne
      <3> QED BY <2>2, <2>3, <3>1, ScanFrame
    <2>5. CASE asleep # {}
      <3>1. PICK x \in asleep : wpc' = [wpc EXCEPT ![x] = "woken"]
        BY <2>1, <2>5 DEF NotifyOne, WakeOne
      <3>2. x \in Workers /\ wpc[x] = "asleep" /\ wpc'[x] = "woken"
        BY <3>1 DEF PlaceInv, TypeInv, PcInv, LockInv
      <3> QED BY <3>2, ScanAwake
    <2> QED BY <2>4, <2>5
  <1>4. CASE \E s \in Submitters, t \in Tasks : Enqueue(s, t)
    <2>1. BeforeLock'
      BY <1>4 DEF Enqueue, BeforeLock, PlaceInv, TypeInv, RangeInv
    <2> QED BY <2>1 DEF ScanGoal
  <1>5. CASE \E w \in Workers : LoopTop(w)
    <2>1. PICK w \in Workers : LoopTop(w)
      BY <1>5
    <2>2. wpc[w] # "parkScan" /\ wpc'[w] \notin {"parkScan", "asleep"}
      BY <2>1
      DEF LoopTop, Goto, PlaceInv, TypeInv, PcInv
    <2> QED BY <2>1, <2>2, ScanAwake
  <1>6. CASE \E w \in Workers : PopInbox(w)
    <2>1. PICK w \in Workers : PopInbox(w)
      BY <1>6
    <2>2. wpc[w] # "parkScan" /\ wpc'[w] \notin {"parkScan", "asleep"}
      BY <2>1
      DEF PopInbox, Run, FoundNothing, Goto, PlaceInv, TypeInv, PcInv
    <2> QED BY <2>1, <2>2, ScanAwake
  <1>7. CASE \E w \in Workers : PopLocal(w)
    <2>1. PICK w \in Workers : PopLocal(w)
      BY <1>7
    <2>2. wpc[w] # "parkScan" /\ wpc'[w] \notin {"parkScan", "asleep"}
      BY <2>1
      DEF PopLocal, Run, Goto, PlaceInv, TypeInv, PcInv
    <2> QED BY <2>1, <2>2, ScanAwake
  <1>8. CASE \E w \in Workers : DrainFirst(w)
    <2>1. PICK w \in Workers : DrainFirst(w)
      BY <1>8
    <2>2. wpc[w] # "parkScan" /\ wpc'[w] \notin {"parkScan", "asleep"}
      BY <2>1
      DEF DrainFirst, Goto, PlaceInv, TypeInv, PcInv
    <2> QED BY <2>1, <2>2, ScanAwake
  <1>9. CASE \E w \in Workers : DrainTake(w)
    <2>1. PICK w \in Workers : DrainTake(w)
      BY <1>9
    <2>2. wpc[w] # "parkScan" /\ wpc'[w] \notin {"parkScan", "asleep"}
      BY <2>1
      DEF DrainTake, Goto, PlaceInv, TypeInv, PcInv
    <2> QED BY <2>1, <2>2, ScanAwake
  <1>10. CASE \E w \in Workers : DrainPush(w)
    <2>1. PICK w \in Workers : DrainPush(w)
      BY <1>10
    <2>2. wpc[w] # "parkScan" /\ wpc'[w] \notin {"parkScan", "asleep"}
      BY <2>1
      DEF DrainPush, Goto, PlaceInv, TypeInv, PcInv
    <2> QED BY <2>1, <2>2, ScanAwake
  <1>11. CASE \E w \in Workers : DrainDone(w)
    <2>1. PICK w \in Workers : DrainDone(w)
      BY <1>11
    <2>2. wpc[w] # "parkScan" /\ wpc'[w] \notin {"parkScan", "asleep"}
      BY <2>1
      DEF DrainDone, Run, Goto, PlaceInv, TypeInv, PcInv
    <2> QED BY <2>1, <2>2, ScanAwake
  <1>12. CASE \E w \in Workers, v \in Workers : StealRead(w, v)
    <2>1. PICK w \in Workers, v \in Workers : StealRead(w, v)
      BY <1>12
    <2>2. wpc[w] # "parkScan" /\ wpc'[w] \notin {"parkScan", "asleep"}
      BY <2>1
      DEF StealRead, Goto, PlaceInv, TypeInv, PcInv
    <2> QED BY <2>1, <2>2, ScanAwake
  <1>13. CASE \E w \in Workers, v \in Workers : StealNothing(w, v)
    <2>1. PICK w \in Workers, v \in Workers : StealNothing(w, v)
      BY <1>13
    <2>2. wpc[w] = "steal" /\ wpc' = wpc
      BY <2>1 DEF StealNothing
    <2> QED BY <2>1, <2>2, ScanAwake
  <1>14. CASE \E w \in Workers : StealWon(w)
    <2>1. PICK w \in Workers : StealWon(w)
      BY <1>14
    <2>2. wpc[w] # "parkScan" /\ wpc'[w] \notin {"parkScan", "asleep"}
      BY <2>1
      DEF StealWon, Run, Goto, PlaceInv, TypeInv, PcInv
    <2> QED BY <2>1, <2>2, ScanAwake
  <1>15. CASE \E w \in Workers : StealAborted(w)
    <2>1. PICK w \in Workers : StealAborted(w)
      BY <1>15
    <2>2. wpc[w] # "parkScan" /\ wpc'[w] \notin {"parkScan", "asleep"}
      BY <2>1
      DEF StealAborted, Goto, PlaceInv, TypeInv, PcInv
    <2> QED BY <2>1, <2>2, ScanAwake
  <1>16. CASE \E w \in Workers : StealFailed(w)
    <2>1. PICK w \in Workers : StealFailed(w)
      BY <1>16
    <2>2. wpc[w] # "parkScan" /\ wpc'[w] \notin {"parkScan", "asleep"}
      BY <2>1
      DEF StealFailed, FoundNothing, Goto, PlaceInv, TypeInv, PcInv
    <2> QED BY <2>1, <2>2, ScanAwake
  <1>17. CASE \E w \in Workers : BodyReturn(w)
    <2>1. PICK w \in Workers : BodyReturn(w)
      BY <1>17
    <2>2. wpc[w] # "parkScan" /\ wpc'[w] \notin {"parkScan", "asleep"}
      BY <2>1
      DEF BodyReturn, Goto, PlaceInv, TypeInv, PcInv
    <2> QED BY <2>1, <2>2, ScanAwake
  <1>18. CASE \E w \in Workers : SpawnReadSleeping(w)
    <2>1. PICK w \in Workers : SpawnReadSleeping(w)
      BY <1>18
    <2>2. wpc[w] # "parkScan" /\ wpc'[w] \notin {"parkScan", "asleep"}
      BY <2>1
      DEF SpawnReadSleeping, Goto, PlaceInv, TypeInv, PcInv
    <2> QED BY <2>1, <2>2, ScanAwake
  <1>19. CASE \E w \in Workers : SpawnLockUnlock(w)
    <2>1. PICK w \in Workers : SpawnLockUnlock(w)
      BY <1>19
    <2>2. wpc[w] # "parkScan" /\ wpc'[w] \notin {"parkScan", "asleep"}
      BY <2>1
      DEF SpawnLockUnlock, Goto, PlaceInv, TypeInv, PcInv
    <2> QED BY <2>1, <2>2, ScanAwake
  <1>20. CASE \E w \in Workers : SpawnNotify(w)
    <2>1. PICK w \in Workers : SpawnNotify(w)
      BY <1>20
    <2>2. wpc[w] = "spawnNotify"
      BY <2>1 DEF SpawnNotify
    <2>3. wpc'[w] = wpc[w] \/ wpc'[w] = "body"
      BY <2>1, <2>2, WakingSteps
    <2> QED BY <2>2, <2>3, ScanAwake
  <1>21. CASE \E w \in Workers : ParkCount(w)
    <2>1. PICK w \in Workers : ParkCount(w)
      BY <1>21
    <2>2. wpc[w] # "parkScan" /\ wpc'[w] \notin {"parkScan", "asleep"}
      BY <2>1
      DEF ParkCount, Goto, PlaceInv, TypeInv, PcInv
    <2> QED BY <2>1, <2>2, ScanAwake
  <1>22. CASE \E w \in Workers : ParkRunning(w)
    <2>1. PICK w \in Workers : ParkRunning(w)
      BY <1>22
    <2>2. wpc[w] # "parkScan" /\ wpc'[w] \notin {"parkScan", "asleep"}
      BY <2>1
      DEF ParkRunning, Unpark, Goto, PlaceInv, TypeInv, PcInv
    <2> QED BY <2>1, <2>2, ScanAwake
  <1>23. CASE \E w \in Workers : ParkGlobal(w)
    <2>1. PICK w \in Workers : ParkGlobal(w)
      BY <1>23
    <2>2. wpc[w] = "parkGlobal"
      BY <2>1 DEF ParkGlobal
    <2>3. CASE global # << >>
      <3>1. wpc'[w] = "loop"
        BY <2>1, <2>3 DEF ParkGlobal, Unpark, Goto, PlaceInv, TypeInv, PcInv
      <3> QED BY <2>2, <3>1, ScanAwake
    <2>4. CASE global = << >>
      <3>1. /\ toScan'[w] = Workers /\ global' = << >>
            /\ wpc' = [wpc EXCEPT ![w] = "parkScan"]
        BY <2>1, <2>4 DEF ParkGlobal, Goto, PlaceInv, TypeInv, LocalInv, queueVars
      <3>2. ScanGoal(w)
        BY <3>1 DEF ScanGoal
      <3>3. \A x \in Workers \ {w} : wpc'[x] # "parkScan"
        BY <2>2, <3>1, OneScans DEF PlaceInv, TypeInv, PcInv, Parking
      <3> QED BY <3>2, <3>3 DEF ScanGoal
    <2> QED BY <2>3, <2>4
  <1>24. CASE \E w \in Workers : ParkScan(w)
    <2>1. PICK w \in Workers : ParkScan(w)
      BY <1>24
    <2>2. wpc[w] = "parkScan" /\ UNCHANGED <<global, deque, inbox, mode, spc>>
      BY <2>1 DEF ParkScan, queueVars, otherVars
    <2>3. CASE Unpark(w)
      <3>1. wpc' = [wpc EXCEPT ![w] = "loop"]
        BY <2>3 DEF Unpark, Goto
      <3>2. \A x \in Workers : wpc'[x] # "parkScan"
        BY <2>2, <3>1, OneScans DEF PlaceInv, TypeInv, PcInv, Parking
      <3> QED BY <3>2 DEF ScanGoal
    <2>4. CASE ~Unpark(w)
      <3>1. PICK v : /\ \/ OwnQueue(v) = << >>
                        \/ wpc[v] = "local"
                     /\ toScan' = [toScan EXCEPT ![w] = toScan[w] \ {v}]
                     /\ wpc' = wpc
        BY <2>1, <2>4 DEF ParkScan, OwnQueue
      <3>2. \A x \in Workers \ {w} : wpc'[x] # "parkScan"
        BY <2>2, <3>1, OneScans DEF Parking
      <3>3. ScanGoal(w)
        <4> SUFFICES ASSUME \A x \in Workers \ {w} : wpc[x] = "asleep", ~BeforeLock
                     PROVE  /\ global = << >>
                            /\ \A x \in Workers \ toScan'[w] : OwnQueue(x) = << >>
          BY <2>2, <3>1 DEF ScanGoal, OwnQueue, BeforeLock
        <4>1. global = << >> /\ \A x \in Workers \ toScan[w] : OwnQueue(x) = << >>
          BY <2>2 DEF ScanInv
        <4>2. toScan'[w] = toScan[w] \ {v}
          BY <3>1 DEF PlaceInv, TypeInv, LocalInv
        <4>3. v \in Workers => wpc[v] # "local"
          BY <2>2
        <4> QED BY <3>1, <4>1, <4>2, <4>3
      <3> QED BY <3>2, <3>3 DEF ScanGoal
    <2> QED BY <2>3, <2>4
  <1>25. CASE \E w \in Workers : Sleep(w)
    <2>1. PICK w \in Workers : Sleep(w)
      BY <1>25
    <2>2. wpc[w] = "parkScan" /\ wpc' = [wpc EXCEPT ![w] = "asleep"]
      BY <2>1 DEF Sleep, Goto
    <2>3. \A x \in Workers : wpc'[x] # "parkScan"
      BY <2>2, OneScans DEF PlaceInv, TypeInv, PcInv, Parking
    <2> QED BY <2>3 DEF ScanGoal
  <1>26. CASE \E w \in Workers : Woken(w)
    <2>1. PICK w \in Workers : Woken(w)
      BY <1>26
    <2>2. wpc[w] # "parkScan" /\ wpc'[w] \notin {"parkScan", "asleep"}
      BY <2>1
      DEF Woken, Goto, PlaceInv, TypeInv, PcInv
    <2> QED BY <2>1, <2>2, ScanAwake
  <1>27. CASE \E w \in Workers : SpuriousWakeup(w)
    <2>1. PICK w \in Workers : SpuriousWakeup(w)
      BY <1>27
    <2>2. wpc[w] = "asleep" /\ wpc'[w] = "woken"
      BY <2>1 DEF SpuriousWakeup, Goto, PlaceInv, TypeInv, PcInv, LockInv
    <2> QED BY <2>2, ScanAwake
  <1>28. CASE \E w \in Workers, t \in Tasks : Spawn(w, t)
    <2>1. PICK w \in Workers, t \in Tasks : Spawn(w, t)
      BY <1>28
    <2>2. wpc[w] # "parkScan" /\ wpc'[w] \notin {"parkScan", "asleep"}
      BY <2>1
      DEF Spawn, Goto, PlaceInv, TypeInv, PcInv
    <2> QED BY <2>1, <2>2, ScanAwake
  <1>29. CASE DestroyDrained
    <2>1. UNCHANGED <<global, deque, inbox, mode, toScan, wpc>> /\ spc' = spc
      BY <1>29 DEF DestroyDrained, queueVars, localVars
    <2>2. BeforeLock => BeforeLock'
      BY <2>1 DEF BeforeLock
    <2> QED BY <2>1, <2>2, ScanFrame
  <1>30. CASE DestroyStop
    <2>1. UNCHANGED <<global, deque, inbox, mode, toScan, wpc>> /\ spc' = spc
      BY <1>30 DEF DestroyStop, queueVars, localVars
    <2>2. BeforeLock => BeforeLock'
      BY <2>1 DEF BeforeLock
    <2> QED BY <2>1, <2>2, ScanFrame
  <1>31. CASE DestroyNotify
    <2>1. UNCHANGED <<global, deque, inbox, mode, toScan, spc>>
      BY <1>31 DEF DestroyNotify, queueVars, localVars
    <2>2. BeforeLock => BeforeLock'
      BY <2>1 DEF BeforeLock
    <2>3. CASE asleep = {}
      <3>1. wpc' = wpc
        BY <1>31, <2>3 DEF DestroyNotify, PlaceInv, TypeInv, PcInv
      <3> QED BY <2>1, <2>2, <3>1, ScanFrame
    <2>4. CASE asleep # {}
      <3>1. PICK x \in Workers : wpc[x] = "asleep"
        BY <2>4 DEF PlaceInv, LockInv
      <3>2. wpc'[x] = "woken"
        BY <1>31, <3>1 DEF DestroyNotify, PlaceInv, LockInv
      <3> QED BY <3>1, <3>2, ScanAwake
    <2> QED BY <2>3, <2>4
  <1>32. CASE DestroyJoin
    <2>1. UNCHANGED <<global, deque, inbox, mode, toScan, wpc>> /\ spc' = spc
      BY <1>32 DEF DestroyJoin, queueVars, localVars
    <2>2. BeforeLock => BeforeLock'
      BY <2>1 DEF BeforeLock
    <2> QED BY <2>1, <2>2, ScanFrame
  <1>33. CASE UNCHANGED vars
    <2>1. UNCHANGED <<global, deque, inbox, mode, toScan, wpc, spc>>
      BY <1>33 DEF vars
    <2>2. BeforeLock => BeforeLock'
      BY <2>1 DEF BeforeLock
    <2> QED BY <2>1, <2>2, ScanFrame
  <1> QED BY <1>1, <1>2, <1>3, <1>4, <1>5, <1>6, <1>7, <1>8, <1>9, <1>10, <1>11, <1>12,
             <1>13, <1>14, <1>15, <1>16, <1>17, <1>18, <1>19, <1>20, <1>21, <1>22,
             <1>23, <1>24, <1>25, <1>26, <1>27, <1>28, <1>29, <1>30, <1>31, <1>32, <1>33
    DEF Next, SubmitterStep, WorkerStep, DestructorStep, Gone

(* A worker that is awake after a step makes SleepInv hold. *)
LEMMA SleepAwake ==
    ASSUME NEW x \in Workers, wpc'[x] # "asleep"
    PROVE  SleepInv'
  BY DEF SleepInv

(* So does a wake-up that is under way. *)
LEMMA SleepPending == WakeupPending' => SleepInv'
  BY DEF SleepInv

(* A step that touches no worker, no queue and no wake-up. *)
LEMMA SleepFrame ==
    ASSUME SleepInv, UNCHANGED <<global, deque, inbox, mode, wpc, spc>>
    PROVE  SleepInv'
  BY DEF SleepInv, OwnQueue, WakeupPending

(* SleepInv: the last worker to fall asleep has looked at every queue, with *)
(* all others asleep already.                                              *)
LEMMA SleepStep == PlaceInv /\ CountInv /\ ScanInv /\ SleepInv /\ [Next]_vars => SleepInv'
  <1> SUFFICES ASSUME PlaceInv, CountInv, ScanInv, SleepInv, [Next]_vars PROVE SleepInv'
    OBVIOUS
  <1>1. CASE \E s \in Submitters : ReadSleeping(s)
    <2>1. PICK s \in Submitters : ReadSleeping(s)
      BY <1>1
    <2>2. CASE sleeping = 0
      <3>1. 0 \in Workers /\ wpc'[0] # "asleep"
        BY <2>1, <2>2, CountedIsSeen, Counters DEF ReadSleeping, Counted
      <3> QED BY <3>1, SleepAwake
    <2>3. CASE sleeping # 0
      <3>1. WakeupPending'
        BY <2>1, <2>3 DEF ReadSleeping, WakeupPending, PlaceInv, TypeInv, RangeInv
      <3> QED BY <3>1, SleepPending
    <2> QED BY <2>2, <2>3
  <1>2. CASE \E s \in Submitters : LockUnlock(s)
    <2>1. PICK s \in Submitters : LockUnlock(s)
      BY <1>2
    <2>2. WakeupPending'
      BY <2>1 DEF LockUnlock, WakeupPending, PlaceInv, TypeInv, RangeInv
    <2> QED BY <2>2, SleepPending
  <1>3. CASE \E s \in Submitters : NotifyOne(s)
    <2>1. PICK s \in Submitters : NotifyOne(s)
      BY <1>3
    <2>2. CASE asleep = {}
      <3>1. 0 \in Workers /\ wpc'[0] # "asleep"
        BY <2>1, <2>2, Counters DEF NotifyOne, WakeOne, PlaceInv, LockInv
      <3> QED BY <3>1, SleepAwake
    <2>3. CASE asleep # {}
      <3>1. PICK x \in asleep : wpc' = [wpc EXCEPT ![x] = "woken"]
        BY <2>1, <2>3 DEF NotifyOne, WakeOne
      <3>2. x \in Workers /\ wpc'[x] = "woken"
        BY <3>1 DEF PlaceInv, TypeInv, PcInv, LockInv
      <3> QED BY <3>2, SleepAwake
    <2> QED BY <2>2, <2>3
  <1>4. CASE \E s \in Submitters, t \in Tasks : Enqueue(s, t)
    <2>1. WakeupPending'
      BY <1>4 DEF Enqueue, WakeupPending, PlaceInv, TypeInv, RangeInv
    <2> QED BY <2>1, SleepPending
  <1>5. CASE \E w \in Workers : LoopTop(w)
    <2>1. PICK w \in Workers : LoopTop(w)
      BY <1>5
    <2>2. wpc'[w] # "asleep"
      BY <2>1
      DEF LoopTop, Goto, PlaceInv, TypeInv, PcInv
    <2> QED BY <2>2, SleepAwake
  <1>6. CASE \E w \in Workers : PopInbox(w)
    <2>1. PICK w \in Workers : PopInbox(w)
      BY <1>6
    <2>2. wpc'[w] # "asleep"
      BY <2>1
      DEF PopInbox, Run, FoundNothing, Goto, PlaceInv, TypeInv, PcInv
    <2> QED BY <2>2, SleepAwake
  <1>7. CASE \E w \in Workers : PopLocal(w)
    <2>1. PICK w \in Workers : PopLocal(w)
      BY <1>7
    <2>2. wpc'[w] # "asleep"
      BY <2>1
      DEF PopLocal, Run, Goto, PlaceInv, TypeInv, PcInv
    <2> QED BY <2>2, SleepAwake
  <1>8. CASE \E w \in Workers : DrainFirst(w)
    <2>1. PICK w \in Workers : DrainFirst(w)
      BY <1>8
    <2>2. wpc'[w] # "asleep"
      BY <2>1
      DEF DrainFirst, Goto, PlaceInv, TypeInv, PcInv
    <2> QED BY <2>2, SleepAwake
  <1>9. CASE \E w \in Workers : DrainTake(w)
    <2>1. PICK w \in Workers : DrainTake(w)
      BY <1>9
    <2>2. wpc'[w] # "asleep"
      BY <2>1
      DEF DrainTake, Goto, PlaceInv, TypeInv, PcInv
    <2> QED BY <2>2, SleepAwake
  <1>10. CASE \E w \in Workers : DrainPush(w)
    <2>1. PICK w \in Workers : DrainPush(w)
      BY <1>10
    <2>2. wpc'[w] # "asleep"
      BY <2>1
      DEF DrainPush, Goto, PlaceInv, TypeInv, PcInv
    <2> QED BY <2>2, SleepAwake
  <1>11. CASE \E w \in Workers : DrainDone(w)
    <2>1. PICK w \in Workers : DrainDone(w)
      BY <1>11
    <2>2. wpc'[w] # "asleep"
      BY <2>1
      DEF DrainDone, Run, Goto, PlaceInv, TypeInv, PcInv
    <2> QED BY <2>2, SleepAwake
  <1>12. CASE \E w \in Workers, v \in Workers : StealRead(w, v)
    <2>1. PICK w \in Workers, v \in Workers : StealRead(w, v)
      BY <1>12
    <2>2. wpc'[w] # "asleep"
      BY <2>1
      DEF StealRead, Goto, PlaceInv, TypeInv, PcInv
    <2> QED BY <2>2, SleepAwake
  <1>13. CASE \E w \in Workers, v \in Workers : StealNothing(w, v)
    <2>1. PICK w \in Workers, v \in Workers : StealNothing(w, v)
      BY <1>13
    <2>2. wpc'[w] # "asleep"
      BY <2>1 DEF StealNothing
    <2> QED BY <2>2, SleepAwake
  <1>14. CASE \E w \in Workers : StealWon(w)
    <2>1. PICK w \in Workers : StealWon(w)
      BY <1>14
    <2>2. wpc'[w] # "asleep"
      BY <2>1
      DEF StealWon, Run, Goto, PlaceInv, TypeInv, PcInv
    <2> QED BY <2>2, SleepAwake
  <1>15. CASE \E w \in Workers : StealAborted(w)
    <2>1. PICK w \in Workers : StealAborted(w)
      BY <1>15
    <2>2. wpc'[w] # "asleep"
      BY <2>1
      DEF StealAborted, Goto, PlaceInv, TypeInv, PcInv
    <2> QED BY <2>2, SleepAwake
  <1>16. CASE \E w \in Workers : StealFailed(w)
    <2>1. PICK w \in Workers : StealFailed(w)
      BY <1>16
    <2>2. wpc'[w] # "asleep"
      BY <2>1
      DEF StealFailed, FoundNothing, Goto, PlaceInv, TypeInv, PcInv
    <2> QED BY <2>2, SleepAwake
  <1>17. CASE \E w \in Workers : BodyReturn(w)
    <2>1. PICK w \in Workers : BodyReturn(w)
      BY <1>17
    <2>2. wpc'[w] # "asleep"
      BY <2>1
      DEF BodyReturn, Goto, PlaceInv, TypeInv, PcInv
    <2> QED BY <2>2, SleepAwake
  <1>18. CASE \E w \in Workers : SpawnReadSleeping(w)
    <2>1. PICK w \in Workers : SpawnReadSleeping(w)
      BY <1>18
    <2>2. wpc'[w] # "asleep"
      BY <2>1
      DEF SpawnReadSleeping, Goto, PlaceInv, TypeInv, PcInv
    <2> QED BY <2>2, SleepAwake
  <1>19. CASE \E w \in Workers : SpawnLockUnlock(w)
    <2>1. PICK w \in Workers : SpawnLockUnlock(w)
      BY <1>19
    <2>2. wpc'[w] # "asleep"
      BY <2>1
      DEF SpawnLockUnlock, Goto, PlaceInv, TypeInv, PcInv
    <2> QED BY <2>2, SleepAwake
  <1>20. CASE \E w \in Workers : SpawnNotify(w)
    <2>1. PICK w \in Workers : SpawnNotify(w)
      BY <1>20
    <2>2. wpc[w] = "spawnNotify"
      BY <2>1 DEF SpawnNotify
    <2>3. wpc'[w] = wpc[w] \/ wpc'[w] = "body"
      BY <2>1, <2>2, WakingSteps
    <2> QED BY <2>2, <2>3, SleepAwake
  <1>21. CASE \E w \in Workers : ParkCount(w)
    <2>1. PICK w \in Workers : ParkCount(w)
      BY <1>21
    <2>2. wpc'[w] # "asleep"
      BY <2>1
      DEF ParkCount, Goto, PlaceInv, TypeInv, PcInv
    <2> QED BY <2>2, SleepAwake
  <1>22. CASE \E w \in Workers : ParkRunning(w)
    <2>1. PICK w \in Workers : ParkRunning(w)
      BY <1>22
    <2>2. wpc'[w] # "asleep"
      BY <2>1
      DEF ParkRunning, Unpark, Goto, PlaceInv, TypeInv, PcInv
    <2> QED BY <2>2, SleepAwake
  <1>23. CASE \E w \in Workers : ParkGlobal(w)
    <2>1. PICK w \in Workers : ParkGlobal(w)
      BY <1>23
    <2>2. wpc'[w] # "asleep"
      BY <2>1
      DEF ParkGlobal, Unpark, Goto, PlaceInv, TypeInv, PcInv
    <2> QED BY <2>2, SleepAwake
  <1>24. CASE \E w \in Workers : ParkScan(w)
    <2>1. PICK w \in Workers : ParkScan(w)
      BY <1>24
    <2>2. wpc'[w] # "asleep"
      BY <2>1 DEF ParkScan, Unpark, Goto, PlaceInv, TypeInv, PcInv
    <2> QED BY <2>2, SleepAwake
  <1>25. CASE \E w \in Workers : Sleep(w)
    <2>1. PICK w \in Workers : Sleep(w)
      BY <1>25
    <2>2. /\ wpc[w] = "parkScan" /\ wpc' = [wpc EXCEPT ![w] = "asleep"] /\ toScan[w] = {}
          /\ UNCHANGED <<global, deque, inbox, mode, spc>>
      BY <2>1 DEF Sleep, Goto, queueVars, otherVars
    <2> SUFFICES ASSUME \A v \in Workers : wpc'[v] = "asleep", ~WakeupPending'
                 PROVE  global' = << >> /\ \A v \in Workers : OwnQueue(v)' = << >>
      BY DEF SleepInv
    <2>3. \A v \in Workers \ {w} : wpc[v] = "asleep"
      BY <2>2 DEF PlaceInv, TypeInv, PcInv
    <2>4. ~BeforeLock
      BY <2>2 DEF WakeupPending, BeforeLock
    <2>5. global = << >> /\ \A v \in Workers : OwnQueue(v) = << >>
      BY <2>2, <2>3, <2>4 DEF ScanInv
    <2> QED BY <2>2, <2>5 DEF OwnQueue
  <1>26. CASE \E w \in Workers : Woken(w)
    <2>1. PICK w \in Workers : Woken(w)
      BY <1>26
    <2>2. wpc'[w] # "asleep"
      BY <2>1
      DEF Woken, Goto, PlaceInv, TypeInv, PcInv
    <2> QED BY <2>2, SleepAwake
  <1>27. CASE \E w \in Workers : SpuriousWakeup(w)
    <2>1. PICK w \in Workers : SpuriousWakeup(w)
      BY <1>27
    <2>2. wpc'[w] = "woken"
      BY <2>1 DEF SpuriousWakeup, Goto, PlaceInv, TypeInv, PcInv
    <2> QED BY <2>2, SleepAwake
  <1>28. CASE \E w \in Workers, t \in Tasks : Spawn(w, t)
    <2>1. PICK w \in Workers, t \in Tasks : Spawn(w, t)
      BY <1>28
    <2>2. wpc'[w] # "asleep"
      BY <2>1
      DEF Spawn, Goto, PlaceInv, TypeInv, PcInv
    <2> QED BY <2>2, SleepAwake
  <1>29. CASE DestroyDrained
    <2>1. UNCHANGED <<global, deque, inbox, mode, wpc, spc>>
      BY <1>29 DEF DestroyDrained, queueVars
    <2> QED BY <2>1, SleepFrame
  <1>30. CASE DestroyStop
    <2>1. UNCHANGED <<global, deque, inbox, mode, wpc, spc>>
      BY <1>30 DEF DestroyStop, queueVars
    <2> QED BY <2>1, SleepFrame
  <1>31. CASE DestroyNotify
    <2>1. 0 \in Workers /\ wpc'[0] # "asleep"
      BY <1>31, Counters DEF DestroyNotify, PlaceInv, LockInv
    <2> QED BY <2>1, SleepAwake
  <1>32. CASE DestroyJoin
    <2>1. UNCHANGED <<global, deque, inbox, mode, wpc, spc>>
      BY <1>32 DEF DestroyJoin, queueVars
    <2> QED BY <2>1, SleepFrame
  <1>33. CASE UNCHANGED vars
    BY <1>33, SleepFrame DEF vars
  <1> QED BY <1>1, <1>2, <1>3, <1>4, <1>5, <1>6, <1>7, <1>8, <1>9, <1>10, <1>11, <1>12,
             <1>13, <1>14, <1>15, <1>16, <1>17, <1>18, <1>19, <1>20, <1>21, <1>22,
             <1>23, <1>24, <1>25, <1>26, <1>27, <1>28, <1>29, <1>30, <1>31, <1>32, <1>33
    DEF Next, SubmitterStep, WorkerStep, DestructorStep, Gone

-----------------------------------------------------------------------------
(* Nothing more runs once everything enqueued has run. *)
LEMMA NothingLeftToRun ==
    ASSUME EndInv, dpc # "alive", RunsInv, AccountInv, AccountInv', NEW t \in Tasks,
           runs' = [runs EXCEPT ![t] = runs[t] + 1], enqueued' = enqueued
    PROVE  FALSE
  <1>1. runs'[t] = runs[t] + 1 /\ runs[t] \in Nat
    BY DEF RunsInv
  <1>2. CASE t \in enqueued
    <2>1. runs[t] = 1
      BY <1>2 DEF EndInv
    <2>2. runs'[t] \in {0, 1}
      BY <1>2 DEF AccountInv
    <2> QED BY <1>1, <2>1, <2>2
  <1>3. CASE t \notin enqueued
    <2>1. runs[t] = 0 /\ runs'[t] = 0
      BY <1>3 DEF AccountInv
    <2> QED BY <1>1, <2>1
  <1> QED BY <1>2, <1>3

(* The steps after the end that matter to no one: no task is enqueued or   *)
(* run, no worker enters a body.                                           *)
LEMMA EndKept ==
    ASSUME EndInv, UNCHANGED <<running, dpc, enqueued, runs>>,
           \A w \in Workers : wpc'[w] \in Bodies => wpc[w] \in Bodies
    PROVE  EndInv'
  BY DEF EndInv

(* A step that runs a task is one of a runtime that is alive. *)
LEMMA EndRun ==
    ASSUME EndInv, TypeInv, AccountInv, AccountInv', NEW t \in Tasks,
           runs' = [runs EXCEPT ![t] = runs[t] + 1], UNCHANGED <<running, dpc, enqueued>>
    PROVE  EndInv'
  <1>1. dpc = "alive"
    BY NothingLeftToRun DEF TypeInv
  <1> QED BY <1>1 DEF EndInv

(* wait_all() of the destructor: no task in a queue or in a hand is left. *)
LEMMA DrainedEnds ==
    ASSUME PlaceInv, TaskInv, EndInv, DestroyDrained
    PROVE  EndInv'
  <1>1. /\ dpc = "alive" /\ dpc' = "stop" /\ UNCHANGED <<running, wpc, enqueued, runs>>
        /\ Queued = {} /\ ~Busy
    BY DEF DestroyDrained
  <1>2. \A w \in Workers : hand[w] = NoTask /\ extra[w] = NoTask
    BY <1>1 DEF Busy
  <1>3. \A w \in Workers : wpc[w] \notin Bodies /\ wpc[w] \notin Draining
    BY <1>2, NoneAssumption DEF PlaceInv, TypeInv, HandInv
  <1>4. \A t \in Tasks : ~InQueue(global, t)
    <2>1. \A q \in Seq(Tasks), t \in Tasks : InQueue(q, t) => t \in ToSet(q)
      BY DEF InQueue, ToSet
    <2>2. ToSet(global) = {}
      BY <1>1 DEF Queued
    <2> QED BY <2>1, <2>2 DEF PlaceInv, TypeInv, QueueInv
  <1>5. \A w \in Workers, t \in Tasks : ~InQueue(deque[w], t) /\ ~InQueue(inbox[w], t)
    <2>1. \A q \in Seq(Tasks), t \in Tasks : InQueue(q, t) => t \in ToSet(q)
      BY DEF InQueue, ToSet
    <2>2. \A w \in Workers : ToSet(deque[w]) = {} /\ ToSet(inbox[w]) = {}
      BY <1>1 DEF Queued
    <2> QED BY <2>1, <2>2 DEF PlaceInv, TypeInv, QueueInv
  <1>6. \A k \in Kinds, w \in Workers, t \in Tasks : <<<<k, w>>, t>> \notin Held
    BY <1>2, <1>3, <1>4, <1>5, HeldBy, NoneAssumption DEF Kinds
  <1>7. \A h \in Homes, t \in Tasks : <<h, t>> \notin Held
    BY <1>6 DEF Homes
  <1>8. \A t \in enqueued : runs[t] = 1
    <2> SUFFICES ASSUME NEW t \in enqueued PROVE runs[t] = 1
      OBVIOUS
    <2>1. t \in Tasks
      BY DEF PlaceInv, TypeInv, RangeInv
    <2>2. ~(runs[t] = 0)
      BY <1>7, <2>1 DEF TaskInv, AccountInv
    <2> QED BY <2>1, <2>2 DEF TaskInv, AccountInv
  <1> QED BY <1>1, <1>3, <1>8 DEF EndInv

(* EndInv: after DestroyDrained there is nothing to run and nobody to       *)
(* enqueue more.                                                           *)
LEMMA EndStep == PlaceInv /\ TaskInv /\ TaskInv' /\ EndInv /\ [Next]_vars => EndInv'
  <1> SUFFICES ASSUME PlaceInv, TaskInv, TaskInv', EndInv, [Next]_vars PROVE EndInv'
    OBVIOUS
  <1>1. CASE \E s \in Submitters : ReadSleeping(s)
    <2>1. UNCHANGED <<running, dpc, enqueued, runs>> /\ wpc' = wpc
      BY <1>1 DEF ReadSleeping
    <2> QED BY <2>1, EndKept
  <1>2. CASE \E s \in Submitters : LockUnlock(s)
    <2>1. UNCHANGED <<running, dpc, enqueued, runs>> /\ wpc' = wpc
      BY <1>2 DEF LockUnlock
    <2> QED BY <2>1, EndKept
  <1>3. CASE \E s \in Submitters : NotifyOne(s)
    <2>1. UNCHANGED <<running, dpc, enqueued, runs>>
      BY <1>3 DEF NotifyOne
    <2>2. \A v \in Workers : wpc'[v] \in Bodies => wpc[v] \in Bodies
      BY <1>3, WakingSteps DEF Bodies
    <2> QED BY <2>1, <2>2, EndKept
  <1>4. CASE \E s \in Submitters, t \in Tasks : Enqueue(s, t)
    BY <1>4 DEF Enqueue, EndInv
  <1>5. CASE \E w \in Workers : LoopTop(w)
    <2>1. PICK w \in Workers : LoopTop(w)
      BY <1>5
    <2>2. UNCHANGED <<running, dpc, enqueued, runs>>
      BY <2>1 DEF LoopTop, otherVars
    <2>3. \A v \in Workers : wpc'[v] \in Bodies => wpc[v] \in Bodies
      BY <2>1
      DEF LoopTop, Goto, PlaceInv, TypeInv, PcInv, Bodies
    <2> QED BY <2>2, <2>3, EndKept
  <1>6. CASE \E w \in Workers : PopInbox(w)
    <2>1. PICK w \in Workers : PopInbox(w)
      BY <1>6
    <2>2. UNCHANGED <<running, dpc, enqueued>>
      BY <2>1 DEF PopInbox, otherVars
    <2>3. CASE inbox[w] # << >>
      <3>1. runs' = [runs EXCEPT ![Head(inbox[w])] = runs[Head(inbox[w])] + 1]
        BY <2>1, <2>3 DEF PopInbox, Run
      <3>2. Head(inbox[w]) \in Tasks
        BY <2>3, TailFacts DEF PlaceInv, TypeInv, QueueInv
      <3> QED BY <2>2, <3>1, <3>2, EndRun DEF PlaceInv, TaskInv
    <2>4. CASE inbox[w] = << >>
      <3>1. runs' = runs
        BY <2>1, <2>4 DEF PopInbox, FoundNothing
      <3>2. \A v \in Workers : wpc'[v] \in Bodies => wpc[v] \in Bodies
        BY <2>1, <2>4 DEF PopInbox, FoundNothing, Goto, PlaceInv, TypeInv, PcInv, Bodies
      <3> QED BY <2>2, <3>1, <3>2, EndKept
    <2> QED BY <2>3, <2>4
  <1>7. CASE \E w \in Workers : PopLocal(w)
    <2>1. PICK w \in Workers : PopLocal(w)
      BY <1>7
    <2>2. UNCHANGED <<running, dpc, enqueued>>
      BY <2>1 DEF PopLocal, otherVars
    <2>3. CASE deque[w] # << >>
      <3>1. runs' = [runs EXCEPT ![Last(deque[w])] = runs[Last(deque[w])] + 1]
        BY <2>1, <2>3 DEF PopLocal, Run
      <3>2. Last(deque[w]) \in Tasks
        BY <2>3, FrontFacts DEF PlaceInv, TypeInv, QueueInv
      <3> QED BY <2>2, <3>1, <3>2, EndRun DEF PlaceInv, TaskInv
    <2>4. CASE deque[w] = << >>
      <3>1. runs' = runs
        BY <2>1, <2>4 DEF PopLocal, FoundNothing
      <3>2. \A v \in Workers : wpc'[v] \in Bodies => wpc[v] \in Bodies
        BY <2>1, <2>4 DEF PopLocal, FoundNothing, Goto, PlaceInv, TypeInv, PcInv, Bodies
      <3> QED BY <2>2, <3>1, <3>2, EndKept
    <2> QED BY <2>3, <2>4
  <1>8. CASE \E w \in Workers : DrainFirst(w)
    <2>1. PICK w \in Workers : DrainFirst(w)
      BY <1>8
    <2>2. UNCHANGED <<running, dpc, enqueued, runs>>
      BY <2>1 DEF DrainFirst, otherVars
    <2>3. \A v \in Workers : wpc'[v] \in Bodies => wpc[v] \in Bodies
      BY <2>1
      DEF DrainFirst, Goto, PlaceInv, TypeInv, PcInv, Bodies
    <2> QED BY <2>2, <2>3, EndKept
  <1>9. CASE \E w \in Workers : DrainTake(w)
    <2>1. PICK w \in Workers : DrainTake(w)
      BY <1>9
    <2>2. UNCHANGED <<running, dpc, enqueued, runs>>
      BY <2>1 DEF DrainTake, otherVars
    <2>3. \A v \in Workers : wpc'[v] \in Bodies => wpc[v] \in Bodies
      BY <2>1
      DEF DrainTake, Goto, PlaceInv, TypeInv, PcInv, Bodies
    <2> QED BY <2>2, <2>3, EndKept
  <1>10. CASE \E w \in Workers : DrainPush(w)
    <2>1. PICK w \in Workers : DrainPush(w)
      BY <1>10
    <2>2. UNCHANGED <<running, dpc, enqueued, runs>>
      BY <2>1 DEF DrainPush, otherVars
    <2>3. \A v \in Workers : wpc'[v] \in Bodies => wpc[v] \in Bodies
      BY <2>1
      DEF DrainPush, Goto, PlaceInv, TypeInv, PcInv, Bodies
    <2> QED BY <2>2, <2>3, EndKept
  <1>11. CASE \E w \in Workers : DrainDone(w)
    <2>1. PICK w \in Workers : DrainDone(w)
      BY <1>11
    <2>2. UNCHANGED <<running, dpc, enqueued>>
      BY <2>1 DEF DrainDone, otherVars
    <2>3. runs' = [runs EXCEPT ![hand[w]] = runs[hand[w]] + 1]
      BY <2>1 DEF DrainDone, Run
    <2>4. hand[w] \in Tasks
      BY <2>1 DEF DrainDone, PlaceInv, TypeInv, HandInv, Draining
    <2> QED BY <2>2, <2>3, <2>4, EndRun DEF PlaceInv, TaskInv
  <1>12. CASE \E w \in Workers, v \in Workers : StealRead(w, v)
    <2>1. PICK w \in Workers, v \in Workers : StealRead(w, v)
      BY <1>12
    <2>2. UNCHANGED <<running, dpc, enqueued, runs>>
      BY <2>1 DEF StealRead, otherVars
    <2>3. \A x \in Workers : wpc'[x] \in Bodies => wpc[x] \in Bodies
      BY <2>1
      DEF StealRead, Goto, PlaceInv, TypeInv, PcInv, Bodies
    <2> QED BY <2>2, <2>3, EndKept
  <1>13. CASE \E w \in Workers, v \in Workers : StealNothing(w, v)
    <2>1. UNCHANGED <<running, dpc, enqueued, runs>> /\ wpc' = wpc
      BY <1>13 DEF StealNothing, otherVars
    <2> QED BY <2>1, EndKept
  <1>14. CASE \E w \in Workers : StealWon(w)
    <2>1. PICK w \in Workers : StealWon(w)
      BY <1>14
    <2>2. UNCHANGED <<running, dpc, enqueued>>
      BY <2>1 DEF StealWon, otherVars
    <2>3. runs' = [runs EXCEPT ![aim[w][2]] = runs[aim[w][2]] + 1]
      BY <2>1 DEF StealWon, Run
    <2>4. aim[w][2] \in Tasks
      BY <2>1 DEF StealWon, PlaceInv, TypeInv, AimInv
    <2> QED BY <2>2, <2>3, <2>4, EndRun DEF PlaceInv, TaskInv
  <1>15. CASE \E w \in Workers : StealAborted(w)
    <2>1. PICK w \in Workers : StealAborted(w)
      BY <1>15
    <2>2. UNCHANGED <<running, dpc, enqueued, runs>>
      BY <2>1 DEF StealAborted, otherVars
    <2>3. \A v \in Workers : wpc'[v] \in Bodies => wpc[v] \in Bodies
      BY <2>1
      DEF StealAborted, Goto, PlaceInv, TypeInv, PcInv, Bodies
    <2> QED BY <2>2, <2>3, EndKept
  <1>16. CASE \E w \in Workers : StealFailed(w)
    <2>1. PICK w \in Workers : StealFailed(w)
      BY <1>16
    <2>2. UNCHANGED <<running, dpc, enqueued, runs>>
      BY <2>1 DEF StealFailed, FoundNothing, otherVars
    <2>3. \A v \in Workers : wpc'[v] \in Bodies => wpc[v] \in Bodies
      BY <2>1
      DEF StealFailed, FoundNothing, Goto, PlaceInv, TypeInv, PcInv, Bodies
    <2> QED BY <2>2, <2>3, EndKept
  <1>17. CASE \E w \in Workers : BodyReturn(w)
    <2>1. PICK w \in Workers : BodyReturn(w)
      BY <1>17
    <2>2. UNCHANGED <<running, dpc, enqueued, runs>>
      BY <2>1 DEF BodyReturn, otherVars
    <2>3. \A v \in Workers : wpc'[v] \in Bodies => wpc[v] \in Bodies
      BY <2>1
      DEF BodyReturn, Goto, PlaceInv, TypeInv, PcInv, Bodies
    <2> QED BY <2>2, <2>3, EndKept
  <1>18. CASE \E w \in Workers : SpawnReadSleeping(w)
    <2>1. PICK w \in Workers : SpawnReadSleeping(w)
      BY <1>18
    <2>2. UNCHANGED <<running, dpc, enqueued, runs>>
      BY <2>1 DEF SpawnReadSleeping, otherVars
    <2>3. \A v \in Workers : wpc'[v] \in Bodies => wpc[v] \in Bodies
      BY <2>1
      DEF SpawnReadSleeping, Goto, PlaceInv, TypeInv, PcInv, Bodies
    <2> QED BY <2>2, <2>3, EndKept
  <1>19. CASE \E w \in Workers : SpawnLockUnlock(w)
    <2>1. PICK w \in Workers : SpawnLockUnlock(w)
      BY <1>19
    <2>2. UNCHANGED <<running, dpc, enqueued, runs>>
      BY <2>1 DEF SpawnLockUnlock, otherVars
    <2>3. \A v \in Workers : wpc'[v] \in Bodies => wpc[v] \in Bodies
      BY <2>1
      DEF SpawnLockUnlock, Goto, PlaceInv, TypeInv, PcInv, Bodies
    <2> QED BY <2>2, <2>3, EndKept
  <1>20. CASE \E w \in Workers : SpawnNotify(w)
    <2>1. UNCHANGED <<running, dpc, enqueued, runs>>
      BY <1>20 DEF SpawnNotify, otherVars
    <2>2. \A v \in Workers : wpc'[v] \in Bodies => wpc[v] \in Bodies
      BY <1>20, WakingSteps DEF Bodies
    <2> QED BY <2>1, <2>2, EndKept
  <1>21. CASE \E w \in Workers : ParkCount(w)
    <2>1. PICK w \in Workers : ParkCount(w)
      BY <1>21
    <2>2. UNCHANGED <<running, dpc, enqueued, runs>>
      BY <2>1 DEF ParkCount, otherVars
    <2>3. \A v \in Workers : wpc'[v] \in Bodies => wpc[v] \in Bodies
      BY <2>1
      DEF ParkCount, Goto, PlaceInv, TypeInv, PcInv, Bodies
    <2> QED BY <2>2, <2>3, EndKept
  <1>22. CASE \E w \in Workers : ParkRunning(w)
    <2>1. PICK w \in Workers : ParkRunning(w)
      BY <1>22
    <2>2. UNCHANGED <<running, dpc, enqueued, runs>>
      BY <2>1 DEF ParkRunning, Unpark, otherVars
    <2>3. \A v \in Workers : wpc'[v] \in Bodies => wpc[v] \in Bodies
      BY <2>1
      DEF ParkRunning, Unpark, Goto, PlaceInv, TypeInv, PcInv, Bodies
    <2> QED BY <2>2, <2>3, EndKept
  <1>23. CASE \E w \in Workers : ParkGlobal(w)
    <2>1. PICK w \in Workers : ParkGlobal(w)
      BY <1>23
    <2>2. UNCHANGED <<running, dpc, enqueued, runs>>
      BY <2>1 DEF ParkGlobal, Unpark, otherVars
    <2>3. \A v \in Workers : wpc'[v] \in Bodies => wpc[v] \in Bodies
      BY <2>1
      DEF ParkGlobal, Unpark, Goto, PlaceInv, TypeInv, PcInv, Bodies
    <2> QED BY <2>2, <2>3, EndKept
  <1>24. CASE \E w \in Workers : ParkScan(w)
    <2>1. PICK w \in Workers : ParkScan(w)
      BY <1>24
    <2>2. UNCHANGED <<running, dpc, enqueued, runs>>
      BY <2>1 DEF ParkScan, Unpark, otherVars
    <2>3. \A v \in Workers : wpc'[v] \in Bodies => wpc[v] \in Bodies
      BY <2>1
      DEF ParkScan, Unpark, Goto, PlaceInv, TypeInv, PcInv, Bodies
    <2> QED BY <2>2, <2>3, EndKept
  <1>25. CASE \E w \in Workers : Sleep(w)
    <2>1. PICK w \in Workers : Sleep(w)
      BY <1>25
    <2>2. UNCHANGED <<running, dpc, enqueued, runs>>
      BY <2>1 DEF Sleep, otherVars
    <2>3. \A v \in Workers : wpc'[v] \in Bodies => wpc[v] \in Bodies
      BY <2>1
      DEF Sleep, Goto, PlaceInv, TypeInv, PcInv, Bodies
    <2> QED BY <2>2, <2>3, EndKept
  <1>26. CASE \E w \in Workers : Woken(w)
    <2>1. PICK w \in Workers : Woken(w)
      BY <1>26
    <2>2. UNCHANGED <<running, dpc, enqueued, runs>>
      BY <2>1 DEF Woken, otherVars
    <2>3. \A v \in Workers : wpc'[v] \in Bodies => wpc[v] \in Bodies
      BY <2>1
      DEF Woken, Goto, PlaceInv, TypeInv, PcInv, Bodies
    <2> QED BY <2>2, <2>3, EndKept
  <1>27. CASE \E w \in Workers : SpuriousWakeup(w)
    <2>1. UNCHANGED <<running, dpc, enqueued, runs>>
      BY <1>27 DEF SpuriousWakeup, otherVars
    <2>2. \A v \in Workers : wpc'[v] \in Bodies => wpc[v] \in Bodies
      BY <1>27, WakingSteps DEF Bodies
    <2> QED BY <2>1, <2>2, EndKept
  <1>28. CASE \E w \in Workers, t \in Tasks : Spawn(w, t)
    <2>1. PICK w \in Workers, t \in Tasks : Spawn(w, t)
      BY <1>28
    <2>2. wpc[w] \in Bodies /\ UNCHANGED <<running, dpc>>
      BY <2>1 DEF Spawn, Bodies, otherVars
    <2> QED BY <2>2 DEF EndInv
  <1>29. CASE DestroyDrained
    BY <1>29, DrainedEnds
  <1>30. CASE DestroyStop
    BY <1>30 DEF DestroyStop, EndInv
  <1>31. CASE DestroyNotify
    <2>1. UNCHANGED <<running, enqueued, runs>> /\ dpc = "notify" /\ dpc' = "join"
      BY <1>31 DEF DestroyNotify
    <2>2. \A v \in Workers : wpc'[v] \in Bodies => wpc[v] \in Bodies
      BY <1>31, WakingSteps DEF Bodies
    <2> QED BY <2>1, <2>2 DEF EndInv
  <1>32. CASE DestroyJoin
    BY <1>32 DEF DestroyJoin, EndInv
  <1>33. CASE UNCHANGED vars
    BY <1>33, EndKept DEF vars
  <1> QED BY <1>1, <1>2, <1>3, <1>4, <1>5, <1>6, <1>7, <1>8, <1>9, <1>10, <1>11, <1>12,
             <1>13, <1>14, <1>15, <1>16, <1>17, <1>18, <1>19, <1>20, <1>21, <1>22,
             <1>23, <1>24, <1>25, <1>26, <1>27, <1>28, <1>29, <1>30, <1>31, <1>32, <1>33
    DEF Next, SubmitterStep, WorkerStep, DestructorStep, Gone


-----------------------------------------------------------------------------
(* The layers together *)

(* Init establishes every layer. *)
LEMMA InitIInv == Init => IInv
  <1> SUFFICES ASSUME Init PROVE IInv
    OBVIOUS
  <1>1. \A w \in Workers : wpc[w] = "loop"
    BY DEF Init
  <1>2. RangeInv
    BY Counters DEF Init, RangeInv, SubmitterStates
  <1>3. PcInv
    BY DEF Init, PcInv, WorkerStates
  <1>4. RunsInv
    BY DEF Init, RunsInv
  <1>5. LocalInv
    BY Counters DEF Init, LocalInv
  <1>6. QueueInv
    BY Counters, EmptyFacts DEF Init, QueueInv
  <1>7. HandInv
    BY <1>1, NoneAssumption DEF Init, HandInv, Draining, Bodies
  <1>8. AimInv
    BY <1>1 DEF Init, AimInv
  <1>9. LockInv
    BY <1>1, NoneAssumption DEF Init, LockInv, Parking
  <1>10. PlaceInv
    BY <1>2, <1>3, <1>4, <1>5, <1>6, <1>7, <1>8, <1>9 DEF PlaceInv, TypeInv
  <1>11. CountInv
    <2>1. CountedWorkers = {}
      BY <1>1 DEF CountedWorkers, Counted, Parking
    <2> QED BY <2>1, FS_EmptySet DEF Init, CountInv
  <1>12. ModeInv
    BY <1>1 DEF Init, ModeInv, Stealing, Draining
  <1>13. TaskInv
    <2>1. \A k \in Kinds, w \in Workers, t \in Tasks : <<<<k, w>>, t>> \notin Held
      <3>1. /\ global = << >>
            /\ \A w \in Workers : /\ deque[w] = << >> /\ inbox[w] = << >>
                                  /\ extra[w] = NoTask /\ wpc[w] \notin Draining
        BY <1>1 DEF Init, Draining
      <3>2. \A t \in Tasks : ~InQueue(<< >>, t) /\ t # NoTask
        BY EmptyFacts, NoneAssumption
      <3> SUFFICES ASSUME NEW w \in Workers, NEW t \in Tasks
                   PROVE  \A k \in Kinds : <<<<k, w>>, t>> \notin Held
        OBVIOUS
      <3>3. <<<<"global", w>>, t>> \notin Held
        BY <3>1, <3>2, HeldBy
      <3>4. ~InQueue(deque[w], t) /\ ~InQueue(inbox[w], t)
        BY <3>1, <3>2
      <3>5. extra[w] # t /\ wpc[w] \notin Draining
        BY <3>1, <3>2
      <3>6. <<<<"deque", w>>, t>> \notin Held /\ <<<<"inbox", w>>, t>> \notin Held
        BY <3>4, HeldBy
      <3>7. <<<<"extra", w>>, t>> \notin Held /\ <<<<"hand", w>>, t>> \notin Held
        BY <3>5, HeldBy
      <3> QED BY <3>3, <3>6, <3>7 DEF Kinds
    <2>2. \A h \in Homes, t \in Tasks : <<h, t>> \notin Held
      BY <2>1 DEF Homes
    <2>3. AccountInv
      BY <2>2 DEF Init, AccountInv
    <2>4. RepeatInv
      BY EmptyFacts DEF Init, RepeatInv
    <2> QED BY <2>3, <2>4 DEF TaskInv
  <1>14. ScanInv
    BY <1>1 DEF ScanInv
  <1>15. SleepInv
    BY <1>1, Counters DEF SleepInv
  <1>16. EndInv
    BY DEF Init, EndInv
  <1> QED BY <1>10, <1>11, <1>12, <1>13, <1>14, <1>15, <1>16 DEF IInv

(* Every step keeps every layer. *)
LEMMA NextIInv == IInv /\ [Next]_vars => IInv'
  <1> SUFFICES ASSUME IInv, [Next]_vars PROVE IInv'
    OBVIOUS
  <1>1. PlaceInv /\ TypeInv /\ CountInv /\ ModeInv /\ TaskInv /\ ScanInv /\ SleepInv /\ EndInv
    BY DEF IInv, PlaceInv
  <1>2. QueueInv' /\ TaskInv'
    BY <1>1, TaskStep
  <1>3. PlaceInv'
    BY <1>1, <1>2, RangeStep, PcStep, RunsStep, LocalStep, HandStep, AimStep, LockStep
    DEF PlaceInv, TypeInv
  <1>4. CountInv' /\ ModeInv' /\ ScanInv' /\ SleepInv'
    BY <1>1, CountStep, ModeStep, ScanStep, SleepStep
  <1>5. EndInv'
    BY <1>1, <1>2, EndStep
  <1> QED BY <1>2, <1>3, <1>4, <1>5 DEF IInv

(* The inductive invariant of the scheduler's worker loop, its submitters  *)
(* and its destructor.                                                     *)
THEOREM Invariance == Spec => []IInv
  <1>1. Init => IInv
    BY InitIInv
  <1>2. IInv /\ [Next]_vars => IInv'
    BY NextIInv
  <1> QED BY <1>1, <1>2, PTL DEF Spec

-----------------------------------------------------------------------------
(* What the invariant says of the scheduler *)

(* Every variable keeps its range; sleeping_ is never negative and never   *)
(* more than worker_count_, whatever parks, wakes and stops together.      *)
THEOREM TypeCorrect == Spec => []TypeOK
  <1>1. IInv => TypeOK
    <2> SUFFICES ASSUME IInv PROVE TypeOK
      OBVIOUS
    <2>1. sleeping \in 0 .. NumWorkers
      BY CountedCard DEF IInv, CountInv
    <2>2. asleep \subseteq Workers
      BY DEF IInv, PlaceInv, LockInv
    <2>3. /\ mode \in Modes
          /\ cursor \in Workers
          /\ mutex \in Workers \cup {Nobody}
          /\ running \in BOOLEAN
      BY DEF IInv, PlaceInv, TypeInv, RangeInv
    <2>4. LocalInv
      BY DEF IInv, PlaceInv, TypeInv
    <2>5. /\ hand \in [Workers -> Tasks \cup {NoTask}]
          /\ extra \in [Workers -> Tasks \cup {NoTask}]
      BY DEF IInv, PlaceInv, TypeInv, HandInv
    <2>6. \A w \in Workers : aim[w] = NoAim \/ aim[w] \in Workers \X Tasks
      BY DEF IInv, PlaceInv, TypeInv, AimInv
    <2>7. \A w \in Workers : Len(deque[w]) <= DequeCapacity
      BY DEF IInv, PlaceInv, TypeInv, QueueInv
    <2> QED BY <2>1, <2>2, <2>3, <2>4, <2>5, <2>6, <2>7 DEF TypeOK, LocalInv
  <1> QED BY <1>1, Invariance, PTL

(* The places of TaskConservation, position by position. *)
LEMMA PlacesAre ==
    ASSUME QueueInv, NEW t, NEW p
    PROVE  p \in Places(t) <=>
               \/ \E i \in 1 .. Len(global) : global[i] = t /\ p = <<"global", i>>
               \/ \E w \in Workers : \E i \in 1 .. Len(deque[w]) :
                      deque[w][i] = t /\ p = <<"deque", w, i>>
               \/ \E w \in Workers : \E i \in 1 .. Len(inbox[w]) :
                      inbox[w][i] = t /\ p = <<"inbox", w, i>>
               \/ \E w \in Workers : extra[w] = t /\ p = <<"extra", w>>
               \/ \E w \in Workers : hand[w] = t /\ wpc[w] \in Draining /\ p = <<"hand", w>>
  <1> DEFINE G == {<<"global", i>> : i \in {j \in DOMAIN global : global[j] = t}}
             D == UNION {{<<"deque", w, i>> : i \in {j \in DOMAIN deque[w] : deque[w][j] = t}} :
                         w \in Workers}
             I == UNION {{<<"inbox", w, i>> : i \in {j \in DOMAIN inbox[w] : inbox[w][j] = t}} :
                         w \in Workers}
             E == {<<"extra", w>> : w \in {v \in Workers : extra[v] = t}}
             H == {<<"hand", w>> : w \in {v \in Workers : hand[v] = t
                                                        /\ wpc[v] \in {"drain", "drainPush"}}}
  <1>1. \A q \in Seq(Tasks) : DOMAIN q = 1 .. Len(q)
    OBVIOUS
  <1>2. /\ DOMAIN global = 1 .. Len(global)
        /\ \A w \in Workers : /\ DOMAIN deque[w] = 1 .. Len(deque[w])
                              /\ DOMAIN inbox[w] = 1 .. Len(inbox[w])
    BY <1>1 DEF QueueInv
  <1>3. p \in G <=> \E i \in 1 .. Len(global) : global[i] = t /\ p = <<"global", i>>
    BY <1>2
  <1>4. p \in D <=> \E w \in Workers : \E i \in 1 .. Len(deque[w]) :
                        deque[w][i] = t /\ p = <<"deque", w, i>>
    BY <1>2
  <1>5. p \in I <=> \E w \in Workers : \E i \in 1 .. Len(inbox[w]) :
                        inbox[w][i] = t /\ p = <<"inbox", w, i>>
    BY <1>2
  <1>6. p \in E <=> \E w \in Workers : extra[w] = t /\ p = <<"extra", w>>
    OBVIOUS
  <1>7. p \in H <=> \E w \in Workers : hand[w] = t /\ wpc[w] \in Draining /\ p = <<"hand", w>>
    BY DEF Draining
  <1>8. Places(t) = G \cup D \cup I \cup E \cup H
    BY DEF Places
  <1> HIDE DEF G, D, I, E, H
  <1> QED BY <1>3, <1>4, <1>5, <1>6, <1>7, <1>8

(* A task that no home holds is in no place ... *)
LEMMA NoPlace ==
    ASSUME QueueInv, NEW t \in Tasks, \A h \in Homes : <<h, t>> \notin Held
    PROVE  Places(t) = {}
  <1>1. /\ ~InQueue(global, t)
        /\ \A w \in Workers : /\ ~InQueue(deque[w], t) /\ ~InQueue(inbox[w], t)
                              /\ extra[w] # t /\ ~(hand[w] = t /\ wpc[w] \in Draining)
    BY ZenonT(40), HeldBy, HomeNames, Counters
  <1>2. \A p : p \notin Places(t)
    BY <1>1, PlacesAre DEF InQueue
  <1> QED BY <1>2

(* ... and one that one home holds is in one place. *)
LEMMA OnePlace ==
    ASSUME QueueInv, RepeatInv, NEW t \in Tasks, NEW h \in Homes,
           \A k \in Homes : <<k, t>> \in Held <=> k = h
    PROVE  \E p : Places(t) = {p}
  <1>1. PICK k \in Kinds, w \in Workers : h = <<k, w>>
    BY DEF Homes
  <1>2. \A l \in Kinds, v \in Workers : <<<<l, v>>, t>> \in Held <=> l = k /\ v = w
    BY <1>1 DEF Homes
  <1>3. /\ InQueue(global, t) <=> k = "global" /\ w = 0
        /\ \A v \in Workers :
            /\ InQueue(deque[v], t) <=> k = "deque" /\ v = w
            /\ InQueue(inbox[v], t) <=> k = "inbox" /\ v = w
            /\ extra[v] = t <=> k = "extra" /\ v = w
            /\ hand[v] = t /\ wpc[v] \in Draining <=> k = "hand" /\ v = w
    BY ZenonT(40), <1>2, HeldBy, Counters DEF Kinds
  <1>4. k = "global" => w = 0
    BY <1>2, HeldBy, Counters
  <1>5. /\ k # "global" => \A i \in 1 .. Len(global) : global[i] # t
        /\ \A v \in Workers :
            /\ ~(k = "deque" /\ v = w) => \A i \in 1 .. Len(deque[v]) : deque[v][i] # t
            /\ ~(k = "inbox" /\ v = w) => \A i \in 1 .. Len(inbox[v]) : inbox[v][i] # t
            /\ ~(k = "extra" /\ v = w) => extra[v] # t
            /\ ~(k = "hand" /\ v = w) => ~(hand[v] = t /\ wpc[v] \in Draining)
    BY <1>3 DEF InQueue
  <1>6. CASE k = "global"
    <2>1. PICK i \in 1 .. Len(global) : global[i] = t
      BY <1>3, <1>4, <1>6 DEF InQueue
    <2>2. \A j \in 1 .. Len(global) : global[j] = t => j = i
      BY <2>1 DEF RepeatInv, NoRepeat
    <2>3. <<"global", i>> \in Places(t)
      BY <2>1, PlacesAre
    <2>4. ASSUME NEW p \in Places(t) PROVE p = <<"global", i>>
      BY <1>6, <2>2, <1>5, PlacesAre
    <2>5. Places(t) = {<<"global", i>>}
      BY <2>3, <2>4
    <2> QED BY <2>5
  <1>7. CASE k = "deque"
    <2>1. PICK i \in 1 .. Len(deque[w]) : deque[w][i] = t
      BY <1>3, <1>7 DEF InQueue
    <2>2. \A j \in 1 .. Len(deque[w]) : deque[w][j] = t => j = i
      BY <2>1 DEF RepeatInv, NoRepeat
    <2>3. <<"deque", w, i>> \in Places(t)
      BY <2>1, PlacesAre
    <2>4. ASSUME NEW p \in Places(t) PROVE p = <<"deque", w, i>>
      BY <1>7, <2>2, <1>5, PlacesAre
    <2>5. Places(t) = {<<"deque", w, i>>}
      BY <2>3, <2>4
    <2> QED BY <2>5
  <1>8. CASE k = "inbox"
    <2>1. PICK i \in 1 .. Len(inbox[w]) : inbox[w][i] = t
      BY <1>3, <1>8 DEF InQueue
    <2>2. \A j \in 1 .. Len(inbox[w]) : inbox[w][j] = t => j = i
      BY <2>1 DEF RepeatInv, NoRepeat
    <2>3. <<"inbox", w, i>> \in Places(t)
      BY <2>1, PlacesAre
    <2>4. ASSUME NEW p \in Places(t) PROVE p = <<"inbox", w, i>>
      BY <1>8, <2>2, <1>5, PlacesAre
    <2>5. Places(t) = {<<"inbox", w, i>>}
      BY <2>3, <2>4
    <2> QED BY <2>5
  <1>9. CASE k = "extra"
    <2>1. <<"extra", w>> \in Places(t)
      BY <1>3, <1>9, PlacesAre
    <2>2. ASSUME NEW p \in Places(t) PROVE p = <<"extra", w>>
      BY <1>9, <1>5, PlacesAre
    <2>3. Places(t) = {<<"extra", w>>}
      BY <2>1, <2>2
    <2> QED BY <2>3
  <1>10. CASE k = "hand"
    <2>1. <<"hand", w>> \in Places(t)
      BY <1>3, <1>10, PlacesAre
    <2>2. ASSUME NEW p \in Places(t) PROVE p = <<"hand", w>>
      BY <1>10, <1>5, PlacesAre
    <2>3. Places(t) = {<<"hand", w>>}
      BY <2>1, <2>2
    <2> QED BY <2>3
  <1> QED BY <1>6, <1>7, <1>8, <1>9, <1>10 DEF Kinds

(* From enqueue_ready() to execute() a task is in exactly one queue or in  *)
(* one worker's hands, through draining, overflowing, putting back and     *)
(* stealing, and it is executed at most once.                              *)
THEOREM TaskConservationHolds == Spec => []TaskConservation
  <1>1. IInv => TaskConservation
    <2> SUFFICES ASSUME IInv, NEW t \in Tasks
                 PROVE  IF t \in enqueued THEN Cardinality(Places(t)) + runs[t] = 1
                                          ELSE Places(t) = {} /\ runs[t] = 0
      BY DEF TaskConservation
    <2>1. QueueInv /\ RepeatInv /\ AccountInv
      BY DEF IInv, PlaceInv, TypeInv, TaskInv
    <2>2. CASE t \notin enqueued
      BY <2>1, <2>2, NoPlace DEF AccountInv
    <2>3. CASE t \in enqueued /\ runs[t] = 1
      <3>1. Places(t) = {}
        BY <2>1, <2>3, NoPlace DEF AccountInv
      <3> QED BY <2>3, <3>1, FS_EmptySet
    <2>4. CASE t \in enqueued /\ runs[t] = 0
      <3>1. PICK h \in Homes : \A k \in Homes : <<k, t>> \in Held <=> k = h
        BY <2>1, <2>4 DEF AccountInv
      <3>2. PICK p : Places(t) = {p}
        BY <2>1, <3>1, OnePlace
      <3>3. Cardinality(Places(t)) = 1
        BY <3>2, FS_Singleton
      <3> QED BY <2>4, <3>3
    <2> QED BY <2>1, <2>2, <2>3, <2>4 DEF AccountInv
  <1> QED BY <1>1, Invariance, PTL

(* The handshake of wake_one_worker() and park_worker() never leaves the   *)
(* whole runtime asleep with work in a queue, unless a thread is already   *)
(* on its way to wake a worker.                                            *)
THEOREM NotAllAsleepHolds == Spec => []NotAllAsleep
  <1>1. IInv => NotAllAsleep
    <2> SUFFICES ASSUME IInv, asleep = Workers, ~WakeupPending
                 PROVE  Queued = {}
      BY DEF NotAllAsleep
    <2>1. \A w \in Workers : wpc[w] = "asleep"
      BY DEF IInv, PlaceInv, LockInv
    <2>2. global = << >> /\ \A w \in Workers : OwnQueue(w) = << >>
      BY <2>1 DEF IInv, SleepInv
    <2>3. \A w \in Workers : deque[w] = << >> /\ inbox[w] = << >>
      BY <2>2 DEF IInv, ModeInv, OwnQueue
    <2>4. ToSet(<< >>) = {}
      BY DEF ToSet
    <2> QED BY <2>2, <2>3, <2>4, Zenon DEF Queued
  <1> QED BY <1>1, Invariance, PTL

(* When the destructor clears running_, every task that was given to       *)
(* enqueue_ready() has been executed, once.                                *)
THEOREM NothingDiscardedHolds == Spec => []NothingDiscarded
  <1>1. IInv => NothingDiscarded
    BY DEF IInv, EndInv, NothingDiscarded
  <1> QED BY <1>1, Invariance, PTL

=============================================================================
