---------------------------- MODULE ClientProofs ----------------------------
(***************************************************************************)
(* Theorems about the clients of the runtime: FrameSim (Simulation), then  *)
(* ParallelFor (parallel_for) and TaskGraph (TaskGraph), each for every    *)
(* value of its constants.                                                 *)
(*                                                                         *)
(* FrameSim, for every scene, worker count, batch size, window and list of *)
(* legs: the simulation computes what serial ticks compute, and no task is *)
(* left when a tick is over.  Its inductive invariant:                     *)
(*   FrameTypeInv  the ranges, and the shape of the buffers                *)
(*   StageInv      which chains are submitted, waited for, through, by the *)
(*                 place the main thread is at                             *)
(*   FieldInv      the current buffer is what the serial ticks so far      *)
(*                 leave; of a batch that was claimed all fields have been *)
(*                 written, or a task is at it and has written some; every *)
(*                 leg that is over had the same hash                      *)
(* ParallelFor: LoopIInv, of which ChunkInv says that the cursor is a      *)
(* whole number of batches on, that the chunks in hand are apart, and that *)
(* an index behind the cursor was called once or is in hand.               *)
(* TaskGraph: GraphIInv, of which KahnInv says what remaining, ready and   *)
(* order hold between two steps of the sort, and SubmitInv and AfterInv    *)
(* what has been submitted, after what.                                    *)
(***************************************************************************)
EXTENDS TaskGraph, ParallelFor, FrameSim, FiniteSetTheorems, SequenceTheorems,
        WellFoundedInduction, TLAPS

Ranges ==
    /\ scene \in [Chains -> Nat] /\ workers \in Nat
    /\ ticks \in 0 .. MaxTicks /\ current \in 0 .. 1
    /\ legs \in Seq({"tick", "tick_serial", "tick_with_taskflow"})
    /\ mpc \in {"idle", "stages", "submit", "wait", "running", "flow", "swap"}
    /\ stage \in Chains
    /\ claimants \in [Chains -> Nat]
    /\ frame \in (0 .. 1) \X Nat
    /\ stageCursor \in [Chains -> Nat]
    /\ claimantAt \in [Chains -> [ClaimantIds -> {"none", "claim", "run", "done"}]]
    /\ batch \in [Chains -> [ClaimantIds -> Nat]]
    /\ kernel \in [Chains -> [ClaimantIds -> Nat]]
    /\ barrier \in [Chains -> {"none", "submitted", "done"}]

BufferShape ==
    buffers = [b \in 0 .. 1 |-> [c \in Chains |-> [k \in Steps(c) |->
                    [i \in Entities(c) |-> buffers[b][c][k][i]]]]]

FrameTypeInv == Ranges /\ BufferShape

(* Of chain c no task is submitted; all are over; the first, which a chain *)
(* with entities always has, has found no batch left; they are behind a    *)
(* barrier that has not run; one of the last two.                          *)
Fresh(c) == barrier[c] = "none" /\ \A t \in ClaimantIds : claimantAt[c][t] = "none"

Quiet(c) == \A t \in ClaimantIds : claimantAt[c][t] \in {"none", "done"}

Through(c) == Quiet(c) /\ (scene[c] # 0 => claimantAt[c][1] = "done")

Behind(c) ==
    /\ barrier[c] = "submitted"
    /\ claimants[c] \in ClaimantIds
    /\ \A t \in ClaimantIds : claimantAt[c][t] = "none" <=> t > claimants[c]

Handed(c) == Behind(c) \/ (barrier[c] # "submitted" /\ Through(c))

StageInv ==
    /\ mpc = "idle" => stage = 1 /\ \A c \in Chains : Quiet(c)
    /\ mpc # "idle" => legs # << >> /\ frame = <<current, ticks>> /\ ticks < MaxTicks
    /\ mpc # "idle" /\ Head(legs) # "tick" => \A c \in Chains : barrier[c] = "none"
    /\ mpc \in {"submit", "wait"} => Head(legs) = "tick"
    /\ mpc = "running" => Head(legs) = "tick_serial"
    /\ mpc = "flow" => Head(legs) = "tick_with_taskflow"
    /\ mpc \in {"stages", "submit", "running"} => \A c \in Chains :
          /\ c < stage => Handed(c)
          /\ c > stage => Fresh(c)
    /\ mpc = "stages" => Fresh(stage)
    /\ mpc = "submit" =>
          /\ barrier[stage] = "none" /\ claimants[stage] \in ClaimantIds
          /\ \A t \in ClaimantIds : t > claimants[stage] => claimantAt[stage][t] = "none"
    /\ mpc = "running" =>
          \A t \in ClaimantIds : claimantAt[stage][t] = "none" <=> t > 1
    /\ mpc \in {"stages", "flow"} /\ Head(legs) = "tick_with_taskflow" => stage = 1
    /\ mpc = "flow" => \A c \in Chains, t \in ClaimantIds :
          claimantAt[c][t] = "none" <=> t > Claimants(c)
    /\ mpc = "wait" => \A c \in Chains :
          /\ Handed(c)
          /\ c < stage => barrier[c] # "submitted"
    /\ mpc = "swap" => stage = 1 /\ \A c \in Chains : Through(c)

(* What n serial ticks leave. *)
AllAt(n) == [c \in Chains |-> [k \in Steps(c) |-> [i \in Entities(c) |-> n]]]

(* Batch b of chain c has kernels 1 .. k in the next frame. *)
Written(c, b, k) ==
    \A j \in 1 .. k, i \in Entities(c) : i \in Members(c, b) =>
        buffers[1 - frame[1]][c][j][i] = frame[2] + 1

TaskOk(c, t) ==
    /\ kernel[c][t] \in Steps(c)
    /\ claimantAt[c][t] # "run" => kernel[c][t] = 1
    /\ claimantAt[c][t] = "run" => Written(c, batch[c][t], kernel[c][t] - 1)
    /\ claimantAt[c][t] = "done" => stageCursor[c] >= StageBatches(c)

BatchOk(c) ==
    \A b \in 0 .. StageBatches(c) - 1 : b < stageCursor[c] =>
        \/ Written(c, b, Len(Kernels[c]))
        \/ \E t \in ClaimantIds : claimantAt[c][t] = "run" /\ batch[c][t] = b

FieldInv ==
    /\ buffers[current] = AllAt(ticks)
    /\ \A c \in Chains, t \in ClaimantIds : TaskOk(c, t)
    /\ mpc # "idle" => \A c \in Chains : BatchOk(c)
    /\ agree /\ reference \in {NoHash, AllAt(MaxTicks)}

IInv == FrameTypeInv /\ StageInv /\ FieldInv

-----------------------------------------------------------------------------
(* The quotient of n by d: n lies in the d numbers from d * q on.          *)
LEMMA Quotient ==
    ASSUME NEW n \in Nat, NEW d \in Nat \ {0}
    PROVE  n \div d \in Nat /\ d * (n \div d) <= n /\ n < d * (n \div d) + d
BY Z3

(* The kernels of a chain are at least one, and each reads fields of its   *)
(* own chain, of the next frame only those of earlier kernels.             *)
LEMMA KernelOrder ==
    ASSUME NEW c \in Chains
    PROVE  /\ Len(Kernels[c]) \in Nat \ {0} /\ Steps(c) = 1 .. Len(Kernels[c])
           /\ \A k \in Steps(c) :
                 /\ Kernels[c][k].own \subseteq Steps(c)
                 /\ Kernels[c][k].near \subseteq Steps(c)
                 /\ Kernels[c][k].now \subseteq 1 .. k - 1
  <1>1. CASE c = 1
    <2>1. Kernels[c] = VehicleKernels
      BY <1>1 DEF Kernels
    <2>2. Len(VehicleKernels) = 2 /\ DOMAIN VehicleKernels = 1 .. 2
      BY DEF VehicleKernels
    <2>3. /\ VehicleKernels[1].own = {2} /\ VehicleKernels[1].near = {} /\ VehicleKernels[1].now = {}
          /\ VehicleKernels[2].own = {2} /\ VehicleKernels[2].near = {} /\ VehicleKernels[2].now = {1}
      BY DEF VehicleKernels, VehicleLod
    <2> QED BY <2>1, <2>2, <2>3 DEF Steps
  <1>2. CASE c = 2
    <2>1. Kernels[c] = NpcKernels
      BY <1>2 DEF Kernels
    <2>2. Len(NpcKernels) = 4 /\ DOMAIN NpcKernels = 1 .. 4
      BY DEF NpcKernels
    <2>3. /\ NpcKernels[1].own = {4} /\ NpcKernels[1].near = {} /\ NpcKernels[1].now = {}
          /\ NpcKernels[2].own = {4} /\ NpcKernels[2].near = {4} /\ NpcKernels[2].now = {}
          /\ NpcKernels[3].own = {3, 4} /\ NpcKernels[3].near = {4} /\ NpcKernels[3].now = {2}
          /\ NpcKernels[4].own = {4} /\ NpcKernels[4].near = {} /\ NpcKernels[4].now = {3}
      BY DEF NpcKernels
    <2> QED BY <2>1, <2>2, <2>3 DEF Steps
  <1>3. CASE c = 3
    <2>1. Kernels[c] = AircraftKernels
      BY <1>3 DEF Kernels
    <2>2. Len(AircraftKernels) = 4 /\ DOMAIN AircraftKernels = 1 .. 4
      BY DEF AircraftKernels
    <2>3. /\ AircraftKernels[1].own = {4} /\ AircraftKernels[1].near = {} /\ AircraftKernels[1].now = {}
          /\ AircraftKernels[2].own = {4} /\ AircraftKernels[2].near = {} /\ AircraftKernels[2].now = {1}
          /\ AircraftKernels[3].own = {3, 4} /\ AircraftKernels[3].near = {}
          /\ AircraftKernels[3].now = {1}
          /\ AircraftKernels[4].own = {4} /\ AircraftKernels[4].near = {}
          /\ AircraftKernels[4].now = {2, 3}
      BY DEF AircraftKernels
    <2> QED BY <2>1, <2>2, <2>3 DEF Steps
  <1> QED BY <1>1, <1>2, <1>3 DEF Chains

(* There is a task at least; a chain with entities has a batch, and not    *)
(* more tasks than there can be.                                           *)
LEMMA CapFacts ==
    ASSUME FrameTypeInv
    PROVE  /\ WorkerCap \in Nat \ {0} /\ 1 \in ClaimantIds /\ ClaimantIds \subseteq Nat
           /\ \A c \in Chains : /\ scene[c] \in Nat /\ StageBatches(c) \in Nat
                                /\ scene[c] # 0 => Claimants(c) \in ClaimantIds
  <1>1. WorkerCap \in Nat \ {0}
    BY DEF FrameTypeInv, Ranges, BufferShape, WorkerCap
  <1>2. 1 \in ClaimantIds /\ ClaimantIds \subseteq Nat
    BY <1>1 DEF ClaimantIds
  <1>3. ASSUME NEW c \in Chains
        PROVE  /\ scene[c] \in Nat /\ StageBatches(c) \in Nat
               /\ scene[c] # 0 => Claimants(c) \in ClaimantIds
    <2>1. scene[c] \in Nat /\ BatchSize \in Nat \ {0} /\ scene[c] + BatchSize - 1 \in Nat
      BY FrameAssumption DEF FrameTypeInv, Ranges, BufferShape
    <2> DEFINE q == StageBatches(c)
    <2>2. q \in Nat /\ scene[c] + BatchSize - 1 < BatchSize * q + BatchSize
      BY <2>1, Quotient DEF StageBatches
    <2>3. q # 0 \/ scene[c] = 0
      <3>1. SUFFICES ASSUME q = 0 PROVE scene[c] = 0
        OBVIOUS
      <3>2. BatchSize * 0 = 0
        BY <2>1
      <3> QED BY <2>1, <2>2, <3>1, <3>2
    <2> QED BY <1>1, <2>1, <2>2, <2>3 DEF Claimants, ClaimantIds
  <1> QED BY <1>1, <1>2, <1>3

(* The batches miss no entity.                                             *)
LEMMA BatchesCover ==
    ASSUME FrameTypeInv, NEW c \in Chains, NEW i \in Entities(c)
    PROVE  \E b \in 0 .. StageBatches(c) - 1 : i \in Members(c, b)
  <1>1. scene[c] \in Nat /\ BatchSize \in Nat \ {0} /\ scene[c] + BatchSize - 1 \in Nat /\ i \in Nat
        /\ i < scene[c]
    BY FrameAssumption, CapFacts DEF Entities
  <1> DEFINE q == StageBatches(c)
             b == i \div BatchSize
  <1>2. q \in Nat /\ scene[c] + BatchSize - 1 < BatchSize * q + BatchSize
    BY <1>1, Quotient DEF StageBatches
  <1>3. b \in Nat /\ BatchSize * b <= i /\ i < BatchSize * b + BatchSize
    BY <1>1, Quotient
  <1> HIDE DEF q, b
  <1>4. b < q
    <2>1. SUFFICES ASSUME q <= b PROVE FALSE
      BY <1>2, <1>3
    <2>2. PICK d \in Nat : b = q + d
      BY <1>2, <1>3, <2>1
    <2>3. BatchSize * b = BatchSize * q + BatchSize * d /\ BatchSize * d >= 0
          /\ BatchSize * q \in Int /\ BatchSize * d \in Int
      BY <1>1, <1>2, <2>2, Z3
    <2> QED BY <1>1, <1>2, <1>3, <2>3
  <1>5. i \in Members(c, b)
    <2>1. b * BatchSize = BatchSize * b /\ BatchSize * b \in Int
      BY <1>1, <1>3
    <2> QED BY <1>1, <1>3, <2>1 DEF Members
  <1> QED BY <1>2, <1>3, <1>4, <1>5 DEF q

(* What an entity looks at is there.                                       *)
LEMMA NeighboursExist ==
    ASSUME FrameTypeInv, NEW c \in Chains, NEW i \in Entities(c)
    PROVE  Neighbours(c, i) \subseteq Entities(c)
  <1>1. scene[c] \in Nat \ {0} /\ i \in Nat /\ Window \in Nat
    BY FrameAssumption, CapFacts DEF Entities
  <1>2. ASSUME NEW k \in 1 .. Window PROVE (i + k) % scene[c] \in 0 .. scene[c] - 1
    BY <1>1
  <1> QED BY <1>2 DEF Neighbours, Entities

-----------------------------------------------------------------------------
(* What a kernel writes: its own field of the entities of the task's       *)
(* batch, in the next frame.                                               *)
LEMMA KernelWrites ==
    ASSUME FrameTypeInv, NEW c \in Chains, NEW t \in ClaimantIds, RunKernel(c, t),
           kernel[c][t] \in Steps(c)
    PROVE  /\ scene' = scene /\ frame' = frame
           /\ buffers' = [b \in 0 .. 1 |-> [d \in Chains |-> [k \in Steps(d) |->
                            [i \in Entities(d) |-> buffers'[b][d][k][i]]]]]
           /\ buffers'[frame[1]] = buffers[frame[1]]
           /\ \A d \in Chains : \A k \in Steps(d), i \in Entities(d) :
                buffers'[1 - frame[1]][d][k][i] =
                    IF d = c /\ k = kernel[c][t] /\ i \in Members(c, batch[c][t])
                    THEN IF ReadsRight(c, k, i) THEN frame[2] + 1 ELSE Wrong
                    ELSE buffers[1 - frame[1]][d][k][i]
  <1> DEFINE o == 1 - frame[1]
             k0 == kernel[c][t]
             W == [i \in Entities(c) |->
                     IF i \notin Members(c, batch[c][t]) THEN buffers[o][c][k0][i]
                     ELSE IF ReadsRight(c, k0, i) THEN frame[2] + 1 ELSE Wrong]
  <1>1. frame[1] \in 0 .. 1 /\ o \in 0 .. 1 /\ o # frame[1]
    BY DEF FrameTypeInv, Ranges, BufferShape
  <1>2. buffers' = [buffers EXCEPT ![o][c][k0] = W]
    BY DEF RunKernel
  <1>3. scene' = scene /\ frame' = frame
    BY DEF RunKernel, worldVars
  <1>4. /\ buffers = [b \in 0 .. 1 |-> buffers[b]]
        /\ \A b \in 0 .. 1 : buffers[b] = [d \in Chains |-> buffers[b][d]]
        /\ \A b \in 0 .. 1, d \in Chains : buffers[b][d] = [k \in Steps(d) |-> buffers[b][d][k]]
        /\ \A b \in 0 .. 1, d \in Chains : \A k \in Steps(d) :
              buffers[b][d][k] = [i \in Entities(d) |-> buffers[b][d][k][i]]
    BY DEF FrameTypeInv, Ranges, BufferShape
  <1> HIDE DEF o, k0, W
  <1>5. /\ buffers' = [b \in 0 .. 1 |-> buffers'[b]]
        /\ \A b \in 0 .. 1 : b # o => buffers'[b] = buffers[b]
        /\ buffers'[o] = [buffers[o] EXCEPT ![c][k0] = W]
    BY <1>1, <1>2, <1>4
  <1>6. /\ buffers'[o] = [d \in Chains |-> buffers'[o][d]]
        /\ \A d \in Chains : d # c => buffers'[o][d] = buffers[o][d]
        /\ buffers'[o][c] = [buffers[o][c] EXCEPT ![k0] = W]
    BY <1>1, <1>4, <1>5
  <1>7. /\ buffers'[o][c] = [k \in Steps(c) |-> buffers'[o][c][k]]
        /\ \A k \in Steps(c) : buffers'[o][c][k] = IF k = k0 THEN W ELSE buffers[o][c][k]
    <2> DEFINE F == buffers[o][c]
               G == buffers'[o][c]
    <2>1. F = [k \in Steps(c) |-> F[k]]
      BY <1>1, <1>4
    <2>2. G = [F EXCEPT ![k0] = W]
      BY <1>6
    <2> HIDE DEF F, G
    <2>3. G = [k \in Steps(c) |-> G[k]] /\ \A k \in Steps(c) : G[k] = IF k = k0 THEN W ELSE F[k]
      BY <2>1, <2>2
    <2> QED BY <2>3 DEF F, G
  <1>8. W = [i \in Entities(c) |-> W[i]]
    BY DEF W
  <1>9. buffers' = [b \in 0 .. 1 |-> [d \in Chains |-> [k \in Steps(d) |->
                      [i \in Entities(d) |-> buffers'[b][d][k][i]]]]]
    <2>1. ASSUME NEW d \in Chains, NEW k \in Steps(d)
          PROVE  buffers'[o][d][k] = [i \in Entities(d) |-> buffers'[o][d][k][i]]
      <3>1. CASE d = c /\ k = k0
        BY <1>7, <1>8, <3>1
      <3>2. CASE d # c
        BY <1>1, <1>4, <1>6, <3>2
      <3>3. CASE d = c /\ k # k0
        BY <1>1, <1>4, <1>7, <3>3
      <3> QED BY <3>1, <3>2, <3>3
    <2>2. ASSUME NEW d \in Chains PROVE buffers'[o][d] = [k \in Steps(d) |-> buffers'[o][d][k]]
      BY <1>1, <1>4, <1>6, <1>7
    <2>3. buffers'[o] = [d \in Chains |-> [k \in Steps(d) |->
                      [i \in Entities(d) |-> buffers'[o][d][k][i]]]]
      BY <1>6, <2>1, <2>2, Zenon
    <2>4. ASSUME NEW b \in 0 .. 1
          PROVE  buffers'[b] = [d \in Chains |-> [k \in Steps(d) |->
                      [i \in Entities(d) |-> buffers'[b][d][k][i]]]]
      <3>1. CASE b = o
        BY <2>3, <3>1
      <3>2. CASE b # o
        <4>1. buffers'[b] = buffers[b]
          BY <1>5, <3>2
        <4>2. buffers[b] = [d \in Chains |-> [k \in Steps(d) |->
                      [i \in Entities(d) |-> buffers[b][d][k][i]]]]
          BY DEF FrameTypeInv, Ranges, BufferShape
        <4> QED BY <4>1, <4>2, Zenon
      <3> QED BY <3>1, <3>2
    <2> QED BY <1>5, <2>4, Zenon
  <1>10. buffers'[frame[1]] = buffers[frame[1]]
    BY <1>1, <1>5
  <1>11. ASSUME NEW d \in Chains, NEW k \in Steps(d), NEW i \in Entities(d)
         PROVE  buffers'[o][d][k][i] =
                    IF d = c /\ k = k0 /\ i \in Members(c, batch[c][t])
                    THEN IF ReadsRight(c, k, i) THEN frame[2] + 1 ELSE Wrong
                    ELSE buffers[o][d][k][i]
    <2>1. CASE d = c /\ k = k0
      <3>1. buffers'[o][d][k][i] = W[i] /\ i \in Entities(c)
        BY <1>7, <2>1
      <3> QED BY <2>1, <3>1 DEF W
    <2>2. CASE d # c
      BY <1>6, <2>2
    <2>3. CASE d = c /\ k # k0
      BY <1>7, <2>3
    <2> QED BY <2>1, <2>2, <2>3
  <1> QED BY <1>3, <1>9, <1>10, <1>11 DEF o, k0

(* A table of tables with one entry changed is such a table.               *)
LEMMA EntryChange ==
    ASSUME NEW C, NEW T, NEW V, NEW f \in [C -> [T -> V]], NEW c \in C, NEW t \in T, NEW v \in V
    PROVE  /\ [f EXCEPT ![c][t] = v] \in [C -> [T -> V]]
           /\ \A d \in C, u \in T :
                 [f EXCEPT ![c][t] = v][d][u] = IF d = c /\ u = t THEN v ELSE f[d][u]
OBVIOUS

(* The tail of a list with entries of a set, and its head.                 *)
LEMMA ListTail ==
    ASSUME NEW S, NEW s \in Seq(S), s # << >>
    PROVE  Tail(s) \in Seq(S) /\ Head(s) \in S
BY HeadTailProperties

(* Advance() stays among the values.                                      *)
LEMMA AdvanceInRange ==
    ASSUME NEW a, NEW b, stage \in Chains, Advance(a, b)
    PROVE  stage' \in Chains /\ mpc' \in {a, b}
BY DEF Advance, Chains

(* Scene and worker count stay, and so does what is made of them.          *)
LEMMA SceneStays ==
    ASSUME [FrameNext]_frameVars
    PROVE  /\ scene' = scene /\ workers' = workers
           /\ WorkerCap' = WorkerCap /\ ClaimantIds' = ClaimantIds
           /\ \A c : /\ Entities(c)' = Entities(c) /\ StageBatches(c)' = StageBatches(c)
                     /\ Claimants(c)' = Claimants(c)
                     /\ \A b : Members(c, b)' = Members(c, b)
  <1>1. scene' = scene /\ workers' = workers
    BY DEF FrameNext, frameVars, Tick, CompareLeg, SubmitEmptyStage, OpenStage, SubmitBarrier,
           WaitGate, SubmitClaimant, RunBatched, BatchedDone, RunFlow, FlowDone, FinishTick,
           RunBarrier, ClaimBatch, RunKernel, FrameOver, simVars, worldVars
  <1> QED BY <1>1 DEF WorkerCap, ClaimantIds, Entities, StageBatches, Claimants, Members

(* Each step keeps the ranges.                                             *)
LEMMA RangesStep ==
    ASSUME IInv, [FrameNext]_frameVars
    PROVE  Ranges'
  <1> USE DEF Ranges
  <1>0. /\ Ranges /\ scene' = scene /\ workers' = workers /\ ClaimantIds' = ClaimantIds
        /\ \A c \in Chains : StageBatches(c) \in Nat /\ Claimants(c) \in Nat
        /\ MaxTicks \in Nat /\ 1 \in ClaimantIds /\ 1 \in Chains
    <2>1. FrameTypeInv /\ 1 \in Chains
      BY DEF IInv, Chains
    <2>2. WorkerCap \in Nat /\ 1 \in ClaimantIds /\ \A c \in Chains : StageBatches(c) \in Nat
      BY <2>1, CapFacts
    <2>3. \A c \in Chains : Claimants(c) \in Nat
      BY <2>2 DEF Claimants
    <2> QED BY <2>1, <2>2, <2>3, SceneStays, FrameAssumption DEF FrameTypeInv
  <1>1. CASE Tick
    <2>1. /\ frame' \in (0 .. 1) \X Nat
          /\ mpc' = "stages" /\ UNCHANGED <<simVars, stage, kernel>>
          /\ claimants' = [c \in Chains |-> 0] /\ stageCursor' = [c \in Chains |-> 0]
          /\ claimantAt' = [c \in Chains |-> [t \in ClaimantIds |-> "none"]]
          /\ batch' = [c \in Chains |-> [t \in ClaimantIds |-> 0]]
          /\ barrier' = [c \in Chains |-> "none"]
      <3>1. /\ frame' = <<current, ticks>> /\ current \in 0 .. 1 /\ ticks \in Nat
        BY <1>1, <1>0 DEF Tick
      <3> QED BY <1>1, <3>1 DEF Tick
    <2> QED BY <1>0, <2>1 DEF simVars, worldVars, legVars
  <1>2. CASE CompareLeg
    <2>1. legs' \in Seq({"tick", "tick_serial", "tick_with_taskflow"})
      <3>1. legs # << >> /\ legs \in Seq({"tick", "tick_serial", "tick_with_taskflow"})
            /\ legs' = Tail(legs)
        BY <1>2, <1>0 DEF CompareLeg
      <3>2. Tail(legs) \in Seq({"tick", "tick_serial", "tick_with_taskflow"})
        BY ONLY <3>1, ListTail, Zenon
      <3> QED BY ONLY <3>1, <3>2
    <2>2. ticks' \in 0 .. MaxTicks /\ current' \in 0 .. 1
      BY <1>2, <1>0 DEF CompareLeg
    <2>3. UNCHANGED <<mpc, stage, claimants, frame, stageCursor, claimantAt, batch, kernel,
       barrier>>
      BY <1>2 DEF CompareLeg, taskVars
    <2> QED BY <1>0, <2>1, <2>2, <2>3
  <1>3. CASE SubmitEmptyStage
    <2>1. Advance("stages", "wait")
      BY <1>3 DEF SubmitEmptyStage
    <2>2. stage' \in Chains /\ mpc' \in {"stages", "wait"}
      BY <1>0, <2>1, AdvanceInRange
    <2> QED BY <1>3, <1>0, <2>2 DEF SubmitEmptyStage, simVars, worldVars, legVars, taskVars
  <1>4. CASE OpenStage
    BY <1>4, <1>0 DEF OpenStage, simVars, worldVars, legVars, taskVars
  <1>5. CASE SubmitBarrier
    <2>1. Advance("stages", "wait")
      BY <1>5 DEF SubmitBarrier
    <2>2. stage' \in Chains /\ mpc' \in {"stages", "wait"}
      BY <1>0, <2>1, AdvanceInRange
    <2> QED BY <1>5, <1>0, <2>2 DEF SubmitBarrier, simVars, worldVars, legVars, taskVars
  <1>6. CASE WaitGate
    <2>1. Advance("wait", "swap")
      BY <1>6 DEF WaitGate
    <2>2. stage' \in Chains /\ mpc' \in {"wait", "swap"}
      BY <1>0, <2>1, AdvanceInRange
    <2> QED BY <1>6, <1>0, <2>2 DEF WaitGate, simVars, worldVars, legVars, taskVars
  <1>7. CASE RunBatched
    BY <1>7, <1>0 DEF RunBatched, simVars, worldVars, legVars, taskVars
  <1>8. CASE BatchedDone
    <2>1. Advance("stages", "swap")
      BY <1>8 DEF BatchedDone
    <2>2. stage' \in Chains /\ mpc' \in {"stages", "swap"}
      BY <1>0, <2>1, AdvanceInRange
    <2> QED BY <1>8, <1>0, <2>2 DEF BatchedDone, simVars, worldVars, legVars, taskVars
  <1>9. CASE RunFlow
    BY <1>9, <1>0 DEF RunFlow, simVars, worldVars, legVars, taskVars
  <1>10. CASE FlowDone
    BY <1>10, <1>0 DEF FlowDone, simVars, worldVars, legVars, taskVars
  <1>11. CASE FinishTick
    <2>1. ticks' \in 0 .. MaxTicks /\ current' \in 0 .. 1
      BY <1>11, <1>0 DEF FinishTick, IInv, StageInv
    <2> QED BY <1>11, <1>0, <2>1 DEF FinishTick, legVars, taskVars
  <1>12. ASSUME NEW t \in ClaimantIds, SubmitClaimant(t) PROVE Ranges'
    BY <1>12, <1>0 DEF SubmitClaimant, simVars, worldVars, legVars, taskVars
  <1>13. ASSUME NEW c \in Chains, RunBarrier(c) PROVE Ranges'
    BY <1>13, <1>0 DEF RunBarrier, simVars, worldVars, legVars, taskVars
  <1>14. ASSUME NEW c \in Chains, NEW t \in ClaimantIds, ClaimBatch(c, t) PROVE Ranges'
    <2>1. stageCursor' \in [Chains -> Nat] /\ stageCursor[c] \in Nat
      <3>1. stageCursor \in [Chains -> Nat] /\ stageCursor' = [stageCursor EXCEPT ![c] = @ + 1]
        BY <1>14, <1>0 DEF ClaimBatch
      <3> QED BY ONLY <3>1, c \in Chains
    <2>2. batch' \in [Chains -> [ClaimantIds -> Nat]]
      BY <1>14, <1>0, <2>1, EntryChange DEF ClaimBatch
    <2>3. claimantAt' \in [Chains -> [ClaimantIds -> {"none", "claim", "run", "done"}]]
      <3>1. (IF stageCursor[c] < StageBatches(c) THEN "run" ELSE "done")
               \in {"none", "claim", "run", "done"}
        OBVIOUS
      <3>2. claimantAt \in [Chains -> [ClaimantIds -> {"none", "claim", "run", "done"}]]
        BY <1>0
      <3>3. [claimantAt EXCEPT ![c][t] = IF stageCursor[c] < StageBatches(c) THEN "run" ELSE
         "done"]
              \in [Chains -> [ClaimantIds -> {"none", "claim", "run", "done"}]]
        BY ONLY c \in Chains, t \in ClaimantIds, <3>1, <3>2, EntryChange
      <3> QED BY <1>14, <3>3 DEF ClaimBatch
    <2> QED BY <1>14, <1>0, <2>1, <2>2, <2>3 DEF ClaimBatch, simVars, worldVars, legVars
  <1>15. ASSUME NEW c \in Chains, NEW t \in ClaimantIds, RunKernel(c, t) PROVE Ranges'
    <2>1. kernel[c][t] \in Nat /\ kernel[c][t] + 1 \in Nat /\ 1 \in Nat
      <3>1. kernel \in [Chains -> [ClaimantIds -> Nat]]
        BY <1>0
      <3> QED BY ONLY <3>1, c \in Chains, t \in ClaimantIds
    <2>2. kernel' \in [Chains -> [ClaimantIds -> Nat]]
      <3>1. [kernel EXCEPT ![c][t] = kernel[c][t] + 1] \in [Chains -> [ClaimantIds -> Nat]]
        BY <1>0, <2>1, EntryChange
      <3>2. [kernel EXCEPT ![c][t] = 1] \in [Chains -> [ClaimantIds -> Nat]]
        BY <1>0, <2>1, EntryChange
      <3> QED BY <1>15, <3>1, <3>2 DEF RunKernel
    <2>3. claimantAt' \in [Chains -> [ClaimantIds -> {"none", "claim", "run", "done"}]]
      <3>1. [claimantAt EXCEPT ![c][t] = "claim"]
              \in [Chains -> [ClaimantIds -> {"none", "claim", "run", "done"}]]
        BY <1>0, EntryChange
      <3> QED BY <1>15, <1>0, <3>1 DEF RunKernel
    <2>4. UNCHANGED <<worldVars, legVars, mpc, stage, claimants, frame, stageCursor, batch,
       barrier>>
      BY <1>15 DEF RunKernel
    <2> QED BY <1>0, <2>2, <2>3, <2>4 DEF worldVars, legVars
  <1>16. CASE UNCHANGED frameVars
    BY <1>16, <1>0 DEF frameVars
  <1> QED BY <1>1, <1>2, <1>3, <1>4, <1>5, <1>6, <1>7, <1>8, <1>9, <1>10, <1>11, <1>12,
     <1>13, <1>14, <1>15, <1>16 DEF FrameNext, FrameOver

(* Each step keeps the shape of the buffers.                               *)
LEMMA ShapeStep ==
    ASSUME IInv, [FrameNext]_frameVars
    PROVE  BufferShape'
  <1>0. BufferShape /\ scene' = scene /\ \A c : Entities(c)' = Entities(c)
    BY SceneStays DEF IInv, FrameTypeInv
  <1>1. CASE UNCHANGED buffers
    BY <1>0, <1>1 DEF BufferShape, Entities
  <1>2. CASE CompareLeg
    BY <1>0, <1>2 DEF CompareLeg, Seeded, BufferShape, Entities
  <1>3. ASSUME NEW c \in Chains, NEW t \in ClaimantIds, RunKernel(c, t) PROVE BufferShape'
    <2>1. kernel[c][t] \in Steps(c) /\ FrameTypeInv
      BY DEF IInv, FieldInv, TaskOk
    <2>2. buffers' = [b \in 0 .. 1 |-> [d \in Chains |-> [k \in Steps(d) |->
                         [i \in Entities(d) |-> buffers'[b][d][k][i]]]]]
      BY <1>3, <2>1, KernelWrites, Zenon
    <2> QED BY <1>0, <2>2 DEF BufferShape, Entities
  <1>4. UNCHANGED buffers \/ CompareLeg \/ \E c \in Chains, t \in ClaimantIds : RunKernel(c, t)
    BY DEF FrameNext, frameVars, Tick, SubmitEmptyStage, OpenStage, SubmitBarrier, WaitGate,
           SubmitClaimant, RunBatched, BatchedDone, RunFlow, FlowDone, FinishTick, RunBarrier,
           ClaimBatch, FrameOver, simVars
  <1> QED BY <1>1, <1>2, <1>3, <1>4

-----------------------------------------------------------------------------
(* What is said of a chain stays true when the step is not about it.       *)
LEMMA ChainStays ==
    ASSUME [FrameNext]_frameVars, NEW c \in Chains, claimantAt'[c] = claimantAt[c],
           barrier'[c] = barrier[c], claimants'[c] = claimants[c]
    PROVE  /\ Fresh(c)' <=> Fresh(c)
           /\ Quiet(c)' <=> Quiet(c)
           /\ Through(c)' <=> Through(c)
           /\ Behind(c)' <=> Behind(c)
           /\ Handed(c)' <=> Handed(c)
BY SceneStays DEF Fresh, Quiet, Through, Behind, Handed

(* How the predicates on chains depend on each other.                      *)
LEMMA ChainFacts ==
    ASSUME NEW c \in Chains
    PROVE  /\ Fresh(c) => Quiet(c) /\ barrier[c] = "none"
           /\ Through(c) => Quiet(c)
           /\ Behind(c) => barrier[c] = "submitted"
           /\ Handed(c) /\ barrier[c] # "submitted" => Through(c)
BY DEF Fresh, Quiet, Through, Behind, Handed

(* The main thread goes on to the next chain when one has been seen to.    *)
LEMMA NextStage ==
    ASSUME NEW a, NEW b, stage \in Chains, Advance(a, b), NEW c \in Chains
    PROVE  /\ stage < 3 => mpc' = a /\ stage' = stage + 1
                           /\ (c < stage' <=> c < stage \/ c = stage)
                           /\ (c > stage' => c > stage) /\ (c = stage' => c > stage)
           /\ ~ stage < 3 => mpc' = b /\ stage' = 1 /\ (c < stage \/ c = stage)
           /\ c > stage => ~(c < stage) /\ c # stage
BY DEF Advance, Chains

(* After the last stage all chains are handed over; before, the next one   *)
(* starts fresh.                                                           *)
LEMMA StagesGoOn ==
    ASSUME stage \in Chains, NEW b, Advance("stages", b),
           \A c \in Chains : /\ c < stage \/ c = stage => Handed(c)'
                             /\ c > stage => Fresh(c)'
    PROVE  /\ stage < 3 => /\ mpc' = "stages" /\ stage' \in Chains /\ Fresh(stage)'
                           /\ \A c \in Chains : (c < stage' => Handed(c)') /\ (c > stage' => Fresh(c)')
           /\ ~ stage < 3 => mpc' = b /\ stage' = 1 /\ \A c \in Chains : Handed(c)'
  <1>1. CASE stage < 3
    <2>1. /\ mpc' = "stages" /\ stage' \in Chains
          /\ \A c \in Chains : /\ c < stage' <=> c < stage \/ c = stage
                               /\ c > stage' => c > stage
                               /\ c = stage' => c > stage
      BY <1>1, NextStage, AdvanceInRange DEF Advance
    <2>2. Fresh(stage)'
      <3>1. PICK s \in Chains : s = stage'
        BY <2>1
      <3>2. Fresh(s)'
        BY <2>1, <3>1
      <3> QED BY <3>1, <3>2 DEF Fresh
    <2> QED BY <1>1, <2>1, <2>2
  <1>2. CASE ~ stage < 3
    BY <1>2, NextStage DEF Advance
  <1> QED BY <1>1, <1>2

(* Each step of the main thread keeps StageInv.                            *)
LEMMA StageStepMain ==
    ASSUME IInv, [FrameNext]_frameVars, FrameTypeInv, StageInv,
           \/ Tick \/ CompareLeg \/ SubmitEmptyStage \/ OpenStage \/ SubmitBarrier \/ WaitGate
           \/ RunBatched \/ BatchedDone \/ RunFlow \/ FlowDone \/ FinishTick
    PROVE  StageInv'
  <1>0. /\ stage \in Chains /\ 1 \in Chains /\ Chains \subseteq Int
        /\ WorkerCap \in Nat \ {0} /\ 1 \in ClaimantIds /\ ClaimantIds \subseteq Nat
        /\ \A c \in Chains : scene[c] # 0 => Claimants(c) \in ClaimantIds
        /\ ClaimantIds' = ClaimantIds /\ scene' = scene
        /\ \A c : Claimants(c)' = Claimants(c)
        /\ \A c \in Chains : ~(c < 1)
    <2>1. stage \in Chains
      BY DEF FrameTypeInv, Ranges
    <2>2. 1 \in Chains /\ Chains \subseteq Int /\ \A c \in Chains : ~(c < 1)
      BY DEF Chains
    <2> QED BY <2>1, <2>2, CapFacts, SceneStays
  <1>1. CASE Tick
    <2>1. \A c \in Chains : Fresh(c)' /\ barrier'[c] = "none"
      BY <1>1, <1>0 DEF Tick, Fresh
    <2>2. /\ mpc' = "stages" /\ stage' = 1 /\ legs' = legs /\ legs # << >>
          /\ frame' = <<current, ticks>> /\ ticks < MaxTicks /\ current' = current /\ ticks' = ticks
      BY <1>1 DEF Tick, StageInv, simVars, worldVars, legVars
    <2> QED BY <1>0, <2>1, <2>2 DEF StageInv
  <1>2. CASE CompareLeg
    <2>1. mpc' = "idle" /\ stage' = 1 /\ claimantAt' = claimantAt /\ \A c \in Chains : Quiet(c)
      BY <1>2 DEF CompareLeg, StageInv, taskVars
    <2>2. \A c \in Chains : Quiet(c)'
      BY <1>0, <2>1 DEF Quiet
    <2> QED BY <2>1, <2>2 DEF StageInv
  <1>3. CASE SubmitEmptyStage
    <2>1. /\ mpc = "stages" /\ Head(legs) = "tick" /\ scene[stage] = 0
          /\ Advance("stages", "wait") /\ frame' = frame /\ current' = current /\ ticks' = ticks
          /\ legs' = legs /\ claimants' = claimants /\ claimantAt' = claimantAt /\ barrier' = barrier
      BY <1>3 DEF SubmitEmptyStage, simVars, worldVars, legVars, taskVars
    <2>2. \A c \in Chains : (Fresh(c)' <=> Fresh(c)) /\ (Handed(c)' <=> Handed(c))
      BY <2>1, ChainStays
    <2>3. /\ Fresh(stage) /\ \A c \in Chains : (c < stage => Handed(c)) /\ (c > stage => Fresh(c))
          /\ legs # << >> /\ frame = <<current, ticks>> /\ ticks < MaxTicks
      BY <2>1 DEF StageInv
    <2>4. Handed(stage)
      BY <1>0, <2>1, <2>3 DEF Handed, Through, Fresh, Quiet
    <2>5. \A c \in Chains : /\ c < stage \/ c = stage => Handed(c)'
                            /\ c > stage => Fresh(c)'
      BY <2>2, <2>3, <2>4
    <2>6. CASE stage < 3
      BY <1>0, <2>1, <2>3, <2>5, <2>6, StagesGoOn DEF StageInv
    <2>7. CASE ~ stage < 3
      BY <1>0, <2>1, <2>3, <2>5, <2>7, StagesGoOn DEF StageInv
    <2> QED BY <2>6, <2>7
  <1>4. CASE OpenStage
    <2>1. /\ mpc = "stages" /\ Head(legs) = "tick" /\ scene[stage] # 0 /\ mpc' = "submit"
          /\ claimants' = [claimants EXCEPT ![stage] = Claimants(stage)]
          /\ stage' = stage /\ frame' = frame /\ current' = current /\ ticks' = ticks
          /\ legs' = legs /\ claimantAt' = claimantAt /\ barrier' = barrier
      BY <1>4 DEF OpenStage, simVars, worldVars, legVars, taskVars
    <2>2. /\ claimants'[stage] = Claimants(stage)
          /\ \A c \in Chains : c # stage => claimants'[c] = claimants[c]
      BY <2>1 DEF FrameTypeInv, Ranges
    <2>3. \A c \in Chains : c # stage => (Fresh(c)' <=> Fresh(c)) /\ (Handed(c)' <=> Handed(c))
      BY <2>1, <2>2, ChainStays
    <2>4. Fresh(stage) /\ \A c \in Chains : (c < stage => Handed(c)) /\ (c > stage => Fresh(c))
      BY <2>1 DEF StageInv
    <2>5. \A c \in Chains : (c < stage => Handed(c)') /\ (c > stage => Fresh(c)')
      BY <1>0, <2>3, <2>4
    <2>6. barrier'[stage] = "none" /\ \A t \in ClaimantIds : claimantAt'[stage][t] = "none"
      BY <2>1, <2>4 DEF Fresh
    <2>7. mpc # "idle" /\ legs # << >> /\ frame = <<current, ticks>> /\ ticks < MaxTicks
      BY <2>1 DEF StageInv
    <2> QED BY <1>0, <2>1, <2>2, <2>5, <2>6, <2>7 DEF StageInv
  <1>5. CASE SubmitBarrier
    <2>1. /\ mpc = "submit" /\ Head(legs) = "tick" /\ Advance("stages", "wait")
          /\ \A t \in 1 .. claimants[stage] : claimantAt[stage][t] # "none"
          /\ barrier' = [barrier EXCEPT ![stage] = "submitted"]
          /\ frame' = frame /\ current' = current /\ ticks' = ticks
          /\ legs' = legs /\ claimantAt' = claimantAt /\ claimants' = claimants
      BY <1>5 DEF SubmitBarrier, StageInv, simVars, worldVars, legVars, taskVars
    <2>2. barrier'[stage] = "submitted" /\ \A c \in Chains : c # stage => barrier'[c] = barrier[c]
      BY <2>1 DEF FrameTypeInv, Ranges
    <2>3. \A c \in Chains : c # stage => (Fresh(c)' <=> Fresh(c)) /\ (Handed(c)' <=> Handed(c))
      BY <2>1, <2>2, ChainStays
    <2>4. \A c \in Chains : c = stage => Handed(c)'
      <3>1. claimants[stage] \in ClaimantIds
            /\ \A t \in ClaimantIds : t > claimants[stage] => claimantAt[stage][t] = "none"
        BY <2>1 DEF StageInv
      <3>2. \A t \in ClaimantIds : claimantAt[stage][t] = "none" <=> t > claimants[stage]
        BY <1>0, <2>1, <3>1 DEF ClaimantIds
      <3> QED BY <1>0, <2>1, <2>2, <3>1, <3>2 DEF Handed, Behind
    <2>5. /\ \A c \in Chains : (c < stage => Handed(c)) /\ (c > stage => Fresh(c))
          /\ legs # << >> /\ frame = <<current, ticks>> /\ ticks < MaxTicks
      BY <2>1 DEF StageInv
    <2>6. \A c \in Chains : /\ c < stage \/ c = stage => Handed(c)'
                            /\ c > stage => Fresh(c)'
      BY <1>0, <2>3, <2>4, <2>5
    <2>7. CASE stage < 3
      BY <1>0, <2>1, <2>5, <2>6, <2>7, StagesGoOn DEF StageInv
    <2>8. CASE ~ stage < 3
      BY <1>0, <2>1, <2>5, <2>6, <2>8, StagesGoOn DEF StageInv
    <2> QED BY <2>7, <2>8
  <1>6. CASE WaitGate
    <2>1. /\ mpc = "wait" /\ barrier[stage] # "submitted" /\ Advance("wait", "swap")
          /\ frame' = frame /\ current' = current /\ ticks' = ticks /\ legs' = legs
          /\ claimantAt' = claimantAt /\ barrier' = barrier /\ claimants' = claimants
      BY <1>6 DEF WaitGate, simVars, worldVars, legVars, taskVars
    <2>2. \A c \in Chains : (Through(c)' <=> Through(c)) /\ (Handed(c)' <=> Handed(c))
      BY <2>1, ChainStays
    <2>3. /\ Head(legs) = "tick" /\ legs # << >> /\ frame = <<current, ticks>> /\ ticks < MaxTicks
          /\ \A c \in Chains : Handed(c) /\ (c < stage => barrier[c] # "submitted")
      BY <2>1 DEF StageInv
    <2>4. CASE stage < 3
      <3>1. \A c \in Chains : (c < stage' <=> c < stage \/ c = stage) /\ mpc' = "wait"
        BY <2>1, <2>4, <1>0, NextStage
      <3> QED BY <1>0, <2>1, <2>2, <2>3, <3>1 DEF StageInv
    <2>5. CASE ~ stage < 3
      <3>1. mpc' = "swap" /\ stage' = 1 /\ \A c \in Chains : c < stage \/ c = stage
        BY <2>1, <2>5, <1>0, NextStage
      <3>2. \A c \in Chains : Through(c)'
        BY <2>1, <2>2, <2>3, <3>1, ChainFacts
      <3> QED BY <1>0, <2>1, <2>3, <3>1, <3>2 DEF StageInv
    <2> QED BY <2>4, <2>5
  <1>7. CASE RunBatched
    <2>1. /\ mpc = "stages" /\ Head(legs) = "tick_serial" /\ mpc' = "running"
          /\ claimantAt' = [claimantAt EXCEPT ![stage][1] = "claim"]
          /\ stage' = stage /\ frame' = frame /\ current' = current /\ ticks' = ticks
          /\ legs' = legs /\ barrier' = barrier /\ claimants' = claimants
      BY <1>7 DEF RunBatched, simVars, worldVars, legVars
    <2>2. /\ \A t \in ClaimantIds : claimantAt'[stage][t] = IF t = 1 THEN "claim" ELSE claimantAt[stage][t]
          /\ \A c \in Chains : c # stage => claimantAt'[c] = claimantAt[c]
      BY <1>0, <2>1 DEF FrameTypeInv, Ranges
    <2>3. \A c \in Chains : c # stage => (Fresh(c)' <=> Fresh(c)) /\ (Handed(c)' <=> Handed(c))
      BY <2>1, <2>2, ChainStays
    <2>4. /\ Fresh(stage) /\ \A c \in Chains : (c < stage => Handed(c)) /\ (c > stage => Fresh(c))
          /\ \A c \in Chains : barrier[c] = "none"
          /\ legs # << >> /\ frame = <<current, ticks>> /\ ticks < MaxTicks
      BY <2>1 DEF StageInv
    <2>5. \A c \in Chains : (c < stage => Handed(c)') /\ (c > stage => Fresh(c)')
      BY <1>0, <2>3, <2>4
    <2>6. \A t \in ClaimantIds : claimantAt'[stage][t] = "none" <=> t > 1
      BY <1>0, <2>2, <2>4 DEF Fresh, ClaimantIds
    <2> QED BY <1>0, <2>1, <2>4, <2>5, <2>6 DEF StageInv
  <1>8. CASE BatchedDone
    <2>1. /\ mpc = "running" /\ claimantAt[stage][1] = "done" /\ Advance("stages", "swap")
          /\ frame' = frame /\ current' = current /\ ticks' = ticks /\ legs' = legs
          /\ claimantAt' = claimantAt /\ barrier' = barrier /\ claimants' = claimants
      BY <1>8 DEF BatchedDone, simVars, worldVars, legVars, taskVars
    <2>2. \A c \in Chains : (Through(c)' <=> Through(c)) /\ (Handed(c)' <=> Handed(c))
                            /\ (Fresh(c)' <=> Fresh(c))
      BY <2>1, ChainStays
    <2>3. /\ Head(legs) = "tick_serial" /\ legs # << >> /\ frame = <<current, ticks>>
          /\ ticks < MaxTicks
          /\ \A c \in Chains : barrier[c] = "none"
          /\ \A c \in Chains : (c < stage => Handed(c)) /\ (c > stage => Fresh(c))
          /\ \A t \in ClaimantIds : claimantAt[stage][t] = "none" <=> t > 1
      BY <2>1 DEF StageInv
    <2>4. Through(stage)
      BY <1>0, <2>1, <2>3 DEF Through, Quiet, ClaimantIds
    <2>5. \A c \in Chains : c < stage \/ c = stage => Through(c) /\ Handed(c)
      BY <1>0, <2>3, <2>4, ChainFacts DEF Handed
    <2>6. \A c \in Chains : /\ c < stage \/ c = stage => Handed(c)'
                            /\ c > stage => Fresh(c)'
      BY <1>0, <2>2, <2>3, <2>5
    <2>7. CASE stage < 3
      BY <1>0, <2>1, <2>3, <2>7, <2>6, StagesGoOn DEF StageInv
    <2>8. CASE ~ stage < 3
      <3>1. mpc' = "swap" /\ stage' = 1 /\ \A c \in Chains : c < stage \/ c = stage
        BY <2>1, <2>8, <1>0, NextStage
      <3>2. \A c \in Chains : Through(c)'
        BY <2>2, <2>5, <3>1
      <3> QED BY <1>0, <2>1, <2>3, <3>1, <3>2 DEF StageInv
    <2> QED BY <2>7, <2>8
  <1>9. CASE RunFlow
    <2>1. /\ mpc = "stages" /\ Head(legs) = "tick_with_taskflow" /\ mpc' = "flow"
          /\ \A c \in Chains, t \in ClaimantIds :
                claimantAt'[c][t] = IF t <= Claimants(c) THEN "claim" ELSE "none"
          /\ stage' = stage /\ frame' = frame /\ current' = current /\ ticks' = ticks
          /\ legs' = legs /\ barrier' = barrier
      BY <1>9 DEF RunFlow, simVars, worldVars, legVars
    <2>2. /\ stage = 1 /\ \A c \in Chains : barrier[c] = "none"
          /\ legs # << >> /\ frame = <<current, ticks>> /\ ticks < MaxTicks
      BY <2>1 DEF StageInv
    <2>3. \A c \in Chains, t \in ClaimantIds : t <= Claimants(c) <=> ~(t > Claimants(c))
      <3>1. \A c \in Chains : StageBatches(c) \in Nat
        BY CapFacts
      <3> QED BY <1>0, <3>1 DEF Claimants
    <2> QED BY <1>0, <2>1, <2>2, <2>3 DEF StageInv
  <1>10. CASE FlowDone
    <2>1. /\ mpc = "flow" /\ mpc' = "swap" /\ \A c \in Chains : Quiet(c)
          /\ stage' = stage /\ frame' = frame /\ current' = current /\ ticks' = ticks
          /\ legs' = legs /\ barrier' = barrier /\ claimantAt' = claimantAt
          /\ claimants' = claimants
      BY <1>10 DEF FlowDone, Quiet, simVars, worldVars, legVars, taskVars
    <2>2. /\ Head(legs) = "tick_with_taskflow" /\ stage = 1 /\ \A c \in Chains : barrier[c] = "none"
          /\ legs # << >> /\ frame = <<current, ticks>> /\ ticks < MaxTicks
          /\ \A c \in Chains, t \in ClaimantIds : claimantAt[c][t] = "none" <=> t > Claimants(c)
      BY <2>1 DEF StageInv
    <2>3. \A c \in Chains : Through(c)
      <3>1. \A c \in Chains : scene[c] # 0 => ~(1 > Claimants(c))
        BY <1>0 DEF ClaimantIds
      <3> QED BY <1>0, <2>1, <2>2, <3>1 DEF Through, Quiet
    <2>4. \A c \in Chains : Through(c)'
      BY <2>1, <2>3, ChainStays
    <2> QED BY <2>1, <2>2, <2>4 DEF StageInv
  <1>11. CASE FinishTick
    <2>1. /\ mpc = "swap" /\ mpc' = "idle" /\ stage' = stage /\ claimantAt' = claimantAt
          /\ barrier' = barrier /\ claimants' = claimants
      BY <1>11 DEF FinishTick, taskVars
    <2>2. stage = 1 /\ \A c \in Chains : Quiet(c)
      BY <2>1, ChainFacts DEF StageInv
    <2>3. \A c \in Chains : Quiet(c)'
      BY <2>1, <2>2, ChainStays
    <2> QED BY <2>1, <2>2, <2>3 DEF StageInv
  <1> QED BY <1>1, <1>2, <1>3, <1>4, <1>5, <1>6, <1>7, <1>8, <1>9, <1>10, <1>11

(* A step of a task that has claimed or is to claim: it is on none of the  *)
(* chains said to be fresh, quiet or through.                              *)
LEMMA StageStepActive ==
    ASSUME IInv, [FrameNext]_frameVars, NEW c \in Chains, NEW t \in ClaimantIds,
           claimantAt[c][t] \in {"claim", "run"}, claimantAt'[c][t] # "none",
           \A d \in Chains : d # c => claimantAt'[d] = claimantAt[d],
           \A u \in ClaimantIds : u # t => claimantAt'[c][u] = claimantAt[c][u],
           UNCHANGED <<mpc, stage, legs, frame, current, ticks, barrier, claimants>>
    PROVE  StageInv'
  <1>1. StageInv /\ FrameTypeInv /\ stage \in Chains /\ Chains \subseteq Int
    <2>1. StageInv /\ FrameTypeInv /\ stage \in Chains
      BY DEF IInv, FrameTypeInv, Ranges
    <2> QED BY <2>1 DEF Chains
  <1>2. ClaimantIds' = ClaimantIds /\ \A d : Claimants(d)' = Claimants(d)
    BY SceneStays
  <1>3. \A d \in Chains : d # c => /\ Fresh(d)' <=> Fresh(d)
                                   /\ Quiet(d)' <=> Quiet(d)
                                   /\ Through(d)' <=> Through(d)
                                   /\ Handed(d)' <=> Handed(d)
    BY ChainStays
  <1>4. ~Fresh(c) /\ ~Quiet(c) /\ ~Through(c) /\ (Handed(c) <=> Behind(c))
    BY DEF Fresh, Quiet, Through, Handed
  <1>5. \A u \in ClaimantIds : claimantAt'[c][u] = "none" <=> claimantAt[c][u] = "none"
    OBVIOUS
  <1>6. Handed(c) => Handed(c)'
    BY <1>2, <1>4, <1>5 DEF Handed, Behind
  <1>7. \A d \in Chains, u \in ClaimantIds : claimantAt'[d][u] = "none" <=> claimantAt[d][u] = "none"
    BY <1>5
  <1>8. mpc \notin {"idle", "swap"} /\ (mpc = "stages" => c # stage)
    BY <1>1, <1>4 DEF StageInv
  <1>9. \A d \in Chains : Handed(d) => Handed(d)'
    BY <1>3, <1>6
  <1>10. \A d \in Chains : Fresh(d) => Fresh(d)'
    BY <1>3, <1>4
  <1>11. mpc = "stages" => Fresh(stage)'
    <2>1. SUFFICES ASSUME mpc = "stages" PROVE Fresh(stage)'
      OBVIOUS
    <2>2. PICK s \in Chains : s = stage /\ stage' = s
      BY <1>1
    <2>3. Fresh(s)'
      BY <1>1, <1>10, <2>1, <2>2 DEF StageInv
    <2> QED BY <2>2, <2>3 DEF Fresh
  <1> QED BY <1>1, <1>2, <1>7, <1>8, <1>9, <1>10, <1>11 DEF StageInv

(* So does each step of a task or a barrier, and stuttering.               *)
LEMMA StageStepTasks ==
    ASSUME IInv, [FrameNext]_frameVars, FrameTypeInv, StageInv,
           \/ \E t \in ClaimantIds : SubmitClaimant(t)
           \/ \E c \in Chains : RunBarrier(c) \/ \E t \in ClaimantIds : ClaimBatch(c, t) \/ RunKernel(c, t)
           \/ UNCHANGED frameVars
    PROVE  StageInv'
  <1>0. /\ stage \in Chains /\ Chains \subseteq Int /\ 1 \in ClaimantIds /\ ClaimantIds \subseteq Nat
        /\ ClaimantIds' = ClaimantIds /\ scene' = scene /\ \A c : Claimants(c)' = Claimants(c)
    <2>1. stage \in Chains /\ Chains \subseteq Int
      BY DEF FrameTypeInv, Ranges, Chains
    <2> QED BY <2>1, CapFacts, SceneStays
  <1>1. ASSUME NEW t \in ClaimantIds, SubmitClaimant(t) PROVE StageInv'
    <2>1. /\ mpc = "submit" /\ t <= claimants[stage]
          /\ claimantAt' = [claimantAt EXCEPT ![stage][t] = "claim"]
          /\ mpc' = mpc /\ stage' = stage /\ frame' = frame /\ current' = current /\ ticks' = ticks
          /\ legs' = legs /\ claimants' = claimants /\ barrier' = barrier
      BY <1>1 DEF SubmitClaimant, simVars, worldVars, legVars
    <2>2. /\ claimantAt'[stage][t] = "claim"
          /\ \A u \in ClaimantIds : u # t => claimantAt'[stage][u] = claimantAt[stage][u]
          /\ \A c \in Chains : c # stage => claimantAt'[c] = claimantAt[c]
      BY <1>0, <2>1 DEF FrameTypeInv, Ranges
    <2>3. \A c \in Chains : c # stage => (Fresh(c)' <=> Fresh(c)) /\ (Handed(c)' <=> Handed(c))
      BY <2>1, <2>2, ChainStays
    <2>4. /\ Head(legs) = "tick" /\ legs # << >> /\ frame = <<current, ticks>> /\ ticks < MaxTicks
          /\ \A c \in Chains : (c < stage => Handed(c)) /\ (c > stage => Fresh(c))
          /\ barrier[stage] = "none" /\ claimants[stage] \in ClaimantIds
          /\ \A u \in ClaimantIds : u > claimants[stage] => claimantAt[stage][u] = "none"
      BY <2>1 DEF StageInv
    <2>5. \A c \in Chains : (c < stage => Handed(c)') /\ (c > stage => Fresh(c)')
      BY <1>0, <2>3, <2>4
    <2>6. \A u \in ClaimantIds : u > claimants[stage] => claimantAt'[stage][u] = "none"
      BY <1>0, <2>1, <2>2, <2>4
    <2> QED BY <1>0, <2>1, <2>4, <2>5, <2>6 DEF StageInv
  <1>2. ASSUME NEW c \in Chains, RunBarrier(c) PROVE StageInv'
    <2>1. /\ barrier[c] = "submitted" /\ \A t \in 1 .. claimants[c] : claimantAt[c][t] = "done"
          /\ barrier' = [barrier EXCEPT ![c] = "done"]
          /\ mpc' = mpc /\ stage' = stage /\ frame' = frame /\ current' = current /\ ticks' = ticks
          /\ legs' = legs /\ claimants' = claimants /\ claimantAt' = claimantAt
      BY <1>2 DEF RunBarrier, simVars, worldVars, legVars, taskVars
    <2>2. barrier'[c] = "done" /\ \A d \in Chains : d # c => barrier'[d] = barrier[d]
      BY <2>1 DEF FrameTypeInv, Ranges
    <2>3. \A d \in Chains : d # c => (Fresh(d)' <=> Fresh(d)) /\ (Handed(d)' <=> Handed(d))
      BY <2>1, <2>2, ChainStays
    <2>4. \A d \in Chains : (Quiet(d)' <=> Quiet(d)) /\ (Through(d)' <=> Through(d))
      BY <1>0, <2>1 DEF Quiet, Through
    <2>5. ~Fresh(c) /\ (Handed(c) => Through(c))
      <3>1. Handed(c) => Behind(c)
        BY <2>1 DEF Handed
      <3>2. Behind(c) => Through(c)
        BY <1>0, <2>1 DEF Behind, Through, Quiet, ClaimantIds
      <3> QED BY <2>1, <3>1, <3>2 DEF Fresh
    <2>6. Handed(c) => Handed(c)'
      BY <2>2, <2>4, <2>5 DEF Handed
    <2>7. \A d \in Chains : (Handed(d) => Handed(d)') /\ (Fresh(d) => Fresh(d)')
      BY <2>3, <2>5, <2>6
    <2>8. \A d \in Chains : barrier[d] # "submitted" => barrier'[d] = barrier[d]
      BY <2>1, <2>2
    <2>9. mpc = "stages" => Fresh(stage)'
      <3>1. SUFFICES ASSUME mpc = "stages" PROVE Fresh(stage)'
        OBVIOUS
      <3>2. PICK s \in Chains : s = stage /\ stage' = s
        BY <1>0, <2>1
      <3>3. Fresh(s)'
        BY <2>7, <3>1, <3>2 DEF StageInv
      <3> QED BY <3>2, <3>3 DEF Fresh
    <2>10. mpc = "submit" => barrier'[stage] = "none"
      BY <1>0, <2>8 DEF StageInv
    <2>11. \A d \in Chains : barrier[d] # "submitted" => barrier'[d] # "submitted"
      BY <2>8
    <2>12. mpc # "idle" /\ Head(legs) # "tick" => \A d \in Chains : barrier'[d] = "none"
      BY <2>8 DEF StageInv
    <2> QED BY <1>0, <2>1, <2>4, <2>7, <2>9, <2>10, <2>11, <2>12 DEF StageInv
  <1>3. ASSUME NEW c \in Chains, NEW t \in ClaimantIds, ClaimBatch(c, t) PROVE StageInv'
    <2>1. /\ claimantAt[c][t] = "claim" /\ claimantAt'[c][t] # "none"
          /\ \A d \in Chains : d # c => claimantAt'[d] = claimantAt[d]
          /\ \A u \in ClaimantIds : u # t => claimantAt'[c][u] = claimantAt[c][u]
      BY <1>3 DEF ClaimBatch, FrameTypeInv, Ranges
    <2>2. UNCHANGED <<mpc, stage, legs, frame, current, ticks, barrier, claimants>>
      BY <1>3 DEF ClaimBatch, simVars, worldVars, legVars
    <2> QED BY <2>1, <2>2, StageStepActive
  <1>4. ASSUME NEW c \in Chains, NEW t \in ClaimantIds, RunKernel(c, t) PROVE StageInv'
    <2>1. /\ claimantAt[c][t] = "run" /\ claimantAt'[c][t] # "none"
          /\ \A d \in Chains : d # c => claimantAt'[d] = claimantAt[d]
          /\ \A u \in ClaimantIds : u # t => claimantAt'[c][u] = claimantAt[c][u]
      <3>1. claimantAt \in [Chains -> [ClaimantIds -> {"none", "claim", "run", "done"}]]
        BY DEF FrameTypeInv, Ranges
      <3>2. /\ claimantAt[c][t] = "run"
            /\ claimantAt' = claimantAt \/ claimantAt' = [claimantAt EXCEPT ![c][t] = "claim"]
        BY <1>4 DEF RunKernel
      <3> QED BY <3>1, <3>2
    <2>2. UNCHANGED <<mpc, stage, legs, frame, current, ticks, barrier, claimants>>
      BY <1>4 DEF RunKernel, worldVars, legVars
    <2> QED BY <2>1, <2>2, StageStepActive
  <1>5. CASE UNCHANGED frameVars
    <2>1. /\ UNCHANGED <<mpc, stage, legs, frame, current, ticks, barrier, claimants, claimantAt, scene>>
      BY <1>5 DEF frameVars
    <2>2. \A c \in Chains : /\ Fresh(c)' <=> Fresh(c)
                            /\ Quiet(c)' <=> Quiet(c)
                            /\ Through(c)' <=> Through(c)
                            /\ Handed(c)' <=> Handed(c)
      BY <2>1, ChainStays
    <2>3. mpc = "stages" => Fresh(stage)'
      <3>1. mpc = "stages" => Fresh(stage)
        BY DEF StageInv
      <3> QED BY <1>0, <2>1, <3>1 DEF Fresh
    <2> QED BY <1>0, <2>1, <2>2, <2>3 DEF StageInv
  <1> QED BY <1>1, <1>2, <1>3, <1>4, <1>5

-----------------------------------------------------------------------------
(* A task at a batch reads what a serial tick would read.                  *)
LEMMA TasksReadRight ==
    ASSUME IInv, NEW c \in Chains, NEW t \in ClaimantIds, claimantAt[c][t] = "run",
           NEW i \in Entities(c), i \in Members(c, batch[c][t])
    PROVE  ReadsRight(c, kernel[c][t], i)
  <1> DEFINE k == kernel[c][t]
             K == Kernels[c][k]
  <1>1. FrameTypeInv /\ StageInv /\ TaskOk(c, t) /\ mpc # "idle"
    BY DEF IInv, FieldInv, StageInv, Quiet
  <1>2. k \in Steps(c) /\ Written(c, batch[c][t], k - 1)
    BY <1>1 DEF TaskOk
  <1>3. K.own \subseteq Steps(c) /\ K.near \subseteq Steps(c) /\ K.now \subseteq 1 .. k - 1
    BY <1>2, KernelOrder
  <1>4. frame = <<current, ticks>> /\ buffers[current] = AllAt(ticks)
    BY <1>1 DEF StageInv, IInv, FieldInv
  <1>5. \A f \in Steps(c), j \in Entities(c) : buffers[frame[1]][c][f][j] = frame[2]
    BY <1>4 DEF AllAt
  <1>6. \A f \in 1 .. k - 1 : buffers[1 - frame[1]][c][f][i] = frame[2] + 1
    BY <1>2 DEF Written
  <1>7. Neighbours(c, i) \subseteq Entities(c)
    BY <1>1, NeighboursExist
  <1> HIDE DEF k, K
  <1> QED BY <1>3, <1>5, <1>6, <1>7 DEF ReadsRight, k, K

(* A kernel only ever writes what it should.                               *)
LEMMA WrittenStays ==
    ASSUME IInv, NEW c \in Chains, NEW t \in ClaimantIds, RunKernel(c, t)
    PROVE  /\ \A d \in Chains : \A b : \A k \in Int :
                 k <= Len(Kernels[d]) /\ Written(d, b, k) => Written(d, b, k)'
           /\ \A k \in Steps(c) : k = kernel[c][t] => \A b : b = batch[c][t] => Written(c, b, k)'
           /\ buffers'[frame[1]] = buffers[frame[1]] /\ frame' = frame
  <1>1. FrameTypeInv /\ TaskOk(c, t) /\ claimantAt[c][t] = "run" /\ kernel[c][t] \in Steps(c)
    BY DEF IInv, FieldInv, TaskOk, RunKernel
  <1> DEFINE o == 1 - frame[1]
             k0 == kernel[c][t]
             b0 == batch[c][t]
  <1>2. /\ frame' = frame /\ buffers'[frame[1]] = buffers[frame[1]] /\ scene' = scene
        /\ \A d \in Chains : \A k \in Steps(d), i \in Entities(d) :
                buffers'[o][d][k][i] =
                    IF d = c /\ k = k0 /\ i \in Members(c, b0)
                    THEN IF ReadsRight(c, k, i) THEN frame[2] + 1 ELSE Wrong
                    ELSE buffers[o][d][k][i]
    BY <1>1, KernelWrites
  <1>3. \A i \in Entities(c) : i \in Members(c, b0) => ReadsRight(c, k0, i)
    BY <1>1, TasksReadRight
  <1>4. \A d : Entities(d)' = Entities(d) /\ \A b : Members(d, b)' = Members(d, b)
    BY <1>2 DEF Entities, Members
  <1> HIDE DEF o, k0, b0
  <1>5. \A d \in Chains : \A k \in Steps(d), i \in Entities(d) :
           \/ buffers'[o][d][k][i] = frame[2] + 1
           \/ /\ ~(d = c /\ k = k0 /\ i \in Members(c, b0))
              /\ buffers'[o][d][k][i] = buffers[o][d][k][i]
    BY <1>2, <1>3
  <1>6. ASSUME NEW d \in Chains, NEW b, NEW k \in Int, k <= Len(Kernels[d]), Written(d, b, k)
        PROVE  Written(d, b, k)'
    <2>1. ASSUME NEW j \in 1 .. k, NEW i \in Entities(d), i \in Members(d, b)
          PROVE  buffers'[o][d][j][i] = frame[2] + 1
      <3>1. j \in Steps(d)
        BY <1>6, KernelOrder
      <3>2. buffers[o][d][j][i] = frame[2] + 1
        BY <1>6, <2>1 DEF Written, o
      <3> QED BY <1>5, <3>1, <3>2
    <2> QED BY <1>2, <1>4, <2>1 DEF Written, o
  <1>7. ASSUME NEW k \in Steps(c), k = k0, NEW b, b = b0 PROVE Written(c, b, k)'
    <2>1. ASSUME NEW j \in 1 .. k, NEW i \in Entities(c), i \in Members(c, b)
          PROVE  buffers'[o][c][j][i] = frame[2] + 1
      <3>1. j \in Steps(c) /\ k \in Int
        BY KernelOrder
      <3>2. CASE j = k
        BY <1>5, <1>7, <2>1, <3>1, <3>2
      <3>3. CASE j # k
        <4>1. j \in 1 .. k - 1
          BY <3>1, <3>3
        <4>2. Written(c, b, k - 1)
          BY <1>1, <1>7 DEF TaskOk, k0, b0
        <4>3. buffers[o][c][j][i] = frame[2] + 1
          BY <2>1, <4>1, <4>2 DEF Written, o
        <4> QED BY <1>5, <3>1, <4>3
      <3> QED BY <3>2, <3>3
    <2> QED BY <1>2, <1>4, <2>1 DEF Written, o
  <1> QED BY <1>2, <1>6, <1>7 DEF k0, b0

(* When the main thread is at the swap the next frame is complete.         *)
LEMMA NextFrameComplete ==
    ASSUME IInv, mpc = "swap"
    PROVE  buffers[1 - current] = AllAt(ticks + 1)
  <1>1. /\ FrameTypeInv /\ frame = <<current, ticks>> /\ current \in 0 .. 1
        /\ \A c \in Chains : Through(c) /\ BatchOk(c)
        /\ \A c \in Chains, t \in ClaimantIds : TaskOk(c, t)
        /\ 1 \in ClaimantIds
    BY CapFacts DEF IInv, StageInv, FieldInv, FrameTypeInv, Ranges
  <1>2. ASSUME NEW c \in Chains, NEW k \in Steps(c), NEW i \in Entities(c)
        PROVE  buffers[1 - current][c][k][i] = ticks + 1
    <2>1. claimantAt[c][1] = "done" /\ \A t \in ClaimantIds : claimantAt[c][t] # "run"
      <3>1. scene[c] # 0
        BY <1>1, CapFacts DEF Entities
      <3> QED BY <1>1, <3>1 DEF Through, Quiet
    <2>2. stageCursor[c] >= StageBatches(c) /\ stageCursor[c] \in Nat /\ StageBatches(c) \in Nat
      BY <1>1, <2>1, CapFacts DEF TaskOk, FrameTypeInv, Ranges
    <2>3. PICK b \in 0 .. StageBatches(c) - 1 : i \in Members(c, b)
      BY <1>1, BatchesCover
    <2>4. Written(c, b, Len(Kernels[c]))
      <3>1. b < stageCursor[c]
        BY <2>2
      <3> QED BY <1>1, <2>1, <3>1 DEF BatchOk
    <2>5. k \in 1 .. Len(Kernels[c])
      BY KernelOrder
    <2> QED BY <1>1, <2>3, <2>4, <2>5 DEF Written
  <1>3. 1 - current \in 0 .. 1
    BY <1>1
  <1>4. buffers[1 - current] = [c \in Chains |-> [k \in Steps(c) |->
                    [i \in Entities(c) |-> buffers[1 - current][c][k][i]]]]
    BY <1>1, <1>3 DEF FrameTypeInv, BufferShape
  <1> QED BY <1>2, <1>4 DEF AllAt

(* What is written is judged by the buffers, the frame and the scene.      *)
LEMMA WrittenUnchanged ==
    ASSUME [FrameNext]_frameVars, buffers' = buffers, frame' = frame
    PROVE  \A d, b, k : Written(d, b, k)' <=> Written(d, b, k)
  <1>1. /\ \A d : Entities(d)' = Entities(d)
        /\ \A d, b : Members(d, b)' = Members(d, b)
    BY SceneStays
  <1> QED BY <1>1 DEF Written

(* Steps that write nothing keep FieldInv, if they put tasks to no other   *)
(* use than to make them ready.                                            *)
LEMMA FieldStepControl ==
    ASSUME IInv, [FrameNext]_frameVars,
           UNCHANGED <<buffers, current, ticks, frame, batch, kernel, stageCursor, agree, reference>>,
           mpc' # "idle" => mpc # "idle",
           \A c \in Chains, t \in ClaimantIds :
               \/ claimantAt'[c][t] = claimantAt[c][t]
               \/ claimantAt[c][t] # "run" /\ claimantAt'[c][t] \in {"none", "claim"}
    PROVE  FieldInv'
  <1>1. /\ FieldInv /\ ClaimantIds' = ClaimantIds
        /\ \A c : StageBatches(c)' = StageBatches(c) /\ Entities(c)' = Entities(c)
        /\ \A c, b, k : Written(c, b, k)' <=> Written(c, b, k)
    BY SceneStays, WrittenUnchanged DEF IInv
  <1>2. \A n : AllAt(n)' = AllAt(n)
    BY <1>1 DEF AllAt
  <1>3. ASSUME NEW c \in Chains, NEW t \in ClaimantIds PROVE TaskOk(c, t)'
    BY <1>1 DEF TaskOk, FieldInv
  <1>4. ASSUME NEW c \in Chains, BatchOk(c) PROVE BatchOk(c)'
    BY <1>1, <1>4 DEF BatchOk
  <1> QED BY <1>1, <1>2, <1>3, <1>4 DEF FieldInv

(* Each step keeps FieldInv.                                               *)
LEMMA FieldStep ==
    ASSUME IInv, [FrameNext]_frameVars
    PROVE  FieldInv'
  <1>0. /\ FrameTypeInv /\ StageInv /\ FieldInv /\ ClaimantIds' = ClaimantIds
        /\ \A c : StageBatches(c)' = StageBatches(c) /\ Entities(c)' = Entities(c)
        /\ \A n : AllAt(n)' = AllAt(n)
    <2>1. \A c : Entities(c)' = Entities(c)
      BY SceneStays
    <2> QED BY <2>1, SceneStays DEF IInv, AllAt
  <1>1. CASE SubmitEmptyStage \/ OpenStage \/ SubmitBarrier \/ WaitGate \/ BatchedDone \/ FlowDone
             \/ UNCHANGED frameVars \/ \E c \in Chains : RunBarrier(c)
    <2>1. UNCHANGED <<buffers, current, ticks, frame, batch, kernel, stageCursor, agree, reference,
                      claimantAt>>
      BY <1>1 DEF SubmitEmptyStage, OpenStage, SubmitBarrier, WaitGate, BatchedDone, FlowDone,
                  RunBarrier, frameVars, simVars, worldVars, legVars, taskVars
    <2>2. mpc' # "idle" => mpc # "idle"
      BY <1>1 DEF SubmitEmptyStage, OpenStage, SubmitBarrier, WaitGate, BatchedDone, FlowDone,
                  RunBarrier, frameVars
    <2> QED BY <2>1, <2>2, FieldStepControl
  <1>2. ASSUME NEW t \in ClaimantIds, SubmitClaimant(t) PROVE FieldInv'
    <2>1. /\ UNCHANGED <<buffers, current, ticks, frame, batch, kernel, stageCursor, agree, reference>>
          /\ mpc' = mpc /\ claimantAt[stage][t] # "run" /\ stage \in Chains
          /\ claimantAt' = [claimantAt EXCEPT ![stage][t] = "claim"]
      <3>1. claimantAt[stage][t] = "none"
        <4>1. t >= t
          BY <1>0, CapFacts
        <4> QED BY <1>2, <4>1 DEF SubmitClaimant
      <3> QED BY <1>0, <1>2, <3>1 DEF SubmitClaimant, simVars, worldVars, legVars, FrameTypeInv, Ranges
    <2>2. \A c \in Chains, u \in ClaimantIds :
               \/ claimantAt'[c][u] = claimantAt[c][u]
               \/ claimantAt[c][u] # "run" /\ claimantAt'[c][u] \in {"none", "claim"}
      BY <1>0, <2>1 DEF FrameTypeInv, Ranges
    <2> QED BY <2>1, <2>2, FieldStepControl
  <1>3. CASE RunBatched \/ RunFlow
    <2>1. /\ UNCHANGED <<buffers, current, ticks, frame, batch, kernel, stageCursor, agree, reference>>
          /\ mpc = "stages" /\ stage \in Chains
      BY <1>0, <1>3 DEF RunBatched, RunFlow, simVars, worldVars, legVars, FrameTypeInv, Ranges
    <2>2. \A c \in Chains, u \in ClaimantIds :
               \/ claimantAt'[c][u] = claimantAt[c][u]
               \/ claimantAt[c][u] # "run" /\ claimantAt'[c][u] \in {"none", "claim"}
      <3>1. CASE RunBatched
        <4>1. Fresh(stage) /\ claimantAt' = [claimantAt EXCEPT ![stage][1] = "claim"] /\ 1 \in ClaimantIds
          BY <1>0, <2>1, <3>1, CapFacts DEF StageInv, RunBatched
        <4> QED BY <1>0, <2>1, <4>1 DEF FrameTypeInv, Ranges, Fresh
      <3>2. CASE RunFlow
        <4>1. stage = 1 /\ \A c \in Chains : c = stage \/ c > stage
          BY <1>0, <2>1, <3>2 DEF StageInv, RunFlow, Chains
        <4>2. \A c \in Chains : Fresh(c)
          BY <1>0, <2>1, <4>1 DEF StageInv
        <4> QED BY <3>2, <4>2 DEF RunFlow, Fresh
      <3> QED BY <1>3, <3>1, <3>2
    <2> QED BY <2>1, <2>2, FieldStepControl
  <1>4. CASE Tick
    <2>1. /\ UNCHANGED <<buffers, current, ticks, kernel, agree, reference>>
          /\ \A c \in Chains : stageCursor'[c] = 0
          /\ \A c \in Chains, t \in ClaimantIds : claimantAt'[c][t] = "none"
          /\ \A c \in Chains : Quiet(c)
      BY <1>0, <1>4 DEF Tick, StageInv, simVars, worldVars, legVars
    <2>2. ASSUME NEW c \in Chains, NEW t \in ClaimantIds PROVE TaskOk(c, t)'
      BY <1>0, <2>1 DEF FieldInv, TaskOk, Quiet
    <2>3. ASSUME NEW c \in Chains PROVE BatchOk(c)'
      BY <2>1 DEF BatchOk
    <2> QED BY <1>0, <2>1, <2>2, <2>3 DEF FieldInv
  <1>5. CASE CompareLeg
    <2>1. /\ mpc' = "idle" /\ ticks = MaxTicks /\ ticks' = 0 /\ current' = 0
          /\ buffers' = Seeded(scene) /\ UNCHANGED <<claimantAt, kernel, stageCursor>>
          /\ reference' = (IF reference = NoHash THEN buffers[current] ELSE reference)
          /\ agree' = (agree /\ reference' = buffers[current])
          /\ \A c \in Chains : Quiet(c)
      BY <1>0, <1>5 DEF CompareLeg, StateHash, taskVars, StageInv
    <2>2. buffers'[current'] = AllAt(ticks')
      BY <2>1 DEF Seeded, AllAt, Entities
    <2>3. ASSUME NEW c \in Chains, NEW t \in ClaimantIds PROVE TaskOk(c, t)'
      BY <1>0, <2>1 DEF FieldInv, TaskOk, Quiet
    <2>4. agree' /\ reference' = AllAt(MaxTicks)
      BY <1>0, <2>1 DEF FieldInv
    <2> QED BY <1>0, <2>1, <2>2, <2>3, <2>4 DEF FieldInv
  <1>6. CASE FinishTick
    <2>1. /\ mpc = "swap" /\ mpc' = "idle" /\ current' = 1 - current /\ ticks' = ticks + 1
          /\ UNCHANGED <<buffers, claimantAt, kernel, stageCursor, agree, reference>>
          /\ \A c \in Chains : Quiet(c)
      BY <1>0, <1>6, ChainFacts DEF FinishTick, taskVars, legVars, StageInv
    <2>2. buffers'[current'] = AllAt(ticks')
      BY <2>1, NextFrameComplete
    <2>3. ASSUME NEW c \in Chains, NEW t \in ClaimantIds PROVE TaskOk(c, t)'
      BY <1>0, <2>1 DEF FieldInv, TaskOk, Quiet
    <2> QED BY <1>0, <2>1, <2>2, <2>3 DEF FieldInv
  <1>7. ASSUME NEW c \in Chains, NEW t \in ClaimantIds, ClaimBatch(c, t) PROVE FieldInv'
    <2>1. /\ UNCHANGED <<buffers, current, ticks, frame, kernel, agree, reference, mpc>>
          /\ claimantAt[c][t] = "claim"
          /\ batch' = [batch EXCEPT ![c][t] = stageCursor[c]]
          /\ stageCursor' = [stageCursor EXCEPT ![c] = @ + 1]
          /\ claimantAt' = [claimantAt EXCEPT ![c][t] =
                        IF stageCursor[c] < StageBatches(c) THEN "run" ELSE "done"]
      BY <1>7 DEF ClaimBatch, simVars, worldVars, legVars
    <2>2. /\ batch'[c][t] = stageCursor[c] /\ stageCursor'[c] = stageCursor[c] + 1
          /\ stageCursor[c] \in Nat /\ StageBatches(c) \in Nat
          /\ claimantAt'[c][t] = IF stageCursor[c] < StageBatches(c) THEN "run" ELSE "done"
          /\ \A d \in Chains, u \in ClaimantIds : ~(d = c /\ u = t) =>
                batch'[d][u] = batch[d][u] /\ claimantAt'[d][u] = claimantAt[d][u]
          /\ \A d \in Chains : d # c => stageCursor'[d] = stageCursor[d]
      BY <1>0, <2>1, CapFacts DEF FrameTypeInv, Ranges
    <2>3. \A d, b, k : Written(d, b, k)' <=> Written(d, b, k)
      BY <2>1, WrittenUnchanged
    <2>4. ASSUME NEW d \in Chains, NEW u \in ClaimantIds PROVE TaskOk(d, u)'
      <3>1. TaskOk(d, u)
        BY <1>0 DEF FieldInv
      <3>2. CASE d = c /\ u = t
        <4>1. kernel[d][u] = 1 /\ 1 \in Steps(c)
          BY <2>1, <3>1, <3>2 DEF TaskOk
        <4>2. Written(d, batch'[d][u], 0)
          BY DEF Written
        <4> QED BY <1>0, <2>1, <2>2, <2>3, <3>2, <4>1, <4>2 DEF TaskOk
      <3>3. CASE ~(d = c /\ u = t)
        <4>1. stageCursor[d] >= StageBatches(d) => stageCursor'[d] >= StageBatches(d)
          BY <2>2
        <4> QED BY <1>0, <2>1, <2>2, <2>3, <3>1, <3>3, <4>1 DEF TaskOk
      <3> QED BY <3>2, <3>3
    <2>5. ASSUME NEW d \in Chains, BatchOk(d) PROVE BatchOk(d)'
      <3>1. SUFFICES ASSUME NEW b \in 0 .. StageBatches(d) - 1, b < stageCursor'[d]
                     PROVE  \/ Written(d, b, Len(Kernels[d]))
                            \/ \E u \in ClaimantIds : claimantAt'[d][u] = "run" /\ batch'[d][u] = b
        BY <1>0, <2>3 DEF BatchOk
      <3>2. CASE b < stageCursor[d]
        <4>1. \/ Written(d, b, Len(Kernels[d]))
              \/ \E u \in ClaimantIds : claimantAt[d][u] = "run" /\ batch[d][u] = b
          BY <2>5, <3>2 DEF BatchOk
        <4> QED BY <2>1, <2>2, <4>1
      <3>3. CASE ~ b < stageCursor[d]
        <4>1. d = c /\ b = stageCursor[c] /\ b < StageBatches(c)
          BY <2>2, <3>1, <3>3
        <4> QED BY <2>2, <4>1
      <3> QED BY <3>2, <3>3
    <2> QED BY <1>0, <2>1, <2>4, <2>5 DEF FieldInv
  <1>8. ASSUME NEW c \in Chains, NEW t \in ClaimantIds, RunKernel(c, t) PROVE FieldInv'
    <2>1. /\ UNCHANGED <<current, ticks, frame, agree, reference, mpc, batch, stageCursor>>
          /\ claimantAt[c][t] = "run" /\ mpc # "idle" /\ frame = <<current, ticks>>
          /\ IF kernel[c][t] < Len(Kernels[c])
             THEN kernel' = [kernel EXCEPT ![c][t] = kernel[c][t] + 1] /\ UNCHANGED claimantAt
             ELSE /\ kernel' = [kernel EXCEPT ![c][t] = 1]
                  /\ claimantAt' = [claimantAt EXCEPT ![c][t] = "claim"]
      BY <1>0, <1>8 DEF RunKernel, worldVars, legVars, StageInv, Quiet
    <2>2. /\ IF kernel[c][t] < Len(Kernels[c])
             THEN kernel'[c][t] = kernel[c][t] + 1 /\ claimantAt'[c][t] = "run"
             ELSE kernel'[c][t] = 1 /\ claimantAt'[c][t] = "claim"
          /\ \A d \in Chains, u \in ClaimantIds : ~(d = c /\ u = t) =>
                kernel'[d][u] = kernel[d][u] /\ claimantAt'[d][u] = claimantAt[d][u]
      <3>1. /\ kernel \in [Chains -> [ClaimantIds -> Nat]]
            /\ claimantAt \in [Chains -> [ClaimantIds -> {"none", "claim", "run", "done"}]]
        BY <1>0 DEF FrameTypeInv, Ranges
      <3>2. CASE kernel[c][t] < Len(Kernels[c])
        BY <2>1, <3>1, <3>2
      <3>3. CASE ~ kernel[c][t] < Len(Kernels[c])
        BY <2>1, <3>1, <3>3
      <3> QED BY <3>2, <3>3
    <2>3. /\ \A d \in Chains : \A b : \A k \in Int :
                 k <= Len(Kernels[d]) /\ Written(d, b, k) => Written(d, b, k)'
          /\ \A k \in Steps(c) : k = kernel[c][t] => \A b : b = batch[c][t] => Written(c, b, k)'
          /\ buffers'[frame[1]] = buffers[frame[1]]
      BY <1>8, WrittenStays
    <2>4. \A d \in Chains, u \in ClaimantIds : /\ TaskOk(d, u) /\ kernel[d][u] \in 1 .. Len(Kernels[d])
                                               /\ Len(Kernels[d]) \in Nat \ {0}
                                               /\ Steps(d) = 1 .. Len(Kernels[d])
                                               /\ batch[d][u] \in Nat
      <3>1. \A d \in Chains, u \in ClaimantIds : batch[d][u] \in Nat
        BY <1>0 DEF FrameTypeInv, Ranges
      <3> QED BY <1>0, <3>1, KernelOrder DEF FieldInv, TaskOk
    <2>5. ASSUME NEW d \in Chains, NEW u \in ClaimantIds PROVE TaskOk(d, u)'
      <3>1. CASE d = c /\ u = t
        <4>1. PICK k \in Int, b \in Nat : k = kernel[c][t] /\ b = batch[c][t]
          BY <2>4
        <4>2. Written(c, b, k)'
          BY <2>3, <2>4, <4>1
        <4>3. CASE k < Len(Kernels[c])
          <5>1. kernel'[c][t] - 1 = k /\ claimantAt'[c][t] = "run" /\ batch'[c][t] = b
                /\ kernel'[c][t] \in Steps(c)
            BY <2>1, <2>2, <2>4, <4>1, <4>3
          <5> QED BY <3>1, <4>2, <5>1 DEF TaskOk
        <4>4. CASE ~ k < Len(Kernels[c])
          <5>1. kernel'[c][t] = 1 /\ claimantAt'[c][t] = "claim" /\ 1 \in Steps(c)
            BY <2>2, <2>4, <4>1, <4>4
          <5> QED BY <3>1, <5>1 DEF TaskOk
        <4> QED BY <4>3, <4>4
      <3>2. CASE ~(d = c /\ u = t)
        <4>1. /\ kernel'[d][u] = kernel[d][u] /\ claimantAt'[d][u] = claimantAt[d][u]
              /\ TaskOk(d, u) /\ kernel[d][u] - 1 \in Int /\ kernel[d][u] - 1 <= Len(Kernels[d])
          BY <2>2, <2>4, <3>2
        <4>2. PICK k \in Int, b \in Nat : k = kernel[d][u] - 1 /\ b = batch[d][u]
          BY <2>4, <4>1
        <4>3. Written(d, b, k) => Written(d, b, k)'
          BY <2>3, <4>1, <4>2
        <4>4. kernel'[d][u] - 1 = k /\ batch'[d][u] = b
          BY <2>1, <4>1, <4>2
        <4> QED BY <1>0, <2>1, <4>1, <4>2, <4>3, <4>4 DEF TaskOk
      <3> QED BY <3>1, <3>2
    <2>6. ASSUME NEW d \in Chains, BatchOk(d) PROVE BatchOk(d)'
      <3>1. SUFFICES ASSUME NEW b \in 0 .. StageBatches(d) - 1, b < stageCursor[d]
                     PROVE  \/ Written(d, b, Len(Kernels[d]))'
                            \/ \E u \in ClaimantIds : claimantAt'[d][u] = "run" /\ batch'[d][u] = b
        BY <1>0, <2>1 DEF BatchOk
      <3>2. CASE Written(d, b, Len(Kernels[d]))
        BY <2>3, <2>4, <3>2, KernelOrder
      <3>3. ASSUME NEW u \in ClaimantIds, claimantAt[d][u] = "run", batch[d][u] = b
            PROVE  \/ Written(d, b, Len(Kernels[d]))'
                   \/ claimantAt'[d][u] = "run" /\ batch'[d][u] = b
        <4>1. CASE d = c /\ u = t /\ ~ kernel[c][t] < Len(Kernels[c])
          <5>1. kernel[c][t] = Len(Kernels[c]) /\ Len(Kernels[c]) \in Steps(c)
            BY <2>4, <4>1
          <5> QED BY <2>3, <3>3, <4>1, <5>1
        <4>2. CASE ~(d = c /\ u = t /\ ~ kernel[c][t] < Len(Kernels[c]))
          BY <2>1, <2>2, <3>3, <4>2
        <4> QED BY <4>1, <4>2
      <3> QED BY <2>6, <3>1, <3>2, <3>3 DEF BatchOk
    <2>7. buffers'[current'] = AllAt(ticks')
      BY <1>0, <2>1, <2>3 DEF FieldInv
    <2> QED BY <1>0, <2>1, <2>5, <2>6, <2>7 DEF FieldInv
  <1> QED BY <1>1, <1>2, <1>3, <1>4, <1>5, <1>6, <1>7, <1>8 DEF FrameNext, FrameOver

-----------------------------------------------------------------------------
(* The inductive invariant holds at the start.                             *)
LEMMA InitIInv == FrameInit => IInv
  <1> SUFFICES ASSUME FrameInit PROVE IInv
    OBVIOUS
  <1>1. Ranges
    <2>1. scene \in [Chains -> Nat] /\ workers \in Nat /\ ticks \in 0 .. MaxTicks /\ stage \in Chains
          /\ legs \in Seq({"tick", "tick_serial", "tick_with_taskflow"})
      BY FrameAssumption DEF FrameInit, Chains
    <2> QED BY <2>1 DEF Ranges, FrameInit
  <1>2. BufferShape
    BY DEF BufferShape, FrameInit, Seeded, Entities
  <1>3. StageInv
    BY DEF StageInv, FrameInit, Quiet
  <1>4. FieldInv
    <2>1. buffers[current] = AllAt(ticks)
      BY DEF FrameInit, Seeded, AllAt, Entities
    <2>2. ASSUME NEW c \in Chains, NEW t \in ClaimantIds PROVE TaskOk(c, t)
      <3>1. 1 \in Steps(c)
        BY KernelOrder
      <3> QED BY <3>1 DEF TaskOk, FrameInit
    <2> QED BY <2>1, <2>2 DEF FieldInv, FrameInit
  <1> QED BY <1>1, <1>2, <1>3, <1>4 DEF IInv, FrameTypeInv

(* It holds in every reachable state.                                      *)
LEMMA Invariance == FrameSpec => []IInv
  <1>1. IInv /\ [FrameNext]_frameVars => IInv'
    <2> SUFFICES ASSUME IInv, [FrameNext]_frameVars PROVE IInv'
      OBVIOUS
    <2>1. FrameTypeInv /\ StageInv
      BY DEF IInv
    <2>2. FrameTypeInv'
      BY RangesStep, ShapeStep DEF FrameTypeInv
    <2>3. StageInv'
      BY <2>1, StageStepMain, StageStepTasks DEF FrameNext, FrameOver
    <2>4. FieldInv'
      BY FieldStep
    <2> QED BY <2>2, <2>3, <2>4 DEF IInv
  <1> QED BY <1>1, InitIInv, PTL DEF FrameSpec

(* The ranges of the variables and the shape of the buffers.               *)
THEOREM FrameTypeCorrect == FrameSpec => []FrameTypeInv
  <1>1. IInv => FrameTypeInv
    BY DEF IInv
  <1> QED BY <1>1, Invariance, PTL

(* NoTaskOutlivesTick: tick() swaps the buffers only when the barrier of   *)
(* each chain has run, and behind it every task of the chain is over.      *)
THEOREM TicksWaitForTasks == FrameSpec => []NoTaskOutlivesTick
  <1>1. IInv => NoTaskOutlivesTick
    BY ChainFacts DEF IInv, StageInv, NoTaskOutlivesTick, Quiet
  <1> QED BY <1>1, Invariance, PTL

(* SameAsSerial: whichever scene, number of workers, batch size and order  *)
(* of the tasks' steps, tick() leaves what tick_serial() leaves, and the   *)
(* benchmark finds the hashes equal.                                       *)
THEOREM ParallelIsSerial == FrameSpec => []SameAsSerial
  <1>1. IInv => SameAsSerial
    <2> SUFFICES ASSUME IInv PROVE SameAsSerial
      OBVIOUS
    <2>1. buffers[current] = AllAt(ticks) /\ agree
      BY DEF IInv, FieldInv
    <2> QED BY <2>1 DEF SameAsSerial, AllAt
  <1> QED BY <1>1, Invariance, PTL

-----------------------------------------------------------------------------
(* parallel_for.                                                           *)

LoopTypeInv ==
    /\ begin \in Size /\ end \in Size /\ grain \in Size /\ cursor \in Size
    /\ cpc \in {"called", "submit", "wait", "returned"}
    /\ tasks \in 0 .. WorkerCount /\ next \in 1 .. WorkerCount + 1
    /\ tpc \in [TaskIds -> {"none", "claim", "run", "complete"}]
    /\ lo \in [TaskIds -> Size]
    /\ threw \subseteq {t \in TaskIds : tpc[t] = "complete"}
    /\ calls \in [Size -> 0 .. 2]

(* Which tasks there are, by where the caller is. *)
CallInv ==
    /\ cpc = "called" \/ begin >= end => \A t \in TaskIds : tpc[t] = "none"
    /\ cpc = "called" => next = 1
    /\ begin >= end => cpc \in {"called", "returned"}
    /\ cpc = "submit" =>
          next <= tasks + 1 /\ \A t \in TaskIds : tpc[t] # "none" <=> t < next
    /\ cpc \in {"wait", "returned"} /\ begin < end =>
          \A t \in TaskIds : /\ tpc[t] # "none" <=> t <= tasks
                             /\ t < next => tpc[t] \in {"none", "complete"}
    /\ cpc = "returned" /\ begin < end => next > tasks

OverTasks == {t \in TaskIds : tpc[t] = "complete"}

(* Index i belongs to the chunk task t is about to call the body for. *)
InHand(t, i) == tpc[t] = "run" /\ lo[t] <= i /\ i < lo[t] + grain

(* begin + m * grain is the cursor after m claims, of which only one in    *)
(* each task can have been past the end; chunks in hand are apart and      *)
(* behind the cursor; what is behind the cursor was called once or is in   *)
(* hand.                                                                   *)
ChunkInv ==
    /\ grain > 0
    /\ tasks > 0
    /\ \E m \in Nat : /\ cursor = begin + m * grain
                      /\ m <= BatchCount + Cardinality(OverTasks)
    /\ \A t \in TaskIds :
          tpc[t] = "run" => begin <= lo[t] /\ lo[t] < end /\ lo[t] + grain <= cursor
    /\ \A t, u \in TaskIds : t # u /\ tpc[t] = "run" /\ tpc[u] = "run" =>
          lo[t] + grain <= lo[u] \/ lo[u] + grain <= lo[t]
    /\ \A i \in Size :
          calls[i] = IF begin <= i /\ i < end /\ i < cursor /\ ~\E t \in TaskIds : InHand(t, i)
                     THEN 1 ELSE 0
    /\ \A t \in TaskIds : tpc[t] = "complete" /\ t \notin threw => cursor >= end

CoverInv ==
    /\ cpc = "called" \/ begin >= end => \A i \in Size : calls[i] = 0
    /\ NoOverflow /\ cpc # "called" /\ begin < end => ChunkInv

LoopIInv == LoopTypeInv /\ CallInv /\ CoverInv

-----------------------------------------------------------------------------
(* Of width Width there is at least the number 0.                          *)
LEMMA WidthCounts == 2 ^ Width \in Int
BY LoopAssumption, SMT

(* 2^Width is positive as soon as there is an index.                       *)
LEMMA SizeCounts ==
    ASSUME NEW n \in Size
    PROVE  2 ^ Width \in Nat \ {0} /\ n \in Nat /\ n < 2 ^ Width /\ 0 \in Size
BY WidthCounts DEF Size

(* A sum that wraps is still a number of that width.                       *)
LEMMA WrapInSize == ASSUME NEW s \in Size, NEW n \in Nat PROVE Wrap(n) \in Size
<1>1. 2 ^ Width \in Nat \ {0}
  BY SizeCounts
<1> QED BY <1>1 DEF Wrap, Size

(* A sum that is small enough does not wrap.                               *)
LEMMA WrapSmall == ASSUME NEW n \in Nat, n < 2 ^ Width PROVE Wrap(n) = n
<1>1. 2 ^ Width \in Nat /\ n < 2 ^ Width
  BY WidthCounts
<1> QED BY <1>1 DEF Wrap

(* Division, in terms of multiples.                                        *)
LEMMA DivisionBounds ==
    ASSUME NEW a \in Nat, NEW g \in Nat \ {0}
    PROVE  a \div g \in Nat /\ (a \div g) * g <= a /\ a < (a \div g) * g + g
OBVIOUS

(* Multiples of a batch size: the next one, and their order.               *)
LEMMA Multiples ==
    ASSUME NEW m \in Nat, NEW q \in Nat, NEW g \in Nat \ {0}
    PROVE  /\ m * g \in Nat /\ (m + 1) * g = m * g + g
           /\ q <= m => q * g <= m * g
OBVIOUS

(* The zeroth multiple adds nothing.                                       *)
LEMMA NoMultiple == ASSUME NEW b \in Nat, NEW g \in Nat PROVE b = b + 0 * g
OBVIOUS

(* The chunk size in effect. *)
Grain == IF grain = 0 THEN 1 ELSE grain

(* As many batches as it takes to reach the end, and when the claims of    *)
(* NoOverflow do not wrap, nor does the sum they are computed from.        *)
LEMMA Batches ==
    ASSUME LoopTypeInv, begin < end, NoOverflow
    PROVE  /\ BatchCount \in Nat \ {0}
           /\ end - begin <= BatchCount * Grain
           /\ begin + (BatchCount + WorkerCount) * Grain < 2 ^ Width
<1> DEFINE a == end - begin + Grain - 1
           q == a \div Grain
<1>1. /\ begin \in Nat /\ end \in Nat /\ Grain \in Nat \ {0} /\ a \in Nat
      /\ WorkerCount \in Nat \ {0} /\ end - begin \in Nat \ {0} /\ a = end - begin + Grain - 1
  BY SizeCounts, LoopAssumption DEF LoopTypeInv, Grain
<1> HIDE DEF a
<1>3. q \in Nat /\ q * Grain <= a /\ a < q * Grain + Grain
  BY <1>1, DivisionBounds
<1>4. begin + (q + WorkerCount) * Grain < 2 ^ Width
  BY DEF NoOverflow, a, Grain
<1> HIDE DEF q
<1>5. /\ q * Grain \in Nat /\ (q + 1) * Grain = q * Grain + Grain
      /\ (q + 1) * Grain <= (q + WorkerCount) * Grain
      /\ (q + WorkerCount) * Grain \in Nat
  <2>1. q + WorkerCount \in Nat /\ q + 1 <= q + WorkerCount /\ q + 1 \in Nat
    BY <1>1, <1>3
  <2> QED BY <1>1, <1>3, <2>1, Multiples
<1>6. a < 2 ^ Width
  BY <1>1, <1>3, <1>4, <1>5, WidthCounts
<1>7. BatchCount = q
  BY <1>1, <1>6, WrapSmall DEF BatchCount, a, q, Grain
<1>8. q # 0
  <2> SUFFICES ASSUME q = 0 PROVE FALSE
    OBVIOUS
  <2>1. q * Grain = 0
    BY <1>1
  <2> QED BY <1>1, <1>3, <2>1
<1>9. end - begin <= q * Grain
  BY <1>1, <1>3, <1>5
<1> QED BY <1>3, <1>4, <1>7, <1>8, <1>9

(* BatchCount is a number, whatever wraps.                                 *)
LEMMA BatchCountType ==
    ASSUME LoopTypeInv, begin < end
    PROVE  BatchCount \in Nat
<1> DEFINE g == IF grain = 0 THEN 1 ELSE grain
<1>1. g \in Nat \ {0} /\ end - begin + g - 1 \in Nat
  BY SizeCounts DEF LoopTypeInv
<1>2. Wrap(end - begin + g - 1) \in Nat
  BY <1>1, WrapInSize, SizeCounts DEF LoopTypeInv
<1> HIDE DEF g
<1>3. Wrap(end - begin + g - 1) \div g \in Nat
  BY <1>1, <1>2, DivisionBounds
<1> QED BY <1>3 DEF BatchCount, g

(* The tasks that are over can be counted; when one more is, the count     *)
(* grows by one, up to the number of workers.                              *)
LEMMA OverCount ==
    ASSUME NEW S \in SUBSET TaskIds
    PROVE  /\ IsFiniteSet(S) /\ Cardinality(S) \in Nat /\ Cardinality(S) <= WorkerCount
           /\ \A t \in TaskIds \ S : /\ Cardinality(S \cup {t}) = Cardinality(S) + 1
                                     /\ Cardinality(S) < WorkerCount
<1>1. WorkerCount \in Nat /\ IsFiniteSet(TaskIds) /\ Cardinality(TaskIds) = WorkerCount
  BY LoopAssumption, FS_Interval DEF TaskIds
<1>2. \A R \in SUBSET TaskIds :
          IsFiniteSet(R) /\ Cardinality(R) \in Nat /\ Cardinality(R) <= WorkerCount
  <2> TAKE R \in SUBSET TaskIds
  <2>1. IsFiniteSet(R) /\ Cardinality(R) <= Cardinality(TaskIds)
    BY <1>1, FS_Subset
  <2> QED BY <1>1, <2>1, FS_CardinalityType
<1>3. \A t \in TaskIds \ S : Cardinality(S \cup {t}) = Cardinality(S) + 1
  BY <1>2, FS_AddElement
<1>4. ASSUME NEW t \in TaskIds \ S
      PROVE  Cardinality(S) < WorkerCount
  <2>1. Cardinality(S \cup {t}) <= WorkerCount /\ Cardinality(S \cup {t}) = Cardinality(S) + 1
    BY <1>2, <1>3
  <2>2. Cardinality(S) \in Nat
    BY <1>2
  <2> QED BY <1>1, <2>1, <2>2
<1> QED BY <1>2, <1>3, <1>4

(* The invariant holds at the start.                                       *)
LEMMA LoopInitInv == LoopInit => LoopIInv
<1> SUFFICES ASSUME LoopInit PROVE LoopIInv
  OBVIOUS
<1>1. LoopTypeInv
  BY LoopAssumption, SizeCounts DEF LoopInit, LoopTypeInv, TaskIds
<1>2. CallInv
  BY LoopAssumption DEF LoopInit, CallInv, TaskIds
<1>3. CoverInv
  BY DEF LoopInit, CoverInv
<1> QED BY <1>1, <1>2, <1>3 DEF LoopIInv

(* The steps of the caller after the first two move no task and no index.  *)
LEMMA CallerKeepsChunks ==
    ASSUME LoopTypeInv, CoverInv, UNCHANGED <<args, cursor, tasks, tpc, lo, threw, calls>>,
           cpc # "called" \/ begin >= end, cpc' # "called"
    PROVE  CoverInv'
<1>1. NoOverflow' <=> NoOverflow
  BY DEF args, NoOverflow
<1>2. ChunkInv => ChunkInv'
  BY DEF args, ChunkInv, BatchCount, OverTasks, InHand
<1>3. begin \in Nat /\ end \in Nat
  BY SizeCounts DEF LoopTypeInv
<1> QED BY <1>1, <1>2, <1>3 DEF CoverInv, args

(* ReturnAtOnce.                                                           *)
LEMMA ReturnAtOnceStep == LoopIInv /\ ReturnAtOnce => LoopIInv'
<1> SUFFICES ASSUME LoopIInv, ReturnAtOnce PROVE LoopIInv'
  OBVIOUS
<1>1. LoopTypeInv'
  BY DEF LoopIInv, LoopTypeInv, ReturnAtOnce, args
<1>0. begin \in Nat /\ end \in Nat
  BY SizeCounts DEF LoopIInv, LoopTypeInv
<1>2. CallInv'
  BY <1>0 DEF LoopIInv, CallInv, ReturnAtOnce, args
<1>3. CoverInv'
  BY CallerKeepsChunks DEF LoopIInv, ReturnAtOnce
<1> QED BY <1>1, <1>2, <1>3 DEF LoopIInv

(* Prepare: no chunk has been claimed and no index is behind the cursor.   *)
LEMMA PrepareStep == LoopIInv /\ Prepare => LoopIInv'
<1> SUFFICES ASSUME LoopIInv, Prepare PROVE LoopIInv'
  OBVIOUS
<1>0. LoopTypeInv /\ CallInv /\ CoverInv /\ cpc = "called" /\ begin < end
  BY DEF LoopIInv, Prepare
<1>1. begin \in Nat /\ end \in Nat /\ grain \in Nat /\ 2 ^ Width \in Nat /\ end < 2 ^ Width
  BY <1>0, SizeCounts DEF LoopTypeInv
<1>2. grain' \in Size /\ grain' > 0
  BY <1>0, <1>1 DEF Size, Prepare, LoopTypeInv
<1>3. BatchCount \in Nat /\ WorkerCount \in Nat \ {0}
  BY <1>0, BatchCountType, LoopAssumption
<1>4. LoopTypeInv'
  BY <1>0, <1>1, <1>2, <1>3 DEF LoopTypeInv, Prepare
<1>5. CallInv'
  BY <1>0, <1>1, <1>4 DEF CallInv, LoopTypeInv, Prepare, TaskIds
<1>6. ASSUME NoOverflow' PROVE ChunkInv'
  <2>1. BatchCount' = BatchCount /\ NoOverflow
    BY <1>1, <1>6 DEF BatchCount, NoOverflow, Prepare
  <2>2. BatchCount' \in Nat \ {0}
    BY <1>0, <2>1, Batches
  <2>3. tasks' > 0
    BY <1>3, <2>1, <2>2 DEF Prepare
  <2>4. \A t \in TaskIds : tpc'[t] = "none"
    BY <1>0 DEF CallInv, Prepare
  <2>5. OverTasks' = {}
    BY <2>4 DEF OverTasks
  <2>6. Cardinality(OverTasks') = 0
    BY <2>5, FS_EmptySet
  <2>7. \E m \in Nat : cursor' = begin' + m * grain' /\ m <= BatchCount' + Cardinality(OverTasks')
    <3>1. cursor' = begin' + 0 * grain' /\ 0 <= BatchCount' + Cardinality(OverTasks')
      <4>1. begin' \in Nat /\ grain' \in Nat /\ cursor' = begin'
        BY <1>1, <1>2, SizeCounts DEF Prepare
      <4>2. begin' = begin' + 0 * grain'
        BY <4>1, NoMultiple
      <4>3. 0 <= BatchCount' + Cardinality(OverTasks')
        BY <1>3, <2>1, <2>6
      <4> QED BY <4>1, <4>2, <4>3
    <3> QED BY <3>1
  <2>8. \A i \in Size : calls'[i] = 0 /\ ~(begin' <= i /\ i < cursor')
    BY <1>0, <1>1, SizeCounts DEF CoverInv, Prepare
  <2>9. \A t \in TaskIds : ~(tpc'[t] = "run") /\ ~(tpc'[t] = "complete")
    BY <2>4
  <2> QED BY <1>2, <2>3, <2>7, <2>8, <2>9 DEF ChunkInv
<1>7. CoverInv'
  BY <1>0, <1>6 DEF CoverInv, Prepare
<1> QED BY <1>4, <1>5, <1>7 DEF LoopIInv

(* SubmitTask: a new task has nothing in hand.                             *)
LEMMA SubmitTaskStep == LoopIInv /\ SubmitTask => LoopIInv'
<1> SUFFICES ASSUME LoopIInv, SubmitTask PROVE LoopIInv'
  OBVIOUS
<1>0. LoopTypeInv /\ CallInv /\ CoverInv /\ cpc = "submit" /\ next <= tasks
  BY DEF LoopIInv, SubmitTask
<1>1. begin \in Nat /\ end \in Nat /\ next \in TaskIds /\ tasks \in Nat /\ begin < end
  BY <1>0, SizeCounts, LoopAssumption DEF LoopTypeInv, TaskIds, CallInv
<1>2. tpc[next] = "none"
  BY <1>0, <1>1 DEF CallInv, TaskIds
<1>3. \A t \in TaskIds : tpc'[t] = IF t = next THEN "claim" ELSE tpc[t]
  BY <1>0 DEF LoopTypeInv, SubmitTask
<1>4. LoopTypeInv'
  BY <1>0, <1>1, <1>2, <1>3, LoopAssumption DEF LoopTypeInv, SubmitTask, args, TaskIds
<1>5. CallInv'
  BY <1>0, <1>1, <1>3 DEF CallInv, SubmitTask, args, TaskIds
<1>6. \A t \in TaskIds : /\ tpc'[t] = "run" <=> tpc[t] = "run"
                         /\ tpc'[t] = "complete" <=> tpc[t] = "complete"
  BY <1>2, <1>3
<1>7. UNCHANGED <<args, begin, end, grain, cursor, cpc, tasks, lo, threw, calls>>
  BY DEF SubmitTask, args
<1>8. ASSUME NoOverflow' PROVE ChunkInv'
  <2>1. ChunkInv
    BY <1>0, <1>1, <1>7, <1>8 DEF CoverInv, NoOverflow
  <2>2. OverTasks' = OverTasks /\ BatchCount' = BatchCount
    BY <1>6, <1>7 DEF OverTasks, BatchCount
  <2>3. \A t \in TaskIds : \A i \in Size : InHand(t, i)' <=> InHand(t, i)
    BY <1>6, <1>7 DEF InHand
  <2> QED BY <1>6, <1>7, <2>1, <2>2, <2>3 DEF ChunkInv
<1>9. CoverInv'
  BY <1>0, <1>1, <1>7, <1>8 DEF CoverInv
<1> QED BY <1>4, <1>5, <1>9 DEF LoopIInv

(* LoopSubmitted, WaitTask and LoopReturn.                                 *)
LEMMA WaitSteps == LoopIInv /\ (LoopSubmitted \/ WaitTask \/ LoopReturn) => LoopIInv'
<1> SUFFICES ASSUME LoopIInv, LoopSubmitted \/ WaitTask \/ LoopReturn PROVE LoopIInv'
  OBVIOUS
<1> USE DEF LoopSubmitted, WaitTask, LoopReturn
<1>0. LoopTypeInv /\ CallInv /\ CoverInv /\ cpc # "called"
      /\ UNCHANGED <<args, cursor, tasks, tpc, lo, threw, calls>>
  BY DEF LoopIInv
<1>1. begin \in Nat /\ end \in Nat /\ tasks \in 0 .. WorkerCount /\ next \in Nat /\ begin < end
  BY <1>0, SizeCounts, LoopAssumption DEF LoopTypeInv, CallInv
<1>2. LoopTypeInv'
  BY <1>0, <1>1, LoopAssumption DEF LoopTypeInv, args
<1>3. CallInv'
  BY <1>0, <1>1 DEF CallInv, args, TaskIds, LoopTypeInv
<1>4. CoverInv'
  BY <1>0, CallerKeepsChunks
<1> QED BY <1>2, <1>3, <1>4 DEF LoopIInv

-----------------------------------------------------------------------------
(* The steps of a task.                                                    *)

(* A task that is not over leaves the caller where it is.                  *)
LEMMA TaskCallInv ==
    ASSUME LoopTypeInv, CallInv, NEW t \in TaskIds, tpc[t] \in {"claim", "run"},
           NEW place \in {"claim", "run", "complete"}, tpc' = [tpc EXCEPT ![t] = place],
           UNCHANGED <<args, cpc, tasks, next>>
    PROVE  CallInv' /\ cpc # "called" /\ begin < end
<1>1. begin \in Nat /\ end \in Nat
  BY SizeCounts DEF LoopTypeInv
<1>2. cpc # "called" /\ begin < end
  BY <1>1 DEF CallInv
<1>3. \A u \in TaskIds : tpc'[u] = IF u = t THEN place ELSE tpc[u]
  BY DEF LoopTypeInv
<1>4. cpc \in {"wait", "returned"} => t >= next
  BY <1>2 DEF CallInv, TaskIds, LoopTypeInv
<1> QED BY <1>1, <1>2, <1>3, <1>4 DEF CallInv, args, TaskIds, LoopTypeInv

(* Claim, when no sum wraps: the cursor is one grain further, and a claim  *)
(* before the end is one of the batches.                                   *)
LEMMA ClaimCursor ==
    ASSUME LoopTypeInv, NoOverflow, begin < end, ChunkInv, NEW t \in TaskIds, Claim(t)
    PROVE  /\ cursor' = cursor + grain
           /\ \E m \in Nat : /\ cursor' = begin + m * grain
                             /\ m <= BatchCount + Cardinality(OverTasks')
<1>1. begin \in Nat /\ end \in Nat /\ cursor \in Nat /\ grain \in Nat \ {0} /\ Grain = grain
  BY SizeCounts DEF LoopTypeInv, ChunkInv, Grain
<1>2. /\ BatchCount \in Nat \ {0} /\ end - begin <= BatchCount * grain
      /\ begin + (BatchCount + WorkerCount) * grain < 2 ^ Width
  BY <1>1, Batches
<1>3. PICK m \in Nat : cursor = begin + m * grain /\ m <= BatchCount + Cardinality(OverTasks)
  BY DEF ChunkInv
<1>4. /\ WorkerCount \in Nat /\ Cardinality(OverTasks) \in Nat
      /\ Cardinality(OverTasks) + 1 <= WorkerCount
      /\ Cardinality(OverTasks \cup {t}) = Cardinality(OverTasks) + 1
  <2>1. OverTasks \in SUBSET TaskIds /\ t \in TaskIds \ OverTasks
    BY DEF OverTasks, Claim
  <2>2. Cardinality(OverTasks) < WorkerCount /\ Cardinality(OverTasks) \in Nat
    BY <2>1, OverCount
  <2> QED BY <2>1, <2>2, OverCount, LoopAssumption
<1>5. \A u \in TaskIds : tpc'[u] = IF u = t THEN (IF cursor >= end THEN "complete" ELSE "run")
                                            ELSE tpc[u]
  BY DEF Claim, LoopTypeInv
<1>6. OverTasks' = IF cursor >= end THEN OverTasks \cup {t} ELSE OverTasks
  BY <1>5 DEF OverTasks, Claim
<1>7. m + 1 <= BatchCount + WorkerCount
  BY <1>1, <1>2, <1>3, <1>4
<1>8. cursor + grain = begin + (m + 1) * grain /\ m * grain \in Nat /\ (m + 1) * grain \in Nat
  BY <1>1, <1>3, Multiples
<1>9. (m + 1) * grain <= (BatchCount + WorkerCount) * grain
  <2>1. m + 1 \in Nat /\ BatchCount + WorkerCount \in Nat
    BY <1>2, <1>4
  <2> QED BY <1>1, <1>7, <2>1, Multiples
<1>10. (BatchCount + WorkerCount) * grain \in Nat
  BY <1>1, <1>2, <1>4, Multiples
<1>11. cursor + grain < 2 ^ Width
  BY <1>1, <1>2, <1>8, <1>9, <1>10, WidthCounts
<1>12. cursor' = cursor + grain
  BY <1>1, <1>11, WrapSmall DEF Claim
<1>13. m + 1 <= BatchCount + Cardinality(OverTasks')
  <2>1. CASE cursor >= end
    <3>1. Cardinality(OverTasks') = Cardinality(OverTasks) + 1
      BY <1>4, <1>6, <2>1
    <3> QED BY <1>2, <1>3, <1>4, <3>1
  <2>2. CASE ~(cursor >= end)
    <3>1. ~(BatchCount <= m)
      <4> SUFFICES ASSUME BatchCount <= m PROVE FALSE
        OBVIOUS
      <4>1. BatchCount * grain <= m * grain /\ BatchCount * grain \in Nat
        BY <1>1, <1>2, Multiples
      <4> QED BY <1>1, <1>2, <1>3, <1>8, <2>2, <4>1
    <3>2. OverTasks' = OverTasks
      BY <1>6, <2>2
    <3> QED BY <1>2, <1>4, <3>1, <3>2
  <2> QED BY <2>1, <2>2
<1> QED BY <1>8, <1>12, <1>13

(* Claim.                                                                  *)
LEMMA ClaimStep == ASSUME LoopIInv, NEW t \in TaskIds, Claim(t) PROVE LoopIInv'
<1>0. LoopTypeInv /\ CallInv /\ CoverInv /\ tpc[t] = "claim"
  BY DEF LoopIInv, Claim
<1>1. begin \in Nat /\ end \in Nat /\ cursor \in Nat /\ grain \in Nat
  BY <1>0, SizeCounts DEF LoopTypeInv
<1>2. UNCHANGED <<args, begin, end, grain, cpc, tasks, next, threw, calls>>
  BY DEF Claim, args
<1>3. \A u \in TaskIds :
          /\ tpc'[u] = IF u = t THEN (IF cursor >= end THEN "complete" ELSE "run") ELSE tpc[u]
          /\ lo'[u] = IF u = t THEN cursor ELSE lo[u]
  BY <1>0 DEF Claim, LoopTypeInv
<1>4. LoopTypeInv'
  <2>1. cursor' \in Size
    BY <1>0, <1>1, WrapInSize DEF Claim, LoopTypeInv
  <2>2. tpc' \in [TaskIds -> {"none", "claim", "run", "complete"}] /\ lo' \in [TaskIds -> Size]
    BY <1>0 DEF Claim, LoopTypeInv
  <2>3. threw' \subseteq {u \in TaskIds : tpc'[u] = "complete"}
    BY <1>0, <1>2, <1>3 DEF LoopTypeInv
  <2> QED BY <1>0, <1>2, <2>1, <2>2, <2>3 DEF LoopTypeInv
<1>5. CallInv' /\ cpc # "called" /\ begin < end
  <2>1. tpc' = [tpc EXCEPT ![t] = IF cursor >= end THEN "complete" ELSE "run"]
    BY DEF Claim
  <2> QED BY <1>0, <1>2, <2>1, TaskCallInv
<1>6. ASSUME NoOverflow PROVE ChunkInv'
  <2>0. ChunkInv /\ grain > 0
    BY <1>0, <1>5, <1>6 DEF CoverInv, ChunkInv
  <2>1. /\ cursor' = cursor + grain
        /\ \E m \in Nat : /\ cursor' = begin + m * grain
                          /\ m <= BatchCount + Cardinality(OverTasks')
    BY <1>0, <1>5, <1>6, <2>0, ClaimCursor
  <2>2. BatchCount' = BatchCount /\ begin <= cursor
    <3>1. PICK m \in Nat : cursor = begin + m * grain
      BY <2>0 DEF ChunkInv
    <3>2. m * grain \in Nat
      BY <1>1
    <3> QED BY <1>1, <1>2, <3>1, <3>2 DEF BatchCount
  <2>3. /\ \A u \in TaskIds : lo[u] \in Nat
        /\ \A u \in TaskIds :
              tpc[u] = "run" => begin <= lo[u] /\ lo[u] < end /\ lo[u] + grain <= cursor
    BY <1>0, <2>0, SizeCounts DEF ChunkInv, LoopTypeInv
  <2>4. \A u \in TaskIds :
          tpc'[u] = "run" => begin <= lo'[u] /\ lo'[u] < end /\ lo'[u] + grain <= cursor'
    BY <1>1, <1>3, <2>1, <2>2, <2>3
  <2>5. \A u, v \in TaskIds : u # v /\ tpc[u] = "run" /\ tpc[v] = "run" =>
            lo[u] + grain <= lo[v] \/ lo[v] + grain <= lo[u]
    BY <2>0 DEF ChunkInv
  <2>6. \A u, v \in TaskIds : u # v /\ tpc'[u] = "run" /\ tpc'[v] = "run" =>
            lo'[u] + grain <= lo'[v] \/ lo'[v] + grain <= lo'[u]
    BY <1>1, <1>3, <2>3, <2>5
  <2>7. ASSUME NEW i \in Size
        PROVE  calls'[i] = IF begin <= i /\ i < end /\ i < cursor'
                              /\ ~\E u \in TaskIds : tpc'[u] = "run" /\ lo'[u] <= i /\ i < lo'[u] + grain
                           THEN 1 ELSE 0
    <3>1. calls'[i] = IF begin <= i /\ i < end /\ i < cursor
                         /\ ~\E u \in TaskIds : tpc[u] = "run" /\ lo[u] <= i /\ i < lo[u] + grain
                      THEN 1 ELSE 0
      BY <1>2, <2>0 DEF ChunkInv, InHand
    <3>2. i \in Nat
      BY SizeCounts
    <3>3. CASE i < cursor
      <4>1. \A u \in TaskIds : (tpc'[u] = "run" /\ lo'[u] <= i /\ i < lo'[u] + grain)
                                <=> (tpc[u] = "run" /\ lo[u] <= i /\ i < lo[u] + grain)
        BY <1>0, <1>1, <1>3, <3>2, <3>3
      <4>2. i < cursor'
        BY <1>1, <2>1, <3>2, <3>3
      <4> QED BY <3>1, <3>3, <4>1, <4>2
    <3>4. CASE ~(i < cursor)
      <4>1. calls'[i] = 0
        BY <3>1, <3>4
      <4>2. ASSUME i < end, i < cursor'
            PROVE  tpc'[t] = "run" /\ lo'[t] <= i /\ i < lo'[t] + grain
        BY <1>1, <1>3, <2>1, <3>2, <3>4, <4>2
      <4> QED BY <4>1, <4>2
    <3> QED BY <3>3, <3>4
  <2>8. \A u \in TaskIds : tpc'[u] = "complete" /\ u \notin threw => cursor' >= end
    <3>1. \A u \in TaskIds : tpc[u] = "complete" /\ u \notin threw => cursor >= end
      BY <2>0 DEF ChunkInv
    <3>2. cursor >= end => cursor' >= end
      BY <1>1, <2>1
    <3> QED BY <1>3, <3>1, <3>2
  <2> HIDE DEF Claim
  <2> QED BY <1>2, <2>0, <2>1, <2>2, <2>4, <2>6, <2>7, <2>8 DEF ChunkInv, InHand
<1>7. CoverInv'
  <2>1. NoOverflow' <=> NoOverflow
    BY <1>2 DEF NoOverflow
  <2> QED BY <1>1, <1>2, <1>5, <1>6, <2>1 DEF CoverInv
<1> QED BY <1>4, <1>5, <1>7 DEF LoopIInv

(* RunBody: the indices of its chunk are called, each for the first time,  *)
(* and nobody else has them in hand.                                       *)
LEMMA RunBodyStep == ASSUME LoopIInv, NEW t \in TaskIds, RunBody(t) PROVE LoopIInv'
<1>0. LoopTypeInv /\ CallInv /\ CoverInv /\ tpc[t] = "run"
  BY DEF LoopIInv, RunBody
<1>1. begin \in Nat /\ end \in Nat /\ cursor \in Nat /\ grain \in Nat /\ cursor < 2 ^ Width
  BY <1>0, SizeCounts DEF LoopTypeInv
<1>2. UNCHANGED <<args, begin, end, grain, cursor, cpc, tasks, next, lo>>
  BY DEF RunBody, args
<1>3. PICK place \in {"claim", "complete"} :
          /\ tpc' = [tpc EXCEPT ![t] = place]
          /\ threw' = IF place = "complete" THEN threw \cup {t} ELSE threw
  BY DEF RunBody
<1>4. \A u \in TaskIds : tpc'[u] = IF u = t THEN place ELSE tpc[u]
  BY <1>0, <1>3 DEF LoopTypeInv
<1> DEFINE hi == IF Wrap(lo[t] + grain) < end THEN Wrap(lo[t] + grain) ELSE end
<1>5. calls' = [i \in Size |-> IF lo[t] <= i /\ i < hi THEN Again[calls[i]] ELSE calls[i]]
  BY DEF RunBody
<1>6. LoopTypeInv'
  <2>1. calls' \in [Size -> 0 .. 2]
    <3> HIDE DEF hi
    <3>1. \A n \in 0 .. 2 : Again[n] \in 0 .. 2
      BY DEF Again
    <3> QED BY <1>0, <1>5, <3>1 DEF LoopTypeInv
  <2>2. tpc' \in [TaskIds -> {"none", "claim", "run", "complete"}]
    BY <1>0, <1>3 DEF LoopTypeInv
  <2>3. threw' \subseteq {u \in TaskIds : tpc'[u] = "complete"}
    BY <1>0, <1>3, <1>4 DEF LoopTypeInv
  <2> QED BY <1>0, <1>2, <2>1, <2>2, <2>3 DEF LoopTypeInv
<1>7. CallInv' /\ cpc # "called" /\ begin < end
  BY <1>0, <1>2, <1>3, TaskCallInv
<1>8. ASSUME NoOverflow PROVE ChunkInv'
  <2>0. ChunkInv /\ grain > 0 /\ tasks > 0
    BY <1>0, <1>7, <1>8 DEF CoverInv, ChunkInv
  <2>1. /\ \A u \in TaskIds : lo[u] \in Nat
        /\ \A u \in TaskIds :
              tpc[u] = "run" => begin <= lo[u] /\ lo[u] < end /\ lo[u] + grain <= cursor
        /\ \A u, v \in TaskIds : u # v /\ tpc[u] = "run" /\ tpc[v] = "run" =>
              lo[u] + grain <= lo[v] \/ lo[v] + grain <= lo[u]
    BY <1>0, <2>0, SizeCounts DEF ChunkInv, LoopTypeInv
  <2>2. hi = IF lo[t] + grain < end THEN lo[t] + grain ELSE end
    <3>1. lo[t] + grain \in Nat /\ lo[t] + grain < 2 ^ Width
      BY <1>0, <1>1, <2>1, WidthCounts
    <3> QED BY <3>1, WrapSmall
  <2> HIDE DEF hi
  <2>3. \E m \in Nat : /\ cursor' = begin + m * grain
                      /\ m <= BatchCount + Cardinality(OverTasks')
    <3>1. PICK m \in Nat : cursor = begin + m * grain /\ m <= BatchCount + Cardinality(OverTasks)
      BY <2>0 DEF ChunkInv
    <3>2. OverTasks' = IF place = "complete" THEN OverTasks \cup {t} ELSE OverTasks
      BY <1>0, <1>3, <1>4 DEF OverTasks
    <3>3. OverTasks \in SUBSET TaskIds /\ t \in TaskIds \ OverTasks /\ BatchCount \in Nat
      BY <1>0, <1>7, BatchCountType DEF OverTasks
    <3>4. Cardinality(OverTasks) \in Nat /\ Cardinality(OverTasks \cup {t}) = Cardinality(OverTasks) + 1
      BY <3>3, OverCount
    <3>5. m <= BatchCount + Cardinality(OverTasks')
      <4>1. CASE OverTasks' = OverTasks
        BY <3>1, <4>1
      <4>2. CASE OverTasks' = OverTasks \cup {t}
        <5>1. Cardinality(OverTasks') = Cardinality(OverTasks) + 1
          BY <3>4, <4>2
        <5> QED BY <3>1, <3>3, <3>4, <5>1
      <4> QED BY <3>2, <4>1, <4>2
    <3> QED BY <1>2, <3>1, <3>5
  <2>4. \A u \in TaskIds : tpc'[u] = "run" <=> u # t /\ tpc[u] = "run"
    BY <1>3, <1>4
  <2>5. ASSUME NEW i \in Size
        PROVE  calls'[i] = IF begin <= i /\ i < end /\ i < cursor
                              /\ ~\E u \in TaskIds : tpc'[u] = "run" /\ lo[u] <= i /\ i < lo[u] + grain
                           THEN 1 ELSE 0
    <3>1. calls[i] = IF begin <= i /\ i < end /\ i < cursor
                        /\ ~\E u \in TaskIds : tpc[u] = "run" /\ lo[u] <= i /\ i < lo[u] + grain
                     THEN 1 ELSE 0
      BY <2>0 DEF ChunkInv, InHand
    <3>2. i \in Nat
      BY SizeCounts
    <3>3. CASE lo[t] <= i /\ i < hi
      <4>1. calls[i] = 0
        BY <1>0, <1>1, <2>1, <2>2, <3>1, <3>2, <3>3
      <4>2. calls'[i] = 1
        BY <1>5, <3>3, <4>1 DEF Again
      <4>3. begin <= i /\ i < end /\ i < cursor
        BY <1>0, <1>1, <2>1, <2>2, <3>2, <3>3
      <4>4. ASSUME NEW u \in TaskIds, tpc'[u] = "run"
            PROVE  ~(lo[u] <= i /\ i < lo[u] + grain)
        <5>1. u # t /\ tpc[u] = "run"
          BY <2>4, <4>4
        <5>2. lo[u] + grain <= lo[t] \/ lo[t] + grain <= lo[u]
          BY <1>0, <2>1, <5>1
        <5>3. i < lo[t] + grain
          BY <1>1, <2>1, <2>2, <3>2, <3>3
        <5> QED BY <1>1, <2>1, <3>2, <3>3, <5>2, <5>3
      <4> QED BY <4>2, <4>3, <4>4
    <3>4. CASE ~(lo[t] <= i /\ i < hi)
      <4>1. calls'[i] = calls[i]
        BY <1>5, <3>4
      <4>2. i < end => ~(lo[t] <= i /\ i < lo[t] + grain)
        BY <1>1, <2>1, <2>2, <3>2, <3>4
      <4>3. i < end => ((\E u \in TaskIds : tpc'[u] = "run" /\ lo[u] <= i /\ i < lo[u] + grain)
                        <=> (\E u \in TaskIds : tpc[u] = "run" /\ lo[u] <= i /\ i < lo[u] + grain))
        BY <2>4, <4>2
      <4> QED BY <3>1, <4>1, <4>3
    <3> QED BY <3>3, <3>4
  <2>6. \A u \in TaskIds : tpc'[u] = "complete" /\ u \notin threw' => cursor >= end
    <3>1. \A u \in TaskIds : tpc[u] = "complete" /\ u \notin threw => cursor >= end
      BY <2>0 DEF ChunkInv
    <3> QED BY <1>3, <1>4, <3>1
  <2>7. BatchCount' = BatchCount
    BY <1>2 DEF BatchCount
  <2> QED BY <1>2, <2>0, <2>1, <2>3, <2>4, <2>5, <2>6, <2>7 DEF ChunkInv, InHand
<1>9. CoverInv'
  <2>1. NoOverflow' <=> NoOverflow
    BY <1>2 DEF NoOverflow
  <2> QED BY <1>1, <1>2, <1>7, <1>8, <2>1 DEF CoverInv
<1> QED BY <1>6, <1>7, <1>9 DEF LoopIInv

-----------------------------------------------------------------------------
(* Every step keeps the invariant.                                         *)
LEMMA LoopNextInv == LoopIInv /\ [LoopNext]_loopVars => LoopIInv'
<1> SUFFICES ASSUME LoopIInv, [LoopNext]_loopVars PROVE LoopIInv'
  OBVIOUS
<1>1. ASSUME UNCHANGED loopVars PROVE LoopIInv'
  <2>1. UNCHANGED <<begin, end, grain, cursor, cpc, tasks, next, tpc, lo, threw, calls>>
    BY <1>1 DEF loopVars, args
  <2>2. LoopTypeInv' /\ CallInv'
    BY <2>1 DEF LoopIInv, LoopTypeInv, CallInv
  <2>3. ChunkInv' <=> ChunkInv
    BY <2>1 DEF ChunkInv, BatchCount, OverTasks, InHand
  <2>4. CoverInv'
    BY <2>1, <2>3 DEF LoopIInv, CoverInv, NoOverflow
  <2> QED BY <2>2, <2>4 DEF LoopIInv
<1>2. ASSUME NEW t \in TaskIds, Claim(t) \/ RunBody(t) PROVE LoopIInv'
  BY <1>2, ClaimStep, RunBodyStep
<1> QED BY <1>1, <1>2, ReturnAtOnceStep, PrepareStep, SubmitTaskStep, WaitSteps
        DEF LoopNext, LoopOver

(* So LoopIInv holds throughout.                                           *)
LEMMA LoopInvariance == LoopSpec => []LoopIInv
BY LoopInitInv, LoopNextInv, PTL DEF LoopSpec

(* NoTaskOutlivesCall: once parallel_for() has returned no task is left    *)
(* that could touch the cursor on the caller's stack.                      *)
THEOREM CallWaitsForTasks == LoopSpec => []NoTaskOutlivesCall
<1>1. LoopIInv => NoTaskOutlivesCall
  <2> SUFFICES ASSUME LoopIInv, cpc = "returned", NEW t \in TaskIds
               PROVE  tpc[t] \in {"none", "complete"}
    BY DEF NoTaskOutlivesCall
  <2>1. LoopTypeInv /\ CallInv /\ begin \in Nat /\ end \in Nat
    BY SizeCounts DEF LoopIInv, LoopTypeInv
  <2>2. CASE begin >= end
    BY <2>1, <2>2 DEF CallInv
  <2>3. CASE begin < end
    BY <2>1, <2>3 DEF CallInv, LoopTypeInv, TaskIds
  <2> QED BY <2>1, <2>2, <2>3
<1> QED BY <1>1, LoopInvariance, PTL

(* Some task that did not throw found the cursor past the end.             *)
LEMMA SomeTaskSawEnd ==
    ASSUME LoopTypeInv, CallInv, ChunkInv, cpc = "returned", begin < end,
           Cardinality(threw) < tasks
    PROVE  cursor >= end
<1>1. /\ tasks \in Nat /\ 1 .. tasks \subseteq TaskIds
      /\ \A t \in 1 .. tasks : tpc[t] = "complete"
  <2>1. tasks \in 0 .. WorkerCount /\ next > tasks /\ next \in Nat /\ WorkerCount \in Nat
    BY LoopAssumption DEF LoopTypeInv, CallInv
  <2>2. 1 .. tasks \subseteq TaskIds
    BY <2>1 DEF TaskIds
  <2> QED BY <2>1, <2>2 DEF CallInv, LoopTypeInv
<1>2. PICK t \in 1 .. tasks : t \notin threw
  <2> SUFFICES ASSUME 1 .. tasks \subseteq threw PROVE FALSE
    OBVIOUS
  <2>1. threw \in SUBSET TaskIds
    BY DEF LoopTypeInv
  <2>2. IsFiniteSet(threw) /\ Cardinality(threw) \in Nat
    BY <2>1, OverCount
  <2>3. Cardinality(1 .. tasks) = tasks
    BY <1>1, FS_Interval
  <2>4. Cardinality(1 .. tasks) <= Cardinality(threw)
    BY <2>2, FS_Subset
  <2> QED BY <1>1, <2>2, <2>3, <2>4
<1> QED BY <1>1, <1>2 DEF ChunkInv

(* CoveredWithoutOverflow: whichever tasks claim the chunks and whichever  *)
(* bodies throw, each index of the range is given to the body once and no  *)
(* other is, for every range, grain, width and number of workers for which *)
(* no sum wraps.                                                           *)
THEOREM EachIndexOnce == LoopSpec => []CoveredWithoutOverflow
<1>1. LoopIInv => CoveredWithoutOverflow
  <2> SUFFICES ASSUME LoopIInv, NoOverflow PROVE Covered
    BY DEF CoveredWithoutOverflow
  <2>1. LoopTypeInv /\ CallInv /\ CoverInv /\ begin \in Nat /\ end \in Nat
    BY SizeCounts DEF LoopIInv, LoopTypeInv
  <2>2. CASE cpc = "called" \/ begin >= end
    <3>1. \A i \in Size : calls[i] = 0
      BY <2>1, <2>2 DEF CoverInv
    <3>2. ~(cpc = "returned" /\ begin < end)
      BY <2>1, <2>2
    <3> QED BY <3>1, <3>2 DEF Covered
  <2>3. CASE cpc # "called" /\ begin < end
    <3>1. ChunkInv
      BY <2>1, <2>3 DEF CoverInv
    <3>2. \A i \in Size : calls[i] <= 1 /\ (calls[i] = 1 => begin <= i /\ i < end)
      <4> TAKE i \in Size
      <4>1. calls[i] = 0 \/ (calls[i] = 1 /\ begin <= i /\ i < end)
        BY <3>1 DEF ChunkInv
      <4> QED BY <4>1
    <3>3. ASSUME cpc = "returned", tasks = 0 \/ Cardinality(threw) < tasks, NEW i \in begin .. end - 1
          PROVE  calls[i] = 1
      <4>1. tasks # 0
        BY <3>1 DEF ChunkInv
      <4>2. cursor >= end /\ cursor \in Nat
        BY <2>1, <2>3, <3>1, <3>3, <4>1, SomeTaskSawEnd, SizeCounts DEF LoopTypeInv
      <4>3. i \in Size /\ begin <= i /\ i < end /\ i < cursor
        <5>1. end < 2 ^ Width /\ 2 ^ Width \in Nat
          BY <2>1, SizeCounts DEF LoopTypeInv
        <5> QED BY <2>1, <4>2, <5>1 DEF Size
      <4>4. \A t \in TaskIds : tpc[t] # "run"
        BY <2>1, <2>3, <3>3 DEF CallInv, LoopTypeInv, TaskIds
      <4> QED BY <3>1, <4>3, <4>4 DEF ChunkInv, InHand
    <3> QED BY <3>2, <3>3 DEF Covered
  <2> QED BY <2>1, <2>2, <2>3
<1> QED BY <1>1, LoopInvariance, PTL

-----------------------------------------------------------------------------
(* Task graphs.                                                            *)

(* Where x occurs in s, and how often. *)
Places(s, x) == {i \in DOMAIN s : s[i] = x}
Occurs(s, x) == Cardinality(Places(s, x))

GraphTypeInv ==
    /\ nodeCount \in 0 .. MaxNodes
    /\ predecessors \in [NodeIds -> Seq(Nodes)] /\ successors \in [NodeIds -> Seq(Nodes)]
    /\ gpc \in {"build", "kahn", "submit", "wait", "returned", "refused"}
    /\ remaining \in [NodeIds -> Int]
    /\ ready \in Seq(Nodes) /\ order \in Seq(Nodes) /\ visiting \in Seq(Nodes)
    /\ handles \in [NodeIds -> NodeIds \cup {NoHandle}]
    /\ waiting \in Seq(NodeIds \cup {NoHandle})
    /\ phase \in [NodeIds -> {"none", "submitted", "running", "finished"}]
    /\ after \in [NodeIds -> SUBSET NodeIds]

(* Every edge is in the lists of both its ends, as often.                  *)
EdgeInv == \A u, n \in NodeIds : Occurs(predecessors[n], u) = Occurs(successors[u], n)

(* Nothing has been submitted before the graph has been sorted.            *)
StartInv ==
    /\ gpc \in {"build", "kahn", "refused"} => \A n \in NodeIds : phase[n] = "none"
    /\ gpc \in {"build", "kahn", "refused"} => handles = [n \in NodeIds |-> NoHandle]
    /\ gpc = "build" => ready = << >> /\ order = << >> /\ visiting = << >>

(* The edges of n whose other end is not in the order yet. *)
Missing(n) == {i \in DOMAIN predecessors[n] : predecessors[n][i] \notin ToSet(order)}

NoRepeats(s) == \A i, j \in DOMAIN s : s[i] = s[j] => i = j

(* Kahn's algorithm: a count is the edges not yet counted down; the nodes  *)
(* whose count is zero are ready or in the order, once, and in the order a *)
(* node comes after its predecessors.                                      *)
KahnInv ==
    gpc = "kahn" =>
        /\ \A n \in Nodes : remaining[n] = Cardinality(Missing(n)) + Occurs(visiting, n)
        /\ \A n \in Nodes : remaining[n] = 0 <=> n \in ToSet(ready) \cup ToSet(order)
        /\ NoRepeats(ready) /\ NoRepeats(order) /\ ToSet(ready) \cap ToSet(order) = {}
        /\ \A k \in DOMAIN order : \A p \in Before(order[k]) : \E j \in 1 .. k - 1 : order[j] = p

(* The nodes still to be submitted are those in the order, the others have *)
(* their own handles; a predecessor has one or comes earlier in the order. *)
SubmitInv ==
    gpc = "submit" =>
        /\ NoRepeats(order)
        /\ \A n \in Nodes : IF n \in ToSet(order) THEN handles[n] = NoHandle /\ phase[n] = "none"
                                                  ELSE handles[n] = n /\ phase[n] # "none"
        /\ \A k \in DOMAIN order : \A p \in Before(order[k]) :
              p \in ToSet(order) => \E j \in 1 .. k - 1 : order[j] = p

(* A node that was submitted was submitted after its predecessors, and has *)
(* not started before they finished.                                       *)
AfterInv ==
    \A n \in NodeIds :
        /\ phase[n] # "none" => after[n] = Before(n)
        /\ phase[n] \in {"running", "finished"} => \A p \in after[n] : phase[p] = "finished"

(* submit_and_wait() has still to wait for the nodes that have not finished *)
WaitInv ==
    /\ gpc = "wait" => \A n \in Nodes : phase[n] = "finished" \/ n \in ToSet(waiting)
    /\ gpc = "wait" => NoHandle \notin ToSet(waiting)
    /\ gpc = "returned" => \A n \in Nodes : phase[n] = "finished"

GraphIInv ==
    /\ GraphTypeInv /\ EdgeInv /\ StartInv /\ KahnInv
    /\ CycleVerdict /\ SubmitInv /\ AfterInv /\ WaitInv

-----------------------------------------------------------------------------
(* Counting the places of a value in a sequence.                           *)

(* The places are finite; a value that occurs nowhere is not in the        *)
(* sequence.                                                               *)
LEMMA PlacesFinite ==
    ASSUME NEW S, NEW s \in Seq(S), NEW x
    PROVE  /\ IsFiniteSet(Places(s, x)) /\ Occurs(s, x) \in Nat
           /\ Occurs(s, x) = 0 <=> x \notin ToSet(s)
<1>1. DOMAIN s = 1 .. Len(s) /\ Len(s) \in Nat
  OBVIOUS
<1>2. IsFiniteSet(DOMAIN s)
  BY <1>1, FS_Interval
<1>3. Places(s, x) \in SUBSET DOMAIN s
  BY DEF Places
<1>4. IsFiniteSet(Places(s, x))
  BY <1>2, <1>3, FS_Subset
<1>5. Occurs(s, x) \in Nat /\ (Occurs(s, x) = 0 <=> Places(s, x) = {})
  BY <1>4, FS_CardinalityType, FS_EmptySet DEF Occurs
<1>6. Places(s, x) = {} <=> x \notin ToSet(s)
  BY DEF Places, ToSet
<1> QED BY <1>4, <1>5, <1>6

(* An element appended occurs once more.                                   *)
LEMMA OccursAppend ==
    ASSUME NEW S, NEW s \in Seq(S), NEW y \in S, NEW x
    PROVE  Occurs(Append(s, y), x) = IF x = y THEN Occurs(s, x) + 1 ELSE Occurs(s, x)
<1>1. /\ DOMAIN s = 1 .. Len(s) /\ Len(s) \in Nat
      /\ DOMAIN Append(s, y) = 1 .. Len(s) + 1
      /\ \A i \in 1 .. Len(s) : Append(s, y)[i] = s[i]
      /\ Append(s, y)[Len(s) + 1] = y
  OBVIOUS
<1>2. Places(Append(s, y), x) = IF x = y THEN Places(s, x) \cup {Len(s) + 1} ELSE Places(s, x)
  BY <1>1 DEF Places
<1>3. Len(s) + 1 \notin Places(s, x)
  BY <1>1 DEF Places
<1>4. IsFiniteSet(Places(s, x))
  BY PlacesFinite
<1>5. Cardinality(Places(s, x) \cup {Len(s) + 1}) = Cardinality(Places(s, x)) + 1
  BY <1>3, <1>4, FS_AddElement
<1> QED BY <1>2, <1>5 DEF Occurs

(* The element taken off the front occurs once less.                       *)
LEMMA OccursTail ==
    ASSUME NEW S, NEW s \in Seq(S), s # << >>, NEW x
    PROVE  Occurs(Tail(s), x) = IF x = Head(s) THEN Occurs(s, x) - 1 ELSE Occurs(s, x)
<1>1. /\ DOMAIN s = 1 .. Len(s) /\ Len(s) \in Nat \ {0} /\ 1 \in DOMAIN s /\ Head(s) = s[1]
      /\ Tail(s) \in Seq(S)
      /\ DOMAIN Tail(s) = 1 .. Len(s) - 1
      /\ \A i \in 1 .. Len(s) - 1 : Tail(s)[i] = s[i + 1]
  OBVIOUS
<1> DEFINE T == Places(Tail(s), x)
           P == Places(s, x) \ {1}
           f == [i \in T |-> i + 1]
<1>2. \A i \in T : i \in Int /\ i + 1 \in P
  BY <1>1 DEF Places
<1>3. \A j \in P : j \in Int /\ j - 1 \in T /\ (j - 1) + 1 = j
  BY <1>1 DEF Places
<1>4. IsFiniteSet(T) /\ IsFiniteSet(Places(s, x))
  BY <1>1, PlacesFinite
<1> HIDE DEF T, P
<1>5. f \in Bijection(T, P)
  <2>1. f \in [T -> P] /\ \A i \in T : f[i] = i + 1
    BY <1>2
  <2>2. \A i, j \in T : f[i] = f[j] => i = j
    BY <1>2, <2>1
  <2>3. \A j \in P : \E i \in T : f[i] = j
    BY <1>3, <2>1
  <2> HIDE DEF f
  <2> QED BY <2>1, <2>2, <2>3 DEF Bijection, Injection, Surjection, IsInjective
<1>6. Cardinality(P) = Cardinality(T)
  BY <1>4, <1>5, FS_Bijection DEF ExistsBijection
<1>7. Cardinality(P) = IF 1 \in Places(s, x) THEN Cardinality(Places(s, x)) - 1
                                             ELSE Cardinality(Places(s, x))
  BY <1>4, FS_RemoveElement DEF P
<1>8. 1 \in Places(s, x) <=> x = Head(s)
  BY <1>1 DEF Places
<1> QED BY <1>6, <1>7, <1>8 DEF Occurs, T

-----------------------------------------------------------------------------
(* A finite set of numbers has an ascending enumeration: a number's place  *)
(* is how many there are up to it.                                         *)
LEMMA AscendingEnumerates ==
    ASSUME NEW S, \A x \in S : x \in Nat, IsFiniteSet(S)
    PROVE  Ascending(S) \in Seq(S) /\ NoRepeats(Ascending(S)) /\ ToSet(Ascending(S)) = S
<1> DEFINE n == Cardinality(S)
           D == 1 .. n
           Upto(x) == {y \in S : y <= x}
           f == [x \in S |-> Cardinality(Upto(x))]
           g == [k \in D |-> CHOOSE x \in S : f[x] = k]
<1>0. \A x \in S : x \in Nat
  OBVIOUS
<1>1. n \in Nat /\ IsFiniteSet(D) /\ Cardinality(D) = n
  BY FS_CardinalityType, FS_Interval
<1>2. \A x \in S : IsFiniteSet(Upto(x)) /\ Cardinality(Upto(x)) \in D
  <2> TAKE x \in S
  <2>1. Upto(x) \in SUBSET S /\ x \in Upto(x)
    OBVIOUS
  <2> HIDE DEF Upto
  <2>2. IsFiniteSet(Upto(x)) /\ Cardinality(Upto(x)) <= n
    BY <2>1, FS_Subset
  <2>3. Cardinality(Upto(x)) \in Nat /\ Cardinality(Upto(x)) # 0
    BY <2>1, <2>2, FS_CardinalityType, FS_EmptySet
  <2> QED BY <1>1, <2>2, <2>3
<1>3. \A x, y \in S : x < y => Cardinality(Upto(x)) < Cardinality(Upto(y))
  <2> SUFFICES ASSUME NEW x \in S, NEW y \in S, x < y
               PROVE  Cardinality(Upto(x)) < Cardinality(Upto(y))
    OBVIOUS
  <2>1. Upto(x) \in SUBSET Upto(y) /\ y \in Upto(y) /\ y \notin Upto(x)
    BY <1>0
  <2>2. IsFiniteSet(Upto(y)) /\ Cardinality(Upto(x)) \in Int /\ Cardinality(Upto(y)) \in Int
    BY <1>2
  <2> HIDE DEF Upto
  <2>3. Cardinality(Upto(x)) <= Cardinality(Upto(y)) /\ Cardinality(Upto(x)) # Cardinality(Upto(y))
    BY <2>1, <2>2, FS_Subset
  <2> QED BY <2>2, <2>3
<1> HIDE DEF n
<1>4. f \in [S -> D] /\ \A x \in S : f[x] = Cardinality(Upto(x))
  BY <1>2
<1> HIDE DEF f, Upto
<1>5. \A x, y \in S : (x < y => f[x] < f[y]) /\ f[x] \in Nat
  BY <1>1, <1>3, <1>4
<1>6. \A x, y \in S : f[x] = f[y] => x = y
  BY <1>5
<1>7. \A k \in D : \E x \in S : f[x] = k
  <2>1. f \in Injection(S, D)
    BY <1>4, <1>6 DEF Injection, IsInjective
  <2>2. f \in Surjection(S, D)
    BY <1>1, <2>1, FS_Injection DEF n
  <2> QED BY <2>2 DEF Surjection
<1>8. g \in [D -> S] /\ \A k \in D : f[g[k]] = k
  BY <1>7
<1> HIDE DEF g
<1>9. ASSUME NEW i \in D, NEW j \in D, i < j PROVE g[i] < g[j]
  <2>1. g[i] \in S /\ g[j] \in S /\ f[g[i]] = i /\ f[g[j]] = j
    BY <1>8
  <2>2. g[i] \in Nat /\ g[j] \in Nat /\ i \in Nat /\ j \in Nat
    BY <1>0, <1>1, <2>1
  <2>3. ~(g[j] < g[i]) /\ g[i] # g[j]
    BY <1>5, <1>9, <2>1, <2>2
  <2> QED BY <2>2, <2>3
<1> DEFINE a == Ascending(S)
<1>10. a \in [D -> S] /\ \A i, j \in D : i < j => a[i] < a[j]
  BY <1>8, <1>9 DEF Ascending, n
<1> HIDE DEF a
<1>11. a \in Seq(S) /\ DOMAIN a = D
  BY <1>1, <1>10
<1>12. \A i, j \in D : a[i] = a[j] => i = j
  <2> TAKE i, j \in D
  <2>1. a[i] \in Nat /\ a[j] \in Nat /\ i \in Nat /\ j \in Nat
    BY <1>0, <1>1, <1>10
  <2>2. (i < j => a[i] < a[j]) /\ (j < i => a[j] < a[i])
    BY <1>10
  <2> QED BY <2>1, <2>2
<1>13. ToSet(a) = S
  <2>1. a \in Injection(D, S)
    BY <1>10, <1>12 DEF Injection, IsInjective
  <2>2. a \in Surjection(D, S)
    BY <1>1, <2>1, FS_Injection DEF n
  <2> QED BY <1>11, <2>2, <1>10 DEF Surjection, ToSet
<1> QED BY <1>11, <1>12, <1>13 DEF NoRepeats, a

-----------------------------------------------------------------------------
(* A sequence over a set is one over any larger set.                       *)
LEMMA SeqGrows ==
    ASSUME NEW A, NEW B, A \subseteq B, NEW s \in Seq(A)
    PROVE  s \in Seq(B)
OBVIOUS

(* The nodes are the first nodeCount ids.                                  *)
LEMMA GraphFacts ==
    ASSUME GraphTypeInv
    PROVE  /\ Nodes \subseteq NodeIds /\ \A n \in NodeIds : n \in Nat
           /\ IsFiniteSet(Nodes) /\ Cardinality(Nodes) = nodeCount /\ nodeCount \in Nat
           /\ \A n \in NodeIds : Before(n) \subseteq Nodes /\ Before(n) \subseteq NodeIds
           /\ NoHandle \notin NodeIds
<1>1. MaxNodes \in Nat /\ nodeCount \in 0 .. MaxNodes /\ NoHandle \notin NodeIds
  BY GraphAssumption DEF GraphTypeInv, NodeIds
<1>2. Nodes \subseteq NodeIds /\ \A n \in NodeIds : n \in Nat
  BY <1>1 DEF Nodes, NodeIds
<1>3. IsFiniteSet(Nodes) /\ Cardinality(Nodes) = nodeCount
  BY <1>1, FS_Interval DEF Nodes
<1>4. \A n \in NodeIds : Before(n) \subseteq Nodes
  BY DEF GraphTypeInv, Before, ToSet
<1> QED BY <1>1, <1>2, <1>3, <1>4

(* The invariant holds at the start.                                       *)
LEMMA GraphInitInv == Init => GraphIInv
<1> SUFFICES ASSUME Init PROVE GraphIInv
  OBVIOUS
<1> USE DEF Init, Runtime!Init
<1>1. GraphTypeInv
  BY GraphAssumption DEF GraphTypeInv
<1>2. EdgeInv
  <2>1. << >> \in Seq({}) /\ ToSet(<< >>) = {}
    BY DEF ToSet
  <2>2. \A x : Occurs(<< >>, x) = 0
    BY <2>1, PlacesFinite
  <2> QED BY <2>2 DEF EdgeInv
<1>3. StartInv /\ KahnInv /\ CycleVerdict /\ SubmitInv /\ WaitInv
  BY DEF StartInv, KahnInv, CycleVerdict, SubmitInv, WaitInv
<1>4. AfterInv
  BY DEF AfterInv
<1> QED BY <1>1, <1>2, <1>3, <1>4 DEF GraphIInv

(* Before anything is submitted the rest is about nothing.                 *)
LEMMA StillBuilding ==
    ASSUME StartInv, gpc = "build", UNCHANGED <<gpc, kahnVars, callVars, phase, after>>
    PROVE  (StartInv /\ KahnInv /\ CycleVerdict /\ SubmitInv /\ AfterInv /\ WaitInv)'
<1>1. StartInv'
  BY DEF StartInv, kahnVars, callVars
<1>2. (KahnInv /\ CycleVerdict /\ SubmitInv /\ WaitInv)'
  BY DEF KahnInv, CycleVerdict, SubmitInv, WaitInv
<1>3. AfterInv'
  BY <1>1 DEF StartInv, AfterInv
<1> QED BY <1>1, <1>2, <1>3

(* Add.                                                                    *)
LEMMA AddStep == GraphIInv /\ Add => GraphIInv'
<1> SUFFICES ASSUME GraphIInv, Add PROVE GraphIInv'
  OBVIOUS
<1>0. GraphTypeInv /\ EdgeInv /\ StartInv
  BY DEF GraphIInv
<1>1. /\ gpc = "build" /\ nodeCount < MaxNodes /\ nodeCount' = nodeCount + 1
      /\ UNCHANGED <<predecessors, successors, edgeCount, gpc, remaining, ready, order, visiting,
                     handles, waiting, phase, after, kahnVars, callVars>>
  BY DEF Add, kahnVars, callVars
<1>2. Nodes \subseteq Nodes' /\ nodeCount' \in 0 .. MaxNodes
  BY <1>0, <1>1, GraphAssumption DEF Nodes, GraphTypeInv
<1>3. GraphTypeInv'
  <2>1. \A n \in NodeIds : predecessors[n] \in Seq(Nodes') /\ successors[n] \in Seq(Nodes')
    BY <1>0, <1>2, SeqGrows DEF GraphTypeInv
  <2>2. predecessors' \in [NodeIds -> Seq(Nodes')] /\ successors' \in [NodeIds -> Seq(Nodes')]
    BY <1>0, <1>1, <2>1 DEF GraphTypeInv
  <2>3. ready' \in Seq(Nodes') /\ order' \in Seq(Nodes') /\ visiting' \in Seq(Nodes')
    BY <1>0, <1>1, <1>2, SeqGrows DEF GraphTypeInv
  <2> HIDE DEF Nodes
  <2> QED BY <1>0, <1>1, <1>2, <2>2, <2>3 DEF GraphTypeInv
<1>4. EdgeInv'
  BY <1>0, <1>1 DEF EdgeInv
<1> QED BY <1>0, <1>1, <1>3, <1>4, StillBuilding DEF GraphIInv

(* AddEdge: the edge is put in both lists.                                 *)
LEMMA AddEdgeStep ==
    ASSUME GraphIInv, NEW b \in 0 .. MaxNodes, NEW n \in 0 .. MaxNodes, AddEdge(b, n)
    PROVE  GraphIInv'
<1>0. GraphTypeInv /\ EdgeInv /\ StartInv
  BY DEF GraphIInv
<1>1. /\ gpc = "build"
      /\ UNCHANGED <<nodeCount, gpc, remaining, ready, order, visiting,
                     handles, waiting, phase, after, kahnVars, callVars>>
  BY DEF AddEdge, kahnVars, callVars
<1>2. GraphTypeInv' /\ EdgeInv'
  <2>1. CASE UNCHANGED <<predecessors, successors>>
    BY <1>0, <1>1, <2>1 DEF GraphTypeInv, EdgeInv, Nodes
  <2>2. CASE /\ b < nodeCount /\ n < nodeCount
             /\ predecessors' = [predecessors EXCEPT ![n] = Append(@, b)]
             /\ successors' = [successors EXCEPT ![b] = Append(@, n)]
    <3>1. b \in Nodes /\ n \in Nodes /\ b \in NodeIds /\ n \in NodeIds
      BY <1>0, <2>2, GraphAssumption, GraphFacts DEF Nodes, GraphTypeInv
    <3>2. /\ predecessors[n] \in Seq(Nodes) /\ successors[b] \in Seq(Nodes)
          /\ Append(predecessors[n], b) \in Seq(Nodes) /\ Append(successors[b], n) \in Seq(Nodes)
      BY <1>0, <3>1 DEF GraphTypeInv
    <3>3. \A m \in NodeIds :
              /\ predecessors'[m] = IF m = n THEN Append(predecessors[n], b) ELSE predecessors[m]
              /\ successors'[m] = IF m = b THEN Append(successors[b], n) ELSE successors[m]
      BY <1>0, <2>2 DEF GraphTypeInv
    <3>4. /\ predecessors' \in [NodeIds -> Seq(Nodes)] /\ successors' \in [NodeIds -> Seq(Nodes)]
          /\ Nodes' = Nodes
      BY <1>0, <1>1, <2>2, <3>2 DEF GraphTypeInv, Nodes
    <3>5. GraphTypeInv'
      BY <1>0, <1>1, <3>4 DEF GraphTypeInv
    <3>6. \A u : /\ Occurs(Append(predecessors[n], b), u) =
                        IF u = b THEN Occurs(predecessors[n], u) + 1 ELSE Occurs(predecessors[n], u)
                 /\ Occurs(Append(successors[b], n), u) =
                        IF u = n THEN Occurs(successors[b], u) + 1 ELSE Occurs(successors[b], u)
      BY <3>1, <3>2, OccursAppend
    <3>7. EdgeInv'
      BY <1>0, <3>1, <3>3, <3>6 DEF EdgeInv
    <3> QED BY <3>5, <3>7
  <2> QED BY <2>1, <2>2 DEF AddEdge
<1> QED BY <1>0, <1>1, <1>2, StillBuilding DEF GraphIInv

-----------------------------------------------------------------------------
(* Queues without repetitions.                                             *)

(* What the head of a queue and its tail hold.                             *)
LEMMA TailFacts ==
    ASSUME NEW S, NEW s \in Seq(S), s # << >>
    PROVE  /\ Head(s) \in S /\ Tail(s) \in Seq(S) /\ Head(s) \in ToSet(s)
           /\ ToSet(s) = ToSet(Tail(s)) \cup {Head(s)}
           /\ NoRepeats(s) => NoRepeats(Tail(s)) /\ Head(s) \notin ToSet(Tail(s))
<1>1. /\ DOMAIN s = 1 .. Len(s) /\ Len(s) \in Nat \ {0} /\ 1 \in DOMAIN s /\ Head(s) = s[1]
      /\ s[1] \in S /\ Tail(s) \in Seq(S)
      /\ DOMAIN Tail(s) = 1 .. Len(s) - 1
      /\ \A i \in 1 .. Len(s) - 1 : Tail(s)[i] = s[i + 1]
  OBVIOUS
<1>2. \A j \in DOMAIN s : j # 1 => j - 1 \in DOMAIN Tail(s) /\ s[j] = Tail(s)[j - 1]
  BY <1>1
<1>3. \A i \in DOMAIN Tail(s) : i + 1 \in DOMAIN s /\ i + 1 # 1 /\ Tail(s)[i] = s[i + 1]
  BY <1>1
<1>4. ToSet(s) = ToSet(Tail(s)) \cup {Head(s)}
  BY <1>1, <1>2, <1>3 DEF ToSet
<1>5. ASSUME NoRepeats(s) PROVE NoRepeats(Tail(s))
  <2> SUFFICES ASSUME NEW i \in DOMAIN Tail(s), NEW j \in DOMAIN Tail(s), Tail(s)[i] = Tail(s)[j]
               PROVE  i = j
    BY DEF NoRepeats
  <2>1. i + 1 = j + 1 /\ i \in Int /\ j \in Int
    BY <1>1, <1>3, <1>5 DEF NoRepeats
  <2> QED BY <2>1
<1>6. ASSUME NoRepeats(s) PROVE Head(s) \notin ToSet(Tail(s))
  BY <1>1, <1>3, <1>6 DEF NoRepeats, ToSet
<1> QED BY <1>1, <1>4, <1>5, <1>6

(* What Append does to the elements and their places.                      *)
LEMMA AppendFacts ==
    ASSUME NEW S, NEW s \in Seq(S), NEW x \in S
    PROVE  /\ Append(s, x) \in Seq(S)
           /\ ToSet(Append(s, x)) = ToSet(s) \cup {x}
           /\ NoRepeats(s) /\ x \notin ToSet(s) => NoRepeats(Append(s, x))
<1>1. /\ DOMAIN s = 1 .. Len(s) /\ Len(s) \in Nat /\ Append(s, x) \in Seq(S)
      /\ DOMAIN Append(s, x) = 1 .. Len(s) + 1
      /\ \A i \in 1 .. Len(s) : Append(s, x)[i] = s[i]
      /\ Append(s, x)[Len(s) + 1] = x
  OBVIOUS
<1>2. DOMAIN Append(s, x) = DOMAIN s \cup {Len(s) + 1}
  BY <1>1
<1>3. ToSet(Append(s, x)) = ToSet(s) \cup {x}
  BY <1>1, <1>2 DEF ToSet
<1>4. NoRepeats(s) /\ x \notin ToSet(s) => NoRepeats(Append(s, x))
  BY <1>1, <1>2 DEF ToSet, NoRepeats
<1> QED BY <1>1, <1>3, <1>4

(* There are k numbers from 1 to k.                                        *)
LEMMA CountsUpTo == ASSUME NEW k \in Nat PROVE IsFiniteSet(1 .. k) /\ Cardinality(1 .. k) = k
BY FS_Interval

(* The edges a node still misses can be counted.                           *)
LEMMA MissingFinite ==
    ASSUME GraphTypeInv, NEW n \in NodeIds
    PROVE  /\ IsFiniteSet(Missing(n)) /\ Cardinality(Missing(n)) \in Nat
           /\ Cardinality(Missing(n)) = 0 <=> Before(n) \subseteq ToSet(order)
<1>1. IsFiniteSet(DOMAIN predecessors[n])
  <2>1. predecessors[n] \in Seq(Nodes)
    BY DEF GraphTypeInv
  <2>2. DOMAIN predecessors[n] = 1 .. Len(predecessors[n]) /\ Len(predecessors[n]) \in Nat
    BY <2>1
  <2>3. IsFiniteSet(1 .. Len(predecessors[n]))
    BY <2>2, CountsUpTo
  <2> QED BY <2>2, <2>3
<1>2. IsFiniteSet(Missing(n))
  <2>1. Missing(n) \in SUBSET DOMAIN predecessors[n]
    BY DEF Missing
  <2> QED BY <1>1, <2>1, FS_Subset
<1>3. Cardinality(Missing(n)) \in Nat /\ (Cardinality(Missing(n)) = 0 <=> Missing(n) = {})
  BY <1>2, FS_CardinalityType, FS_EmptySet
<1>4. Missing(n) = {} <=> Before(n) \subseteq ToSet(order)
  BY DEF Missing, Before, ToSet
<1> QED BY <1>2, <1>3, <1>4

(* What a step leaves alone that stays inside Kahn's algorithm.            *)
LEMMA StillSorting ==
    ASSUME StartInv, AfterInv, gpc' = "kahn", gpc \in {"build", "kahn"},
           UNCHANGED <<buildVars, callVars, phase, after>>
    PROVE  (EdgeInv <=> EdgeInv') /\ (StartInv /\ CycleVerdict /\ SubmitInv /\ AfterInv /\ WaitInv)'
<1>1. UNCHANGED <<nodeCount, predecessors, successors, handles>>
  BY DEF buildVars, callVars
<1>2. StartInv'
  BY <1>1 DEF StartInv
<1>3. (CycleVerdict /\ SubmitInv /\ WaitInv)'
  BY DEF CycleVerdict, SubmitInv, WaitInv
<1>4. AfterInv'
  BY <1>2 DEF StartInv, AfterInv
<1>5. EdgeInv <=> EdgeInv'
  BY <1>1 DEF EdgeInv
<1> QED BY <1>2, <1>3, <1>4, <1>5

(* Submit: a count is the number of predecessors, and the nodes without    *)
(* any are ready.                                                          *)
LEMMA SubmitStep == GraphIInv /\ Submit => GraphIInv'
<1> SUFFICES ASSUME GraphIInv, Submit PROVE GraphIInv'
  OBVIOUS
<1>0. GraphTypeInv /\ EdgeInv /\ StartInv /\ AfterInv
  BY DEF GraphIInv
<1> DEFINE S == {n \in Nodes : predecessors[n] = << >>}
<1>1. /\ gpc = "build" /\ gpc' = "kahn" /\ order = << >> /\ visiting = << >>
      /\ remaining' = [n \in NodeIds |-> Len(predecessors[n])]
      /\ ready' = Ascending(S)
      /\ UNCHANGED <<nodeCount, predecessors, successors, edgeCount, order, visiting, buildVars,
                     handles, waiting, callVars, phase, after>>
  BY <1>0 DEF Submit, buildVars, callVars, StartInv
<1>2. ready' \in Seq(S) /\ NoRepeats(ready') /\ ToSet(ready') = S
  <2>1. IsFiniteSet(S) /\ \A n \in S : n \in Nat
    <3>1. S \in SUBSET Nodes
      OBVIOUS
    <3> QED BY <1>0, <3>1, GraphFacts, FS_Subset
  <2> HIDE DEF S
  <2> QED BY <1>1, <2>1, AscendingEnumerates
<1>3. \A n \in NodeIds : /\ predecessors[n] \in Seq(Nodes) /\ Len(predecessors[n]) \in Nat
                         /\ DOMAIN predecessors[n] = 1 .. Len(predecessors[n])
                         /\ Len(predecessors[n]) = 0 <=> predecessors[n] = << >>
  BY <1>0 DEF GraphTypeInv
<1>4. GraphTypeInv'
  <2>1. S \subseteq Nodes
    OBVIOUS
  <2>2. ready' \in Seq(Nodes)
    BY <1>2, <2>1, SeqGrows
  <2>3. Nodes' = Nodes
    BY <1>1 DEF Nodes
  <2>4. remaining' \in [NodeIds -> Int]
    BY <1>1, <1>3
  <2> HIDE DEF S
  <2> QED BY <1>0, <1>1, <2>2, <2>3, <2>4 DEF GraphTypeInv
<1>5. KahnInv'
  <2>1. ToSet(order) = {} /\ DOMAIN order = {} /\ Nodes' = Nodes
    BY <1>1 DEF ToSet, Nodes
  <2>2. \A n \in Nodes : n \in NodeIds
    BY <1>0, GraphFacts
  <2>3. \A n \in Nodes : Missing(n)' = 1 .. Len(predecessors[n])
    BY <1>1, <1>3, <2>1, <2>2 DEF Missing
  <2>4. \A n \in Nodes : Cardinality(Missing(n)') = Len(predecessors[n])
    BY <1>3, <2>2, <2>3, CountsUpTo
  <2>5. \A n : Occurs(<< >>, n) = 0
    <3>1. << >> \in Seq({}) /\ ToSet(<< >>) = {}
      BY DEF ToSet
    <3> QED BY <3>1, PlacesFinite
  <2>6. \A n \in Nodes : remaining'[n] = Cardinality(Missing(n)') + Occurs(visiting', n)
    BY <1>1, <1>3, <2>2, <2>4, <2>5
  <2>7. \A n \in Nodes : remaining'[n] = 0 <=> n \in ToSet(ready') \cup ToSet(order')
    BY <1>1, <1>2, <1>3, <2>1, <2>2
  <2>8. NoRepeats(order')
    BY <1>1, <2>1 DEF NoRepeats
  <2> HIDE DEF S
  <2> QED BY <1>1, <1>2, <2>1, <2>6, <2>7, <2>8 DEF KahnInv
<1> HIDE DEF S
<1> QED BY <1>0, <1>1, <1>4, <1>5, StillSorting DEF GraphIInv

(* KahnTake: what the edges to the new node of the order were missing, its *)
(* list of successors now has to be counted down.                          *)
LEMMA KahnTakeStep == GraphIInv /\ KahnTake => GraphIInv'
<1> SUFFICES ASSUME GraphIInv, KahnTake PROVE GraphIInv'
  OBVIOUS
<1>0. GraphTypeInv /\ EdgeInv /\ StartInv /\ AfterInv /\ KahnInv
  BY DEF GraphIInv
<1> DEFINE u == Head(ready)
<1>1. /\ gpc = "kahn" /\ gpc' = "kahn" /\ visiting = << >> /\ ready # << >>
      /\ order' = Append(order, u) /\ visiting' = successors[u] /\ ready' = Tail(ready)
      /\ UNCHANGED <<nodeCount, predecessors, successors, edgeCount, remaining, buildVars,
                     handles, waiting, callVars, phase, after>>
  BY DEF KahnTake, buildVars, callVars
<1>2. /\ \A n \in Nodes : remaining[n] = Cardinality(Missing(n)) + Occurs(visiting, n)
      /\ \A n \in Nodes : remaining[n] = 0 <=> n \in ToSet(ready) \cup ToSet(order)
      /\ NoRepeats(ready) /\ NoRepeats(order) /\ ToSet(ready) \cap ToSet(order) = {}
      /\ \A k \in DOMAIN order : \A p \in Before(order[k]) : \E j \in 1 .. k - 1 : order[j] = p
  BY <1>0, <1>1 DEF KahnInv
<1>3. /\ ready \in Seq(Nodes) /\ order \in Seq(Nodes)
      /\ Nodes \subseteq NodeIds /\ Nodes' = Nodes
  BY <1>0, <1>1, GraphFacts DEF GraphTypeInv, Nodes
<1>4. /\ u \in Nodes /\ ready' \in Seq(Nodes) /\ u \in ToSet(ready)
      /\ ToSet(ready) = ToSet(ready') \cup {u}
      /\ NoRepeats(ready') /\ u \notin ToSet(ready')
  BY <1>1, <1>2, <1>3, TailFacts
<1> HIDE DEF u
<1>5. /\ u \notin ToSet(order) /\ order' \in Seq(Nodes)
      /\ ToSet(order') = ToSet(order) \cup {u} /\ NoRepeats(order')
  <2>1. u \notin ToSet(order)
    BY <1>2, <1>4
  <2> QED BY <1>1, <1>2, <1>3, <1>4, <2>1, AppendFacts
<1>6. successors[u] \in Seq(Nodes)
  BY <1>0, <1>3, <1>4 DEF GraphTypeInv
<1>7. GraphTypeInv'
  BY <1>0, <1>1, <1>3, <1>4, <1>5, <1>6 DEF GraphTypeInv
<1>8. \A n \in Nodes : Occurs(visiting, n) = 0
  <2>1. << >> \in Seq({}) /\ ToSet(<< >>) = {}
    BY DEF ToSet
  <2> QED BY <1>1, <2>1, PlacesFinite
<1>9. ASSUME NEW n \in Nodes
      PROVE  remaining[n] = Cardinality(Missing(n)') + Occurs(successors[u], n)
  <2>1. n \in NodeIds /\ u \in NodeIds /\ predecessors[n] \in Seq(Nodes)
    BY <1>0, <1>3, <1>4 DEF GraphTypeInv
  <2>2. Missing(n)' = Missing(n) \ Places(predecessors[n], u)
    BY <1>1, <1>5 DEF Missing, Places
  <2>3. Missing(n) \cap Places(predecessors[n], u) = Places(predecessors[n], u)
    BY <1>5 DEF Missing, Places
  <2>4. IsFiniteSet(Missing(n)) /\ Cardinality(Missing(n)) \in Nat
    BY <1>0, <2>1, MissingFinite
  <2>5. Occurs(predecessors[n], u) \in Nat /\ Occurs(predecessors[n], u) = Occurs(successors[u], n)
    BY <1>0, <2>1, PlacesFinite DEF EdgeInv
  <2>6. Cardinality(Missing(n) \ Places(predecessors[n], u)) =
            Cardinality(Missing(n)) - Cardinality(Missing(n) \cap Places(predecessors[n], u))
    BY <2>4, FS_Difference
  <2>7. Cardinality(Missing(n)') = Cardinality(Missing(n)) - Occurs(predecessors[n], u)
    BY <2>2, <2>3, <2>6 DEF Occurs
  <2>8. remaining[n] = Cardinality(Missing(n))
    BY <1>2, <1>8, <2>4
  <2> QED BY <2>4, <2>5, <2>7, <2>8
<1>10. ASSUME NEW k \in DOMAIN order', NEW p \in Before(order'[k])
       PROVE  \E j \in 1 .. k - 1 : order'[j] = p
  <2>1. /\ DOMAIN order = 1 .. Len(order) /\ Len(order) \in Nat
        /\ DOMAIN order' = 1 .. Len(order) + 1
        /\ \A i \in 1 .. Len(order) : order'[i] = order[i]
        /\ order'[Len(order) + 1] = u
    BY <1>1, <1>3, <1>4
  <2>2. CASE k \in 1 .. Len(order)
    <3>1. PICK j \in 1 .. k - 1 : order[j] = p
      BY <1>2, <1>10, <2>1, <2>2
    <3>2. j \in 1 .. Len(order)
      BY <2>1, <2>2
    <3> QED BY <2>1, <3>1, <3>2
  <2>3. CASE k = Len(order) + 1
    <3>1. u \in NodeIds /\ remaining[u] = 0
      BY <1>2, <1>3, <1>4
    <3>2. Cardinality(Missing(u)) = 0
      BY <1>2, <1>4, <1>8, <3>1, <1>0, MissingFinite
    <3>3. p \in ToSet(order)
      BY <1>0, <1>10, <2>1, <2>3, <3>1, <3>2, MissingFinite
    <3>4. PICK j \in DOMAIN order : order[j] = p
      BY <3>3 DEF ToSet
    <3> QED BY <2>1, <2>3, <3>4
  <2> QED BY <2>1, <2>2, <2>3
<1>11. \A n \in Nodes : remaining[n] = 0 <=> n \in ToSet(ready') \cup ToSet(order')
  BY <1>2, <1>4, <1>5
<1>12. \A n : Before(n)' = Before(n)
  BY <1>1 DEF Before
<1>13. ToSet(ready') \cap ToSet(order') = {}
  BY <1>2, <1>4, <1>5
<1>14. KahnInv'
  BY <1>1, <1>3, <1>4, <1>5, <1>9, <1>10, <1>11, <1>12, <1>13 DEF KahnInv
<1> QED BY <1>0, <1>1, <1>7, <1>14, StillSorting DEF GraphIInv

(* KahnVisit: a node is ready when its last edge has been counted down.    *)
LEMMA KahnVisitStep == GraphIInv /\ KahnVisit => GraphIInv'
<1> SUFFICES ASSUME GraphIInv, KahnVisit PROVE GraphIInv'
  OBVIOUS
<1>0. GraphTypeInv /\ EdgeInv /\ StartInv /\ AfterInv /\ KahnInv
  BY DEF GraphIInv
<1> DEFINE n == Head(visiting)
<1>1. /\ gpc = "kahn" /\ gpc' = "kahn" /\ visiting # << >>
      /\ remaining' = [remaining EXCEPT ![n] = @ - 1]
      /\ ready' = IF remaining[n] = 1 THEN Append(ready, n) ELSE ready
      /\ visiting' = Tail(visiting)
      /\ UNCHANGED <<nodeCount, predecessors, successors, edgeCount, order, buildVars,
                     handles, waiting, callVars, phase, after>>
  BY DEF KahnVisit, buildVars, callVars
<1>2. /\ \A m \in Nodes : remaining[m] = Cardinality(Missing(m)) + Occurs(visiting, m)
      /\ \A m \in Nodes : remaining[m] = 0 <=> m \in ToSet(ready) \cup ToSet(order)
      /\ NoRepeats(ready) /\ NoRepeats(order) /\ ToSet(ready) \cap ToSet(order) = {}
      /\ \A k \in DOMAIN order : \A p \in Before(order[k]) : \E j \in 1 .. k - 1 : order[j] = p
  BY <1>0, <1>1 DEF KahnInv
<1>3. /\ ready \in Seq(Nodes) /\ order \in Seq(Nodes) /\ visiting \in Seq(Nodes)
      /\ Nodes \subseteq NodeIds /\ Nodes' = Nodes
  BY <1>0, <1>1, GraphFacts DEF GraphTypeInv, Nodes
<1>4. n \in Nodes /\ visiting' \in Seq(Nodes) /\ n \in ToSet(visiting)
  BY <1>1, <1>3, TailFacts
<1>5. \A m : Occurs(visiting', m) = IF m = n THEN Occurs(visiting, m) - 1 ELSE Occurs(visiting, m)
  BY <1>1, <1>3, OccursTail
<1> HIDE DEF n
<1>6. \A m \in Nodes : /\ remaining'[m] = IF m = n THEN remaining[m] - 1 ELSE remaining[m]
                       /\ remaining[m] \in Int
  BY <1>0, <1>1, <1>3, <1>4 DEF GraphTypeInv
<1>7. \A m \in Nodes : /\ Missing(m)' = Missing(m) /\ Cardinality(Missing(m)) \in Nat
                       /\ Occurs(visiting, m) \in Nat
  BY <1>0, <1>1, <1>3, MissingFinite, PlacesFinite DEF Missing
<1>8. remaining[n] \in Nat \ {0} /\ n \notin ToSet(ready) \cup ToSet(order)
  <2>1. Occurs(visiting, n) # 0
    BY <1>3, <1>4, PlacesFinite
  <2>2. remaining[n] \in Nat \ {0}
    BY <1>2, <1>4, <1>7, <2>1
  <2> QED BY <1>2, <1>4, <2>2
<1>9. /\ ready' \in Seq(Nodes) /\ NoRepeats(ready')
      /\ ToSet(ready') = IF remaining[n] = 1 THEN ToSet(ready) \cup {n} ELSE ToSet(ready)
  <2>1. CASE remaining[n] = 1
    <3>1. ready' = Append(ready, n) /\ n \notin ToSet(ready)
      BY <1>1, <1>8, <2>1
    <3> QED BY <1>2, <1>3, <1>4, <2>1, <3>1, AppendFacts
  <2>2. CASE remaining[n] # 1
    BY <1>1, <1>2, <1>3, <2>2
  <2> QED BY <2>1, <2>2
<1>10. GraphTypeInv'
  <2>1. remaining' \in [NodeIds -> Int]
    <3>1. n \in NodeIds
      BY <1>3, <1>4
    <3> QED BY <1>0, <1>1, <3>1 DEF GraphTypeInv
  <2> QED BY <1>0, <1>1, <1>3, <1>4, <1>9, <2>1 DEF GraphTypeInv
<1>11. \A m \in Nodes : remaining'[m] = Cardinality(Missing(m)') + Occurs(visiting', m)
  <2> TAKE m \in Nodes
  <2>1. Cardinality(Missing(m)') = Cardinality(Missing(m))
    BY <1>7
  <2>2. remaining[m] = Cardinality(Missing(m)) + Occurs(visiting, m)
    BY <1>2
  <2>3. Cardinality(Missing(m)) \in Nat /\ Occurs(visiting, m) \in Nat
    BY <1>7
  <2> QED BY <1>5, <1>6, <2>1, <2>2, <2>3
<1>12. \A m \in Nodes : remaining'[m] = 0 <=> m \in ToSet(ready') \cup ToSet(order')
  <2> TAKE m \in Nodes
  <2>1. CASE m = n
    BY <1>1, <1>6, <1>8, <1>9, <2>1
  <2>2. CASE m # n
    BY <1>1, <1>2, <1>6, <1>9, <2>2
  <2> QED BY <2>1, <2>2
<1>13. ToSet(ready') \cap ToSet(order') = {}
  BY <1>1, <1>2, <1>8, <1>9
<1>14. \A m : Before(m)' = Before(m)
  BY <1>1 DEF Before
<1>15. KahnInv'
  BY <1>1, <1>2, <1>3, <1>9, <1>11, <1>12, <1>13, <1>14 DEF KahnInv
<1> QED BY <1>0, <1>1, <1>10, <1>15, StillSorting DEF GraphIInv

-----------------------------------------------------------------------------
(* The verdict.                                                            *)

(* A set of naturals that is not empty has a least element.                *)
LEMMA LeastNatural ==
    ASSUME NEW T, T \subseteq Nat, T # {}
    PROVE  \E x \in T : \A y \in T : ~(y < x)
<1> DEFINE R == OpToRel(<, Nat)
<1>1. \A i, j \in Nat : i < j <=> <<i, j>> \in R
  BY DEF OpToRel
<1>2. IsWellFoundedOn(R, Nat)
  BY NatLessThanWellFounded
<1> HIDE DEF R
<1>3. PICK x \in T : \A y \in T : ~(<<y, x>> \in R)
  BY <1>2, WFMin
<1>4. \A y \in T : ~(y < x)
  BY <1>1, <1>3
<1> QED BY <1>4

(* In an order of all nodes that has predecessors first there is no cycle: *)
(* of the nodes of a cycle the first in the order waits for none of them.  *)
LEMMA OrderedHasNoCycle ==
    ASSUME GraphTypeInv, Nodes \subseteq ToSet(order),
           \A k \in DOMAIN order : \A p \in Before(order[k]) : \E j \in 1 .. k - 1 : order[j] = p
    PROVE  ~HasCycle
<1> SUFFICES ASSUME NEW S \in (SUBSET Nodes) \ {{}}, \A n \in S : Before(n) \cap S # {}
             PROVE  FALSE
  BY DEF HasCycle
<1> DEFINE T == {k \in DOMAIN order : order[k] \in S}
<1>1. DOMAIN order = 1 .. Len(order) /\ Len(order) \in Nat
  BY DEF GraphTypeInv
<1>2. T \subseteq Nat
  BY <1>1
<1>3. T # {}
  BY DEF ToSet
<1> HIDE DEF T
<1>4. PICK k \in T : \A j \in T : ~(j < k)
  BY <1>2, <1>3, LeastNatural
<1>5. k \in DOMAIN order /\ order[k] \in S /\ k \in Nat
  BY <1>2, <1>4 DEF T
<1>6. PICK p \in Before(order[k]) : p \in S
  BY <1>5
<1>7. PICK j \in 1 .. k - 1 : order[j] = p
  BY <1>5, <1>6
<1>8. j \in DOMAIN order /\ j < k
  BY <1>1, <1>5, <1>7
<1>9. j \in T
  BY <1>6, <1>7, <1>8 DEF T
<1> QED BY <1>4, <1>8, <1>9

(* An order without repetitions has all nodes when it is as long as there  *)
(* are nodes, and only then.                                               *)
LEMMA FullOrder ==
    ASSUME GraphTypeInv, NoRepeats(order)
    PROVE  Len(order) = nodeCount <=> ToSet(order) = Nodes
<1>1. /\ DOMAIN order = 1 .. Len(order) /\ Len(order) \in Nat
      /\ order \in [1 .. Len(order) -> Nodes] /\ ToSet(order) \subseteq Nodes
  BY DEF GraphTypeInv, ToSet
<1>2. IsFiniteSet(Nodes) /\ Cardinality(Nodes) = nodeCount
  BY GraphFacts
<1>3. order \in Injection(1 .. Len(order), Nodes)
  BY <1>1 DEF NoRepeats, Injection, IsInjective
<1>4. order \in Surjection(1 .. Len(order), Nodes) <=> ToSet(order) = Nodes
  BY <1>1 DEF Surjection, ToSet
<1>5. Cardinality(1 .. Len(order)) = Len(order)
  BY <1>1, CountsUpTo
<1> QED BY <1>2, <1>3, <1>4, <1>5, FS_Injection

(* KahnDone.                                                               *)
LEMMA KahnDoneStep == GraphIInv /\ KahnDone => GraphIInv'
<1> SUFFICES ASSUME GraphIInv, KahnDone PROVE GraphIInv'
  OBVIOUS
<1>0. GraphTypeInv /\ EdgeInv /\ StartInv /\ AfterInv /\ KahnInv
  BY DEF GraphIInv
<1>1. /\ gpc = "kahn" /\ visiting = << >> /\ ready = << >>
      /\ gpc' = IF Len(order) = nodeCount THEN "submit" ELSE "refused"
      /\ UNCHANGED <<nodeCount, predecessors, successors, edgeCount, remaining, ready, order,
                     visiting, handles, waiting, phase, after>>
  BY DEF KahnDone, buildVars, callVars, kahnVars
<1>2. /\ \A n \in Nodes : remaining[n] = Cardinality(Missing(n)) + Occurs(visiting, n)
      /\ \A n \in Nodes : remaining[n] = 0 <=> n \in ToSet(ready) \cup ToSet(order)
      /\ NoRepeats(order)
      /\ \A k \in DOMAIN order : \A p \in Before(order[k]) : \E j \in 1 .. k - 1 : order[j] = p
  BY <1>0, <1>1 DEF KahnInv
<1>3. /\ Nodes \subseteq NodeIds /\ Nodes' = Nodes /\ \A n : Before(n)' = Before(n)
      /\ HasCycle' <=> HasCycle
  BY <1>0, <1>1, GraphFacts DEF Nodes, Before, HasCycle
<1>4. GraphTypeInv' /\ EdgeInv' /\ KahnInv'
  BY <1>0, <1>1, <1>3 DEF GraphTypeInv, EdgeInv, KahnInv
<1>5. StartInv' /\ AfterInv' /\ WaitInv'
  BY <1>0, <1>1, <1>3 DEF StartInv, AfterInv, WaitInv
<1>6. Len(order) = nodeCount <=> ToSet(order) = Nodes
  BY <1>0, <1>2, FullOrder
<1>7. CASE Len(order) = nodeCount
  <2>1. ~HasCycle
    BY <1>0, <1>2, <1>6, <1>7, OrderedHasNoCycle
  <2>2. CycleVerdict'
    BY <1>1, <1>3, <1>7, <2>1 DEF CycleVerdict
  <2>3. \A n \in Nodes : handles[n] = NoHandle /\ phase[n] = "none" /\ n \in ToSet(order)
    BY <1>0, <1>1, <1>3, <1>6, <1>7 DEF StartInv
  <2>4. SubmitInv'
    BY <1>1, <1>2, <1>3, <2>3 DEF SubmitInv
  <2> QED BY <1>4, <1>5, <2>2, <2>4 DEF GraphIInv
<1>8. CASE Len(order) # nodeCount
  <2> DEFINE S == Nodes \ ToSet(order)
  <2>1. S # {}
    <3>1. ToSet(order) \subseteq Nodes
      BY <1>0 DEF GraphTypeInv, ToSet
    <3> QED BY <1>6, <1>8, <3>1
  <2>2. ASSUME NEW n \in S PROVE Before(n) \cap S # {}
    <3>1. n \in Nodes /\ n \in NodeIds /\ remaining[n] # 0
      BY <1>1, <1>2, <1>3, <2>2 DEF ToSet
    <3>2. Occurs(visiting, n) = 0
      <4>1. << >> \in Seq({}) /\ ToSet(<< >>) = {}
        BY DEF ToSet
      <4> QED BY <1>1, <4>1, PlacesFinite
    <3>3. Cardinality(Missing(n)) # 0
      <4>1. Cardinality(Missing(n)) \in Nat /\ remaining[n] = Cardinality(Missing(n)) + 0
        BY <1>0, <1>2, <3>1, <3>2, MissingFinite
      <4> QED BY <3>1, <4>1
    <3>4. ~(Before(n) \subseteq ToSet(order)) /\ Before(n) \subseteq Nodes
      BY <1>0, <3>1, <3>3, MissingFinite, GraphFacts
    <3> QED BY <3>4
  <2> HIDE DEF S
  <2>3. S \in (SUBSET Nodes) \ {{}}
    BY <2>1 DEF S
  <2>4. HasCycle
    BY <2>2, <2>3 DEF HasCycle
  <2>5. CycleVerdict' /\ SubmitInv'
    BY <1>1, <1>3, <1>8, <2>4 DEF CycleVerdict, SubmitInv
  <2> QED BY <1>4, <1>5, <2>5 DEF GraphIInv
<1> QED BY <1>7, <1>8

-----------------------------------------------------------------------------
(* Submission.                                                             *)

(* SubmitNode: the predecessors of the first node in the order have their  *)
(* handles, so the node is submitted after all of them.                    *)
LEMMA SubmitNodeStep == GraphIInv /\ SubmitNode => GraphIInv'
<1> SUFFICES ASSUME GraphIInv, SubmitNode PROVE GraphIInv'
  OBVIOUS
<1>0. GraphTypeInv /\ EdgeInv /\ CycleVerdict /\ SubmitInv /\ AfterInv
  BY DEF GraphIInv
<1> DEFINE id == Head(order)
           deps == [i \in DOMAIN predecessors[id] |-> handles[predecessors[id][i]]]
<1>1. /\ gpc = "submit" /\ gpc' = "submit" /\ order # << >> /\ order' = Tail(order)
      /\ phase' = [phase EXCEPT ![id] = "submitted"]
      /\ after' = [after EXCEPT ![id] = ToSet(deps) \ {NoHandle}]
      /\ handles' = [handles EXCEPT ![id] = id]
      /\ UNCHANGED <<nodeCount, predecessors, successors, edgeCount, remaining, ready, visiting,
                     waiting>>
  BY DEF SubmitNode, Runtime!Submit, buildVars
<1>2. /\ NoRepeats(order)
      /\ \A n \in Nodes : IF n \in ToSet(order) THEN handles[n] = NoHandle /\ phase[n] = "none"
                                                ELSE handles[n] = n /\ phase[n] # "none"
      /\ \A k \in DOMAIN order : \A p \in Before(order[k]) :
            p \in ToSet(order) => \E j \in 1 .. k - 1 : order[j] = p
  BY <1>0, <1>1 DEF SubmitInv
<1>3. /\ Nodes \subseteq NodeIds /\ Nodes' = Nodes /\ \A n : Before(n)' = Before(n)
      /\ HasCycle' <=> HasCycle
      /\ NoHandle \notin NodeIds
  BY <1>0, <1>1, GraphFacts DEF Nodes, Before, HasCycle
<1>4. /\ id \in Nodes /\ id \in NodeIds /\ order' \in Seq(Nodes) /\ id \in ToSet(order)
      /\ ToSet(order) = ToSet(order') \cup {id} /\ NoRepeats(order') /\ id \notin ToSet(order')
      /\ 1 \in DOMAIN order /\ order[1] = id
      /\ DOMAIN order = 1 .. Len(order) /\ Len(order) \in Nat
      /\ DOMAIN order' = 1 .. Len(order) - 1
      /\ \A k \in 1 .. Len(order) - 1 : order'[k] = order[k + 1]
  <2>1. order \in Seq(Nodes)
    BY <1>0 DEF GraphTypeInv
  <2>2. /\ id \in Nodes /\ order' \in Seq(Nodes) /\ id \in ToSet(order)
        /\ ToSet(order) = ToSet(order') \cup {id} /\ NoRepeats(order') /\ id \notin ToSet(order')
    BY <1>1, <1>2, <2>1, TailFacts
  <2>3. /\ 1 \in DOMAIN order /\ order[1] = id
        /\ DOMAIN order = 1 .. Len(order) /\ Len(order) \in Nat
        /\ DOMAIN order' = 1 .. Len(order) - 1
        /\ \A k \in 1 .. Len(order) - 1 : order'[k] = order[k + 1]
    BY <1>1, <2>1
  <2> QED BY <1>3, <2>2, <2>3
<1>5. \A p \in Before(id) : p \in Nodes /\ handles[p] = p /\ phase[p] # "none"
  <2> TAKE p \in Before(id)
  <2>1. p \in Nodes
    BY <1>0, <1>4, GraphFacts
  <2>2. p \notin ToSet(order)
    BY <1>2, <1>4
  <2> QED BY <1>2, <2>1, <2>2
<1>6. ToSet(deps) \ {NoHandle} = Before(id)
  <2> HIDE DEF id
  <2>1. \A i \in DOMAIN predecessors[id] : predecessors[id][i] \in Before(id)
    BY DEF Before, ToSet
  <2>2. \A i \in DOMAIN predecessors[id] : deps[i] = predecessors[id][i]
    BY <1>5, <2>1
  <2>3. ToSet(deps) = Before(id)
    BY <2>2 DEF ToSet, Before
  <2>4. NoHandle \notin Before(id)
    BY <1>3, <1>5
  <2> QED BY <2>3, <2>4
<1> HIDE DEF deps
<1>7. after' = [after EXCEPT ![id] = Before(id)] /\ Before(id) \in SUBSET NodeIds
  BY <1>0, <1>1, <1>4, <1>6, GraphFacts
<1> HIDE DEF id
<1>8. GraphTypeInv'
  BY <1>0, <1>1, <1>3, <1>4, <1>7 DEF GraphTypeInv
<1>9. \A n \in NodeIds : /\ phase'[n] = IF n = id THEN "submitted" ELSE phase[n]
                         /\ after'[n] = IF n = id THEN Before(id) ELSE after[n]
                         /\ handles'[n] = IF n = id THEN id ELSE handles[n]
  BY <1>0, <1>1, <1>7 DEF GraphTypeInv
<1>10. SubmitInv'
  <2>1. \A n \in Nodes : IF n \in ToSet(order') THEN handles'[n] = NoHandle /\ phase'[n] = "none"
                                                ELSE handles'[n] = n /\ phase'[n] # "none"
    BY <1>2, <1>3, <1>4, <1>9
  <2>2. ASSUME NEW k \in DOMAIN order', NEW p \in Before(order'[k]), p \in ToSet(order')
        PROVE  \E j \in 1 .. k - 1 : order'[j] = p
    <3>1. k \in 1 .. Len(order) - 1 /\ k + 1 \in DOMAIN order /\ order'[k] = order[k + 1]
      BY <1>4
    <3>2. PICK j \in 1 .. (k + 1) - 1 : order[j] = p
      BY <1>2, <1>4, <2>2, <3>1
    <3>3. j # 1
      BY <1>4, <2>2, <3>2
    <3>4. j - 1 \in 1 .. k - 1 /\ j - 1 \in 1 .. Len(order) - 1 /\ (j - 1) + 1 = j
      BY <1>4, <3>1, <3>2, <3>3
    <3>5. order'[j - 1] = p
      BY <1>4, <3>2, <3>4
    <3> QED BY <3>4, <3>5
  <2> QED BY <1>1, <1>3, <1>4, <2>1, <2>2 DEF SubmitInv
<1>11. AfterInv'
  <2>1. phase[id] = "none"
    BY <1>2, <1>4
  <2>2. ASSUME NEW n \in NodeIds
        PROVE  /\ phase'[n] # "none" => after'[n] = Before(n)
               /\ phase'[n] \in {"running", "finished"} =>
                      \A p \in after'[n] : phase'[p] = "finished"
    <3>1. CASE n = id
      BY <1>9, <3>1
    <3>2. CASE n # id
      <4>1. phase'[n] = phase[n] /\ after'[n] = after[n]
        BY <1>9, <3>2
      <4>2. phase[n] # "none" => after[n] = Before(n)
        BY <1>0 DEF AfterInv
      <4>3. ASSUME phase[n] \in {"running", "finished"}, NEW p \in after[n]
            PROVE  phase'[p] = "finished"
        <5>1. phase[p] = "finished"
          BY <1>0, <4>3 DEF AfterInv
        <5>2. p \in NodeIds /\ p # id
          BY <1>0, <2>1, <5>1, <4>3 DEF GraphTypeInv
        <5> QED BY <1>9, <5>1, <5>2
      <4> QED BY <4>1, <4>2, <4>3
    <3> QED BY <3>1, <3>2
  <2>3. \A n \in NodeIds : Before(n)' = Before(n)
    BY <1>3
  <2> QED BY <2>2, <2>3 DEF AfterInv
<1>12. EdgeInv' /\ StartInv' /\ KahnInv' /\ CycleVerdict' /\ WaitInv'
  BY <1>0, <1>1, <1>3 DEF EdgeInv, StartInv, KahnInv, CycleVerdict, WaitInv
<1> QED BY <1>8, <1>10, <1>11, <1>12 DEF GraphIInv

(* What a step of the client leaves alone once all nodes are submitted.    *)
LEMMA StillWaiting ==
    ASSUME GraphIInv, gpc \in {"submit", "wait"}, gpc' \in {"wait", "returned"},
           UNCHANGED <<buildVars, kahnVars, handles, phase, after>>,
           waiting' \in Seq(NodeIds \cup {NoHandle}), WaitInv'
    PROVE  GraphIInv'
<1>1. UNCHANGED <<nodeCount, predecessors, successors, remaining, ready, order, visiting>>
  BY DEF buildVars, kahnVars
<1>2. Nodes' = Nodes /\ (\A n : Before(n)' = Before(n)) /\ (HasCycle' <=> HasCycle)
  BY <1>1 DEF Nodes, Before, HasCycle
<1>3. GraphTypeInv'
  BY <1>1, <1>2 DEF GraphIInv, GraphTypeInv
<1>4. EdgeInv' /\ AfterInv'
  BY <1>1, <1>2 DEF GraphIInv, EdgeInv, AfterInv
<1>5. StartInv' /\ KahnInv' /\ CycleVerdict' /\ SubmitInv'
  BY <1>1, <1>2 DEF GraphIInv, StartInv, KahnInv, CycleVerdict, SubmitInv
<1> QED BY <1>3, <1>4, <1>5 DEF GraphIInv

(* Submitted: every node is waited for, by its own handle.                 *)
LEMMA SubmittedStep == GraphIInv /\ Submitted => GraphIInv'
<1> SUFFICES ASSUME GraphIInv, Submitted PROVE GraphIInv'
  OBVIOUS
<1>0. GraphTypeInv /\ SubmitInv
  BY DEF GraphIInv
<1>1. /\ gpc = "submit" /\ gpc' = "wait" /\ order = << >>
      /\ waiting' = [i \in 1 .. nodeCount |-> handles[i - 1]]
      /\ UNCHANGED <<nodeCount, phase>> /\ UNCHANGED <<buildVars, kahnVars, handles, phase, after>>
  BY DEF Submitted, buildVars
<1>2. nodeCount \in Nat /\ Nodes \subseteq NodeIds /\ NoHandle \notin NodeIds /\ Nodes' = Nodes
  BY <1>0, <1>1, GraphFacts DEF Nodes
<1>3. \A n \in Nodes : handles[n] = n
  BY <1>0, <1>1 DEF SubmitInv, ToSet
<1>4. \A i \in 1 .. nodeCount : i - 1 \in Nodes
  BY <1>2 DEF Nodes
<1>5. \A i \in 1 .. nodeCount : waiting'[i] = i - 1 /\ waiting'[i] \in Nodes
  BY <1>1, <1>3, <1>4
<1>6. waiting' \in Seq(NodeIds \cup {NoHandle}) /\ DOMAIN waiting' = 1 .. nodeCount
  <2>1. waiting' \in [1 .. nodeCount -> NodeIds \cup {NoHandle}]
    BY <1>1, <1>2, <1>5
  <2> QED BY <1>2, <2>1
<1>7. \A n \in Nodes : n \in ToSet(waiting')
  <2> TAKE n \in Nodes
  <2>1. n + 1 \in 1 .. nodeCount /\ (n + 1) - 1 = n
    BY <1>2 DEF Nodes
  <2>2. waiting'[n + 1] = n
    BY <1>5, <2>1
  <2> QED BY <1>6, <2>1, <2>2 DEF ToSet
<1>8. NoHandle \notin ToSet(waiting')
  BY <1>2, <1>5, <1>6 DEF ToSet
<1>9. WaitInv'
  BY <1>1, <1>2, <1>7, <1>8 DEF WaitInv
<1> QED BY <1>1, <1>6, <1>9, StillWaiting

(* WaitNode: the handle waited for is that of a task, so it has finished.  *)
LEMMA WaitNodeStep == GraphIInv /\ WaitNode => GraphIInv'
<1> SUFFICES ASSUME GraphIInv, WaitNode PROVE GraphIInv'
  OBVIOUS
<1>0. GraphTypeInv /\ WaitInv
  BY DEF GraphIInv
<1>1. /\ gpc = "wait" /\ gpc' = "wait" /\ waiting # << >> /\ waiting' = Tail(waiting)
      /\ Head(waiting) # NoHandle => phase[Head(waiting)] = "finished"
      /\ UNCHANGED <<nodeCount, phase>> /\ UNCHANGED <<buildVars, kahnVars, handles, phase, after>>
  BY DEF WaitNode, buildVars
<1>2. /\ waiting' \in Seq(NodeIds \cup {NoHandle})
      /\ ToSet(waiting) = ToSet(waiting') \cup {Head(waiting)}
      /\ Head(waiting) \in ToSet(waiting)
  <2>1. waiting \in Seq(NodeIds \cup {NoHandle})
    BY <1>0 DEF GraphTypeInv
  <2> QED BY <1>1, <2>1, TailFacts
<1>3. Nodes' = Nodes
  BY <1>1 DEF Nodes
<1>4. WaitInv'
  BY <1>0, <1>1, <1>2, <1>3 DEF WaitInv
<1> QED BY <1>1, <1>2, <1>4, StillWaiting

(* Return.                                                                 *)
LEMMA ReturnStep == GraphIInv /\ Return => GraphIInv'
<1> SUFFICES ASSUME GraphIInv, Return PROVE GraphIInv'
  OBVIOUS
<1>1. /\ gpc = "wait" /\ gpc' = "returned" /\ waiting = << >>
      /\ UNCHANGED <<nodeCount, phase, waiting>>
      /\ UNCHANGED <<buildVars, kahnVars, handles, phase, after>>
  BY DEF Return, buildVars, callVars
<1>2. Nodes' = Nodes /\ waiting' \in Seq(NodeIds \cup {NoHandle})
  BY <1>1 DEF Nodes, GraphIInv, GraphTypeInv
<1>3. WaitInv'
  BY <1>1, <1>2 DEF GraphIInv, WaitInv, ToSet
<1> QED BY <1>1, <1>2, <1>3, StillWaiting

(* RuntimeStep: a task starts when those it was submitted after are over,  *)
(* and what has finished stays so.                                         *)
LEMMA RuntimeStepKeeps == GraphIInv /\ RuntimeStep => GraphIInv'
<1> SUFFICES ASSUME GraphIInv, RuntimeStep PROVE GraphIInv'
  OBVIOUS
<1>0. GraphTypeInv /\ EdgeInv /\ StartInv /\ CycleVerdict /\ SubmitInv /\ AfterInv /\ WaitInv
  BY DEF GraphIInv
<1>1. UNCHANGED <<nodeCount, predecessors, successors, edgeCount, gpc, remaining, ready, order,
                  visiting, handles, waiting, after>>
  BY DEF RuntimeStep, Runtime!Start, Runtime!Finish, buildVars, kahnVars, callVars
<1>2. PICK n \in NodeIds :
          \/ /\ phase[n] = "submitted" /\ phase' = [phase EXCEPT ![n] = "running"]
             /\ \A d \in after[n] : phase[d] = "finished"
          \/ phase[n] = "running" /\ phase' = [phase EXCEPT ![n] = "finished"]
  BY DEF RuntimeStep, Runtime!Start, Runtime!Finish
<1>3. /\ phase' \in [NodeIds -> {"none", "submitted", "running", "finished"}]
      /\ \A m \in NodeIds : m # n => phase'[m] = phase[m]
      /\ phase'[n] \in {"running", "finished"} /\ phase[n] \in {"submitted", "running"}
      /\ phase'[n] = "running" => \A d \in after[n] : phase[d] = "finished"
      /\ phase'[n] = "finished" => phase[n] = "running"
  BY <1>0, <1>2 DEF GraphTypeInv
<1>4. /\ Nodes' = Nodes /\ Nodes \subseteq NodeIds /\ (\A m : Before(m)' = Before(m))
      /\ HasCycle' <=> HasCycle
      /\ \A m \in NodeIds : after[m] \subseteq NodeIds
  BY <1>0, <1>1, GraphFacts DEF Nodes, Before, HasCycle, GraphTypeInv
<1>5. GraphTypeInv' /\ EdgeInv'
  BY <1>0, <1>1, <1>3, <1>4 DEF GraphTypeInv, EdgeInv
<1>6. gpc \notin {"build", "kahn", "refused"}
  BY <1>0, <1>3 DEF StartInv
<1>7. StartInv' /\ KahnInv' /\ CycleVerdict'
  BY <1>0, <1>1, <1>4, <1>6 DEF StartInv, KahnInv, CycleVerdict
<1>8. SubmitInv'
  BY <1>0, <1>1, <1>3, <1>4 DEF SubmitInv
<1>9. AfterInv'
  BY <1>0, <1>1, <1>3, <1>4 DEF AfterInv
<1>10. WaitInv'
  BY <1>0, <1>1, <1>3, <1>4 DEF WaitInv
<1> QED BY <1>5, <1>7, <1>8, <1>9, <1>10 DEF GraphIInv

-----------------------------------------------------------------------------
(* Every step keeps the invariant.                                         *)
LEMMA GraphNextInv == GraphIInv /\ [Next]_vars => GraphIInv'
<1> SUFFICES ASSUME GraphIInv, [Next]_vars PROVE GraphIInv'
  OBVIOUS
<1>1. ASSUME UNCHANGED vars PROVE GraphIInv'
  <2>1. UNCHANGED <<nodeCount, predecessors, successors, edgeCount, gpc, remaining, ready, order,
                    visiting, handles, waiting, phase, after>>
    BY <1>1 DEF vars
  <2>2. /\ Nodes' = Nodes /\ (\A n : Before(n)' = Before(n) /\ Missing(n)' = Missing(n))
        /\ HasCycle' <=> HasCycle
    BY <2>1 DEF Nodes, Before, HasCycle, Missing
  <2>3. GraphTypeInv' /\ EdgeInv' /\ AfterInv' /\ StartInv' /\ CycleVerdict'
    BY <2>1, <2>2
       DEF GraphIInv, GraphTypeInv, EdgeInv, AfterInv, StartInv, CycleVerdict
  <2>4. KahnInv'
    BY <2>1, <2>2 DEF GraphIInv, KahnInv
  <2>5. SubmitInv' /\ WaitInv'
    BY <2>1, <2>2 DEF GraphIInv, SubmitInv, WaitInv
  <2> QED BY <2>3, <2>4, <2>5 DEF GraphIInv
<1>2. ASSUME ClientStep PROVE GraphIInv'
  BY <1>2, KahnTakeStep, KahnVisitStep, KahnDoneStep, SubmitNodeStep, SubmittedStep, WaitNodeStep,
     ReturnStep DEF ClientStep
<1>3. ASSUME NEW b \in 0 .. MaxNodes, NEW n \in 0 .. MaxNodes, AddEdge(b, n) PROVE GraphIInv'
  BY <1>3, AddEdgeStep
<1> QED BY <1>1, <1>2, <1>3, AddStep, SubmitStep, RuntimeStepKeeps DEF Next, Over

(* So GraphIInv holds throughout.                                          *)
LEMMA GraphInvariance == Spec => []GraphIInv
BY GraphInitInv, GraphNextInv, PTL DEF Spec

(* CycleVerdict: submit() refuses the graphs with a cycle and only those.  *)
THEOREM CyclesAreRefused == Spec => []CycleVerdict
<1>1. GraphIInv => CycleVerdict
  BY DEF GraphIInv
<1> QED BY <1>1, GraphInvariance, PTL

(* RunsAfterPredecessors: no node runs before its predecessors finished.   *)
THEOREM PredecessorsComeFirst == Spec => []RunsAfterPredecessors
<1>1. GraphIInv => RunsAfterPredecessors
  <2> SUFFICES ASSUME GraphIInv, NEW n \in Nodes, phase[n] \in {"running", "finished"},
                      NEW p \in Before(n)
               PROVE  phase[p] = "finished"
    BY DEF RunsAfterPredecessors
  <2>1. n \in NodeIds /\ AfterInv
    BY GraphFacts DEF GraphIInv
  <2> QED BY <2>1 DEF AfterInv
<1> QED BY <1>1, GraphInvariance, PTL

(* AllFinishedOnReturn: submit_and_wait() waits for every node.            *)
THEOREM ReturnsWhenFinished == Spec => []AllFinishedOnReturn
<1>1. GraphIInv => AllFinishedOnReturn
  BY DEF GraphIInv, WaitInv, AllFinishedOnReturn
<1> QED BY <1>1, GraphInvariance, PTL

=============================================================================
