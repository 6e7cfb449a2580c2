------------------------------ MODULE FrameSim -------------------------------
(***************************************************************************)
(* engine/core: one fixed timestep of the simulation.  A tick reads the    *)
(* world's current buffer and writes the other one: three chains of        *)
(* kernels (vehicles, npcs, aircraft), each over batches of BatchSize      *)
(* entities that at most worker_count() tasks claim from a shared cursor.  *)
(* The main thread waits for a barrier task per chain and swaps.  Two more *)
(* functions compute the same tick: the main thread alone, and the         *)
(* benchmark's loop over the same batches on another library.              *)
(*                                                                         *)
(* The benchmark runs each of its legs, on a simulation of its own, and    *)
(* compares the hashes of the worlds they end with.                        *)
(*                                                                         *)
(* The arithmetic of the kernels is abstracted to what it depends on: a    *)
(* field has the value n when it holds what n serial ticks leave in it,    *)
(* and Wrong otherwise.  A kernel that reads one value of the wrong tick   *)
(* writes Wrong, and so does every kernel that reads that.  The fields one *)
(* kernel writes are one value per entity.  The player never moves and is  *)
(* left out.  A task runs at some time after it is submitted, on whatever  *)
(* thread, and once.                                                       *)
(***************************************************************************)
EXTENDS Integers, Sequences

CONSTANTS Scenes,          \* entity counts, one per chain (SceneSpec)
          WorkerCounts,    \* the values of runtime.worker_count()
          BatchSize,       \* kBatchSize
          Window,          \* kPerceptionWindow
          MaxTicks,        \* ticks of a leg (options.ticks)
          LegLists,        \* which function ticks each leg of a benchmark, in order
          NoHash,          \* before the first leg has set reference_hash
          Wrong            \* a value no serial run would have computed

ASSUME FrameAssumption ==
    /\ Scenes \subseteq [1 .. 3 -> Nat]
    /\ WorkerCounts \subseteq Nat /\ MaxTicks \in Nat
    /\ BatchSize \in Nat \ {0} /\ Window \in Nat \ {0}
    /\ LegLists \subseteq Seq({"tick", "tick_serial", "tick_with_taskflow"})
    /\ Wrong \notin Nat

VARIABLES scene,           \* scene_
          workers,         \* worker_count() of this behaviour's runtime
          ticks,           \* world_.tick_
          current,         \* the buffer current_ points to, 0 or 1
          buffers,         \* buffers_: per chain, kernel and entity
          legs,            \* the legs to come, the current one first
          reference, agree, \* reference_hash, all_agree
          mpc,             \* where the main thread is in a tick
          stage,           \* the chain it submits, runs or waits for
          claimants,       \* the tasks submitted for each chain
          frame,           \* the buffer the call reads and the tick it counts from
          stageCursor,     \* each chain's cursor
          claimantAt,      \* where each task is
          batch, kernel,   \* the batch it works on and the kernel it is to run
          barrier          \* where each chain's barrier task is

worldVars == <<scene, workers, ticks, current>>
legVars   == <<legs, reference, agree>>
simVars   == <<worldVars, legVars, buffers>>
taskVars  == <<claimantAt, batch, kernel>>
frameVars == <<scene, workers, ticks, current, legs, reference, agree, buffers, mpc, stage,
              claimants, frame, stageCursor, claimantAt, batch, kernel, barrier>>

Chains == 1 .. 3

(* What each kernel of a chain reads, by the kernel that writes it: of the *)
(* previous frame the entity's own fields (own) and other entities' (near),*)
(* of the next frame its own fields only (now).                            *)
VehicleLod == [own |-> {2}, near |-> {}, now |-> {}]

VehicleKernels == << VehicleLod,
                     [own |-> {2}, near |-> {}, now |-> {1}] >>       \* physics

NpcKernels == << [own |-> {4},    near |-> {},  now |-> {}],          \* lod
                 [own |-> {4},    near |-> {4}, now |-> {}],          \* perception
                 [own |-> {3, 4}, near |-> {4}, now |-> {2}],         \* decision
                 [own |-> {4},    near |-> {},  now |-> {3}] >>       \* movement

AircraftKernels == << [own |-> {4},    near |-> {}, now |-> {}],      \* atmosphere
                      [own |-> {4},    near |-> {}, now |-> {1}],     \* aerodynamics
                      [own |-> {3, 4}, near |-> {}, now |-> {1}],     \* propulsion
                      [own |-> {4},    near |-> {}, now |-> {2, 3}] >> \* integrate

Kernels == <<VehicleKernels, NpcKernels, AircraftKernels>>

Steps(c) == DOMAIN Kernels[c]
Entities(c) == 0 .. scene[c] - 1

(* at most one task per worker, and one when none is configured *)
WorkerCap == IF workers = 0 THEN 1 ELSE workers
ClaimantIds == 1 .. WorkerCap

(* A new simulation: both buffers are what the seed determines. *)
Seeded(sc) ==
    [b \in 0 .. 1 |-> [c \in Chains |-> [k \in Steps(c) |-> [i \in 0 .. sc[c] - 1 |-> 0]]]]

FrameInit ==
    /\ scene \in Scenes
    /\ workers \in WorkerCounts
    /\ ticks = 0
    /\ current = 0
    /\ buffers = Seeded(scene)
    /\ legs \in LegLists
    /\ reference = NoHash
    /\ agree = TRUE
    /\ mpc = "idle"
    /\ stage = 1
    /\ claimants = [c \in Chains |-> 0]
    /\ frame = <<0, 0>>
    /\ stageCursor = [c \in Chains |-> 0]
    /\ claimantAt = [c \in Chains |-> [t \in ClaimantIds |-> "none"]]
    /\ batch = [c \in Chains |-> [t \in ClaimantIds |-> 0]]
    /\ kernel = [c \in Chains |-> [t \in ClaimantIds |-> 1]]
    /\ barrier = [c \in Chains |-> "none"]

-----------------------------------------------------------------------------
(* Faulty variant: the last, shorter batch is not counted *)
StageBatchesRoundedDown(c) == scene[c] \div BatchSize

(* batch_count_for() *)
StageBatches(c) == (scene[c] + BatchSize - 1) \div BatchSize

(* The entities of a batch: [begin, end). *)
Members(c, b) ==
    LET begin == b * BatchSize
        end   == IF begin + BatchSize < scene[c] THEN begin + BatchSize ELSE scene[c]
    IN  begin .. end - 1

Claimants(c) == IF StageBatches(c) < WorkerCap THEN StageBatches(c) ELSE WorkerCap

(* The same again for the next chain, or what comes after the third. *)
Advance(again, after) ==
    IF stage < 3 THEN stage' = stage + 1 /\ mpc' = again ELSE stage' = 1 /\ mpc' = after

(* A tick of the current leg.  It captures the two buffers and has cursors *)
(* of its own.                                                             *)
Tick ==
    /\ mpc = "idle"
    /\ legs # << >> /\ ticks < MaxTicks
    /\ mpc' = "stages"
    /\ claimants' = [c \in Chains |-> 0]
    /\ claimantAt' = [c \in Chains |-> [t \in ClaimantIds |-> "none"]]
    /\ barrier' = [c \in Chains |-> "none"]
    /\ frame' = <<current, ticks>>
    /\ stageCursor' = [c \in Chains |-> 0]
    /\ batch' = [c \in Chains |-> [t \in ClaimantIds |-> 0]]
    /\ UNCHANGED <<simVars, stage, kernel>>

(* submit_stage(): a chain without entities has no tasks and its gate is   *)
(* the empty handle; otherwise the claiming tasks, their cursor and the    *)
(* barrier that depends on all of them.                                    *)
SubmitEmptyStage ==
    /\ mpc = "stages" /\ Head(legs) = "tick"
    /\ scene[stage] = 0
    /\ Advance("stages", "wait")
    /\ UNCHANGED <<simVars, claimants, frame, stageCursor, taskVars, barrier>>

OpenStage ==
    /\ mpc = "stages" /\ Head(legs) = "tick"
    /\ scene[stage] # 0
    /\ claimants' = [claimants EXCEPT ![stage] = Claimants(stage)]
    /\ mpc' = "submit"
    /\ UNCHANGED <<simVars, stage, frame, stageCursor, taskVars, barrier>>

SubmitClaimant(t) ==
    /\ mpc = "submit"
    /\ t <= claimants[stage]
    /\ \A u \in ClaimantIds : claimantAt[stage][u] = "none" <=> u >= t
    /\ claimantAt' = [claimantAt EXCEPT ![stage][t] = "claim"]
    /\ UNCHANGED <<simVars, mpc, stage, claimants, frame, stageCursor, batch, kernel,
                   barrier>>

SubmitBarrier ==
    /\ mpc = "submit"
    /\ \A t \in 1 .. claimants[stage] : claimantAt[stage][t] # "none"
    /\ barrier' = [barrier EXCEPT ![stage] = "submitted"]
    /\ Advance("stages", "wait")
    /\ UNCHANGED <<simVars, claimants, frame, stageCursor, taskVars>>

(* Faulty variant: returns when every batch has been claimed *)
WaitGateStarted ==
    /\ mpc = "wait"
    /\ barrier[stage] = "submitted" => stageCursor[stage] >= StageBatches(stage)
    /\ Advance("wait", "swap")
    /\ UNCHANGED <<simVars, claimants, frame, stageCursor, taskVars, barrier>>

(* wait() on the gate of a chain; the empty handle counts as complete *)
WaitGate ==
    /\ mpc = "wait"
    /\ barrier[stage] # "submitted"
    /\ Advance("wait", "swap")
    /\ UNCHANGED <<simVars, claimants, frame, stageCursor, taskVars, barrier>>

(* tick_serial(): the main thread itself runs the batches of one chain     *)
(* after the other; b is the cursor.                                       *)
RunBatched ==
    /\ mpc = "stages" /\ Head(legs) = "tick_serial"
    /\ claimantAt' = [claimantAt EXCEPT ![stage][1] = "claim"]
    /\ mpc' = "running"
    /\ UNCHANGED <<simVars, stage, claimants, frame, stageCursor, batch, kernel, barrier>>

BatchedDone ==
    /\ mpc = "running"
    /\ claimantAt[stage][1] = "done"
    /\ Advance("stages", "swap")
    /\ UNCHANGED <<simVars, claimants, frame, stageCursor, taskVars, barrier>>

(* tick_with_taskflow(): one parallel loop over the batches for each chain *)
(* that has any, spread over the library's workers, then executor.wait()   *)
RunFlow ==
    /\ mpc = "stages" /\ Head(legs) = "tick_with_taskflow"
    /\ claimantAt' = [c \in Chains |-> [t \in ClaimantIds |->
                        IF t <= Claimants(c) THEN "claim" ELSE "none"]]
    /\ mpc' = "flow"
    /\ UNCHANGED <<simVars, stage, claimants, frame, stageCursor, batch, kernel, barrier>>

FlowDone ==
    /\ mpc = "flow"
    /\ \A c \in Chains, t \in ClaimantIds : claimantAt[c][t] \in {"none", "done"}
    /\ mpc' = "swap"
    /\ UNCHANGED <<simVars, stage, claimants, frame, stageCursor, taskVars, barrier>>

(* swap_buffers(), advance_tick(); finish_tick() for a scheduler outside   *)
FinishTick ==
    /\ mpc = "swap"
    /\ current' = 1 - current
    /\ ticks' = ticks + 1
    /\ mpc' = "idle"
    /\ UNCHANGED <<scene, workers, buffers, legVars, stage, claimants, frame, stageCursor, taskVars, barrier>>

(* state_hash() reads every field of the current buffer.                   *)
StateHash == buffers[current]

(* A leg is over: its hash becomes the reference or is compared with it,   *)
(* and the next leg, if any, gets a new simulation.                        *)
CompareLeg ==
    /\ mpc = "idle"
    /\ legs # << >> /\ ticks = MaxTicks
    /\ reference' = IF reference = NoHash THEN StateHash ELSE reference
    /\ agree' = (agree /\ reference' = StateHash)
    /\ legs' = Tail(legs)
    /\ ticks' = 0
    /\ current' = 0
    /\ buffers' = Seeded(scene)
    /\ UNCHANGED <<scene, workers, mpc, stage, claimants, frame, stageCursor, taskVars, barrier>>

-----------------------------------------------------------------------------
(* The tasks *)

(* cursor->fetch_add(1): a batch, or the end of the task *)
ClaimBatch(c, t) ==
    /\ claimantAt[c][t] = "claim"
    /\ batch' = [batch EXCEPT ![c][t] = stageCursor[c]]
    /\ stageCursor' = [stageCursor EXCEPT ![c] = @ + 1]
    /\ claimantAt' = [claimantAt EXCEPT ![c][t] =
                        IF stageCursor[c] < StageBatches(c) THEN "run" ELSE "done"]
    /\ UNCHANGED <<simVars, mpc, stage, claimants, frame, kernel, barrier>>

(* The entities whose previous frame an entity's kernel looks at. *)
Neighbours(c, i) == {(i + k) % scene[c] : k \in 1 .. Window}

(* Everything kernel k reads for entity i is what a serial tick would read.*)
ReadsRight(c, k, i) ==
    LET in  == buffers[frame[1]][c]
        out == buffers[1 - frame[1]][c]
        n   == frame[2]
        K   == Kernels[c][k]
    IN  /\ \A f \in K.own : in[f][i] = n
        /\ \A f \in K.near, j \in Neighbours(c, i) : in[f][j] = n
        /\ \A f \in K.now : out[f][i] = n + 1

(* One kernel over the batch; the chain is through after the last.         *)
RunKernel(c, t) ==
    LET k   == kernel[c][t]
        out == 1 - frame[1]
    IN  /\ claimantAt[c][t] = "run"
        /\ buffers' = [buffers EXCEPT ![out][c][k] = [i \in Entities(c) |->
                IF i \notin Members(c, batch[c][t]) THEN @[i]
                ELSE IF ReadsRight(c, k, i) THEN frame[2] + 1 ELSE Wrong]]
        /\ IF k < Len(Kernels[c])
           THEN kernel' = [kernel EXCEPT ![c][t] = k + 1] /\ UNCHANGED claimantAt
           ELSE /\ kernel' = [kernel EXCEPT ![c][t] = 1]
                /\ claimantAt' = [claimantAt EXCEPT ![c][t] = "claim"]
        /\ UNCHANGED <<worldVars, legVars, mpc, stage, claimants, frame, stageCursor, batch, barrier>>

(* The barrier's dependencies are the claiming tasks of its chain. *)
RunBarrier(c) ==
    /\ barrier[c] = "submitted"
    /\ \A t \in 1 .. claimants[c] : claimantAt[c][t] = "done"
    /\ barrier' = [barrier EXCEPT ![c] = "done"]
    /\ UNCHANGED <<simVars, mpc, stage, claimants, frame, stageCursor, taskVars>>

FrameOver == mpc = "idle" /\ legs = << >> /\ UNCHANGED frameVars

FrameNext ==
    \/ Tick \/ CompareLeg
    \/ SubmitEmptyStage \/ OpenStage \/ SubmitBarrier \/ WaitGate
    \/ \E t \in ClaimantIds : SubmitClaimant(t)
    \/ RunBatched \/ BatchedDone \/ RunFlow \/ FlowDone \/ FinishTick
    \/ \E c \in Chains : RunBarrier(c) \/ \E t \in ClaimantIds : ClaimBatch(c, t) \/ RunKernel(c, t)
    \/ FrameOver

FrameSpec == FrameInit /\ [][FrameNext]_frameVars

-----------------------------------------------------------------------------
(* "The same seed must produce a bit-identical hash under both runtimes    *)
(* and at every worker count": after n ticks of any leg every field of     *)
(* every entity is what n serial ticks compute, none is missed by the      *)
(* batches, left over from two frames ago or computed from one; and the    *)
(* benchmark finds all its legs in agreement.                              *)
SameAsSerial ==
    /\ mpc = "idle" =>
        \A c \in Chains : \A k \in Steps(c), i \in Entities(c) :
            buffers[current][c][k][i] = ticks
    /\ agree

(* No task is left that could touch the buffers or the cursors of a frame  *)
(* that is over: tick() has waited for all of them before it swaps.        *)
NoTaskOutlivesTick ==
    mpc \in {"swap", "idle"} =>
        \A c \in Chains, t \in ClaimantIds : claimantAt[c][t] \in {"none", "done"}

=============================================================================
