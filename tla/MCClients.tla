----------------------------- MODULE MCClients ------------------------------
(***************************************************************************)
(* The programs that call the runtime, for TLC: task graphs, parallel_for  *)
(* and the simulation benchmark.  They share no state, so a behaviour is   *)
(* one of the three, the other two staying where they start.               *)
(***************************************************************************)
EXTENDS TaskGraph, ParallelFor, FrameSim

(* One chain alone, two side by side, all three; whole batches, a shorter  *)
(* last one, fewer entities than a batch, none.                            *)
SmallScenes == {<<3, 0, 0>>, <<0, 5, 0>>, <<0, 0, 4>>, <<3, 3, 0>>, <<1, 0, 3>>, <<1, 2, 1>>}

LegPairs == {<<"tick_serial", "tick">>, <<"tick", "tick_with_taskflow">>}

VARIABLE client

LoopAtRest  == begin = 0 /\ end = 0 /\ grain = 0
FrameAtRest == scene = <<3, 0, 0>> /\ workers = 0 /\ legs = <<"tick_serial", "tick">>

ClientInit ==
    /\ Init
    /\ \/ client = "graph" /\ LoopAtRest /\ FrameAtRest
       \/ client = "parallel_for" /\ FrameAtRest
       \/ client = "benchmark" /\ LoopAtRest
    /\ LoopInit /\ FrameInit

ClientNext ==
    /\ UNCHANGED client
    /\ \/ client = "graph" /\ Next /\ UNCHANGED <<loopVars, frameVars>>
       \/ client = "parallel_for" /\ LoopNext /\ UNCHANGED <<vars, frameVars>>
       \/ client = "benchmark" /\ FrameNext /\ UNCHANGED <<vars, loopVars>>

ClientSpec == ClientInit /\ [][ClientNext]_<<vars, loopVars, frameVars, client>>

=============================================================================
