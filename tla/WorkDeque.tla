------------------------------ MODULE WorkDeque ------------------------------
(***************************************************************************)
(* What thunderbolt::AbpDeque promises to the runtime, with every          *)
(* operation in one indivisible step: a bounded sequence that its owner    *)
(* pushes to and pops from at one end (the bottom) and that thieves steal  *)
(* from at the other (the top).                                            *)
(*                                                                         *)
(* The failing outcomes are part of the promise.  push() reports "full"    *)
(* and pop() reports "empty" only when that is so.  steal() is weaker: it  *)
(* may report "empty" while one last element is there, because the owner   *)
(* may already have claimed it, but never while there are two.             *)
(***************************************************************************)
EXTENDS Naturals, SequencesExt

CONSTANTS Thieves,    \* the threads that call steal()
          Items,      \* the handles that may be pushed
          Capacity    \* AbpDeque::capacity_

VARIABLES deque,      \* the elements, oldest (top) first
          pushed,     \* every item push() has accepted
          takes,      \* how often each item has been handed to a caller
          ownerRet,   \* the outcome of the owner's last operation
          thiefRet    \* the outcome of each thief's last operation

vars == <<deque, pushed, takes, ownerRet, thiefRet>>

Init ==
    /\ deque = << >>
    /\ pushed = {}
    /\ takes = [v \in Items |-> 0]
    /\ ownerRet = "none"
    /\ thiefRet = [th \in Thieves |-> "none"]

Deliver(v) == takes' = [takes EXCEPT ![v] = @ + 1]

Push(v) ==
    /\ v \notin pushed
    /\ Len(deque) < Capacity
    /\ deque' = Append(deque, v)
    /\ pushed' = pushed \cup {v}
    /\ ownerRet' = "pushed"
    /\ UNCHANGED <<takes, thiefRet>>

PushFull ==
    /\ Len(deque) = Capacity
    /\ ownerRet' = "full"
    /\ UNCHANGED <<deque, pushed, takes, thiefRet>>

Pop ==
    /\ deque # << >>
    /\ Deliver(Last(deque))
    /\ deque' = Front(deque)
    /\ ownerRet' = "popped"
    /\ UNCHANGED <<pushed, thiefRet>>

PopEmpty ==
    /\ deque = << >>
    /\ ownerRet' = "empty"
    /\ UNCHANGED <<deque, pushed, takes, thiefRet>>

Steal(th) ==
    /\ deque # << >>
    /\ Deliver(Head(deque))
    /\ deque' = Tail(deque)
    /\ thiefRet' = [thiefRet EXCEPT ![th] = "success"]
    /\ UNCHANGED <<pushed, ownerRet>>

StealEmpty(th) ==
    /\ Len(deque) <= 1
    /\ thiefRet' = [thiefRet EXCEPT ![th] = "empty"]
    /\ UNCHANGED <<deque, pushed, takes, ownerRet>>

(* Lost the race for the top element: nothing is promised, nothing moves.  *)
StealAbort(th) ==
    /\ thiefRet' = [thiefRet EXCEPT ![th] = "abort"]
    /\ UNCHANGED <<deque, pushed, takes, ownerRet>>

Next ==
    \/ \E v \in Items : Push(v)
    \/ PushFull
    \/ Pop
    \/ PopEmpty
    \/ \E th \in Thieves : Steal(th) \/ StealEmpty(th) \/ StealAbort(th)

Spec == Init /\ [][Next]_vars

=============================================================================
