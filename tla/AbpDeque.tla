------------------------------ MODULE AbpDeque -------------------------------
(***************************************************************************)
(* thunderbolt/core/executor/AbpDeque.hpp: the bounded work-stealing deque *)
(* of one worker.  One step is one access to shared memory, interleaved    *)
(* sequentially consistently (what the fences of pop() and steal() are     *)
(* there to provide).                                                      *)
(*                                                                         *)
(* A buffer element is an 8-byte TaskHandle that steal() reads while       *)
(* push() may be overwriting it, with no synchronisation: the element is   *)
(* modelled as two halves that are read and written separately, so that a  *)
(* thief can really see a torn handle.  Only the CAS on top may decide     *)
(* whether what it read counts.                                            *)
(***************************************************************************)
EXTENDS Integers, Sequences

CONSTANTS Thieves,    \* the threads that call steal(): never the owner
          Items,      \* handles; each is pushed at most once (handles are
                      \* unique: index plus generation)
          Capacity,   \* capacity_, after rounding
          None,       \* the default-constructed handle of a fresh buffer
          Torn        \* a handle whose halves belong to different pushes

ASSUME CapacityAssumption == Capacity \in Nat \ {0}
ASSUME ValuesAssumption == None \notin Items /\ Torn \notin Items /\ None # Torn

VARIABLES top, bottom,     \* top_, bottom_
          bufLo, bufHi,    \* buffer_, half by half
          opc,             \* where the owner is in push() or pop()
          ob, ot, oval,    \* the owner's locals b, t and value / out
          tpc,             \* where each thief is in steal()
          tt,              \* each thief's local t
          tlo, thi,        \* the halves of each thief's out
          pushed,          \* the items push() has accepted
          takes,           \* how often each value was returned to a caller
          ownerRet,        \* the outcome of the owner's last operation
          thiefRet         \* the outcome of each thief's last operation

ownerVars == <<opc, ob, ot, oval, ownerRet>>
thiefVars == <<tpc, tt, tlo, thi, thiefRet>>
bufVars   == <<bufLo, bufHi>>
vars == <<top, bottom, bufLo, bufHi, opc, ob, ot, oval, tpc, tt, tlo, thi,
          pushed, takes, ownerRet, thiefRet>>

Values == Items \cup {None, Torn}

(* index & mask_, for a buffer of capacity_ elements *)
Slot(i) == i % Capacity

(* The handle that two halves make up. *)
Join(lo, hi) == IF lo = hi THEN lo ELSE Torn

Deliver(v) == takes' = [takes EXCEPT ![v] = @ + 1]

Init ==
    /\ top = 0
    /\ bottom = 0
    /\ bufLo = [i \in 0 .. Capacity - 1 |-> None]
    /\ bufHi = [i \in 0 .. Capacity - 1 |-> None]
    /\ opc = "idle"
    /\ ob = 0
    /\ ot = 0
    /\ oval = None
    /\ tpc = [th \in Thieves |-> "idle"]
    /\ tt = [th \in Thieves |-> 0]
    /\ tlo = [th \in Thieves |-> None]
    /\ thi = [th \in Thieves |-> None]
    /\ pushed = {}
    /\ takes = [v \in Values |-> 0]
    /\ ownerRet = "none"
    /\ thiefRet = [th \in Thieves |-> "none"]

-----------------------------------------------------------------------------
(* push(): the owner alone writes bottom_, so reading bottom_ and top_ is  *)
(* one access that can race, the one to top_.                              *)

PushFull ==
    /\ opc = "idle"
    /\ bottom - top >= Capacity
    /\ ownerRet' = "full"
    /\ UNCHANGED <<top, bottom, bufVars, opc, ob, ot, oval, thiefVars, pushed, takes>>

(* Faulty variant: off by one, accepts one element too many *)
PushCheckOffByOne(v) ==
    /\ opc = "idle"
    /\ v \notin pushed
    /\ bottom - top <= Capacity
    /\ opc' = "writeLo"
    /\ oval' = v
    /\ UNCHANGED <<top, bottom, bufVars, ob, ot, ownerRet, thiefVars, pushed, takes>>

PushCheck(v) ==
    /\ opc = "idle"
    /\ v \notin pushed
    /\ bottom - top < Capacity
    /\ opc' = "writeLo"
    /\ oval' = v
    /\ UNCHANGED <<top, bottom, bufVars, ob, ot, ownerRet, thiefVars, pushed, takes>>

PushWriteLo ==
    /\ opc = "writeLo"
    /\ bufLo' = [bufLo EXCEPT ![Slot(bottom)] = oval]
    /\ opc' = "writeHi"
    /\ UNCHANGED <<top, bottom, bufHi, ob, ot, oval, ownerRet, thiefVars, pushed, takes>>

PushWriteHi ==
    /\ opc = "writeHi"
    /\ bufHi' = [bufHi EXCEPT ![Slot(bottom)] = oval]
    /\ opc' = "publish"
    /\ UNCHANGED <<top, bottom, bufLo, ob, ot, oval, ownerRet, thiefVars, pushed, takes>>

PushPublish ==
    /\ opc = "publish"
    /\ bottom' = bottom + 1
    /\ pushed' = pushed \cup {oval}
    /\ ownerRet' = "pushed"
    /\ opc' = "idle"
    /\ UNCHANGED <<top, bufVars, ob, ot, oval, thiefVars, takes>>

-----------------------------------------------------------------------------
(* pop(): claim the bottom element first, look at top second.              *)

PopClaim ==
    /\ opc = "idle"
    /\ bottom' = bottom - 1
    /\ ob' = bottom - 1
    /\ opc' = "popTop"
    /\ UNCHANGED <<top, bufVars, ot, oval, ownerRet, thiefVars, pushed, takes>>

(* Faulty variant: takes the last element for none *)
PopEmptyTooEarly ==
    /\ opc = "popTop"
    /\ top >= ob
    /\ ot' = top
    /\ ownerRet' = "empty"
    /\ opc' = "popRestore"
    /\ UNCHANGED <<top, bottom, bufVars, ob, oval, thiefVars, pushed, takes>>

(* t > b: nothing left; bottom_ is still to be put back *)
PopEmpty ==
    /\ opc = "popTop"
    /\ top > ob
    /\ ot' = top
    /\ ownerRet' = "empty"
    /\ opc' = "popRestore"
    /\ UNCHANGED <<top, bottom, bufVars, ob, oval, thiefVars, pushed, takes>>

(* t < b: more than one element, the bottom one is the owner's without a   *)
(* CAS.  Only the owner writes the buffer, so its own read cannot tear.    *)
PopTake ==
    /\ opc = "popTop"
    /\ top < ob
    /\ ot' = top
    /\ oval' = Join(bufLo[Slot(ob)], bufHi[Slot(ob)])
    /\ Deliver(Join(bufLo[Slot(ob)], bufHi[Slot(ob)]))
    /\ ownerRet' = "popped"
    /\ opc' = "idle"
    /\ UNCHANGED <<top, bottom, bufVars, ob, thiefVars, pushed>>

(* Faulty variant: the last element is returned without the CAS *)
PopLastNoCas ==
    /\ opc = "popTop"
    /\ top = ob
    /\ ot' = top
    /\ oval' = Join(bufLo[Slot(ob)], bufHi[Slot(ob)])
    /\ Deliver(Join(bufLo[Slot(ob)], bufHi[Slot(ob)]))
    /\ ownerRet' = "popped"
    /\ opc' = "idle"
    /\ UNCHANGED <<top, bottom, bufVars, ob, thiefVars, pushed>>

(* t = b: the last element, to be won by CAS *)
PopLast ==
    /\ opc = "popTop"
    /\ top = ob
    /\ ot' = top
    /\ oval' = Join(bufLo[Slot(ob)], bufHi[Slot(ob)])
    /\ opc' = "popCas"
    /\ UNCHANGED <<top, bottom, bufVars, ob, ownerRet, thiefVars, pushed, takes>>

PopCasWon ==
    /\ opc = "popCas"
    /\ top = ot
    /\ top' = ot + 1
    /\ Deliver(oval)
    /\ ownerRet' = "popped"
    /\ opc' = "popRestore"
    /\ UNCHANGED <<bottom, bufVars, ob, ot, oval, thiefVars, pushed>>

PopCasLost ==
    /\ opc = "popCas"
    /\ top # ot
    /\ ownerRet' = "empty"
    /\ opc' = "popRestore"
    /\ UNCHANGED <<top, bottom, bufVars, ob, ot, oval, thiefVars, pushed, takes>>

(* Faulty variant: returns without restoring bottom_ *)
PopRestoreForgotten ==
    /\ opc = "popRestore"
    /\ opc' = "idle"
    /\ UNCHANGED <<top, bottom, bufVars, ob, ot, oval, ownerRet, thiefVars, pushed, takes>>

PopRestore ==
    /\ opc = "popRestore"
    /\ bottom' = ob + 1
    /\ opc' = "idle"
    /\ UNCHANGED <<top, bufVars, ob, ot, oval, ownerRet, thiefVars, pushed, takes>>

-----------------------------------------------------------------------------
(* steal(): top, then bottom, then the speculative read, then the CAS.     *)

StealTop(th) ==
    /\ tpc[th] = "idle"
    /\ tt' = [tt EXCEPT ![th] = top]
    /\ tpc' = [tpc EXCEPT ![th] = "bottom"]
    /\ UNCHANGED <<top, bottom, bufVars, ownerVars, tlo, thi, thiefRet, pushed, takes>>

StealEmpty(th) ==
    /\ tpc[th] = "bottom"
    /\ tt[th] >= bottom
    /\ thiefRet' = [thiefRet EXCEPT ![th] = "empty"]
    /\ tpc' = [tpc EXCEPT ![th] = "idle"]
    /\ UNCHANGED <<top, bottom, bufVars, ownerVars, tt, tlo, thi, pushed, takes>>

StealBottom(th) ==
    /\ tpc[th] = "bottom"
    /\ tt[th] < bottom
    /\ tpc' = [tpc EXCEPT ![th] = "readLo"]
    /\ UNCHANGED <<top, bottom, bufVars, ownerVars, tt, tlo, thi, thiefRet, pushed, takes>>

StealReadLo(th) ==
    /\ tpc[th] = "readLo"
    /\ tlo' = [tlo EXCEPT ![th] = bufLo[Slot(tt[th])]]
    /\ tpc' = [tpc EXCEPT ![th] = "readHi"]
    /\ UNCHANGED <<top, bottom, bufVars, ownerVars, tt, thi, thiefRet, pushed, takes>>

StealReadHi(th) ==
    /\ tpc[th] = "readHi"
    /\ thi' = [thi EXCEPT ![th] = bufHi[Slot(tt[th])]]
    /\ tpc' = [tpc EXCEPT ![th] = "cas"]
    /\ UNCHANGED <<top, bottom, bufVars, ownerVars, tt, tlo, thiefRet, pushed, takes>>

StealCasWon(th) ==
    /\ tpc[th] = "cas"
    /\ top = tt[th]
    /\ top' = tt[th] + 1
    /\ Deliver(Join(tlo[th], thi[th]))
    /\ thiefRet' = [thiefRet EXCEPT ![th] = "success"]
    /\ tpc' = [tpc EXCEPT ![th] = "idle"]
    /\ UNCHANGED <<bottom, bufVars, ownerVars, tt, tlo, thi, pushed>>

StealCasLost(th) ==
    /\ tpc[th] = "cas"
    /\ top # tt[th]
    /\ thiefRet' = [thiefRet EXCEPT ![th] = "abort"]
    /\ tpc' = [tpc EXCEPT ![th] = "idle"]
    /\ UNCHANGED <<top, bottom, bufVars, ownerVars, tt, tlo, thi, pushed, takes>>

-----------------------------------------------------------------------------
OwnerNext ==
    \/ PushFull
    \/ \E v \in Items : PushCheck(v)
    \/ PushWriteLo \/ PushWriteHi \/ PushPublish
    \/ PopClaim \/ PopEmpty \/ PopTake \/ PopLast
    \/ PopCasWon \/ PopCasLost \/ PopRestore

ThiefNext(th) ==
    \/ StealTop(th) \/ StealEmpty(th) \/ StealBottom(th)
    \/ StealReadLo(th) \/ StealReadHi(th)
    \/ StealCasWon(th) \/ StealCasLost(th)

Next == OwnerNext \/ \E th \in Thieves : ThiefNext(th)

Spec == Init /\ [][Next]_vars

-----------------------------------------------------------------------------
OwnerStates == {"idle", "writeLo", "writeHi", "publish",
                "popTop", "popCas", "popRestore"}
ThiefStates == {"idle", "bottom", "readLo", "readHi", "cas"}

(* Every variable stays in its range.  bottom_ dips to -1, and no lower,   *)
(* while pop() runs on a deque that has never held anything.               *)
TypeOK ==
    /\ top \in Nat
    /\ bottom \in Nat \cup {-1}
    /\ bufLo \in [0 .. Capacity - 1 -> Values]
    /\ bufHi \in [0 .. Capacity - 1 -> Values]
    /\ opc \in OwnerStates
    /\ ob \in Nat \cup {-1}
    /\ ot \in Nat
    /\ oval \in Values
    /\ tpc \in [Thieves -> ThiefStates]
    /\ tt \in [Thieves -> Nat]
    /\ tlo \in [Thieves -> Values]
    /\ thi \in [Thieves -> Values]
    /\ pushed \subseteq Items
    /\ takes \in [Values -> Nat]
    /\ ownerRet \in {"none", "pushed", "full", "popped", "empty"}
    /\ thiefRet \in [Thieves -> {"none", "success", "empty", "abort"}]

(* One past the last element that nobody has taken yet.  While pop() holds *)
(* a claim that is not decided (or not given back), bottom_ is one too low.*)
Limit == IF opc \in {"popTop", "popCas", "popRestore"} THEN bottom + 1 ELSE bottom

(* The indices of the elements in the deque, and the element at an index.  *)
Window == top .. Limit - 1
At(i) == Join(bufLo[Slot(i)], bufHi[Slot(i)])

(* Every item push() accepted is either still in the deque or was returned *)
(* by exactly one pop() or steal(), never both, never twice and never      *)
(* lost, whatever the owner and the thieves interleave (the last-element   *)
(* race of pop() and steal()).                                             *)
ExactlyOnce ==
    \A v \in Items :
        /\ takes[v] <= 1
        /\ v \in pushed <=> (takes[v] = 1 \/ \E i \in Window : At(i) = v)
        /\ ~(takes[v] = 1 /\ \E i \in Window : At(i) = v)

(* No call returns the unwritten or the half-overwritten handle that the   *)
(* speculative read of steal() may have seen: the CAS throws it away.      *)
NoTornDelivery == takes[None] = 0 /\ takes[Torn] = 0

-----------------------------------------------------------------------------
(* The deque implements WorkDeque: push() takes effect when it publishes   *)
(* bottom_, pop() when it reads top_ (or wins or loses the CAS), steal()   *)
(* at its CAS or, reporting "empty", when it reads bottom_.                *)
WD == INSTANCE WorkDeque WITH
        deque <- [k \in 1 .. Limit - top |-> At(top + k - 1)],
        takes <- [v \in Items |-> takes[v]]

ImplementsWorkDeque == WD!Spec

=============================================================================
