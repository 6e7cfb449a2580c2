--------------------------- MODULE TaskBodyProofs ---------------------------
(***************************************************************************)
(* Theorems about TaskBody, for any callers, runners, bodies, slots and    *)
(* nodes: every callable that was constructed is owned by one TaskFunction *)
(* until its destructor runs, once, and every body is called once.         *)
(*                                                                         *)
(* The inductive invariant BodyIInv:                                       *)
(*   BodyTypeInv  the ranges, and what is set at which place               *)
(*   SlotInv      every slot is in one place                               *)
(*   OwnInv       what each TaskFunction owns, by the place of its thread  *)
(*   HeldInv      a body that was offered has one custodian - the caller   *)
(*                that submits it, the slot it is to be called from, the   *)
(*                node it waits in, the runner that called it - or ended   *)
(*   CallInv      which bodies have been called                            *)
(*   LiveInv      a body has one callable, or none, as it has an owner     *)
(*   CountInv     what outstanding_ counts                                 *)
(* and, for a graph that is submitted once at most, FilledInv: what is     *)
(* enqueued has a body.                                                    *)
(***************************************************************************)
EXTENDS TaskBody, FiniteSetTheorems, TLAPS

MaybeBody == Bodies \cup {NoBody}
Slots == 1 .. PoolSlots
MemType == [owns : [Objects -> MaybeBody], live : [Bodies -> Int]]

CallerPlaces == {"idle", "count", "add", "node", "acquire", "publish", "return", "inline",
                 "inlineCall", "inlineCount", "inlineReturn", "reserve", "construct",
                 "constructInline"}

BodyTypeInv ==
    /\ inPlace \in BOOLEAN
    /\ mem \in MemType
    /\ freeSlots \subseteq Slots /\ readySlots \subseteq Slots
    /\ counted \in Int
    /\ graphSize \in 0 .. MaxGraphSize /\ graphRuns \in Nat
    /\ cpc \in [Callers -> CallerPlaces] /\ subject \in [Callers -> MaybeBody]
    /\ cslot \in [Callers -> 0 .. PoolSlots] /\ nodeAt \in [Callers -> Nat]
    /\ rpc \in [Runners -> {"idle", "call", "release", "free", "uncount"}]
    /\ rslot \in [Runners -> 0 .. PoolSlots] /\ rbody \in [Runners -> MaybeBody]
    /\ offered \subseteq Bodies /\ ended \subseteq Bodies /\ executed \in [Bodies -> Nat]
    /\ \A c \in Callers :
          /\ cpc[c] = "node" => nodeAt[c] > 0
          /\ cpc[c] = "add" => c = Builder /\ graphSize < MaxGraphSize
          /\ cpc[c] \in {"add", "reserve", "construct", "constructInline"} => subject[c] \in Bodies
          /\ cpc[c] \in {"idle", "node"} => subject[c] = NoBody
    /\ \A r \in Runners : rbody[r] \in Bodies <=> rpc[r] \in {"release", "free", "uncount"}

(* The callers and runners that have a slot. *)
HasSlot(c) == cpc[c] \in {"construct", "publish"}
OnSlot(r) == rpc[r] \in {"call", "release", "free"}

SlotInv ==
    /\ freeSlots \cap readySlots = {}
    /\ \A c \in Callers : HasSlot(c) => cslot[c] \in Slots \ (freeSlots \cup readySlots)
    /\ \A r \in Runners : OnSlot(r) => rslot[r] \in Slots \ (freeSlots \cup readySlots)
    /\ \A c, d \in Callers : HasSlot(c) /\ HasSlot(d) /\ cslot[c] = cslot[d] => c = d
    /\ \A r, q \in Runners : OnSlot(r) /\ OnSlot(q) /\ rslot[r] = rslot[q] => r = q
    /\ \A c \in Callers, r \in Runners : HasSlot(c) /\ OnSlot(r) => cslot[c] # rslot[r]
    /\ \A s \in Slots : \/ s \in freeSlots \cup readySlots
                        \/ \E c \in Callers : HasSlot(c) /\ cslot[c] = s
                        \/ \E r \in Runners : OnSlot(r) /\ rslot[r] = s

(* What the TaskFunctions of a caller own. *)
InDesc(c) == IF cpc[c] \in {"count", "acquire", "add", "inline"} THEN subject[c] ELSE NoBody
InLocal(c) ==
    IF cpc[c] \in {"inlineCall", "inlineCount", "inlineReturn"} THEN subject[c] ELSE NoBody

OwnInv ==
    /\ \A c \in Callers : /\ mem.owns[ArgOf(c)] = NoBody
                          /\ mem.owns[DescOf(c)] = InDesc(c)
                          /\ mem.owns[LocalOf(c)] = InLocal(c)
                          /\ cpc[c] = "construct" => mem.owns[SlotFn(cslot[c])] = NoBody
                          /\ cpc[c] = "publish" => mem.owns[SlotFn(cslot[c])] = subject[c]
    /\ \A s \in freeSlots : mem.owns[SlotFn(s)] = NoBody
    /\ \A r \in Runners : /\ rpc[r] = "release" => mem.owns[SlotFn(rslot[r])] = rbody[r]
                          /\ rpc[r] = "free" => mem.owns[SlotFn(rslot[r])] = NoBody
    /\ \A n \in 1 .. MaxGraphSize : n > graphSize => mem.owns[NodeFn(n)] = NoBody

(* A slot that a runner has taken, or will take, to call its body. *)
ToCall(s) == s \in readySlots \/ \E r \in Runners : rpc[r] = "call" /\ rslot[r] = s

(* The custodians of bodies, and the body each has.                        *)
CallerOf(c) == <<"caller", c>>
RunnerOf(r) == <<"runner", r>>

Custodians ==
    {CallerOf(c) : c \in Callers} \cup {RunnerOf(r) : r \in Runners}
        \cup {SlotFn(s) : s \in Slots} \cup {NodeFn(n) : n \in 1 .. MaxGraphSize}

Custody(h) ==
    IF h[1] = "caller" THEN (IF cpc[h[2]] = "return" THEN NoBody ELSE subject[h[2]])
    ELSE IF h[1] = "runner" THEN rbody[h[2]]
    ELSE IF h[1] = "node" THEN mem.owns[h]
    ELSE IF ToCall(h[2]) THEN mem.owns[h] ELSE NoBody

HeldInv ==
    /\ \A h, k \in Custodians : Custody(h) \in Bodies /\ Custody(h) = Custody(k) => h = k
    /\ \A b \in Bodies : b \in offered <=> b \in ended \/ \E h \in Custodians : Custody(h) = b
    /\ \A h \in Custodians : Custody(h) \in ended =>
          \E c \in Callers : h = CallerOf(c) /\ cpc[c] = "inlineReturn"
    /\ \A c \in Callers : cpc[c] = "inlineReturn" => subject[c] \in ended \cup {NoBody}

(* The bodies that have been called: ended, or in the hands of who did it. *)
WasCalled(b) ==
    \/ b \in ended
    \/ \E r \in Runners : rbody[r] = b
    \/ \E c \in Callers : cpc[c] \in {"inlineCount", "inlineReturn"} /\ subject[c] = b

CallInv == \A b \in Bodies : executed[b] = IF WasCalled(b) THEN 1 ELSE 0

LiveInv ==
    /\ \A o, p \in Objects : mem.owns[o] \in Bodies /\ mem.owns[o] = mem.owns[p] => o = p
    /\ \A b \in Bodies : mem.live[b] = IF \E o \in Objects : mem.owns[o] = b THEN 1 ELSE 0

InFlight == {c \in Callers :
                cpc[c] \notin {"idle", "node", "count", "add", "return", "inlineReturn"}}
Busy == {r \in Runners : rpc[r] # "idle"}

CountInv == counted = Cardinality(InFlight) + Cardinality(readySlots) + Cardinality(Busy)

BodyIInv ==
    /\ BodyTypeInv /\ SlotInv /\ OwnInv
    /\ HeldInv /\ CallInv /\ LiveInv /\ CountInv

-----------------------------------------------------------------------------
(* TaskFunctions and the memory.                                           *)

(* The functions of the threads, slots and nodes are objects.              *)
LEMMA ObjectsExist ==
    /\ \A c \in Callers : ArgOf(c) \in Objects /\ DescOf(c) \in Objects /\ LocalOf(c) \in Objects
    /\ \A s \in Slots : SlotFn(s) \in Objects
    /\ \A n \in 1 .. MaxGraphSize : NodeFn(n) \in Objects
BY DEF Objects, Slots

(* There are no others.                                                    *)
LEMMA ObjectsAre ==
    \A o \in Objects : \/ \E c \in Callers : o = ArgOf(c) \/ o = DescOf(c) \/ o = LocalOf(c)
                       \/ \E s \in Slots : o = SlotFn(s)
                       \/ \E n \in 1 .. MaxGraphSize : o = NodeFn(n)
BY DEF Objects, Slots

(* No two of them are the same object.                                     *)
LEMMA ObjectsApart ==
    ASSUME NEW x, NEW y
    PROVE  /\ ArgOf(x) # DescOf(y) /\ ArgOf(x) # LocalOf(y) /\ DescOf(x) # LocalOf(y)
           /\ ArgOf(x) # SlotFn(y) /\ DescOf(x) # SlotFn(y) /\ LocalOf(x) # SlotFn(y)
           /\ ArgOf(x) # NodeFn(y) /\ DescOf(x) # NodeFn(y) /\ LocalOf(x) # NodeFn(y)
           /\ SlotFn(x) # NodeFn(y)
           /\ ArgOf(x) = ArgOf(y) => x = y
           /\ DescOf(x) = DescOf(y) => x = y
           /\ LocalOf(x) = LocalOf(y) => x = y
           /\ SlotFn(x) = SlotFn(y) => x = y
           /\ NodeFn(x) = NodeFn(y) => x = y
BY DEF ArgOf, DescOf, LocalOf, SlotFn, NodeFn

(* Nor two custodians.                                                     *)
LEMMA CustodiansApart ==
    ASSUME NEW x, NEW y
    PROVE  /\ CallerOf(x) # RunnerOf(y) /\ CallerOf(x) # SlotFn(y) /\ CallerOf(x) # NodeFn(y)
           /\ RunnerOf(x) # SlotFn(y) /\ RunnerOf(x) # NodeFn(y) /\ SlotFn(x) # NodeFn(y)
           /\ CallerOf(x) = CallerOf(y) => x = y
           /\ RunnerOf(x) = RunnerOf(y) => x = y
           /\ SlotFn(x) = SlotFn(y) => x = y
           /\ NodeFn(x) = NodeFn(y) => x = y
BY DEF CallerOf, RunnerOf, SlotFn, NodeFn

(* The memory n is the memory m after a callable of b was put into o ...   *)
Puts(m, n, o, b) ==
    /\ n \in MemType
    /\ \A p \in Objects : n.owns[p] = IF p = o THEN b ELSE m.owns[p]
    /\ \A x \in Bodies : n.live[x] = IF x = b THEN m.live[x] + 1 ELSE m.live[x]

(* ... after o was emptied ...                                             *)
Takes(m, n, o) ==
    /\ n \in MemType
    /\ \A p \in Objects : n.owns[p] = IF p = o THEN NoBody ELSE m.owns[p]
    /\ \A x \in Bodies : n.live[x] = IF x = m.owns[o] THEN m.live[x] - 1 ELSE m.live[x]

(* ... after what f owns was moved to t.                                   *)
Shifts(m, n, f, t) ==
    /\ n \in MemType
    /\ \A p \in Objects : n.owns[p] = IF p = t THEN m.owns[f]
                                      ELSE IF p = f THEN NoBody ELSE m.owns[p]
    /\ \A x \in Bodies : n.live[x] = m.live[x]

(* reset() empties its object.                                             *)
LEMMA ResetIs ==
    ASSUME NEW m \in MemType, NEW o \in Objects
    PROVE  Takes(m, ResetFn(m, o), o)
<1> DEFINE b == m.owns[o]
<1>1. m.owns \in [Objects -> MaybeBody] /\ m.live \in [Bodies -> Int] /\ b \in MaybeBody
  BY DEF MemType
<1>2. CASE b = NoBody
  <2>1. ResetFn(m, o) = m
    BY <1>2 DEF ResetFn, Holds
  <2>2. \A p \in Objects : m.owns[p] = IF p = o THEN NoBody ELSE m.owns[p]
    BY <1>2
  <2>3. \A x \in Bodies : x # m.owns[o]
    BY <1>2, BodyAssumption
  <2> QED BY <2>1, <2>2, <2>3 DEF Takes
<1>3. CASE b # NoBody
  <2>1. b \in Bodies
    BY <1>1, <1>3 DEF MaybeBody
  <2>2. ResetFn(m, o) = [m EXCEPT !.live[b] = @ - 1, !.owns[o] = NoBody]
    BY <1>3 DEF ResetFn, Holds
  <2> HIDE DEF b
  <2>3. /\ ResetFn(m, o).owns = [m.owns EXCEPT ![o] = NoBody]
        /\ ResetFn(m, o).live = [m.live EXCEPT ![b] = m.live[b] - 1]
        /\ ResetFn(m, o) = [owns |-> ResetFn(m, o).owns, live |-> ResetFn(m, o).live]
    BY <2>2 DEF MemType
  <2>4. /\ [m.owns EXCEPT ![o] = NoBody] \in [Objects -> MaybeBody]
        /\ [m.live EXCEPT ![b] = m.live[b] - 1] \in [Bodies -> Int]
    BY <1>1, <2>1 DEF MaybeBody
  <2>5. ResetFn(m, o) \in MemType
    BY <2>3, <2>4 DEF MemType
  <2>6. \A p \in Objects : ResetFn(m, o).owns[p] = IF p = o THEN NoBody ELSE m.owns[p]
    BY <1>1, <2>3
  <2>7. \A x \in Bodies : ResetFn(m, o).live[x] = IF x = b THEN m.live[x] - 1 ELSE m.live[x]
    BY <1>1, <2>1, <2>3
  <2> QED BY <2>5, <2>6, <2>7 DEF Takes, b
<1> QED BY <1>2, <1>3

(* init() fills it.                                                        *)
LEMMA InitIs ==
    ASSUME NEW m \in MemType, NEW o \in Objects, NEW b \in Bodies
    PROVE  Puts(m, InitFn(m, o, b), o, b)
<1>1. m.owns \in [Objects -> MaybeBody] /\ m.live \in [Bodies -> Int]
  BY DEF MemType
<1>2. /\ InitFn(m, o, b).owns = [m.owns EXCEPT ![o] = b]
      /\ InitFn(m, o, b).live = [m.live EXCEPT ![b] = m.live[b] + 1]
      /\ InitFn(m, o, b) = [owns |-> InitFn(m, o, b).owns, live |-> InitFn(m, o, b).live]
  <2> DEFINE l == [m.live EXCEPT ![b] = m.live[b] + 1]
             n == [m EXCEPT !.live = l]
             w == [m.owns EXCEPT ![o] = b]
  <2>1. InitFn(m, o, b) = [n EXCEPT !.owns = [n.owns EXCEPT ![o] = b]]
    BY DEF InitFn
  <2> HIDE DEF l
  <2>2. n = [owns |-> m.owns, live |-> l]
    BY DEF MemType
  <2> HIDE DEF n
  <2>3. InitFn(m, o, b) = [owns |-> w, live |-> l]
    BY <2>1, <2>2
  <2> HIDE DEF w
  <2>4. InitFn(m, o, b).owns = w /\ InitFn(m, o, b).live = l
    BY <2>3
  <2> QED BY <2>3, <2>4 DEF w, l
<1>3. /\ [m.owns EXCEPT ![o] = b] \in [Objects -> MaybeBody]
      /\ [m.live EXCEPT ![b] = m.live[b] + 1] \in [Bodies -> Int]
  BY <1>1 DEF MaybeBody
<1>4. InitFn(m, o, b) \in MemType
  BY <1>2, <1>3 DEF MemType
<1>5. \A p \in Objects : InitFn(m, o, b).owns[p] = IF p = o THEN b ELSE m.owns[p]
  BY <1>1, <1>2
<1>6. \A x \in Bodies : InitFn(m, o, b).live[x] = IF x = b THEN m.live[x] + 1 ELSE m.live[x]
  BY <1>1, <1>2
<1> QED BY <1>4, <1>5, <1>6 DEF Puts

(* A move constructs one callable and destroys another of the same body.   *)
LEMMA MoveIs ==
    ASSUME NEW m \in MemType, NEW f \in Objects, NEW t \in Objects, f # t
    PROVE  Shifts(m, MoveFrom(m, f, t), f, t)
<1> DEFINE b == m.owns[f]
<1>1. m.owns \in [Objects -> MaybeBody] /\ m.live \in [Bodies -> Int] /\ b \in MaybeBody
  BY DEF MemType
<1>2. CASE b = NoBody
  <2>1. MoveFrom(m, f, t) = [m EXCEPT !.owns[t] = NoBody]
    BY <1>2 DEF MoveFrom, Holds
  <2>2. /\ MoveFrom(m, f, t).owns = [m.owns EXCEPT ![t] = NoBody]
        /\ MoveFrom(m, f, t).live = m.live
        /\ MoveFrom(m, f, t) = [owns |-> MoveFrom(m, f, t).owns, live |-> MoveFrom(m, f, t).live]
    BY <2>1 DEF MemType
  <2>3. MoveFrom(m, f, t) \in MemType
    BY <1>1, <2>2 DEF MemType, MaybeBody
  <2>4. \A p \in Objects : MoveFrom(m, f, t).owns[p] =
                IF p = t THEN m.owns[f] ELSE IF p = f THEN NoBody ELSE m.owns[p]
    BY <1>1, <1>2, <2>2
  <2> QED BY <2>2, <2>3, <2>4 DEF Shifts
<1>3. CASE b # NoBody
  <2>1. b \in Bodies
    BY <1>1, <1>3 DEF MaybeBody
  <2> DEFINE n == InitFn(m, t, b)
             q == ResetFn(n, f)
  <2>2. MoveFrom(m, f, t) = q
    BY <1>3 DEF MoveFrom, Holds
  <2>3. Puts(m, n, t, b)
    BY <2>1, InitIs
  <2> HIDE DEF n
  <2>4. n \in MemType
    BY <2>3 DEF Puts
  <2>5. Takes(n, q, f)
    BY <2>4, ResetIs
  <2> HIDE DEF q
  <2>6. n.owns[f] = b
    BY <2>3 DEF Puts
  <2>7. \A p \in Objects : q.owns[p] = IF p = t THEN b ELSE IF p = f THEN NoBody ELSE m.owns[p]
    BY <2>3, <2>5 DEF Puts, Takes
  <2>8. ASSUME NEW x \in Bodies
        PROVE  q.live[x] = m.live[x]
    <3>1. m.live[x] \in Int
      BY <1>1
    <3>2. n.live[x] = IF x = b THEN m.live[x] + 1 ELSE m.live[x]
      BY <2>3 DEF Puts
    <3>3. q.live[x] = IF x = b THEN n.live[x] - 1 ELSE n.live[x]
      BY <2>5, <2>6 DEF Takes
    <3> HIDE DEF b
    <3> QED BY <3>1, <3>2, <3>3
  <2> QED BY <2>2, <2>5, <2>7, <2>8 DEF Shifts, Takes
<1> QED BY <1>2, <1>3

(* Emptying what is empty changes nothing.                                 *)
LEMMA TakesNothing ==
    ASSUME NEW m \in MemType, NEW n, NEW o \in Objects, Takes(m, n, o), m.owns[o] = NoBody
    PROVE  n = m
<1>1. /\ m = [owns |-> m.owns, live |-> m.live] /\ n = [owns |-> n.owns, live |-> n.live]
      /\ m.owns \in [Objects -> MaybeBody] /\ m.live \in [Bodies -> Int]
      /\ n.owns \in [Objects -> MaybeBody] /\ n.live \in [Bodies -> Int]
  BY DEF MemType, Takes
<1>2. \A p \in Objects : n.owns[p] = m.owns[p]
  BY DEF Takes
<1>3. \A x \in Bodies : n.live[x] = m.live[x]
  BY BodyAssumption DEF Takes
<1>4. n.owns = m.owns
  BY <1>1, <1>2
<1>5. n.live = m.live
  BY <1>1, <1>3
<1> QED BY <1>1, <1>4, <1>5

-----------------------------------------------------------------------------
(* What the actions do to the memory.                                      *)

(* The temporary is empty again once the description has the body.         *)
LEMMA BuildDescEffect ==
    ASSUME BodyTypeInv, OwnInv, NEW c \in Callers, NEW b \in Bodies, BuildDesc(c, b)
    PROVE  Puts(mem, mem', DescOf(c), b)
<1> DEFINE m1 == InitFn(mem, ArgOf(c), b)
           m2 == MoveFrom(m1, ArgOf(c), DescOf(c))
           m3 == ResetFn(m2, ArgOf(c))
<1>1. mem \in MemType /\ mem.owns[ArgOf(c)] = NoBody /\ mem' = m3
  BY DEF BodyTypeInv, OwnInv, BuildDesc
<1>2. ArgOf(c) \in Objects /\ DescOf(c) \in Objects /\ ArgOf(c) # DescOf(c)
  BY ObjectsExist, ObjectsApart
<1>3. Puts(mem, m1, ArgOf(c), b)
  BY <1>1, <1>2, InitIs
<1> HIDE DEF m1
<1>4. Shifts(m1, m2, ArgOf(c), DescOf(c))
  BY <1>2, <1>3, MoveIs DEF Puts
<1> HIDE DEF m2
<1>5. m2.owns[ArgOf(c)] = NoBody
  BY <1>2, <1>4 DEF Shifts
<1>6. m3 = m2
  <2>1. Takes(m2, m3, ArgOf(c))
    BY <1>2, <1>4, ResetIs DEF Shifts
  <2> QED BY <1>2, <1>4, <1>5, <2>1, TakesNothing DEF Shifts
<1> QED BY <1>1, <1>2, <1>3, <1>4, <1>6 DEF Puts, Shifts

(* Of the way through a node on the stack only its ends are left.          *)
LEMMA AddNodeEffect ==
    ASSUME BodyTypeInv, OwnInv, NEW c \in Callers, AddNode(c)
    PROVE  /\ graphSize + 1 \in 1 .. MaxGraphSize
           /\ Shifts(mem, mem', DescOf(c), NodeFn(graphSize + 1))
<1> DEFINE n == NodeFn(graphSize + 1)
           m1 == ResetFn(mem, LocalOf(c))
           m2 == MoveFrom(m1, DescOf(c), LocalOf(c))
           m3 == MoveFrom(m2, LocalOf(c), n)
           m4 == ResetFn(m3, DescOf(c))
<1>1. /\ mem \in MemType /\ mem.owns[LocalOf(c)] = NoBody /\ mem' = m4
      /\ graphSize + 1 \in 1 .. MaxGraphSize
  BY BodyAssumption DEF BodyTypeInv, OwnInv, InLocal, AddNode, CAt, MoveAssign
<1>2. /\ LocalOf(c) \in Objects /\ DescOf(c) \in Objects /\ n \in Objects
      /\ LocalOf(c) # DescOf(c) /\ LocalOf(c) # n /\ DescOf(c) # n
  BY <1>1, ObjectsExist, ObjectsApart
<1> HIDE DEF n
<1>3. m1 = mem
  <2>1. Takes(mem, m1, LocalOf(c))
    BY <1>1, <1>2, ResetIs
  <2> QED BY <1>1, <1>2, <2>1, TakesNothing
<1> HIDE DEF m1
<1>4. Shifts(mem, m2, DescOf(c), LocalOf(c))
  BY <1>1, <1>2, <1>3, MoveIs
<1> HIDE DEF m2
<1>5. Shifts(m2, m3, LocalOf(c), n)
  BY <1>2, <1>4, MoveIs DEF Shifts
<1> HIDE DEF m3
<1>6. m3.owns[DescOf(c)] = NoBody
  BY <1>2, <1>4, <1>5 DEF Shifts
<1>7. m4 = m3
  <2>1. Takes(m3, m4, DescOf(c))
    BY <1>2, <1>5, ResetIs DEF Shifts
  <2> QED BY <1>2, <1>5, <1>6, <2>1, TakesNothing DEF Shifts
<1> HIDE DEF m4
<1>8. ASSUME NEW p \in Objects
      PROVE  m3.owns[p] = IF p = n THEN mem.owns[DescOf(c)]
                          ELSE IF p = DescOf(c) THEN NoBody ELSE mem.owns[p]
  BY <1>1, <1>2, <1>4, <1>5 DEF Shifts
<1>9. m3 \in MemType /\ \A x \in Bodies : m3.live[x] = mem.live[x]
  BY <1>4, <1>5 DEF Shifts
<1> QED BY <1>1, <1>7, <1>8, <1>9 DEF Shifts, n

(* The parameter is made from the node.                                    *)
LEMMA NodeDescEffect ==
    ASSUME BodyTypeInv, NEW c \in Callers, NodeDesc(c), nodeAt[c] <= graphSize
    PROVE  /\ nodeAt[c] \in 1 .. graphSize /\ nodeAt[c] \in 1 .. MaxGraphSize
           /\ Shifts(mem, mem', NodeFn(nodeAt[c]), DescOf(c))
<1>1. /\ nodeAt[c] \in 1 .. graphSize /\ nodeAt[c] \in 1 .. MaxGraphSize /\ mem \in MemType
      /\ mem' = MoveFrom(mem, NodeFn(nodeAt[c]), DescOf(c))
  BY BodyAssumption DEF BodyTypeInv, NodeDesc, CAt
<1> QED BY <1>1, ObjectsExist, ObjectsApart, MoveIs

(* acquire() moves the description into a free slot.                       *)
LEMMA AcquireMoveEffect ==
    ASSUME BodyTypeInv, OwnInv, NEW c \in Callers, AcquireMove(c)
    PROVE  \E s \in freeSlots : HoldFreeSlot(c, s) /\ Shifts(mem, mem', DescOf(c), SlotFn(s))
<1>1. PICK s \in freeSlots : HoldFreeSlot(c, s) /\ mem' = MoveAssign(mem, DescOf(c), SlotFn(s))
  BY DEF AcquireMove
<1>2. /\ mem \in MemType /\ SlotFn(s) \in Objects /\ DescOf(c) \in Objects
      /\ SlotFn(s) # DescOf(c) /\ mem.owns[SlotFn(s)] = NoBody
  BY ObjectsExist, ObjectsApart DEF BodyTypeInv, OwnInv
<1>3. ResetFn(mem, SlotFn(s)) = mem
  BY <1>2, ResetIs, TakesNothing
<1>4. mem' = MoveFrom(mem, DescOf(c), SlotFn(s))
  BY <1>1, <1>3 DEF MoveAssign
<1> QED BY <1>1, <1>2, <1>4, MoveIs

(* The description that is destroyed was moved from.                       *)
LEMMA SubmitReturnEffect ==
    ASSUME BodyTypeInv, OwnInv, NEW c \in Callers, SubmitReturn(c)
    PROVE  mem' = mem
<1>1. /\ mem \in MemType /\ DescOf(c) \in Objects /\ mem.owns[DescOf(c)] = NoBody
      /\ mem' = ResetFn(mem, DescOf(c))
  BY ObjectsExist DEF BodyTypeInv, OwnInv, InDesc, SubmitReturn, CAt
<1> QED BY <1>1, ResetIs, TakesNothing

(* run_inline() moves it into its local, ...                               *)
LEMMA InlineMoveEffect ==
    ASSUME BodyTypeInv, NEW c \in Callers, InlineMove(c)
    PROVE  Shifts(mem, mem', DescOf(c), LocalOf(c))
<1>1. mem \in MemType /\ mem' = MoveFrom(mem, DescOf(c), LocalOf(c))
  BY DEF BodyTypeInv, InlineMove
<1> QED BY <1>1, ObjectsExist, ObjectsApart, MoveIs

(* ... which is destroyed on return; the description is empty by then.     *)
LEMMA InlineReturnEffect ==
    ASSUME BodyTypeInv, OwnInv, NEW c \in Callers, InlineReturn(c)
    PROVE  Takes(mem, mem', LocalOf(c))
<1> DEFINE m1 == ResetFn(mem, LocalOf(c))
<1>1. /\ mem \in MemType /\ mem.owns[DescOf(c)] = NoBody
      /\ mem' = ResetFn(m1, DescOf(c))
  BY DEF BodyTypeInv, OwnInv, InDesc, InlineReturn, CAt
<1>2. DescOf(c) \in Objects /\ LocalOf(c) \in Objects /\ DescOf(c) # LocalOf(c)
  BY ObjectsExist, ObjectsApart
<1>3. Takes(mem, m1, LocalOf(c))
  BY <1>1, <1>2, ResetIs
<1> HIDE DEF m1
<1>4. m1 \in MemType /\ m1.owns[DescOf(c)] = NoBody
  BY <1>1, <1>2, <1>3 DEF Takes
<1>5. mem' = m1
  BY <1>1, <1>2, <1>4, ResetIs, TakesNothing
<1> QED BY <1>3, <1>5

(* A callable is constructed in a function that is empty.                  *)
LEMMA EmplaceEffect ==
    ASSUME NEW m \in MemType, NEW o \in Objects, m.owns[o] = NoBody, NEW b \in Bodies
    PROVE  Puts(m, EmplaceFn(m, o, b), o, b)
<1>1. ResetFn(m, o) = m
  BY ResetIs, TakesNothing
<1> QED BY <1>1, InitIs DEF EmplaceFn

(* submit_emplace() constructs in the slot it has reserved, ...            *)
LEMMA ConstructInSlotEffect ==
    ASSUME BodyTypeInv, SlotInv, OwnInv, NEW c \in Callers, ConstructInSlot(c)
    PROVE  cslot[c] \in Slots /\ Puts(mem, mem', SlotFn(cslot[c]), subject[c])
<1>1. /\ cslot[c] \in Slots /\ mem \in MemType /\ mem.owns[SlotFn(cslot[c])] = NoBody
      /\ subject[c] \in Bodies /\ mem' = EmplaceFn(mem, SlotFn(cslot[c]), subject[c])
  BY DEF BodyTypeInv, SlotInv, HasSlot, OwnInv, ConstructInSlot, CAt
<1> QED BY <1>1, ObjectsExist, EmplaceEffect

(* ... or in a description.                                                *)
LEMMA ConstructInDescEffect ==
    ASSUME BodyTypeInv, OwnInv, NEW c \in Callers, ConstructInDesc(c)
    PROVE  Puts(mem, mem', DescOf(c), subject[c])
<1>1. /\ mem \in MemType /\ mem.owns[DescOf(c)] = NoBody
      /\ subject[c] \in Bodies /\ mem' = EmplaceFn(mem, DescOf(c), subject[c])
  BY DEF BodyTypeInv, OwnInv, InDesc, ConstructInDesc, CAt
<1> QED BY <1>1, ObjectsExist, EmplaceEffect

(* There is nothing in the slot of a callable that could not be copied.    *)
LEMMA SlotThrowsEffect ==
    ASSUME BodyTypeInv, SlotInv, OwnInv, NEW c \in Callers, SlotThrows(c)
    PROVE  mem' = mem
<1>1. /\ cslot[c] \in Slots /\ mem \in MemType /\ mem.owns[SlotFn(cslot[c])] = NoBody
      /\ mem' = ResetFn(mem, SlotFn(cslot[c]))
  BY DEF BodyTypeInv, SlotInv, HasSlot, OwnInv, SlotThrows, CAt
<1> QED BY <1>1, ObjectsExist, ResetIs, TakesNothing

(* release() empties the slot.                                             *)
LEMMA ReleaseBodyEffect ==
    ASSUME BodyTypeInv, SlotInv, NEW r \in Runners, ReleaseBody(r)
    PROVE  rslot[r] \in Slots /\ Takes(mem, mem', SlotFn(rslot[r]))
<1>1. rslot[r] \in Slots /\ mem \in MemType /\ mem' = ResetFn(mem, SlotFn(rslot[r]))
  BY DEF BodyTypeInv, SlotInv, OnSlot, ReleaseBody
<1> QED BY <1>1, ObjectsExist, ResetIs

-----------------------------------------------------------------------------
(* Ranges.                                                                 *)

(* What an object owns is a body or none.                                  *)
LEMMA OwnsBody ==
    ASSUME BodyTypeInv, NEW o \in Objects
    PROVE  mem.owns[o] \in MaybeBody
BY DEF BodyTypeInv, MemType

(* The ranges hold at the start.                                           *)
LEMMA TypeInit == BodyInit => BodyTypeInv
<1> SUFFICES ASSUME BodyInit PROVE BodyTypeInv
  OBVIOUS
<1>1. mem \in MemType
  BY DEF BodyInit, MemType, MaybeBody
<1> QED BY <1>1, BodyAssumption DEF BodyInit, BodyTypeInv, Slots, MaybeBody, CallerPlaces

(* A body put into a description keeps the ranges.                         *)
LEMMA BuildDescType ==
    ASSUME BodyTypeInv, OwnInv, NEW c \in Callers, NEW b \in Bodies, BuildDesc(c, b)
    PROVE  BodyTypeInv'
<1>1. mem' \in MemType
  BY BuildDescEffect DEF Puts
<1> QED BY <1>1, BodyAssumption
       DEF BodyTypeInv, BuildDesc, Offer, graphVars, poolSide, runnerVars, CAt, CGoto,
           MaybeBody, CallerPlaces, Slots

(* TaskGraph::add() keeps the ranges.                                      *)
LEMMA AddNodeType ==
    ASSUME BodyTypeInv, OwnInv, NEW c \in Callers, AddNode(c)
    PROVE  BodyTypeInv'
<1>1. mem' \in MemType
  BY AddNodeEffect DEF Shifts
<1> QED BY <1>1, BodyAssumption
       DEF BodyTypeInv, AddNode, Leave, poolSide, runnerVars, bodyHistory, CAt, CGoto,
           MaybeBody, CallerPlaces, Slots

(* The beginning of TaskGraph::submit() keeps the ranges.                  *)
LEMMA SubmitGraphType ==
    ASSUME BodyTypeInv, NEW c \in Callers, SubmitGraph(c)
    PROVE  BodyTypeInv'
<1>1. mem' \in MemType
  BY DEF BodyTypeInv, SubmitGraph
<1> QED BY <1>1, BodyAssumption
       DEF BodyTypeInv, SubmitGraph, poolSide, runnerVars, bodyHistory, CAt, CGoto,
           MaybeBody, CallerPlaces, Slots

(* The increment of outstanding_ in submit() keeps the ranges.             *)
LEMMA CountBodyType ==
    ASSUME BodyTypeInv, NEW c \in Callers, CountBody(c)
    PROVE  BodyTypeInv'
<1>1. mem' \in MemType
  BY DEF BodyTypeInv, CountBody
<1> QED BY <1>1, BodyAssumption
       DEF BodyTypeInv, CountBody, graphVars, poolSide, runnerVars, bodyHistory, CAt, CGoto,
           MaybeBody, CallerPlaces, Slots

(* acquire() with a free slot keeps the ranges.                            *)
LEMMA AcquireMoveType ==
    ASSUME BodyTypeInv, OwnInv, NEW c \in Callers, AcquireMove(c)
    PROVE  BodyTypeInv'
<1>1. mem' \in MemType
  BY AcquireMoveEffect DEF Shifts
<1> QED BY <1>1, BodyAssumption
       DEF BodyTypeInv, AcquireMove, HoldFreeSlot, graphVars, runnerVars, bodyHistory, CAt,
           CGoto, MaybeBody, CallerPlaces, Slots

(* acquire() with none keeps the ranges.                                   *)
LEMMA AcquireNothingType ==
    ASSUME BodyTypeInv, NEW c \in Callers, AcquireNothing(c)
    PROVE  BodyTypeInv'
<1>1. mem' \in MemType
  BY DEF BodyTypeInv, AcquireNothing
<1> QED BY <1>1, BodyAssumption
       DEF BodyTypeInv, AcquireNothing, graphVars, poolSide, runnerVars, bodyHistory, CAt,
           CGoto, MaybeBody, CallerPlaces, Slots

(* enqueue_ready() keeps the ranges.                                       *)
LEMMA PublishBodyType ==
    ASSUME BodyTypeInv, SlotInv, NEW c \in Callers, PublishBody(c)
    PROVE  BodyTypeInv'
<1>1. cslot[c] \in Slots
  BY DEF PublishBody, CAt, SlotInv, HasSlot
<1>2. readySlots' \subseteq Slots
  BY <1>1 DEF BodyTypeInv, PublishBody
<1> QED BY <1>2
       DEF BodyTypeInv, PublishBody, graphVars, runnerVars, bodyHistory, CAt, CGoto,
           MaybeBody, CallerPlaces

(* The return of submit() keeps the ranges.                                *)
LEMMA SubmitReturnType ==
    ASSUME BodyTypeInv, OwnInv, NEW c \in Callers, SubmitReturn(c)
    PROVE  BodyTypeInv'
<1>1. mem' \in MemType
  BY SubmitReturnEffect DEF BodyTypeInv
<1> QED BY <1>1, BodyAssumption
       DEF BodyTypeInv, SubmitReturn, Resume, Leave, graphVars, poolSide, runnerVars,
           bodyHistory, CAt, CGoto, MaybeBody, CallerPlaces, Slots

(* The move into run_inline()'s local keeps the ranges.                    *)
LEMMA InlineMoveType ==
    ASSUME BodyTypeInv, NEW c \in Callers, InlineMove(c)
    PROVE  BodyTypeInv'
<1>1. mem' \in MemType
  BY InlineMoveEffect DEF Shifts
<1> QED BY <1>1, BodyAssumption
       DEF BodyTypeInv, InlineMove, graphVars, poolSide, runnerVars, bodyHistory, CAt,
           CGoto, MaybeBody, CallerPlaces, Slots

(* The decrement in run_inline() keeps the ranges.                         *)
LEMMA InlineUncountType ==
    ASSUME BodyTypeInv, NEW c \in Callers, InlineUncount(c)
    PROVE  BodyTypeInv'
<1>1. mem' \in MemType
  BY DEF BodyTypeInv, InlineUncount
<1> QED BY <1>1, BodyAssumption
       DEF BodyTypeInv, InlineUncount, graphVars, poolSide, runnerVars, CAt, CGoto,
           MaybeBody, CallerPlaces, Slots

(* The return of run_inline() keeps the ranges.                            *)
LEMMA InlineReturnType ==
    ASSUME BodyTypeInv, OwnInv, NEW c \in Callers, InlineReturn(c)
    PROVE  BodyTypeInv'
<1>1. mem' \in MemType
  BY InlineReturnEffect DEF Takes
<1> QED BY <1>1, BodyAssumption
       DEF BodyTypeInv, InlineReturn, Resume, Leave, graphVars, poolSide, runnerVars,
           bodyHistory, CAt, CGoto, MaybeBody, CallerPlaces, Slots

(* The beginning of submit_emplace() keeps the ranges.                     *)
LEMMA CountEmplaceType ==
    ASSUME BodyTypeInv, NEW c \in Callers, NEW b \in Bodies, CountEmplace(c, b)
    PROVE  BodyTypeInv'
<1>1. mem' \in MemType
  BY DEF BodyTypeInv, CountEmplace
<1> QED BY <1>1, BodyAssumption
       DEF BodyTypeInv, CountEmplace, Offer, graphVars, poolSide, runnerVars, CAt, CGoto,
           MaybeBody, CallerPlaces, Slots

(* The reservation in submit_emplace() keeps the ranges.                   *)
LEMMA ReserveSlotType ==
    ASSUME BodyTypeInv, NEW c \in Callers, ReserveSlot(c)
    PROVE  BodyTypeInv'
<1>1. CASE freeSlots = {}
  BY <1>1
         DEF BodyTypeInv, ReserveSlot, graphVars, runnerVars, bodyHistory, CAt, CGoto,
             MaybeBody, CallerPlaces
<1>2. CASE freeSlots # {}
  <2>1. PICK s \in freeSlots : HoldFreeSlot(c, s)
    BY <1>2 DEF ReserveSlot
  <2>2. s \in 0 .. PoolSlots /\ freeSlots' \subseteq Slots
    BY <2>1, BodyAssumption DEF BodyTypeInv, HoldFreeSlot, Slots
  <2> QED BY <1>2, <2>1, <2>2
         DEF BodyTypeInv, ReserveSlot, HoldFreeSlot, graphVars, runnerVars, bodyHistory,
             CAt, CGoto, MaybeBody, CallerPlaces
<1> QED BY <1>1, <1>2

(* The construction in the slot keeps the ranges.                          *)
LEMMA ConstructInSlotType ==
    ASSUME BodyTypeInv, SlotInv, OwnInv, NEW c \in Callers, ConstructInSlot(c)
    PROVE  BodyTypeInv'
<1>1. mem' \in MemType
  BY ConstructInSlotEffect DEF Puts
<1> QED BY <1>1, BodyAssumption
       DEF BodyTypeInv, ConstructInSlot, graphVars, poolSide, runnerVars, bodyHistory, CAt,
           CGoto, MaybeBody, CallerPlaces, Slots

(* The construction in a description keeps the ranges.                     *)
LEMMA ConstructInDescType ==
    ASSUME BodyTypeInv, OwnInv, NEW c \in Callers, ConstructInDesc(c)
    PROVE  BodyTypeInv'
<1>1. mem' \in MemType
  BY ConstructInDescEffect DEF Puts
<1> QED BY <1>1, BodyAssumption
       DEF BodyTypeInv, ConstructInDesc, graphVars, poolSide, runnerVars, bodyHistory, CAt,
           CGoto, MaybeBody, CallerPlaces, Slots

(* A copy that throws in the slot keeps the ranges.                        *)
LEMMA SlotThrowsType ==
    ASSUME BodyTypeInv, SlotInv, OwnInv, NEW c \in Callers, SlotThrows(c)
    PROVE  BodyTypeInv'
<1>1. mem' = mem
  BY SlotThrowsEffect
<1>2. cslot[c] \in Slots
  BY DEF SlotThrows, CAt, SlotInv, HasSlot
<1>3. freeSlots' \subseteq Slots
  BY <1>2 DEF BodyTypeInv, SlotThrows
<1> QED BY <1>1, <1>3, BodyAssumption
       DEF BodyTypeInv, SlotThrows, SubjectThrows, Leave, graphVars, runnerVars, CAt, CGoto,
           MaybeBody, CallerPlaces

(* A copy that throws in the description keeps the ranges.                 *)
LEMMA DescThrowsType ==
    ASSUME BodyTypeInv, NEW c \in Callers, DescThrows(c)
    PROVE  BodyTypeInv'
<1>1. mem' \in MemType
  BY DEF BodyTypeInv, DescThrows
<1> QED BY <1>1, BodyAssumption
       DEF BodyTypeInv, DescThrows, SubjectThrows, Leave, graphVars, runnerVars, CAt, CGoto,
           MaybeBody, CallerPlaces, Slots

(* A runner's taking of a task keeps the ranges.                           *)
LEMMA TakeReadyType ==
    ASSUME BodyTypeInv, NEW r \in Runners, TakeReady(r)
    PROVE  BodyTypeInv'
<1>1. mem' \in MemType
  BY DEF BodyTypeInv, TakeReady
<1> QED BY <1>1, BodyAssumption
       DEF BodyTypeInv, TakeReady, RGoto, graphVars, callerVars, bodyHistory, CAt, CGoto,
           MaybeBody, CallerPlaces, Slots

(* The reset in release() keeps the ranges.                                *)
LEMMA ReleaseBodyType ==
    ASSUME BodyTypeInv, SlotInv, NEW r \in Runners, ReleaseBody(r)
    PROVE  BodyTypeInv'
<1>1. mem' \in MemType
  BY ReleaseBodyEffect DEF Takes
<1> QED BY <1>1, BodyAssumption
       DEF BodyTypeInv, ReleaseBody, RGoto, graphVars, poolSide, callerVars, bodyHistory,
           CAt, CGoto, MaybeBody, CallerPlaces, Slots

(* The slot's return to the free list keeps the ranges.                    *)
LEMMA GiveSlotBackType ==
    ASSUME BodyTypeInv, SlotInv, NEW r \in Runners, GiveSlotBack(r)
    PROVE  BodyTypeInv'
<1>1. rslot[r] \in Slots
  BY DEF GiveSlotBack, SlotInv, OnSlot
<1>2. freeSlots' \subseteq Slots
  BY <1>1 DEF BodyTypeInv, GiveSlotBack
<1> QED BY <1>2
       DEF BodyTypeInv, GiveSlotBack, RGoto, graphVars, callerVars, bodyHistory, CAt, CGoto,
           MaybeBody, CallerPlaces

(* The decrement in complete() keeps the ranges.                           *)
LEMMA UncountBodyType ==
    ASSUME BodyTypeInv, NEW r \in Runners, UncountBody(r)
    PROVE  BodyTypeInv'
<1>1. mem' \in MemType
  BY DEF BodyTypeInv, UncountBody
<1> QED BY <1>1, BodyAssumption
       DEF BodyTypeInv, UncountBody, RGoto, graphVars, poolSide, callerVars, CAt, CGoto,
           MaybeBody, CallerPlaces, Slots

(* The runner calls what its slot owns, a body.                            *)
LEMMA ExecuteBodyCalls ==
    ASSUME BodyTypeInv, SlotInv, NEW r \in Runners, ExecuteBody(r)
    PROVE  \E b \in Bodies : /\ rslot[r] \in Slots /\ mem.owns[SlotFn(rslot[r])] = b
                             /\ executed' = [executed EXCEPT ![b] = executed[b] + 1]
                             /\ rbody' = [rbody EXCEPT ![r] = b]
<1> DEFINE b == mem.owns[SlotFn(rslot[r])]
<1>1. rslot[r] \in Slots /\ b # NoBody
  BY DEF ExecuteBody, SlotInv, OnSlot, Holds
<1>2. b \in Bodies
  BY <1>1, OwnsBody, ObjectsExist DEF MaybeBody
<1>3. executed' = [executed EXCEPT ![b] = executed[b] + 1] /\ rbody' = [rbody EXCEPT ![r] = b]
  BY DEF ExecuteBody, CallBody
<1> HIDE DEF b
<1> QED BY <1>1, <1>2, <1>3 DEF b

(* The call in execute() keeps the ranges.                                 *)
LEMMA ExecuteBodyType ==
    ASSUME BodyTypeInv, SlotInv, NEW r \in Runners, ExecuteBody(r)
    PROVE  BodyTypeInv'
<1>1. PICK b \in Bodies : /\ executed' = [executed EXCEPT ![b] = executed[b] + 1]
                          /\ rbody' = [rbody EXCEPT ![r] = b]
  BY ExecuteBodyCalls
<1>2. executed' \in [Bodies -> Nat]
  BY <1>1 DEF BodyTypeInv
<1> QED BY <1>1, <1>2
       DEF BodyTypeInv, ExecuteBody, RGoto, graphVars, poolSide, callerVars, MaybeBody

(* A caller calls what its local owns, the body it is about.               *)
LEMMA InlineCallCalls ==
    ASSUME BodyTypeInv, OwnInv, NEW c \in Callers, InlineCall(c)
    PROVE  /\ subject[c] = NoBody => executed' = executed
           /\ subject[c] # NoBody => /\ subject[c] \in Bodies
                                     /\ executed' = [executed EXCEPT ![subject[c]] = @ + 1]
BY DEF BodyTypeInv, OwnInv, InLocal, InlineCall, CAt, CallBody, Holds, MaybeBody

(* The call in run_inline() keeps the ranges.                              *)
LEMMA InlineCallType ==
    ASSUME BodyTypeInv, OwnInv, NEW c \in Callers, InlineCall(c)
    PROVE  BodyTypeInv'
<1>1. executed' \in [Bodies -> Nat]
  BY InlineCallCalls DEF BodyTypeInv
<1> QED BY <1>1
       DEF BodyTypeInv, InlineCall, graphVars, poolSide, runnerVars, CAt, CGoto, MaybeBody,
           CallerPlaces

(* The next node of TaskGraph::submit() keeps the ranges.                  *)
LEMMA NodeDescType ==
    ASSUME BodyTypeInv, NEW c \in Callers, NodeDesc(c)
    PROVE  BodyTypeInv'
<1>1. CASE nodeAt[c] <= graphSize
  <2>1. /\ mem' \in MemType
        /\ mem.owns[NodeFn(nodeAt[c])] \in MaybeBody
    BY <1>1, NodeDescEffect, OwnsBody, ObjectsExist DEF Shifts
  <2> QED BY <1>1, <2>1
         DEF BodyTypeInv, NodeDesc, graphVars, poolSide, runnerVars, bodyHistory, CAt,
             CGoto, CallerPlaces
<1>2. CASE ~ nodeAt[c] <= graphSize
  BY <1>2
         DEF BodyTypeInv, NodeDesc, graphVars, poolSide, runnerVars, bodyHistory, CAt,
             CGoto, CallerPlaces
<1> QED BY <1>1, <1>2

-----------------------------------------------------------------------------
(* Every slot is in one place.                                             *)

(* At the start every slot is free.                                        *)
LEMMA SlotInit == BodyInit => SlotInv
BY DEF BodyInit, SlotInv, HasSlot, OnSlot, Slots

(* Who does not touch a slot leaves them where they are.                   *)
LEMMA SlotsStay ==
    ASSUME SlotInv, freeSlots' = freeSlots, readySlots' = readySlots,
           \A c \in Callers : (HasSlot(c)' <=> HasSlot(c)) /\ (HasSlot(c) => cslot'[c] = cslot[c]),
           \A r \in Runners : (OnSlot(r)' <=> OnSlot(r)) /\ (OnSlot(r) => rslot'[r] = rslot[r])
    PROVE  SlotInv'
BY DEF SlotInv

(* A caller takes a slot off the free list.                                *)
LEMMA SlotTaken ==
    ASSUME BodyTypeInv, SlotInv, NEW c \in Callers, NEW s \in freeSlots, HoldFreeSlot(c, s),
           ~ HasSlot(c), HasSlot(c)', \A d \in Callers : d # c => (HasSlot(d)' <=> HasSlot(d)),
           UNCHANGED <<readySlots, rpc, rslot>>
    PROVE  SlotInv'
<1>1. /\ s \in Slots /\ cslot'[c] = s /\ freeSlots' = freeSlots \ {s} /\ s \notin readySlots
      /\ \A d \in Callers : d # c => cslot'[d] = cslot[d]
  BY DEF HoldFreeSlot, BodyTypeInv, SlotInv
<1>2. \A r \in Runners : (OnSlot(r)' <=> OnSlot(r)) /\ rslot'[r] = rslot[r]
  BY DEF OnSlot
<1>3. \A d \in Callers : d # c /\ HasSlot(d) => cslot[d] # s
  BY DEF SlotInv
<1>4. \A r \in Runners : OnSlot(r) => rslot[r] # s
  BY DEF SlotInv
<1>5. ASSUME NEW x \in Slots
      PROVE  \/ x \in freeSlots' \cup readySlots'
             \/ \E d \in Callers : HasSlot(d)' /\ cslot'[d] = x
             \/ \E r \in Runners : OnSlot(r)' /\ rslot'[r] = x
  <2>1. CASE x = s
    BY <1>1, <2>1
  <2>2. CASE x # s
    BY <1>1, <1>2, <2>2 DEF SlotInv
  <2> QED BY <2>1, <2>2
<1>6. \A d \in Callers : HasSlot(d)' => cslot'[d] \in Slots \ (freeSlots' \cup readySlots')
  BY <1>1 DEF SlotInv
<1>7. \A d, e \in Callers : HasSlot(d)' /\ HasSlot(e)' /\ cslot'[d] = cslot'[e] => d = e
  BY <1>1, <1>3 DEF SlotInv
<1>8. \A d \in Callers, r \in Runners : HasSlot(d)' /\ OnSlot(r)' => cslot'[d] # rslot'[r]
  BY <1>1, <1>2, <1>4 DEF SlotInv
<1>9. /\ freeSlots' \cap readySlots' = {}
      /\ \A r \in Runners : OnSlot(r)' => rslot'[r] \in Slots \ (freeSlots' \cup readySlots')
      /\ \A r, q \in Runners : OnSlot(r)' /\ OnSlot(q)' /\ rslot'[r] = rslot'[q] => r = q
  BY <1>1, <1>2 DEF SlotInv
<1> QED BY <1>5, <1>6, <1>7, <1>8, <1>9 DEF SlotInv

(* A caller's slot joins the free list or the queue.                       *)
LEMMA SlotLeftByCaller ==
    ASSUME SlotInv, NEW c \in Callers, HasSlot(c), ~ HasSlot(c)',
           \A d \in Callers : d # c => (HasSlot(d)' <=> HasSlot(d)) /\ cslot'[d] = cslot[d],
           \/ freeSlots' = freeSlots \cup {cslot[c]} /\ readySlots' = readySlots
           \/ readySlots' = readySlots \cup {cslot[c]} /\ freeSlots' = freeSlots,
           UNCHANGED <<rpc, rslot>>
    PROVE  SlotInv'
<1>1. \A r \in Runners : (OnSlot(r)' <=> OnSlot(r)) /\ rslot'[r] = rslot[r]
  BY DEF OnSlot
<1>2. cslot[c] \in Slots /\ cslot[c] \notin freeSlots \cup readySlots
  BY DEF SlotInv
<1>3. \A x : x \in freeSlots' \cup readySlots' <=> x \in freeSlots \cup readySlots \/ x = cslot[c]
  OBVIOUS
<1>4. \A d \in Callers : d # c /\ HasSlot(d) => cslot[d] # cslot[c]
  BY DEF SlotInv
<1>5. \A r \in Runners : OnSlot(r) => rslot[r] # cslot[c]
  BY DEF SlotInv
<1>6. freeSlots' \cap readySlots' = {}
  BY <1>2 DEF SlotInv
<1>7. \A d \in Callers : HasSlot(d)' => cslot'[d] \in Slots \ (freeSlots' \cup readySlots')
  BY <1>3, <1>4 DEF SlotInv
<1>8. \A r \in Runners : OnSlot(r)' => rslot'[r] \in Slots \ (freeSlots' \cup readySlots')
  BY <1>1, <1>3, <1>5 DEF SlotInv
<1>9. ASSUME NEW x \in Slots
      PROVE  \/ x \in freeSlots' \cup readySlots'
             \/ \E d \in Callers : HasSlot(d)' /\ cslot'[d] = x
             \/ \E r \in Runners : OnSlot(r)' /\ rslot'[r] = x
  <2>1. CASE x = cslot[c]
    BY <1>3, <2>1
  <2>2. CASE x # cslot[c]
    BY <1>1, <1>3, <2>2 DEF SlotInv
  <2> QED BY <2>1, <2>2
<1>10. /\ \A d, e \in Callers : HasSlot(d)' /\ HasSlot(e)' /\ cslot'[d] = cslot'[e] => d = e
       /\ \A r, q \in Runners : OnSlot(r)' /\ OnSlot(q)' /\ rslot'[r] = rslot'[q] => r = q
       /\ \A d \in Callers, r \in Runners : HasSlot(d)' /\ OnSlot(r)' => cslot'[d] # rslot'[r]
  BY <1>1 DEF SlotInv
<1> QED BY <1>6, <1>7, <1>8, <1>9, <1>10 DEF SlotInv

(* A slot goes from the queues to the runner that takes it.                *)
LEMMA TakeReadySlot ==
    ASSUME BodyTypeInv, SlotInv, NEW r \in Runners, TakeReady(r)
    PROVE  SlotInv'
<1>1. PICK s \in readySlots : readySlots' = readySlots \ {s} /\ rslot' = [rslot EXCEPT ![r] = s]
  BY DEF TakeReady
<1>2. /\ s \in Slots /\ s \notin freeSlots /\ freeSlots' = freeSlots
      /\ rslot'[r] = s /\ \A q \in Runners : q # r => rslot'[q] = rslot[q]
      /\ OnSlot(r)' /\ ~ OnSlot(r) /\ \A q \in Runners : q # r => (OnSlot(q)' <=> OnSlot(q))
  BY <1>1 DEF BodyTypeInv, SlotInv, TakeReady, RGoto, OnSlot
<1>3. \A c \in Callers : (HasSlot(c)' <=> HasSlot(c)) /\ cslot'[c] = cslot[c]
  BY DEF TakeReady, callerVars, HasSlot
<1>4. \A c \in Callers : HasSlot(c) => cslot[c] # s
  BY DEF SlotInv
<1>5. \A q \in Runners : OnSlot(q) => rslot[q] # s
  BY DEF SlotInv
<1>6. ASSUME NEW x \in Slots
      PROVE  \/ x \in freeSlots' \cup readySlots'
             \/ \E d \in Callers : HasSlot(d)' /\ cslot'[d] = x
             \/ \E q \in Runners : OnSlot(q)' /\ rslot'[q] = x
  <2>1. CASE x = s
    BY <1>2, <2>1
  <2>2. CASE x # s
    BY <1>1, <1>2, <1>3, <2>2 DEF SlotInv
  <2> QED BY <2>1, <2>2
<1>7. \A q \in Runners : OnSlot(q)' => rslot'[q] \in Slots \ (freeSlots' \cup readySlots')
  BY <1>1, <1>2 DEF SlotInv
<1>8. \A p, q \in Runners : OnSlot(p)' /\ OnSlot(q)' /\ rslot'[p] = rslot'[q] => p = q
  BY <1>2, <1>5 DEF SlotInv
<1>9. \A d \in Callers, q \in Runners : HasSlot(d)' /\ OnSlot(q)' => cslot'[d] # rslot'[q]
  BY <1>2, <1>3, <1>4 DEF SlotInv
<1>10. /\ freeSlots' \cap readySlots' = {}
       /\ \A d \in Callers : HasSlot(d)' => cslot'[d] \in Slots \ (freeSlots' \cup readySlots')
       /\ \A d, e \in Callers : HasSlot(d)' /\ HasSlot(e)' /\ cslot'[d] = cslot'[e] => d = e
  BY <1>1, <1>2, <1>3 DEF SlotInv
<1> QED BY <1>6, <1>7, <1>8, <1>9, <1>10 DEF SlotInv

(* A slot goes from the runner to the free list.                           *)
LEMMA GiveSlotBackSlot ==
    ASSUME BodyTypeInv, SlotInv, NEW r \in Runners, GiveSlotBack(r)
    PROVE  SlotInv'
<1>1. /\ rslot[r] \in Slots \ (freeSlots \cup readySlots) /\ freeSlots' = freeSlots \cup {rslot[r]}
      /\ readySlots' = readySlots /\ rslot' = rslot
      /\ OnSlot(r) /\ ~ OnSlot(r)' /\ \A q \in Runners : q # r => (OnSlot(q)' <=> OnSlot(q))
  BY DEF BodyTypeInv, SlotInv, GiveSlotBack, RGoto, OnSlot
<1>2. \A c \in Callers : (HasSlot(c)' <=> HasSlot(c)) /\ cslot'[c] = cslot[c]
  BY DEF GiveSlotBack, callerVars, HasSlot
<1>3. \A c \in Callers : HasSlot(c) => cslot[c] # rslot[r]
  BY <1>1 DEF SlotInv
<1>4. \A q \in Runners : q # r /\ OnSlot(q) => rslot[q] # rslot[r]
  BY <1>1 DEF SlotInv
<1>5. ASSUME NEW x \in Slots
      PROVE  \/ x \in freeSlots' \cup readySlots'
             \/ \E d \in Callers : HasSlot(d)' /\ cslot'[d] = x
             \/ \E q \in Runners : OnSlot(q)' /\ rslot'[q] = x
  <2>1. CASE x = rslot[r]
    BY <1>1, <2>1
  <2>2. CASE x # rslot[r]
    BY <1>1, <1>2, <2>2 DEF SlotInv
  <2> QED BY <2>1, <2>2
<1>6. \A d \in Callers : HasSlot(d)' => cslot'[d] \in Slots \ (freeSlots' \cup readySlots')
  BY <1>1, <1>2, <1>3 DEF SlotInv
<1>7. \A q \in Runners : OnSlot(q)' => rslot'[q] \in Slots \ (freeSlots' \cup readySlots')
  BY <1>1, <1>4 DEF SlotInv
<1>8. /\ freeSlots' \cap readySlots' = {}
      /\ \A d, e \in Callers : HasSlot(d)' /\ HasSlot(e)' /\ cslot'[d] = cslot'[e] => d = e
      /\ \A p, q \in Runners : OnSlot(p)' /\ OnSlot(q)' /\ rslot'[p] = rslot'[q] => p = q
      /\ \A d \in Callers, q \in Runners : HasSlot(d)' /\ OnSlot(q)' => cslot'[d] # rslot'[q]
  BY <1>1, <1>2 DEF SlotInv
<1> QED BY <1>5, <1>6, <1>7, <1>8 DEF SlotInv

(* So each step keeps every slot in one place.                             *)
LEMMA CallerSlotStep ==
    ASSUME BodyTypeInv, SlotInv, NEW c \in Callers, CallerStep(c)
    PROVE  SlotInv'
<1>1. ASSUME NEW b \in Bodies, BuildDesc(c, b) PROVE SlotInv'
  BY <1>1, SlotsStay
     DEF BodyTypeInv, HasSlot, OnSlot, BuildDesc, Offer, CAt, CGoto, graphVars, poolSide,
         runnerVars
<1>2. ASSUME NEW b \in Bodies, CountEmplace(c, b) PROVE SlotInv'
  BY <1>2, SlotsStay
     DEF BodyTypeInv, HasSlot, OnSlot, CountEmplace, Offer, CAt, CGoto, graphVars,
         poolSide, runnerVars
<1>3. CASE AddNode(c)
  BY <1>3, SlotsStay
     DEF BodyTypeInv, HasSlot, OnSlot, AddNode, Leave, CAt, CGoto, poolSide, runnerVars,
         bodyHistory
<1>4. CASE SubmitGraph(c)
  BY <1>4, SlotsStay
     DEF BodyTypeInv, HasSlot, OnSlot, SubmitGraph, CAt, CGoto, poolSide, runnerVars,
         bodyHistory
<1>5. CASE NodeDesc(c)
  BY <1>5, SlotsStay
     DEF BodyTypeInv, HasSlot, OnSlot, NodeDesc, CAt, CGoto, graphVars, poolSide,
         runnerVars, bodyHistory
<1>6. CASE CountBody(c)
  BY <1>6, SlotsStay
     DEF BodyTypeInv, HasSlot, OnSlot, CountBody, CAt, CGoto, graphVars, poolSide,
         runnerVars, bodyHistory
<1>7. CASE AcquireNothing(c)
  BY <1>7, SlotsStay
     DEF BodyTypeInv, HasSlot, OnSlot, AcquireNothing, CAt, CGoto, graphVars, poolSide,
         runnerVars, bodyHistory
<1>8. CASE SubmitReturn(c)
  BY <1>8, SlotsStay
     DEF BodyTypeInv, HasSlot, OnSlot, SubmitReturn, Resume, Leave, CAt, CGoto, graphVars,
         poolSide, runnerVars, bodyHistory
<1>9. CASE InlineMove(c)
  BY <1>9, SlotsStay
     DEF BodyTypeInv, HasSlot, OnSlot, InlineMove, CAt, CGoto, graphVars, poolSide,
         runnerVars, bodyHistory
<1>10. CASE InlineCall(c)
  BY <1>10, SlotsStay
     DEF BodyTypeInv, HasSlot, OnSlot, InlineCall, CAt, CGoto, graphVars, poolSide,
         runnerVars
<1>11. CASE InlineUncount(c)
  BY <1>11, SlotsStay
     DEF BodyTypeInv, HasSlot, OnSlot, InlineUncount, CAt, CGoto, graphVars, poolSide,
         runnerVars
<1>12. CASE InlineReturn(c)
  BY <1>12, SlotsStay
     DEF BodyTypeInv, HasSlot, OnSlot, InlineReturn, Resume, Leave, CAt, CGoto, graphVars,
         poolSide, runnerVars, bodyHistory
<1>13. CASE ConstructInSlot(c)
  BY <1>13, SlotsStay
     DEF BodyTypeInv, HasSlot, OnSlot, ConstructInSlot, CAt, CGoto, graphVars, poolSide,
         runnerVars, bodyHistory
<1>14. CASE ConstructInDesc(c)
  BY <1>14, SlotsStay
     DEF BodyTypeInv, HasSlot, OnSlot, ConstructInDesc, CAt, CGoto, graphVars, poolSide,
         runnerVars, bodyHistory
<1>15. CASE DescThrows(c)
  BY <1>15, SlotsStay
     DEF BodyTypeInv, HasSlot, OnSlot, DescThrows, SubjectThrows, Leave, CAt, CGoto,
         graphVars, runnerVars
<1>16. CASE AcquireMove(c)
  <2>1. PICK s \in freeSlots : HoldFreeSlot(c, s)
    BY <1>16 DEF AcquireMove
  <2>2. /\ ~ HasSlot(c) /\ HasSlot(c)' /\ \A d \in Callers : d # c => (HasSlot(d)' <=> HasSlot(d))
        /\ UNCHANGED <<readySlots, rpc, rslot>>
    BY <1>16 DEF BodyTypeInv, HasSlot, AcquireMove, CAt, CGoto, runnerVars
  <2> QED BY <2>1, <2>2, SlotTaken
<1>17. CASE ReserveSlot(c)
  <2>1. CASE freeSlots = {}
    BY <1>17, <2>1, SlotsStay
       DEF BodyTypeInv, HasSlot, OnSlot, ReserveSlot, HoldFreeSlot, CAt, CGoto, graphVars,
           runnerVars, bodyHistory
  <2>2. CASE freeSlots # {}
    <3>1. PICK s \in freeSlots : HoldFreeSlot(c, s)
      BY <1>17, <2>2 DEF ReserveSlot
    <3>2. /\ ~ HasSlot(c) /\ HasSlot(c)' /\ UNCHANGED <<readySlots, rpc, rslot>>
          /\ \A d \in Callers : d # c => (HasSlot(d)' <=> HasSlot(d))
      BY <1>17, <2>2 DEF BodyTypeInv, HasSlot, ReserveSlot, CAt, CGoto, runnerVars
    <3> QED BY <3>1, <3>2, SlotTaken
  <2> QED BY <2>1, <2>2
<1>18. CASE PublishBody(c)
  <2>1. /\ HasSlot(c) /\ ~ HasSlot(c)' /\ UNCHANGED <<rpc, rslot>>
        /\ \A d \in Callers : d # c => (HasSlot(d)' <=> HasSlot(d)) /\ cslot'[d] = cslot[d]
        /\ \/ freeSlots' = freeSlots \cup {cslot[c]} /\ readySlots' = readySlots
           \/ readySlots' = readySlots \cup {cslot[c]} /\ freeSlots' = freeSlots
    BY <1>18
       DEF BodyTypeInv, HasSlot, PublishBody, CAt, CGoto, graphVars, runnerVars,
           bodyHistory
  <2> QED BY <2>1, SlotLeftByCaller
<1>19. CASE SlotThrows(c)
  <2>1. /\ HasSlot(c) /\ ~ HasSlot(c)' /\ UNCHANGED <<rpc, rslot>>
        /\ \A d \in Callers : d # c => (HasSlot(d)' <=> HasSlot(d)) /\ cslot'[d] = cslot[d]
        /\ \/ freeSlots' = freeSlots \cup {cslot[c]} /\ readySlots' = readySlots
           \/ readySlots' = readySlots \cup {cslot[c]} /\ freeSlots' = freeSlots
    BY <1>19
       DEF BodyTypeInv, HasSlot, SlotThrows, SubjectThrows, Leave, CAt, CGoto, graphVars,
           runnerVars
  <2> QED BY <2>1, SlotLeftByCaller
<1> QED BY <1>1, <1>2, <1>3, <1>4, <1>5, <1>6, <1>7, <1>8, <1>9, <1>10, <1>11,
           <1>12, <1>13, <1>14, <1>15, <1>16, <1>17, <1>18, <1>19
       DEF CallerStep

(* The same for the steps of a runner.                                     *)
LEMMA RunnerSlotStep ==
    ASSUME BodyTypeInv, SlotInv, NEW r \in Runners, RunnerStep(r)
    PROVE  SlotInv'
<1>1. CASE TakeReady(r)
  BY <1>1, TakeReadySlot
<1>2. CASE GiveSlotBack(r)
  BY <1>2, GiveSlotBackSlot
<1>3. CASE ExecuteBody(r)
  BY <1>3, SlotsStay
     DEF BodyTypeInv, HasSlot, OnSlot, ExecuteBody, RGoto, graphVars, poolSide, callerVars
<1>4. CASE ReleaseBody(r)
  BY <1>4, SlotsStay
     DEF BodyTypeInv, HasSlot, OnSlot, ReleaseBody, RGoto, graphVars, poolSide,
         callerVars, bodyHistory
<1>5. CASE UncountBody(r)
  BY <1>5, SlotsStay
     DEF BodyTypeInv, HasSlot, OnSlot, UncountBody, RGoto, graphVars, poolSide, callerVars
<1> QED BY <1>1, <1>2, <1>3, <1>4, <1>5 DEF RunnerStep

-----------------------------------------------------------------------------
(* What each TaskFunction owns.                                            *)

(* At the start nothing owns a body.                                       *)
LEMMA OwnInit == BodyInit => OwnInv
BY ObjectsExist DEF BodyInit, OwnInv, InDesc, InLocal, Slots

(* The beginning of TaskGraph::submit(): nothing is moved.                 *)
LEMMA SubmitGraphOwn ==
    ASSUME BodyTypeInv, SlotInv, OwnInv, NEW c \in Callers, SubmitGraph(c)
    PROVE  OwnInv'
<1>1. mem' = mem
  BY DEF SubmitGraph
<1> QED BY <1>1
       DEF BodyTypeInv, SlotInv, HasSlot, OnSlot, OwnInv, InDesc, InLocal, SubmitGraph,
           CAt, CGoto, poolSide, runnerVars, bodyHistory

(* The increment of outstanding_ in submit(): nothing is moved.            *)
LEMMA CountBodyOwn ==
    ASSUME BodyTypeInv, SlotInv, OwnInv, NEW c \in Callers, CountBody(c)
    PROVE  OwnInv'
<1>1. mem' = mem
  BY DEF CountBody
<1> QED BY <1>1
       DEF BodyTypeInv, SlotInv, HasSlot, OnSlot, OwnInv, InDesc, InLocal, CountBody, CAt,
           CGoto, graphVars, poolSide, runnerVars, bodyHistory

(* acquire() with none: the description keeps the body.                    *)
LEMMA AcquireNothingOwn ==
    ASSUME BodyTypeInv, SlotInv, OwnInv, NEW c \in Callers, AcquireNothing(c)
    PROVE  OwnInv'
<1>1. mem' = mem
  BY DEF AcquireNothing
<1> QED BY <1>1
       DEF BodyTypeInv, SlotInv, HasSlot, OnSlot, OwnInv, InDesc, InLocal, AcquireNothing,
           CAt, CGoto, graphVars, poolSide, runnerVars, bodyHistory

(* enqueue_ready(): nothing is moved.                                      *)
LEMMA PublishBodyOwn ==
    ASSUME BodyTypeInv, SlotInv, OwnInv, NEW c \in Callers, PublishBody(c)
    PROVE  OwnInv'
<1>1. mem' = mem
  BY DEF PublishBody
<1> QED BY <1>1
       DEF BodyTypeInv, SlotInv, HasSlot, OnSlot, OwnInv, InDesc, InLocal, PublishBody,
           CAt, CGoto, graphVars, runnerVars, bodyHistory

(* The return of submit(): the description was empty already.              *)
LEMMA SubmitReturnOwn ==
    ASSUME BodyTypeInv, SlotInv, OwnInv, NEW c \in Callers, SubmitReturn(c)
    PROVE  OwnInv'
<1>1. mem' = mem
  BY SubmitReturnEffect
<1> QED BY <1>1
       DEF BodyTypeInv, SlotInv, HasSlot, OnSlot, OwnInv, InDesc, InLocal, SubmitReturn,
           Resume, Leave, CAt, CGoto, graphVars, poolSide, runnerVars, bodyHistory

(* The call in run_inline(): nothing is moved.                             *)
LEMMA InlineCallOwn ==
    ASSUME BodyTypeInv, SlotInv, OwnInv, NEW c \in Callers, InlineCall(c)
    PROVE  OwnInv'
<1>1. mem' = mem
  BY DEF InlineCall
<1> QED BY <1>1
       DEF BodyTypeInv, SlotInv, HasSlot, OnSlot, OwnInv, InDesc, InLocal, InlineCall,
           CAt, CGoto, graphVars, poolSide, runnerVars

(* The decrement in run_inline(): nothing is moved.                        *)
LEMMA InlineUncountOwn ==
    ASSUME BodyTypeInv, SlotInv, OwnInv, NEW c \in Callers, InlineUncount(c)
    PROVE  OwnInv'
<1>1. mem' = mem
  BY DEF InlineUncount
<1> QED BY <1>1
       DEF BodyTypeInv, SlotInv, HasSlot, OnSlot, OwnInv, InDesc, InLocal, InlineUncount,
           CAt, CGoto, graphVars, poolSide, runnerVars

(* The beginning of submit_emplace(): nothing is constructed yet.          *)
LEMMA CountEmplaceOwn ==
    ASSUME BodyTypeInv, SlotInv, OwnInv, NEW c \in Callers, NEW b \in Bodies, CountEmplace(c, b)
    PROVE  OwnInv'
<1>1. mem' = mem
  BY DEF CountEmplace
<1> QED BY <1>1
       DEF BodyTypeInv, SlotInv, HasSlot, OnSlot, OwnInv, InDesc, InLocal, CountEmplace,
           Offer, CAt, CGoto, graphVars, poolSide, runnerVars

(* A copy that throws in the slot: the slot goes back as empty as it came. *)
LEMMA SlotThrowsOwn ==
    ASSUME BodyTypeInv, SlotInv, OwnInv, NEW c \in Callers, SlotThrows(c)
    PROVE  OwnInv'
<1>1. mem' = mem
  BY SlotThrowsEffect
<1> QED BY <1>1
       DEF BodyTypeInv, SlotInv, HasSlot, OnSlot, OwnInv, InDesc, InLocal, SlotThrows,
           SubjectThrows, Leave, CAt, CGoto, graphVars, runnerVars

(* A copy that throws in the description: the description has stayed       *)
(* empty.                                                                  *)
LEMMA DescThrowsOwn ==
    ASSUME BodyTypeInv, SlotInv, OwnInv, NEW c \in Callers, DescThrows(c)
    PROVE  OwnInv'
<1>1. mem' = mem
  BY DEF DescThrows
<1> QED BY <1>1
       DEF BodyTypeInv, SlotInv, HasSlot, OnSlot, OwnInv, InDesc, InLocal, DescThrows,
           SubjectThrows, Leave, CAt, CGoto, graphVars, runnerVars

(* A runner's taking of a task: nothing is moved.                          *)
LEMMA TakeReadyOwn ==
    ASSUME BodyTypeInv, SlotInv, OwnInv, NEW r \in Runners, TakeReady(r)
    PROVE  OwnInv'
<1>1. mem' = mem
  BY DEF TakeReady
<1> QED BY <1>1
       DEF BodyTypeInv, SlotInv, HasSlot, OnSlot, OwnInv, InDesc, InLocal, TakeReady,
           RGoto, graphVars, callerVars, bodyHistory

(* The slot's return to the free list: an empty slot.                      *)
LEMMA GiveSlotBackOwn ==
    ASSUME BodyTypeInv, SlotInv, OwnInv, NEW r \in Runners, GiveSlotBack(r)
    PROVE  OwnInv'
<1>1. mem' = mem
  BY DEF GiveSlotBack
<1> QED BY <1>1
       DEF BodyTypeInv, SlotInv, HasSlot, OnSlot, OwnInv, InDesc, InLocal, GiveSlotBack,
           RGoto, graphVars, callerVars, bodyHistory

(* The decrement in complete(): nothing is moved.                          *)
LEMMA UncountBodyOwn ==
    ASSUME BodyTypeInv, SlotInv, OwnInv, NEW r \in Runners, UncountBody(r)
    PROVE  OwnInv'
<1>1. mem' = mem
  BY DEF UncountBody
<1> QED BY <1>1
       DEF BodyTypeInv, SlotInv, HasSlot, OnSlot, OwnInv, InDesc, InLocal, UncountBody,
           RGoto, graphVars, poolSide, callerVars

(* A step at a caller's own functions leaves the others as they are.       *)
LEMMA OwnAtCaller ==
    ASSUME BodyTypeInv, SlotInv, OwnInv, NEW c \in Callers,
           \A p \in Objects :
              p # DescOf(c) /\ p # LocalOf(c) /\ (\A n : p # NodeFn(n)) =>
                 mem'.owns[p] = mem.owns[p],
           \A n \in 1 .. MaxGraphSize : n > graphSize' => mem'.owns[NodeFn(n)] = NoBody,
           mem'.owns[DescOf(c)] = InDesc(c)', mem'.owns[LocalOf(c)] = InLocal(c)',
           \A d \in Callers : d # c =>
              cpc'[d] = cpc[d] /\ subject'[d] = subject[d] /\ cslot'[d] = cslot[d],
           cpc'[c] \notin {"construct", "publish"},
           UNCHANGED <<freeSlots, rpc, rslot, rbody>>
    PROVE  OwnInv'
<1>1. \A s \in Slots : mem'.owns[SlotFn(s)] = mem.owns[SlotFn(s)]
  BY ObjectsExist, ObjectsApart
<1>2. ASSUME NEW d \in Callers
      PROVE  /\ mem'.owns[ArgOf(d)] = NoBody
             /\ mem'.owns[DescOf(d)] = InDesc(d)'
             /\ mem'.owns[LocalOf(d)] = InLocal(d)'
  <2>1. mem'.owns[ArgOf(d)] = NoBody
    <3>1. /\ ArgOf(d) \in Objects /\ ArgOf(d) # DescOf(c) /\ ArgOf(d) # LocalOf(c)
          /\ \A n : ArgOf(d) # NodeFn(n)
      BY ObjectsExist, ObjectsApart
    <3> QED BY <3>1 DEF OwnInv
  <2>2. CASE d = c
    BY <2>1, <2>2
  <2>3. CASE d # c
    <3>1. /\ mem'.owns[DescOf(d)] = mem.owns[DescOf(d)]
          /\ mem'.owns[LocalOf(d)] = mem.owns[LocalOf(d)]
      BY <2>3, ObjectsExist, ObjectsApart
    <3>2. InDesc(d)' = InDesc(d) /\ InLocal(d)' = InLocal(d)
      BY <2>3 DEF InDesc, InLocal
    <3> QED BY <2>1, <3>1, <3>2 DEF OwnInv
  <2> QED BY <2>2, <2>3
<1>3. ASSUME NEW d \in Callers
      PROVE  /\ cpc'[d] = "construct" => mem'.owns[SlotFn(cslot'[d])] = NoBody
             /\ cpc'[d] = "publish" => mem'.owns[SlotFn(cslot'[d])] = subject'[d]
  BY <1>1 DEF OwnInv, SlotInv, HasSlot
<1>4. \A s \in freeSlots' : mem'.owns[SlotFn(s)] = NoBody
  BY <1>1 DEF OwnInv, BodyTypeInv
<1>5. \A r \in Runners : /\ rpc'[r] = "release" => mem'.owns[SlotFn(rslot'[r])] = rbody'[r]
                         /\ rpc'[r] = "free" => mem'.owns[SlotFn(rslot'[r])] = NoBody
  BY <1>1 DEF OwnInv, SlotInv, OnSlot
<1> QED BY <1>2, <1>3, <1>4, <1>5 DEF OwnInv

(* A body put into a description: the description has the body.            *)
LEMMA BuildDescOwn ==
    ASSUME BodyTypeInv, SlotInv, OwnInv, NEW c \in Callers, NEW b \in Bodies, BuildDesc(c, b)
    PROVE  OwnInv'
<1>1. Puts(mem, mem', DescOf(c), b)
  BY BuildDescEffect
<1>2. \A p \in Objects : p # DescOf(c) /\ p # LocalOf(c) => mem'.owns[p] = mem.owns[p]
  BY <1>1 DEF Puts
<1>3. DescOf(c) \in Objects /\ LocalOf(c) \in Objects /\ DescOf(c) # LocalOf(c)
  BY ObjectsExist, ObjectsApart
<1>4. mem.owns[DescOf(c)] = InDesc(c) /\ mem.owns[LocalOf(c)] = InLocal(c)
  BY DEF OwnInv
<1>5. mem'.owns[DescOf(c)] = InDesc(c)' /\ mem'.owns[LocalOf(c)] = InLocal(c)'
  BY <1>1, <1>3, <1>4
     DEF Puts, BodyTypeInv, InDesc, InLocal, BuildDesc, Offer, CAt, CGoto, graphVars,
         poolSide, runnerVars
<1>6. /\ \A d \in Callers : d # c =>
            cpc'[d] = cpc[d] /\ subject'[d] = subject[d] /\ cslot'[d] = cslot[d]
      /\ cpc'[c] \notin {"construct", "publish"}
      /\ UNCHANGED <<freeSlots, rpc, rslot, rbody, graphSize>>
  BY DEF BodyTypeInv, BuildDesc, Offer, CAt, CGoto, graphVars, poolSide, runnerVars
<1>7. \A n \in 1 .. MaxGraphSize : n > graphSize' => mem'.owns[NodeFn(n)] = NoBody
  <2> TAKE n \in 1 .. MaxGraphSize
  <2>1. NodeFn(n) \in Objects /\ NodeFn(n) # DescOf(c) /\ NodeFn(n) # LocalOf(c)
    BY ObjectsExist, ObjectsApart
  <2> QED BY <1>2, <1>6, <2>1 DEF OwnInv
<1> QED BY <1>2, <1>5, <1>6, <1>7, OwnAtCaller

(* The move into run_inline()'s local: the local has the body, the         *)
(* description is empty.                                                   *)
LEMMA InlineMoveOwn ==
    ASSUME BodyTypeInv, SlotInv, OwnInv, NEW c \in Callers, InlineMove(c)
    PROVE  OwnInv'
<1>1. Shifts(mem, mem', DescOf(c), LocalOf(c))
  BY InlineMoveEffect
<1>2. \A p \in Objects : p # DescOf(c) /\ p # LocalOf(c) => mem'.owns[p] = mem.owns[p]
  BY <1>1 DEF Shifts
<1>3. DescOf(c) \in Objects /\ LocalOf(c) \in Objects /\ DescOf(c) # LocalOf(c)
  BY ObjectsExist, ObjectsApart
<1>4. mem.owns[DescOf(c)] = InDesc(c) /\ mem.owns[LocalOf(c)] = InLocal(c)
  BY DEF OwnInv
<1>5. mem'.owns[DescOf(c)] = InDesc(c)' /\ mem'.owns[LocalOf(c)] = InLocal(c)'
  BY <1>1, <1>3, <1>4
     DEF Shifts, BodyTypeInv, InDesc, InLocal, InlineMove, CAt, CGoto, graphVars,
         poolSide, runnerVars, bodyHistory
<1>6. /\ \A d \in Callers : d # c =>
            cpc'[d] = cpc[d] /\ subject'[d] = subject[d] /\ cslot'[d] = cslot[d]
      /\ cpc'[c] \notin {"construct", "publish"}
      /\ UNCHANGED <<freeSlots, rpc, rslot, rbody, graphSize>>
  BY DEF BodyTypeInv, InlineMove, CAt, CGoto, graphVars, poolSide, runnerVars, bodyHistory
<1>7. \A n \in 1 .. MaxGraphSize : n > graphSize' => mem'.owns[NodeFn(n)] = NoBody
  <2> TAKE n \in 1 .. MaxGraphSize
  <2>1. NodeFn(n) \in Objects /\ NodeFn(n) # DescOf(c) /\ NodeFn(n) # LocalOf(c)
    BY ObjectsExist, ObjectsApart
  <2> QED BY <1>2, <1>6, <2>1 DEF OwnInv
<1> QED BY <1>2, <1>5, <1>6, <1>7, OwnAtCaller

(* The return of run_inline(): the local and the description are empty.    *)
LEMMA InlineReturnOwn ==
    ASSUME BodyTypeInv, SlotInv, OwnInv, NEW c \in Callers, InlineReturn(c)
    PROVE  OwnInv'
<1>1. Takes(mem, mem', LocalOf(c))
  BY InlineReturnEffect
<1>2. \A p \in Objects : p # DescOf(c) /\ p # LocalOf(c) => mem'.owns[p] = mem.owns[p]
  BY <1>1 DEF Takes
<1>3. DescOf(c) \in Objects /\ LocalOf(c) \in Objects /\ DescOf(c) # LocalOf(c)
  BY ObjectsExist, ObjectsApart
<1>4. mem.owns[DescOf(c)] = InDesc(c) /\ mem.owns[LocalOf(c)] = InLocal(c)
  BY DEF OwnInv
<1>5. mem'.owns[DescOf(c)] = InDesc(c)' /\ mem'.owns[LocalOf(c)] = InLocal(c)'
  BY <1>1, <1>3, <1>4
     DEF Takes, BodyTypeInv, InDesc, InLocal, InlineReturn, Resume, Leave, CAt, CGoto,
         graphVars, poolSide, runnerVars, bodyHistory
<1>6. /\ \A d \in Callers : d # c =>
            cpc'[d] = cpc[d] /\ subject'[d] = subject[d] /\ cslot'[d] = cslot[d]
      /\ cpc'[c] \notin {"construct", "publish"}
      /\ UNCHANGED <<freeSlots, rpc, rslot, rbody, graphSize>>
  BY DEF BodyTypeInv, InlineReturn, Resume, Leave, CAt, CGoto, graphVars, poolSide,
         runnerVars, bodyHistory
<1>7. \A n \in 1 .. MaxGraphSize : n > graphSize' => mem'.owns[NodeFn(n)] = NoBody
  <2> TAKE n \in 1 .. MaxGraphSize
  <2>1. NodeFn(n) \in Objects /\ NodeFn(n) # DescOf(c) /\ NodeFn(n) # LocalOf(c)
    BY ObjectsExist, ObjectsApart
  <2> QED BY <1>2, <1>6, <2>1 DEF OwnInv
<1> QED BY <1>2, <1>5, <1>6, <1>7, OwnAtCaller

(* The construction in a description: the description has the body.        *)
LEMMA ConstructInDescOwn ==
    ASSUME BodyTypeInv, SlotInv, OwnInv, NEW c \in Callers, ConstructInDesc(c)
    PROVE  OwnInv'
<1>1. Puts(mem, mem', DescOf(c), subject[c])
  BY ConstructInDescEffect
<1>2. \A p \in Objects : p # DescOf(c) /\ p # LocalOf(c) => mem'.owns[p] = mem.owns[p]
  BY <1>1 DEF Puts
<1>3. DescOf(c) \in Objects /\ LocalOf(c) \in Objects /\ DescOf(c) # LocalOf(c)
  BY ObjectsExist, ObjectsApart
<1>4. mem.owns[DescOf(c)] = InDesc(c) /\ mem.owns[LocalOf(c)] = InLocal(c)
  BY DEF OwnInv
<1>5. mem'.owns[DescOf(c)] = InDesc(c)' /\ mem'.owns[LocalOf(c)] = InLocal(c)'
  BY <1>1, <1>3, <1>4
     DEF Puts, BodyTypeInv, InDesc, InLocal, ConstructInDesc, CAt, CGoto, graphVars,
         poolSide, runnerVars, bodyHistory
<1>6. /\ \A d \in Callers : d # c =>
            cpc'[d] = cpc[d] /\ subject'[d] = subject[d] /\ cslot'[d] = cslot[d]
      /\ cpc'[c] \notin {"construct", "publish"}
      /\ UNCHANGED <<freeSlots, rpc, rslot, rbody, graphSize>>
  BY DEF BodyTypeInv, ConstructInDesc, CAt, CGoto, graphVars, poolSide, runnerVars, bodyHistory
<1>7. \A n \in 1 .. MaxGraphSize : n > graphSize' => mem'.owns[NodeFn(n)] = NoBody
  <2> TAKE n \in 1 .. MaxGraphSize
  <2>1. NodeFn(n) \in Objects /\ NodeFn(n) # DescOf(c) /\ NodeFn(n) # LocalOf(c)
    BY ObjectsExist, ObjectsApart
  <2> QED BY <1>2, <1>6, <2>1 DEF OwnInv
<1> QED BY <1>2, <1>5, <1>6, <1>7, OwnAtCaller

(* The reservation in submit_emplace(): the slot comes empty from the free *)
(* list.                                                                   *)
LEMMA ReserveSlotOwn ==
    ASSUME BodyTypeInv, SlotInv, OwnInv, NEW c \in Callers, ReserveSlot(c)
    PROVE  OwnInv'
<1>1. mem' = mem /\ UNCHANGED <<subject, rpc, rslot, rbody, graphSize>> /\ cpc[c] = "reserve"
  BY DEF ReserveSlot, HoldFreeSlot, CAt, CGoto, graphVars, runnerVars, bodyHistory
<1>2. CASE freeSlots = {}
  BY <1>1, <1>2 DEF BodyTypeInv, OwnInv, InDesc, InLocal, ReserveSlot, CGoto
<1>3. CASE freeSlots # {}
  <2>1. PICK s \in freeSlots : /\ freeSlots' = freeSlots \ {s} /\ cslot' = [cslot EXCEPT ![c] = s]
                               /\ cpc' = [cpc EXCEPT ![c] = "construct"]
    BY <1>3 DEF ReserveSlot, HoldFreeSlot, CGoto
  <2>2. mem.owns[SlotFn(s)] = NoBody
    BY DEF OwnInv
  <2> QED BY <1>1, <2>1, <2>2 DEF BodyTypeInv, OwnInv, InDesc, InLocal
<1> QED BY <1>2, <1>3

(* The call in execute(): the body called is the slot's.                   *)
LEMMA ExecuteBodyOwn ==
    ASSUME BodyTypeInv, SlotInv, OwnInv, NEW r \in Runners, ExecuteBody(r)
    PROVE  OwnInv'
<1>1. mem' = mem /\ UNCHANGED <<freeSlots, rslot, cpc, subject, cslot, graphSize>>
  BY DEF ExecuteBody, RGoto, graphVars, poolSide, callerVars
<1>2. PICK b \in Bodies : mem.owns[SlotFn(rslot[r])] = b /\ rbody' = [rbody EXCEPT ![r] = b]
  BY ExecuteBodyCalls
<1>3. rpc' = [rpc EXCEPT ![r] = "release"]
  BY DEF ExecuteBody, RGoto
<1> QED BY <1>1, <1>2, <1>3 DEF BodyTypeInv, OwnInv, InDesc, InLocal

(* TaskGraph::add(): the node has the body, the description is empty.      *)
LEMMA AddNodeOwn ==
    ASSUME BodyTypeInv, SlotInv, OwnInv, NEW c \in Callers, AddNode(c)
    PROVE  OwnInv'
<1> DEFINE g == graphSize + 1
<1>1. g \in 1 .. MaxGraphSize /\ Shifts(mem, mem', DescOf(c), NodeFn(g))
  BY AddNodeEffect
<1>2. /\ DescOf(c) \in Objects /\ LocalOf(c) \in Objects /\ NodeFn(g) \in Objects
      /\ DescOf(c) # LocalOf(c) /\ NodeFn(g) # LocalOf(c) /\ NodeFn(g) # DescOf(c)
  BY <1>1, ObjectsExist, ObjectsApart
<1>3. graphSize' = g /\ graphSize \in Nat
  BY DEF AddNode, BodyTypeInv
<1> HIDE DEF g
<1>4. \A p \in Objects : p # DescOf(c) /\ p # LocalOf(c) /\ (\A n : p # NodeFn(n)) =>
                            mem'.owns[p] = mem.owns[p]
  BY <1>1 DEF Shifts
<1>5. mem'.owns[DescOf(c)] = InDesc(c)' /\ mem'.owns[LocalOf(c)] = InLocal(c)'
  <2>1. mem'.owns[DescOf(c)] = NoBody /\ mem'.owns[LocalOf(c)] = mem.owns[LocalOf(c)]
    BY <1>1, <1>2 DEF Shifts
  <2>2. mem.owns[LocalOf(c)] = NoBody
    BY DEF OwnInv, InLocal, AddNode, CAt
  <2> QED BY <2>1, <2>2
         DEF BodyTypeInv, InDesc, InLocal, AddNode, Leave, CAt, CGoto, poolSide,
             runnerVars, bodyHistory
<1>6. /\ \A d \in Callers : d # c =>
            cpc'[d] = cpc[d] /\ subject'[d] = subject[d] /\ cslot'[d] = cslot[d]
      /\ cpc'[c] \notin {"construct", "publish"}
      /\ UNCHANGED <<freeSlots, rpc, rslot, rbody>>
  BY DEF BodyTypeInv, AddNode, Leave, CAt, CGoto, poolSide, runnerVars, bodyHistory
<1>7. ASSUME NEW n \in 1 .. MaxGraphSize, n > graphSize'
      PROVE  mem'.owns[NodeFn(n)] = NoBody
  <2>1. n > graphSize /\ n # g
    BY <1>3, <1>7 DEF g
  <2>2. NodeFn(n) \in Objects /\ NodeFn(n) # NodeFn(g) /\ NodeFn(n) # DescOf(c)
    BY <2>1, ObjectsExist, ObjectsApart
  <2> QED BY <1>1, <2>1, <2>2 DEF Shifts, OwnInv
<1> QED BY <1>4, <1>5, <1>6, <1>7, OwnAtCaller

(* The next node of TaskGraph::submit(): the description has the node's    *)
(* body, or none.                                                          *)
LEMMA NodeDescOwn ==
    ASSUME BodyTypeInv, SlotInv, OwnInv, NEW c \in Callers, NodeDesc(c)
    PROVE  OwnInv'
<1>0. cpc[c] = "node" /\ graphSize' = graphSize
  BY DEF NodeDesc, CAt, graphVars
<1>1. CASE ~ nodeAt[c] <= graphSize
  BY <1>0, <1>1
     DEF BodyTypeInv, SlotInv, HasSlot, OnSlot, OwnInv, InDesc, InLocal, NodeDesc, CAt,
         CGoto, graphVars, poolSide, runnerVars, bodyHistory
<1>2. CASE nodeAt[c] <= graphSize
  <2> DEFINE k == nodeAt[c]
  <2>1. k \in 1 .. graphSize /\ k \in 1 .. MaxGraphSize /\ Shifts(mem, mem', NodeFn(k), DescOf(c))
    BY <1>2, NodeDescEffect
  <2>2. /\ DescOf(c) \in Objects /\ LocalOf(c) \in Objects /\ NodeFn(k) \in Objects
        /\ DescOf(c) # LocalOf(c) /\ NodeFn(k) # LocalOf(c) /\ NodeFn(k) # DescOf(c)
    BY <2>1, ObjectsExist, ObjectsApart
  <2>3. /\ subject' = [subject EXCEPT ![c] = mem.owns[NodeFn(k)]]
        /\ cpc' = [cpc EXCEPT ![c] = "count"]
        /\ UNCHANGED <<freeSlots, rpc, rslot, rbody, cslot>>
    BY <1>2 DEF NodeDesc, CGoto, poolSide, runnerVars
  <2> HIDE DEF k
  <2>4. \A p \in Objects : p # DescOf(c) /\ p # LocalOf(c) /\ (\A n : p # NodeFn(n)) =>
                              mem'.owns[p] = mem.owns[p]
    BY <2>1 DEF Shifts
  <2>5. mem'.owns[DescOf(c)] = InDesc(c)' /\ mem'.owns[LocalOf(c)] = InLocal(c)'
    <3>1. mem'.owns[DescOf(c)] = mem.owns[NodeFn(k)] /\ mem'.owns[LocalOf(c)] = mem.owns[LocalOf(c)]
      BY <2>1, <2>2 DEF Shifts
    <3>2. mem.owns[LocalOf(c)] = NoBody
      BY <1>0 DEF OwnInv, InLocal
    <3> QED BY <2>3, <3>1, <3>2 DEF BodyTypeInv, InDesc, InLocal
  <2>6. /\ \A d \in Callers : d # c =>
              cpc'[d] = cpc[d] /\ subject'[d] = subject[d] /\ cslot'[d] = cslot[d]
        /\ cpc'[c] \notin {"construct", "publish"}
        /\ UNCHANGED <<freeSlots, rpc, rslot, rbody>>
    BY <2>3 DEF BodyTypeInv
  <2>7. ASSUME NEW n \in 1 .. MaxGraphSize, n > graphSize'
        PROVE  mem'.owns[NodeFn(n)] = NoBody
    <3>1. n > graphSize /\ n # k /\ graphSize \in Nat
      BY <1>0, <2>1, <2>7 DEF BodyTypeInv
    <3>2. NodeFn(n) \in Objects /\ NodeFn(n) # NodeFn(k) /\ NodeFn(n) # DescOf(c)
      BY <3>1, ObjectsExist, ObjectsApart
    <3> QED BY <2>1, <3>1, <3>2 DEF Shifts, OwnInv
  <2> QED BY <2>4, <2>5, <2>6, <2>7, OwnAtCaller
<1> QED BY <1>1, <1>2

(* acquire() with a free slot: the slot has the body, and no free slot is  *)
(* touched.                                                                *)
LEMMA AcquireMoveOwn ==
    ASSUME BodyTypeInv, SlotInv, OwnInv, NEW c \in Callers, AcquireMove(c)
    PROVE  OwnInv'
<1>1. PICK s \in freeSlots : HoldFreeSlot(c, s) /\ Shifts(mem, mem', DescOf(c), SlotFn(s))
  BY AcquireMoveEffect
<1>2. /\ s \in Slots /\ SlotFn(s) \in Objects /\ DescOf(c) \in Objects /\ SlotFn(s) # DescOf(c)
      /\ mem.owns[DescOf(c)] = subject[c]
  BY ObjectsExist, ObjectsApart DEF BodyTypeInv, OwnInv, InDesc, AcquireMove, CAt
<1>3. /\ cpc' = [cpc EXCEPT ![c] = "publish"] /\ cslot' = [cslot EXCEPT ![c] = s]
      /\ freeSlots' = freeSlots \ {s}
      /\ UNCHANGED <<subject, rpc, rslot, rbody, graphSize>>
  BY <1>1 DEF AcquireMove, HoldFreeSlot, CAt, CGoto, graphVars, runnerVars, bodyHistory
<1>4. /\ mem'.owns[SlotFn(s)] = subject[c] /\ mem'.owns[DescOf(c)] = NoBody
      /\ \A p \in Objects : p # DescOf(c) /\ p # SlotFn(s) => mem'.owns[p] = mem.owns[p]
  BY <1>1, <1>2 DEF Shifts
<1>5. /\ \A x \in Slots : x # s => mem'.owns[SlotFn(x)] = mem.owns[SlotFn(x)]
      /\ \A n \in 1 .. MaxGraphSize : mem'.owns[NodeFn(n)] = mem.owns[NodeFn(n)]
  BY <1>4, ObjectsExist, ObjectsApart
<1>6. ASSUME NEW d \in Callers
      PROVE  /\ mem'.owns[ArgOf(d)] = NoBody
             /\ mem'.owns[DescOf(d)] = InDesc(d)'
             /\ mem'.owns[LocalOf(d)] = InLocal(d)'
  <2>1. /\ mem'.owns[ArgOf(d)] = mem.owns[ArgOf(d)] /\ mem'.owns[LocalOf(d)] = mem.owns[LocalOf(d)]
        /\ d # c => mem'.owns[DescOf(d)] = mem.owns[DescOf(d)]
    BY <1>4, ObjectsExist, ObjectsApart
  <2>2. CASE d = c
    BY <1>3, <1>4, <2>1, <2>2 DEF BodyTypeInv, OwnInv, InDesc, InLocal, AcquireMove, CAt
  <2>3. CASE d # c
    BY <1>3, <2>1, <2>3 DEF BodyTypeInv, OwnInv, InDesc, InLocal
  <2> QED BY <2>2, <2>3
<1>7. ASSUME NEW d \in Callers
      PROVE  /\ cpc'[d] = "construct" => mem'.owns[SlotFn(cslot'[d])] = NoBody
             /\ cpc'[d] = "publish" => mem'.owns[SlotFn(cslot'[d])] = subject'[d]
  <2>1. CASE d = c
    BY <1>3, <1>4, <2>1 DEF BodyTypeInv
  <2>2. CASE d # c
    BY <1>3, <1>5, <2>2 DEF BodyTypeInv, OwnInv, SlotInv, HasSlot
  <2> QED BY <2>1, <2>2
<1>8. \A x \in freeSlots' : mem'.owns[SlotFn(x)] = NoBody
  BY <1>3, <1>5 DEF OwnInv, BodyTypeInv
<1>9. \A r \in Runners : /\ rpc'[r] = "release" => mem'.owns[SlotFn(rslot'[r])] = rbody'[r]
                         /\ rpc'[r] = "free" => mem'.owns[SlotFn(rslot'[r])] = NoBody
  BY <1>3, <1>5 DEF OwnInv, SlotInv, OnSlot
<1> QED BY <1>3, <1>5, <1>6, <1>7, <1>8, <1>9 DEF OwnInv

(* The construction in the slot: the slot has the body.                    *)
LEMMA ConstructInSlotOwn ==
    ASSUME BodyTypeInv, SlotInv, OwnInv, NEW c \in Callers, ConstructInSlot(c)
    PROVE  OwnInv'
<1>1. cslot[c] \in Slots /\ Puts(mem, mem', SlotFn(cslot[c]), subject[c])
  BY ConstructInSlotEffect
<1>2. cpc[c] = "construct" /\ HasSlot(c)
  BY DEF ConstructInSlot, CAt, HasSlot
<1>3. /\ cpc' = [cpc EXCEPT ![c] = "publish"]
      /\ UNCHANGED <<freeSlots, cslot, subject, rpc, rslot, rbody, graphSize>>
  BY DEF ConstructInSlot, CAt, CGoto, graphVars, poolSide, runnerVars, bodyHistory
<1>4. /\ mem'.owns[SlotFn(cslot[c])] = subject[c]
      /\ \A x \in Slots : x # cslot[c] => mem'.owns[SlotFn(x)] = mem.owns[SlotFn(x)]
      /\ \A n \in 1 .. MaxGraphSize : mem'.owns[NodeFn(n)] = mem.owns[NodeFn(n)]
  <2>1. \A o \in Objects : mem'.owns[o] = IF o = SlotFn(cslot[c]) THEN subject[c] ELSE mem.owns[o]
    BY <1>1 DEF Puts
  <2>2. /\ \A x : SlotFn(x) = SlotFn(cslot[c]) => x = cslot[c]
        /\ \A n : NodeFn(n) # SlotFn(cslot[c])
    BY ObjectsApart
  <2>3. /\ \A x \in Slots : SlotFn(x) \in Objects
        /\ \A n \in 1 .. MaxGraphSize : NodeFn(n) \in Objects
    BY ObjectsExist
  <2> QED BY <1>1, <2>1, <2>2, <2>3
<1>5. ASSUME NEW d \in Callers
      PROVE  /\ mem'.owns[ArgOf(d)] = NoBody
             /\ mem'.owns[DescOf(d)] = InDesc(d)'
             /\ mem'.owns[LocalOf(d)] = InLocal(d)'
  <2>1. /\ mem'.owns[ArgOf(d)] = mem.owns[ArgOf(d)] /\ mem'.owns[LocalOf(d)] = mem.owns[LocalOf(d)]
        /\ mem'.owns[DescOf(d)] = mem.owns[DescOf(d)]
    BY <1>1, ObjectsExist, ObjectsApart DEF Puts
  <2> QED BY <1>2, <1>3, <2>1 DEF BodyTypeInv, OwnInv, InDesc, InLocal
<1>6. ASSUME NEW d \in Callers
      PROVE  /\ cpc'[d] = "construct" => mem'.owns[SlotFn(cslot'[d])] = NoBody
             /\ cpc'[d] = "publish" => mem'.owns[SlotFn(cslot'[d])] = subject'[d]
  <2>1. CASE d = c
    BY <1>3, <1>4, <2>1 DEF BodyTypeInv
  <2>2. CASE d # c
    <3>1. HasSlot(d) => cslot[d] \in Slots /\ cslot[d] # cslot[c]
      BY <1>2, <2>2 DEF SlotInv
    <3> QED BY <1>3, <1>4, <2>2, <3>1 DEF BodyTypeInv, OwnInv, HasSlot
  <2> QED BY <2>1, <2>2
<1>7. \A x \in freeSlots' : mem'.owns[SlotFn(x)] = NoBody
  <2>1. cslot[c] \notin freeSlots
    BY <1>2 DEF SlotInv
  <2> QED BY <1>3, <1>4, <2>1 DEF OwnInv, BodyTypeInv
<1>8. \A r \in Runners : /\ rpc'[r] = "release" => mem'.owns[SlotFn(rslot'[r])] = rbody'[r]
                         /\ rpc'[r] = "free" => mem'.owns[SlotFn(rslot'[r])] = NoBody
  <2>1. \A r \in Runners : OnSlot(r) => rslot[r] \in Slots /\ rslot[r] # cslot[c]
    BY <1>2 DEF SlotInv
  <2> QED BY <1>3, <1>4, <2>1 DEF OwnInv, OnSlot
<1> QED BY <1>3, <1>4, <1>5, <1>6, <1>7, <1>8 DEF OwnInv

(* The reset in release(): the slot is empty.                              *)
LEMMA ReleaseBodyOwn ==
    ASSUME BodyTypeInv, SlotInv, OwnInv, NEW r \in Runners, ReleaseBody(r)
    PROVE  OwnInv'
<1>1. rslot[r] \in Slots /\ Takes(mem, mem', SlotFn(rslot[r]))
  BY ReleaseBodyEffect
<1>2. rpc[r] = "release" /\ OnSlot(r)
  BY DEF ReleaseBody, OnSlot
<1>3. /\ rpc' = [rpc EXCEPT ![r] = "free"]
      /\ UNCHANGED <<freeSlots, cpc, cslot, subject, rslot, rbody, graphSize>>
  BY DEF ReleaseBody, RGoto, graphVars, poolSide, callerVars, bodyHistory
<1>4. /\ mem'.owns[SlotFn(rslot[r])] = NoBody
      /\ \A x \in Slots : x # rslot[r] => mem'.owns[SlotFn(x)] = mem.owns[SlotFn(x)]
      /\ \A n \in 1 .. MaxGraphSize : mem'.owns[NodeFn(n)] = mem.owns[NodeFn(n)]
  BY <1>1, ObjectsExist, ObjectsApart DEF Takes
<1>5. ASSUME NEW d \in Callers
      PROVE  /\ mem'.owns[ArgOf(d)] = NoBody
             /\ mem'.owns[DescOf(d)] = InDesc(d)'
             /\ mem'.owns[LocalOf(d)] = InLocal(d)'
             /\ cpc'[d] = "construct" => mem'.owns[SlotFn(cslot'[d])] = NoBody
             /\ cpc'[d] = "publish" => mem'.owns[SlotFn(cslot'[d])] = subject'[d]
  <2>1. /\ mem'.owns[ArgOf(d)] = mem.owns[ArgOf(d)] /\ mem'.owns[LocalOf(d)] = mem.owns[LocalOf(d)]
        /\ mem'.owns[DescOf(d)] = mem.owns[DescOf(d)]
    BY <1>1, ObjectsExist, ObjectsApart DEF Takes
  <2>2. HasSlot(d) => cslot[d] \in Slots /\ cslot[d] # rslot[r]
    BY <1>2 DEF SlotInv
  <2> QED BY <1>3, <1>4, <2>1, <2>2 DEF OwnInv, InDesc, InLocal, HasSlot
<1>6. \A x \in freeSlots' : mem'.owns[SlotFn(x)] = NoBody
  BY <1>3, <1>4 DEF OwnInv, BodyTypeInv
<1>7. ASSUME NEW q \in Runners
      PROVE  /\ rpc'[q] = "release" => mem'.owns[SlotFn(rslot'[q])] = rbody'[q]
             /\ rpc'[q] = "free" => mem'.owns[SlotFn(rslot'[q])] = NoBody
  <2>1. CASE q = r
    BY <1>3, <1>4, <2>1 DEF BodyTypeInv
  <2>2. CASE q # r
    <3>1. OnSlot(q) => rslot[q] \in Slots /\ rslot[q] # rslot[r]
      BY <1>2, <2>2 DEF SlotInv
    <3> QED BY <1>3, <1>4, <2>2, <3>1 DEF BodyTypeInv, OwnInv, OnSlot
  <2> QED BY <2>1, <2>2
<1> QED BY <1>3, <1>4, <1>5, <1>6, <1>7 DEF OwnInv

-----------------------------------------------------------------------------
(* Custody.                                                                *)

(* The body each kind of custodian has, before a step and after it.        *)
LEMMA CustodyOf ==
    /\ \A c \in Callers :
          /\ Custody(CallerOf(c)) = IF cpc[c] = "return" THEN NoBody ELSE subject[c]
          /\ Custody(CallerOf(c))' = IF cpc'[c] = "return" THEN NoBody ELSE subject'[c]
    /\ \A r \in Runners : /\ Custody(RunnerOf(r)) = rbody[r]
                          /\ Custody(RunnerOf(r))' = rbody'[r]
    /\ \A s \in Slots :
          /\ Custody(SlotFn(s)) = IF ToCall(s) THEN mem.owns[SlotFn(s)] ELSE NoBody
          /\ Custody(SlotFn(s))' = IF ToCall(s)' THEN mem'.owns[SlotFn(s)] ELSE NoBody
    /\ \A n \in 1 .. MaxGraphSize : /\ Custody(NodeFn(n)) = mem.owns[NodeFn(n)]
                                    /\ Custody(NodeFn(n))' = mem'.owns[NodeFn(n)]
<1>1. ASSUME NEW c \in Callers
      PROVE  /\ Custody(CallerOf(c)) = IF cpc[c] = "return" THEN NoBody ELSE subject[c]
             /\ Custody(CallerOf(c))' = IF cpc'[c] = "return" THEN NoBody ELSE subject'[c]
  BY DEF Custody, CallerOf
<1>2. ASSUME NEW r \in Runners
      PROVE  Custody(RunnerOf(r)) = rbody[r] /\ Custody(RunnerOf(r))' = rbody'[r]
  BY DEF Custody, RunnerOf
<1>3. ASSUME NEW s \in Slots
      PROVE  /\ Custody(SlotFn(s)) = IF ToCall(s) THEN mem.owns[SlotFn(s)] ELSE NoBody
             /\ Custody(SlotFn(s))' = IF ToCall(s)' THEN mem'.owns[SlotFn(s)] ELSE NoBody
  BY DEF Custody, SlotFn
<1>4. ASSUME NEW n \in 1 .. MaxGraphSize
      PROVE  /\ Custody(NodeFn(n)) = mem.owns[NodeFn(n)]
             /\ Custody(NodeFn(n))' = mem'.owns[NodeFn(n)]
  BY DEF Custody, NodeFn
<1> QED BY <1>1, <1>2, <1>3, <1>4

(* The custodians of the callers, runners, slots and nodes.                *)
LEMMA CustodiansExist ==
    /\ \A c \in Callers : CallerOf(c) \in Custodians
    /\ \A r \in Runners : RunnerOf(r) \in Custodians
    /\ \A s \in Slots : SlotFn(s) \in Custodians
    /\ \A n \in 1 .. MaxGraphSize : NodeFn(n) \in Custodians
BY DEF Custodians

(* There are no others.                                                    *)
LEMMA CustodiansAre ==
    \A h \in Custodians : \/ \E c \in Callers : h = CallerOf(c)
                          \/ \E r \in Runners : h = RunnerOf(r)
                          \/ \E s \in Slots : h = SlotFn(s)
                          \/ \E n \in 1 .. MaxGraphSize : h = NodeFn(n)
BY DEF Custodians

(* A custodian has a body or none.                                         *)
LEMMA CustodyType ==
    ASSUME BodyTypeInv, NEW h \in Custodians
    PROVE  Custody(h) \in MaybeBody
<1>1. ASSUME NEW c \in Callers, h = CallerOf(c) PROVE Custody(h) \in MaybeBody
  BY <1>1, CustodyOf DEF BodyTypeInv, MaybeBody
<1>2. ASSUME NEW r \in Runners, h = RunnerOf(r) PROVE Custody(h) \in MaybeBody
  BY <1>2, CustodyOf DEF BodyTypeInv
<1>3. ASSUME NEW s \in Slots, h = SlotFn(s) PROVE Custody(h) \in MaybeBody
  <2>1. mem.owns[SlotFn(s)] \in MaybeBody
    BY ObjectsExist, OwnsBody
  <2> QED BY <1>3, <2>1, CustodyOf DEF MaybeBody
<1>4. ASSUME NEW n \in 1 .. MaxGraphSize, h = NodeFn(n) PROVE Custody(h) \in MaybeBody
  <2>1. mem.owns[NodeFn(n)] \in MaybeBody
    BY ObjectsExist, OwnsBody
  <2> QED BY <1>4, <2>1, CustodyOf
<1> QED BY <1>1, <1>2, <1>3, <1>4, CustodiansAre

(* The callers other than c are, or are not, about to leave run_inline()   *)
(* as before; so are all.                                                  *)
LeaversBut(c) ==
    \A d \in Callers : d # c => /\ cpc'[d] = "inlineReturn" <=> cpc[d] = "inlineReturn"
                                /\ cpc[d] = "inlineReturn" => subject'[d] = subject[d]
LeaversStay ==
    \A d \in Callers : /\ cpc'[d] = "inlineReturn" <=> cpc[d] = "inlineReturn"
                       /\ cpc[d] = "inlineReturn" => subject'[d] = subject[d]

(* When no body changes hands, HeldInv stays.                              *)
LEMMA HeldStays ==
    ASSUME HeldInv, \A h \in Custodians : Custody(h)' = Custody(h),
           offered' = offered, ended' = ended, LeaversStay
    PROVE  HeldInv'
<1>1. \A h, k \in Custodians : Custody(h)' \in Bodies /\ Custody(h)' = Custody(k)' => h = k
  BY DEF HeldInv
<1>2. \A b \in Bodies : b \in offered' <=> b \in ended' \/ \E h \in Custodians : Custody(h)' = b
  BY DEF HeldInv
<1>3. \A h \in Custodians : Custody(h)' \in ended' =>
          \E c \in Callers : h = CallerOf(c) /\ cpc'[c] = "inlineReturn"
  BY DEF HeldInv, LeaversStay
<1>4. \A c \in Callers : cpc'[c] = "inlineReturn" => subject'[c] \in ended' \cup {NoBody}
  BY DEF HeldInv, LeaversStay
<1> QED BY <1>1, <1>2, <1>3, <1>4 DEF HeldInv

(* A body that is new gets a custodian.                                    *)
LEMMA HeldGain ==
    ASSUME HeldInv, NEW h \in Custodians, NEW b \in Bodies \ offered, Custody(h) \notin Bodies,
           Custody(h)' = b, \A k \in Custodians : k # h => Custody(k)' = Custody(k),
           offered' = offered \cup {b}, ended' = ended, LeaversStay
    PROVE  HeldInv'
<1>1. b \notin ended /\ \A k \in Custodians : Custody(k) # b
  BY DEF HeldInv
<1>2. ASSUME NEW j \in Custodians, NEW k \in Custodians,
             Custody(j)' \in Bodies, Custody(j)' = Custody(k)'
      PROVE  j = k
  BY <1>1, <1>2 DEF HeldInv
<1>3. ASSUME NEW x \in Bodies
      PROVE  x \in offered' <=> x \in ended' \/ \E k \in Custodians : Custody(k)' = x
  <2>1. CASE x = b
    BY <2>1
  <2>2. CASE x # b
    <3>1. \A k \in Custodians : Custody(k)' = x <=> Custody(k) = x
      BY <2>2
    <3> QED BY <2>2, <3>1 DEF HeldInv
  <2> QED BY <2>1, <2>2
<1>4. ASSUME NEW k \in Custodians, Custody(k)' \in ended'
      PROVE  \E c \in Callers : k = CallerOf(c) /\ cpc'[c] = "inlineReturn"
  <2>1. k # h
    BY <1>1, <1>4
  <2> QED BY <1>4, <2>1 DEF HeldInv, LeaversStay
<1>5. \A c \in Callers : cpc'[c] = "inlineReturn" => subject'[c] \in ended' \cup {NoBody}
  BY DEF HeldInv, LeaversStay
<1> QED BY <1>2, <1>3, <1>4, <1>5 DEF HeldInv

(* A custodian hands what it has to another, which has nothing.            *)
LEMMA HeldHand ==
    ASSUME HeldInv, NEW h \in Custodians, NEW k \in Custodians, h # k,
           Custody(k) \notin Bodies, Custody(k)' = Custody(h), Custody(h)' = NoBody,
           \A j \in Custodians : j # h /\ j # k => Custody(j)' = Custody(j),
           \A c \in Callers : h = CallerOf(c) => cpc[c] # "inlineReturn",
           ended \subseteq Bodies, offered' = offered, ended' = ended, LeaversStay
    PROVE  HeldInv'
<1>0. NoBody \notin Bodies
  BY BodyAssumption
<1>1. Custody(h) \notin ended
  BY DEF HeldInv
<1>2. ASSUME NEW i \in Custodians, NEW j \in Custodians,
             Custody(i)' \in Bodies, Custody(i)' = Custody(j)'
      PROVE  i = j
  <2>1. i # h /\ j # h
    BY <1>0, <1>2
  <2>2. i # k /\ j # k => i = j
    BY <1>2, <2>1 DEF HeldInv
  <2>3. i = k /\ j # k => FALSE
    <3> SUFFICES ASSUME i = k, j # k PROVE FALSE
      OBVIOUS
    <3>1. Custody(j)' = Custody(j) /\ Custody(i)' = Custody(h)
      BY <2>1
    <3>2. Custody(h) \in Bodies /\ Custody(h) = Custody(j)
      BY <1>2, <3>1
    <3> QED BY <2>1, <3>2 DEF HeldInv
  <2>4. i # k /\ j = k => FALSE
    BY <1>2, <2>1 DEF HeldInv
  <2> QED BY <2>2, <2>3, <2>4
<1>3. ASSUME NEW x \in Bodies
      PROVE  x \in offered' <=> x \in ended' \/ \E j \in Custodians : Custody(j)' = x
  <2>1. ASSUME NEW j \in Custodians, Custody(j) = x
        PROVE  \E i \in Custodians : Custody(i)' = x
    BY <2>1
  <2>2. ASSUME NEW j \in Custodians, Custody(j)' = x
        PROVE  \E i \in Custodians : Custody(i) = x
    BY <1>0, <2>2
  <2> QED BY <2>1, <2>2 DEF HeldInv
<1>4. ASSUME NEW j \in Custodians, Custody(j)' \in ended'
      PROVE  \E c \in Callers : j = CallerOf(c) /\ cpc'[c] = "inlineReturn"
  <2>1. j # h /\ j # k
    BY <1>0, <1>1, <1>4
  <2> QED BY <1>4, <2>1 DEF HeldInv, LeaversStay
<1>5. \A c \in Callers : cpc'[c] = "inlineReturn" => subject'[c] \in ended' \cup {NoBody}
  BY DEF HeldInv, LeaversStay
<1> QED BY <1>2, <1>3, <1>4, <1>5 DEF HeldInv

(* A custodian is left with nothing: its body has ended, has ended before, *)
(* or is not offered any more.                                             *)
LEMMA HeldDrop ==
    ASSUME HeldInv, NEW h \in Custodians,
           Custody(h)' = NoBody, \A k \in Custodians : k # h => Custody(k)' = Custody(k),
           \/ /\ Custody(h) \in Bodies /\ offered' = offered /\ ended' = ended \cup {Custody(h)}
           \/ /\ Custody(h) \in ended \cup {NoBody} /\ offered' = offered /\ ended' = ended
           \/ /\ Custody(h) \in Bodies \ ended /\ offered' = offered \ {Custody(h)} /\ ended' = ended,
           ended \subseteq Bodies,
           \A d \in Callers : CallerOf(d) # h => /\ cpc'[d] = "inlineReturn" <=> cpc[d] = "inlineReturn"
                                                 /\ cpc[d] = "inlineReturn" => subject'[d] = subject[d],
           \A d \in Callers : CallerOf(d) = h => cpc'[d] # "inlineReturn"
    PROVE  HeldInv'
<1>0. NoBody \notin Bodies /\ ended' \subseteq Bodies /\ ended \subseteq ended'
  BY BodyAssumption
<1>1. ASSUME NEW j \in Custodians, NEW k \in Custodians,
             Custody(j)' \in Bodies, Custody(j)' = Custody(k)'
      PROVE  j = k
  <2>1. j # h /\ k # h
    BY <1>0, <1>1
  <2> QED BY <1>1, <2>1 DEF HeldInv
<1>2. ASSUME NEW x \in Bodies
      PROVE  x \in offered' <=> x \in ended' \/ \E k \in Custodians : Custody(k)' = x
  <2>1. CASE x = Custody(h)
    <3>1. \A k \in Custodians : Custody(k)' # x
      BY <1>0, <2>1 DEF HeldInv
    <3>2. x \in offered
      BY <2>1 DEF HeldInv
    <3> QED BY <1>0, <2>1, <3>1, <3>2
  <2>2. CASE x # Custody(h)
    <3>1. \A k \in Custodians : Custody(k)' = x <=> Custody(k) = x
      BY <1>0, <2>2
    <3>2. (x \in offered' <=> x \in offered) /\ (x \in ended' <=> x \in ended)
      BY <2>2
    <3> QED BY <3>1, <3>2 DEF HeldInv
  <2> QED BY <2>1, <2>2
<1>3. ASSUME NEW k \in Custodians, Custody(k)' \in ended'
      PROVE  \E d \in Callers : k = CallerOf(d) /\ cpc'[d] = "inlineReturn"
  <2>1. k # h /\ Custody(k)' = Custody(k) /\ Custody(k) \in Bodies
    BY <1>0, <1>3
  <2>2. Custody(k) # Custody(h)
    BY <2>1 DEF HeldInv
  <2>3. Custody(k) \in ended
    BY <1>3, <2>1, <2>2
  <2>4. PICK d \in Callers : k = CallerOf(d) /\ cpc[d] = "inlineReturn"
    BY <2>3 DEF HeldInv
  <2>5. CallerOf(d) # h
    BY <2>1, <2>4
  <2> QED BY <2>4, <2>5
<1>4. ASSUME NEW d \in Callers, cpc'[d] = "inlineReturn"
      PROVE  subject'[d] \in ended' \cup {NoBody}
  <2>1. CallerOf(d) # h
    BY <1>4
  <2> QED BY <1>0, <1>4, <2>1 DEF HeldInv
<1> QED BY <1>1, <1>2, <1>3, <1>4 DEF HeldInv

(* A caller's body ends while the caller still has it.                     *)
LEMMA HeldEnd ==
    ASSUME HeldInv, NEW c \in Callers, Custody(CallerOf(c)) = subject[c],
           \A h \in Custodians : Custody(h)' = Custody(h), subject[c] \in MaybeBody,
           offered' = offered, ended' = ended \cup ({subject[c]} \ {NoBody}),
           cpc'[c] = "inlineReturn", subject' = subject, LeaversBut(c)
    PROVE  HeldInv'
<1>0. NoBody \notin Bodies /\ CallerOf(c) \in Custodians
  BY BodyAssumption, CustodiansExist
<1>1. \A h, k \in Custodians : Custody(h)' \in Bodies /\ Custody(h)' = Custody(k)' => h = k
  BY DEF HeldInv
<1>2. \A b \in Bodies : b \in offered' <=> b \in ended' \/ \E h \in Custodians : Custody(h)' = b
  BY <1>0 DEF HeldInv
<1>3. ASSUME NEW h \in Custodians, Custody(h)' \in ended'
      PROVE  \E d \in Callers : h = CallerOf(d) /\ cpc'[d] = "inlineReturn"
  <2>1. CASE h = CallerOf(c)
    BY <2>1
  <2>2. CASE h # CallerOf(c)
    <3>1. Custody(h) \in ended
      BY <1>0, <1>3, <2>2 DEF HeldInv, MaybeBody
    <3> QED BY <2>2, <3>1 DEF HeldInv, LeaversBut
  <2> QED BY <2>1, <2>2
<1>4. \A d \in Callers : cpc'[d] = "inlineReturn" => subject'[d] \in ended' \cup {NoBody}
  BY DEF HeldInv, LeaversBut
<1> QED BY <1>1, <1>2, <1>3, <1>4 DEF HeldInv

(* A slot that is free, or in the hands of a caller, or of a runner that   *)
(* has called it, is not to be called.                                     *)
LEMMA NotToCall ==
    ASSUME SlotInv
    PROVE  /\ \A s \in freeSlots : ~ ToCall(s)
           /\ \A c \in Callers : HasSlot(c) => ~ ToCall(cslot[c])
           /\ \A r \in Runners : OnSlot(r) /\ rpc[r] # "call" => ~ ToCall(rslot[r])
BY DEF SlotInv, ToCall, OnSlot

(* What a step of caller c cannot change: the custody of other callers, of *)
(* runners and of slots.                                                   *)
LEMMA CallerElsewhere ==
    ASSUME NEW c \in Callers,
           \A d \in Callers : d # c => cpc'[d] = cpc[d] /\ subject'[d] = subject[d],
           UNCHANGED <<readySlots, rpc, rslot, rbody>>,
           \A s \in Slots : ToCall(s) => mem'.owns[SlotFn(s)] = mem.owns[SlotFn(s)]
    PROVE  /\ \A h \in Custodians : h # CallerOf(c) /\ (\A n \in 1 .. MaxGraphSize : h # NodeFn(n)) =>
                                       Custody(h)' = Custody(h)
           /\ LeaversBut(c)
<1>1. \A s : ToCall(s)' <=> ToCall(s)
  BY DEF ToCall
<1>2. ASSUME NEW d \in Callers, d # c
      PROVE  Custody(CallerOf(d))' = Custody(CallerOf(d))
  BY <1>2, CustodyOf
<1>3. ASSUME NEW r \in Runners
      PROVE  Custody(RunnerOf(r))' = Custody(RunnerOf(r))
  BY CustodyOf
<1>4. ASSUME NEW s \in Slots
      PROVE  Custody(SlotFn(s))' = Custody(SlotFn(s))
  <2>1. /\ Custody(SlotFn(s)) = IF ToCall(s) THEN mem.owns[SlotFn(s)] ELSE NoBody
        /\ Custody(SlotFn(s))' = IF ToCall(s)' THEN mem'.owns[SlotFn(s)] ELSE NoBody
    BY CustodyOf
  <2> QED BY <1>1, <2>1
<1>5. ASSUME NEW h \in Custodians, h # CallerOf(c), \A n \in 1 .. MaxGraphSize : h # NodeFn(n)
      PROVE  Custody(h)' = Custody(h)
  <2>1. CASE \E d \in Callers : h = CallerOf(d)
    BY <1>2, <1>5, <2>1
  <2>2. CASE \E r \in Runners : h = RunnerOf(r)
    BY <1>3, <2>2
  <2>3. CASE \E s \in Slots : h = SlotFn(s)
    BY <1>4, <2>3
  <2> QED BY <1>5, <2>1, <2>2, <2>3, CustodiansAre
<1>6. LeaversBut(c)
  BY DEF LeaversBut
<1> QED BY <1>5, <1>6

(* So does one that leaves nodes and its own custody alone.                *)
LEMMA CallerKeeps ==
    ASSUME HeldInv, NEW c \in Callers,
           \A d \in Callers : d # c => cpc'[d] = cpc[d] /\ subject'[d] = subject[d],
           UNCHANGED <<readySlots, rpc, rslot, rbody, offered, ended>>,
           cpc[c] # "inlineReturn", cpc'[c] # "inlineReturn",
           \A s \in Slots : ToCall(s) => mem'.owns[SlotFn(s)] = mem.owns[SlotFn(s)],
           \A n \in 1 .. MaxGraphSize : mem'.owns[NodeFn(n)] = mem.owns[NodeFn(n)],
           (IF cpc'[c] = "return" THEN NoBody ELSE subject'[c]) =
              (IF cpc[c] = "return" THEN NoBody ELSE subject[c])
    PROVE  HeldInv'
<1>1. /\ \A h \in Custodians : h # CallerOf(c) /\ (\A n \in 1 .. MaxGraphSize : h # NodeFn(n)) =>
                                  Custody(h)' = Custody(h)
      /\ LeaversBut(c)
  BY CallerElsewhere
<1>2. \A n \in 1 .. MaxGraphSize : Custody(NodeFn(n))' = Custody(NodeFn(n))
  BY CustodyOf
<1>3. Custody(CallerOf(c))' = Custody(CallerOf(c))
  BY CustodyOf
<1>4. \A h \in Custodians : Custody(h)' = Custody(h)
  BY <1>1, <1>2, <1>3
<1>5. LeaversStay
  BY <1>1 DEF LeaversBut, LeaversStay
<1> QED BY <1>4, <1>5, HeldStays

(* The beginning of TaskGraph::submit(): no body changes hands.            *)
LEMMA SubmitGraphHeld ==
    ASSUME BodyTypeInv, SlotInv, OwnInv, HeldInv, NEW c \in Callers, SubmitGraph(c)
    PROVE  HeldInv'
<1>1. /\ \A d \in Callers : d # c => cpc'[d] = cpc[d] /\ subject'[d] = subject[d]
      /\ UNCHANGED <<readySlots, rpc, rslot, rbody, offered, ended>>
      /\ cpc[c] # "inlineReturn" /\ cpc'[c] # "inlineReturn"
      /\ (IF cpc'[c] = "return" THEN NoBody ELSE subject'[c]) =
            (IF cpc[c] = "return" THEN NoBody ELSE subject[c])
  BY DEF BodyTypeInv, SubmitGraph, CAt, CGoto, poolSide, runnerVars, bodyHistory
<1>2. mem' = mem
  BY DEF SubmitGraph
<1> QED BY <1>1, <1>2, CallerKeeps

(* The increment of outstanding_ in submit(): the caller keeps the body.   *)
LEMMA CountBodyHeld ==
    ASSUME BodyTypeInv, SlotInv, OwnInv, HeldInv, NEW c \in Callers, CountBody(c)
    PROVE  HeldInv'
<1>1. /\ \A d \in Callers : d # c => cpc'[d] = cpc[d] /\ subject'[d] = subject[d]
      /\ UNCHANGED <<readySlots, rpc, rslot, rbody, offered, ended>>
      /\ cpc[c] # "inlineReturn" /\ cpc'[c] # "inlineReturn"
      /\ (IF cpc'[c] = "return" THEN NoBody ELSE subject'[c]) =
            (IF cpc[c] = "return" THEN NoBody ELSE subject[c])
  BY DEF BodyTypeInv, CountBody, CAt, CGoto, graphVars, poolSide, runnerVars, bodyHistory
<1>2. mem' = mem
  BY DEF CountBody
<1> QED BY <1>1, <1>2, CallerKeeps

(* acquire() with none: the caller keeps the body.                         *)
LEMMA AcquireNothingHeld ==
    ASSUME BodyTypeInv, SlotInv, OwnInv, HeldInv, NEW c \in Callers, AcquireNothing(c)
    PROVE  HeldInv'
<1>1. /\ \A d \in Callers : d # c => cpc'[d] = cpc[d] /\ subject'[d] = subject[d]
      /\ UNCHANGED <<readySlots, rpc, rslot, rbody, offered, ended>>
      /\ cpc[c] # "inlineReturn" /\ cpc'[c] # "inlineReturn"
      /\ (IF cpc'[c] = "return" THEN NoBody ELSE subject'[c]) =
            (IF cpc[c] = "return" THEN NoBody ELSE subject[c])
  BY DEF BodyTypeInv, AcquireNothing, CAt, CGoto, graphVars, poolSide, runnerVars, bodyHistory
<1>2. mem' = mem
  BY DEF AcquireNothing
<1> QED BY <1>1, <1>2, CallerKeeps

(* The return of submit(): the caller had given the body away.             *)
LEMMA SubmitReturnHeld ==
    ASSUME BodyTypeInv, SlotInv, OwnInv, HeldInv, NEW c \in Callers, SubmitReturn(c)
    PROVE  HeldInv'
<1>1. /\ \A d \in Callers : d # c => cpc'[d] = cpc[d] /\ subject'[d] = subject[d]
      /\ UNCHANGED <<readySlots, rpc, rslot, rbody, offered, ended>>
      /\ cpc[c] # "inlineReturn" /\ cpc'[c] # "inlineReturn"
      /\ (IF cpc'[c] = "return" THEN NoBody ELSE subject'[c]) =
            (IF cpc[c] = "return" THEN NoBody ELSE subject[c])
  BY DEF BodyTypeInv, SubmitReturn, Resume, Leave, CAt, CGoto, graphVars, poolSide,
         runnerVars, bodyHistory
<1>2. mem' = mem
  BY SubmitReturnEffect
<1> QED BY <1>1, <1>2, CallerKeeps

(* The call in run_inline(): the caller keeps the body.                    *)
LEMMA InlineCallHeld ==
    ASSUME BodyTypeInv, SlotInv, OwnInv, HeldInv, NEW c \in Callers, InlineCall(c)
    PROVE  HeldInv'
<1>1. /\ \A d \in Callers : d # c => cpc'[d] = cpc[d] /\ subject'[d] = subject[d]
      /\ UNCHANGED <<readySlots, rpc, rslot, rbody, offered, ended>>
      /\ cpc[c] # "inlineReturn" /\ cpc'[c] # "inlineReturn"
      /\ (IF cpc'[c] = "return" THEN NoBody ELSE subject'[c]) =
            (IF cpc[c] = "return" THEN NoBody ELSE subject[c])
  BY DEF BodyTypeInv, InlineCall, CAt, CGoto, graphVars, poolSide, runnerVars
<1>2. mem' = mem
  BY DEF InlineCall
<1> QED BY <1>1, <1>2, CallerKeeps

(* The reservation in submit_emplace(): the caller keeps the body.         *)
LEMMA ReserveSlotHeld ==
    ASSUME BodyTypeInv, SlotInv, OwnInv, HeldInv, NEW c \in Callers, ReserveSlot(c)
    PROVE  HeldInv'
<1>1. /\ \A d \in Callers : d # c => cpc'[d] = cpc[d] /\ subject'[d] = subject[d]
      /\ UNCHANGED <<readySlots, rpc, rslot, rbody, offered, ended>>
      /\ cpc[c] # "inlineReturn" /\ cpc'[c] # "inlineReturn"
      /\ (IF cpc'[c] = "return" THEN NoBody ELSE subject'[c]) =
            (IF cpc[c] = "return" THEN NoBody ELSE subject[c])
  BY DEF BodyTypeInv, ReserveSlot, HoldFreeSlot, CAt, CGoto, graphVars, runnerVars, bodyHistory
<1>2. mem' = mem
  BY DEF ReserveSlot
<1> QED BY <1>1, <1>2, CallerKeeps

(* The move into run_inline()'s local: the caller keeps the body.          *)
LEMMA InlineMoveHeld ==
    ASSUME BodyTypeInv, SlotInv, OwnInv, HeldInv, NEW c \in Callers, InlineMove(c)
    PROVE  HeldInv'
<1>1. /\ \A d \in Callers : d # c => cpc'[d] = cpc[d] /\ subject'[d] = subject[d]
      /\ UNCHANGED <<readySlots, rpc, rslot, rbody, offered, ended>>
      /\ cpc[c] # "inlineReturn" /\ cpc'[c] # "inlineReturn"
      /\ (IF cpc'[c] = "return" THEN NoBody ELSE subject'[c]) =
            (IF cpc[c] = "return" THEN NoBody ELSE subject[c])
  BY DEF BodyTypeInv, InlineMove, CAt, CGoto, graphVars, poolSide, runnerVars, bodyHistory
<1>2. /\ \A s \in Slots : ToCall(s) => mem'.owns[SlotFn(s)] = mem.owns[SlotFn(s)]
      /\ \A n \in 1 .. MaxGraphSize : mem'.owns[NodeFn(n)] = mem.owns[NodeFn(n)]
  <2>1. Shifts(mem, mem', DescOf(c), LocalOf(c))
    BY InlineMoveEffect
  <2> QED BY <2>1, ObjectsExist, ObjectsApart DEF Shifts
<1> QED BY <1>1, <1>2, CallerKeeps

(* The construction in a description: the caller keeps the body.           *)
LEMMA ConstructInDescHeld ==
    ASSUME BodyTypeInv, SlotInv, OwnInv, HeldInv, NEW c \in Callers, ConstructInDesc(c)
    PROVE  HeldInv'
<1>1. /\ \A d \in Callers : d # c => cpc'[d] = cpc[d] /\ subject'[d] = subject[d]
      /\ UNCHANGED <<readySlots, rpc, rslot, rbody, offered, ended>>
      /\ cpc[c] # "inlineReturn" /\ cpc'[c] # "inlineReturn"
      /\ (IF cpc'[c] = "return" THEN NoBody ELSE subject'[c]) =
            (IF cpc[c] = "return" THEN NoBody ELSE subject[c])
  BY DEF BodyTypeInv, ConstructInDesc, CAt, CGoto, graphVars, poolSide, runnerVars, bodyHistory
<1>2. /\ \A s \in Slots : ToCall(s) => mem'.owns[SlotFn(s)] = mem.owns[SlotFn(s)]
      /\ \A n \in 1 .. MaxGraphSize : mem'.owns[NodeFn(n)] = mem.owns[NodeFn(n)]
  <2>1. Puts(mem, mem', DescOf(c), subject[c])
    BY ConstructInDescEffect
  <2> QED BY <2>1, ObjectsExist, ObjectsApart DEF Puts
<1> QED BY <1>1, <1>2, CallerKeeps

(* acquire() with a free slot: still in the caller's hands.                *)
LEMMA AcquireMoveHeld ==
    ASSUME BodyTypeInv, SlotInv, OwnInv, HeldInv, NEW c \in Callers, AcquireMove(c)
    PROVE  HeldInv'
<1>1. /\ \A d \in Callers : d # c => cpc'[d] = cpc[d] /\ subject'[d] = subject[d]
      /\ UNCHANGED <<readySlots, rpc, rslot, rbody, offered, ended>>
      /\ cpc[c] # "inlineReturn" /\ cpc'[c] # "inlineReturn"
      /\ (IF cpc'[c] = "return" THEN NoBody ELSE subject'[c]) =
            (IF cpc[c] = "return" THEN NoBody ELSE subject[c])
  BY DEF BodyTypeInv, AcquireMove, HoldFreeSlot, CAt, CGoto, graphVars, runnerVars, bodyHistory
<1>2. /\ \A s \in Slots : ToCall(s) => mem'.owns[SlotFn(s)] = mem.owns[SlotFn(s)]
      /\ \A n \in 1 .. MaxGraphSize : mem'.owns[NodeFn(n)] = mem.owns[NodeFn(n)]
  <2>1. PICK s \in freeSlots : Shifts(mem, mem', DescOf(c), SlotFn(s))
    BY AcquireMoveEffect
  <2>2. ~ ToCall(s)
    BY NotToCall
  <2>3. \A x \in Slots : x # s => mem'.owns[SlotFn(x)] = mem.owns[SlotFn(x)]
    BY <2>1, ObjectsExist, ObjectsApart DEF Shifts
  <2>4. \A m \in 1 .. MaxGraphSize : mem'.owns[NodeFn(m)] = mem.owns[NodeFn(m)]
    BY <2>1, ObjectsExist, ObjectsApart DEF Shifts
  <2> QED BY <2>2, <2>3, <2>4
<1> QED BY <1>1, <1>2, CallerKeeps

(* The construction in the slot: still in the caller's hands.              *)
LEMMA ConstructInSlotHeld ==
    ASSUME BodyTypeInv, SlotInv, OwnInv, HeldInv, NEW c \in Callers, ConstructInSlot(c)
    PROVE  HeldInv'
<1>1. /\ \A d \in Callers : d # c => cpc'[d] = cpc[d] /\ subject'[d] = subject[d]
      /\ UNCHANGED <<readySlots, rpc, rslot, rbody, offered, ended>>
      /\ cpc[c] # "inlineReturn" /\ cpc'[c] # "inlineReturn"
      /\ (IF cpc'[c] = "return" THEN NoBody ELSE subject'[c]) =
            (IF cpc[c] = "return" THEN NoBody ELSE subject[c])
  BY DEF BodyTypeInv, ConstructInSlot, CAt, CGoto, graphVars, poolSide, runnerVars, bodyHistory
<1>2. /\ \A s \in Slots : ToCall(s) => mem'.owns[SlotFn(s)] = mem.owns[SlotFn(s)]
      /\ \A n \in 1 .. MaxGraphSize : mem'.owns[NodeFn(n)] = mem.owns[NodeFn(n)]
  <2>1. Puts(mem, mem', SlotFn(cslot[c]), subject[c])
    BY ConstructInSlotEffect
  <2>2. ~ ToCall(cslot[c])
    BY NotToCall DEF ConstructInSlot, CAt, HasSlot
  <2>3. \A x \in Slots : x # cslot[c] => mem'.owns[SlotFn(x)] = mem.owns[SlotFn(x)]
    <3>1. \A x : SlotFn(x) = SlotFn(cslot[c]) => x = cslot[c]
      BY ObjectsApart
    <3>2. \A x \in Slots : SlotFn(x) \in Objects
      BY ObjectsExist
    <3> QED BY <2>1, <3>1, <3>2 DEF Puts
  <2>4. \A m \in 1 .. MaxGraphSize : mem'.owns[NodeFn(m)] = mem.owns[NodeFn(m)]
    BY <2>1, ObjectsExist, ObjectsApart DEF Puts
  <2> QED BY <2>2, <2>3, <2>4
<1> QED BY <1>1, <1>2, CallerKeeps

(* A caller that begins with a new body gets it.                           *)
LEMMA CallerGains ==
    ASSUME BodyTypeInv, HeldInv, NEW c \in Callers, NEW b \in Bodies, cpc[c] = "idle",
           b \notin offered, offered' = offered \cup {b}, ended' = ended,
           \A d \in Callers : d # c => cpc'[d] = cpc[d] /\ subject'[d] = subject[d],
           subject'[c] = b, cpc'[c] \notin {"return", "inlineReturn"},
           UNCHANGED <<readySlots, rpc, rslot, rbody>>,
           \A s \in Slots : ToCall(s) => mem'.owns[SlotFn(s)] = mem.owns[SlotFn(s)],
           \A n \in 1 .. MaxGraphSize : mem'.owns[NodeFn(n)] = mem.owns[NodeFn(n)]
    PROVE  HeldInv'
<1>1. /\ \A h \in Custodians : h # CallerOf(c) /\ (\A n \in 1 .. MaxGraphSize : h # NodeFn(n)) =>
                                  Custody(h)' = Custody(h)
      /\ LeaversBut(c)
  BY CallerElsewhere
<1>2. \A n \in 1 .. MaxGraphSize : Custody(NodeFn(n))' = Custody(NodeFn(n))
  BY CustodyOf
<1>3. \A h \in Custodians : h # CallerOf(c) => Custody(h)' = Custody(h)
  BY <1>1, <1>2
<1>4. Custody(CallerOf(c))' = b /\ Custody(CallerOf(c)) \notin Bodies
  BY CustodyOf, BodyAssumption DEF BodyTypeInv
<1>5. LeaversStay
  BY <1>1 DEF LeaversBut, LeaversStay
<1> QED BY <1>3, <1>4, <1>5, CustodiansExist, HeldGain

(* A body put into a description: the caller has a new body.               *)
LEMMA BuildDescHeld ==
    ASSUME BodyTypeInv, SlotInv, OwnInv, HeldInv,
           NEW c \in Callers, NEW b \in Bodies, BuildDesc(c, b)
    PROVE  HeldInv'
<1>1. /\ cpc[c] = "idle" /\ b \notin offered /\ offered' = offered \cup {b} /\ ended' = ended
      /\ \A d \in Callers : d # c => cpc'[d] = cpc[d] /\ subject'[d] = subject[d]
      /\ UNCHANGED <<readySlots, rpc, rslot, rbody>>
      /\ subject'[c] = b /\ cpc'[c] \notin {"return", "inlineReturn"}
  BY DEF BodyTypeInv, BuildDesc, Offer, CAt, CGoto, graphVars, poolSide, runnerVars
<1>2. Puts(mem, mem', DescOf(c), b)
  BY BuildDescEffect
<1>3. /\ \A s \in Slots : ToCall(s) => mem'.owns[SlotFn(s)] = mem.owns[SlotFn(s)]
      /\ \A n \in 1 .. MaxGraphSize : mem'.owns[NodeFn(n)] = mem.owns[NodeFn(n)]
  BY <1>2, ObjectsExist, ObjectsApart DEF Puts
<1> QED BY <1>1, <1>3, CallerGains

(* The beginning of submit_emplace(): the caller has a new body.           *)
LEMMA CountEmplaceHeld ==
    ASSUME BodyTypeInv, HeldInv, NEW c \in Callers, NEW b \in Bodies, CountEmplace(c, b)
    PROVE  HeldInv'
<1>1. /\ cpc[c] = "idle" /\ b \notin offered /\ offered' = offered \cup {b} /\ ended' = ended
      /\ \A d \in Callers : d # c => cpc'[d] = cpc[d] /\ subject'[d] = subject[d]
      /\ UNCHANGED <<readySlots, rpc, rslot, rbody>>
      /\ subject'[c] = b /\ cpc'[c] \notin {"return", "inlineReturn"} /\ mem' = mem
  BY DEF BodyTypeInv, CountEmplace, Offer, CAt, CGoto, graphVars, poolSide, runnerVars
<1> QED BY <1>1, CallerGains

(* TaskGraph::add(): from the caller to the node.                          *)
LEMMA AddNodeHeld ==
    ASSUME BodyTypeInv, SlotInv, OwnInv, HeldInv, NEW c \in Callers, AddNode(c)
    PROVE  HeldInv'
<1>0. PICK g \in 1 .. MaxGraphSize : g = graphSize + 1
  BY AddNodeEffect
<1>1. Shifts(mem, mem', DescOf(c), NodeFn(g)) /\ g > graphSize
  BY <1>0, AddNodeEffect DEF BodyTypeInv
<1>2. /\ cpc[c] = "add" /\ cpc'[c] = "idle" /\ subject'[c] = NoBody /\ offered' = offered
      /\ ended' = ended
      /\ \A d \in Callers : d # c => cpc'[d] = cpc[d] /\ subject'[d] = subject[d]
      /\ UNCHANGED <<readySlots, rpc, rslot, rbody>>
  BY DEF BodyTypeInv, AddNode, Leave, CAt, CGoto, poolSide, runnerVars, bodyHistory
<1>3. \A s \in Slots : mem'.owns[SlotFn(s)] = mem.owns[SlotFn(s)]
  BY <1>1, ObjectsExist, ObjectsApart DEF Shifts
<1>4. /\ mem'.owns[NodeFn(g)] = mem.owns[DescOf(c)]
      /\ \A n \in 1 .. MaxGraphSize : n # g => mem'.owns[NodeFn(n)] = mem.owns[NodeFn(n)]
  BY <1>1, ObjectsExist, ObjectsApart DEF Shifts
<1>5. mem.owns[DescOf(c)] = subject[c] /\ mem.owns[NodeFn(g)] = NoBody
  BY <1>1, <1>2 DEF OwnInv, InDesc
<1>6. /\ \A h \in Custodians : h # CallerOf(c) /\ (\A n \in 1 .. MaxGraphSize : h # NodeFn(n)) =>
                                  Custody(h)' = Custody(h)
      /\ LeaversBut(c)
  BY <1>2, <1>3, CallerElsewhere
<1>7. \A n \in 1 .. MaxGraphSize : n # g => Custody(NodeFn(n))' = Custody(NodeFn(n))
  BY <1>4, CustodyOf
<1>8. /\ Custody(NodeFn(g))' = subject[c] /\ Custody(NodeFn(g)) = NoBody
      /\ Custody(CallerOf(c))' = NoBody /\ Custody(CallerOf(c)) = subject[c]
  BY <1>1, <1>2, <1>4, <1>5, CustodyOf
<1>9. /\ CallerOf(c) \in Custodians /\ NodeFn(g) \in Custodians /\ CallerOf(c) # NodeFn(g)
      /\ \A d \in Callers : CallerOf(c) = CallerOf(d) => cpc[d] # "inlineReturn"
  BY <1>1, <1>2, CustodiansExist, CustodiansApart
<1>10. LeaversStay
  BY <1>2, <1>6 DEF LeaversBut, LeaversStay
<1>11. \A j \in Custodians : j # CallerOf(c) /\ j # NodeFn(g) => Custody(j)' = Custody(j)
  BY <1>6, <1>7
<1>12. ended \subseteq Bodies /\ NoBody \notin Bodies
  BY BodyAssumption DEF BodyTypeInv
<1> QED BY <1>2, <1>8, <1>9, <1>10, <1>11, <1>12, HeldHand

(* The next node of TaskGraph::submit(): from the node to the caller.      *)
LEMMA NodeDescHeld ==
    ASSUME BodyTypeInv, SlotInv, OwnInv, HeldInv, NEW c \in Callers, NodeDesc(c)
    PROVE  HeldInv'
<1>1. CASE ~ nodeAt[c] <= graphSize
  <2>1. /\ \A d \in Callers : d # c => cpc'[d] = cpc[d] /\ subject'[d] = subject[d]
        /\ UNCHANGED <<readySlots, rpc, rslot, rbody, offered, ended>>
        /\ cpc[c] # "inlineReturn" /\ cpc'[c] # "inlineReturn"
        /\ (IF cpc'[c] = "return" THEN NoBody ELSE subject'[c]) =
              (IF cpc[c] = "return" THEN NoBody ELSE subject[c])
        /\ mem' = mem
    BY <1>1 DEF BodyTypeInv, NodeDesc, CAt, CGoto, graphVars, poolSide, runnerVars, bodyHistory
  <2> QED BY <2>1, CallerKeeps
<1>2. CASE nodeAt[c] <= graphSize
  <2>0. PICK k \in 1 .. MaxGraphSize : k = nodeAt[c]
    BY <1>2, NodeDescEffect
  <2>1. Shifts(mem, mem', NodeFn(k), DescOf(c))
    BY <1>2, <2>0, NodeDescEffect
  <2>2. /\ cpc[c] = "node" /\ cpc'[c] = "count" /\ subject'[c] = mem.owns[NodeFn(k)]
        /\ subject[c] = NoBody /\ offered' = offered /\ ended' = ended
        /\ \A d \in Callers : d # c => cpc'[d] = cpc[d] /\ subject'[d] = subject[d]
        /\ UNCHANGED <<readySlots, rpc, rslot, rbody>>
    BY <1>2, <2>0
       DEF BodyTypeInv, NodeDesc, CAt, CGoto, graphVars, poolSide, runnerVars, bodyHistory
  <2>3. \A s \in Slots : mem'.owns[SlotFn(s)] = mem.owns[SlotFn(s)]
    BY <2>1, ObjectsExist, ObjectsApart DEF Shifts
  <2>4. /\ mem'.owns[NodeFn(k)] = NoBody
        /\ \A n \in 1 .. MaxGraphSize : n # k => mem'.owns[NodeFn(n)] = mem.owns[NodeFn(n)]
    BY <2>1, ObjectsExist, ObjectsApart DEF Shifts
  <2>5. /\ \A h \in Custodians :
              h # CallerOf(c) /\ (\A n \in 1 .. MaxGraphSize : h # NodeFn(n)) =>
                 Custody(h)' = Custody(h)
        /\ LeaversBut(c)
    BY <2>2, <2>3, CallerElsewhere
  <2>6. \A n \in 1 .. MaxGraphSize : n # k => Custody(NodeFn(n))' = Custody(NodeFn(n))
    BY <2>4, CustodyOf
  <2>7. /\ Custody(NodeFn(k))' = NoBody /\ Custody(NodeFn(k)) = mem.owns[NodeFn(k)]
        /\ Custody(CallerOf(c))' = mem.owns[NodeFn(k)] /\ Custody(CallerOf(c)) = NoBody
    BY <2>1, <2>2, <2>4, CustodyOf
  <2>8. /\ CallerOf(c) \in Custodians /\ NodeFn(k) \in Custodians /\ CallerOf(c) # NodeFn(k)
        /\ \A d \in Callers : NodeFn(k) = CallerOf(d) => cpc[d] # "inlineReturn"
    BY <2>1, CustodiansExist, CustodiansApart
  <2>9. LeaversStay
    BY <2>2, <2>5 DEF LeaversBut, LeaversStay
  <2>10. \A j \in Custodians : j # CallerOf(c) /\ j # NodeFn(k) => Custody(j)' = Custody(j)
    BY <2>5, <2>6
  <2>11. ended \subseteq Bodies /\ NoBody \notin Bodies
    BY BodyAssumption DEF BodyTypeInv
  <2> QED BY <2>2, <2>7, <2>8, <2>9, <2>10, <2>11, HeldHand
<1> QED BY <1>1, <1>2

(* From here on the slot has the body, not the caller.                     *)
LEMMA PublishBodyHeld ==
    ASSUME BodyTypeInv, SlotInv, OwnInv, HeldInv, NEW c \in Callers, PublishBody(c)
    PROVE  HeldInv'
<1>0. PICK s \in Slots : s = cslot[c]
  BY DEF SlotInv, HasSlot, PublishBody, CAt
<1>1. /\ cpc[c] = "publish" /\ cpc'[c] = "return" /\ readySlots' = readySlots \cup {s}
      /\ \A d \in Callers : d # c => cpc'[d] = cpc[d] /\ subject'[d] = subject[d]
      /\ UNCHANGED <<mem, rpc, rslot, rbody, offered, ended>>
  BY <1>0 DEF BodyTypeInv, PublishBody, CAt, CGoto, graphVars, runnerVars, bodyHistory
<1>2. ~ ToCall(s) /\ mem.owns[SlotFn(s)] = subject[c]
  BY <1>0, <1>1, NotToCall DEF HasSlot, OwnInv
<1>3. \A x : ToCall(x)' <=> ToCall(x) \/ x = s
  BY <1>1 DEF ToCall
<1>4. /\ Custody(SlotFn(s))' = subject[c] /\ Custody(SlotFn(s)) = NoBody
      /\ Custody(CallerOf(c))' = NoBody /\ Custody(CallerOf(c)) = subject[c]
  <2>1. ToCall(s)'
    BY <1>3
  <2> QED BY <1>1, <1>2, <2>1, CustodyOf
<1>5. ASSUME NEW x \in Slots, x # s
      PROVE  Custody(SlotFn(x))' = Custody(SlotFn(x))
  <2>1. ToCall(x)' <=> ToCall(x)
    BY <1>3, <1>5
  <2> QED BY <1>1, <2>1, CustodyOf
<1>6. ASSUME NEW j \in Custodians, j # CallerOf(c), j # SlotFn(s)
      PROVE  Custody(j)' = Custody(j)
  <2>1. \A d \in Callers : d # c => Custody(CallerOf(d))' = Custody(CallerOf(d))
    BY <1>1, CustodyOf
  <2>2. \A r \in Runners : Custody(RunnerOf(r))' = Custody(RunnerOf(r))
    BY <1>1, CustodyOf
  <2>3. \A n \in 1 .. MaxGraphSize : Custody(NodeFn(n))' = Custody(NodeFn(n))
    BY <1>1, CustodyOf
  <2> QED BY <1>5, <1>6, <2>1, <2>2, <2>3, CustodiansAre
<1>7. /\ CallerOf(c) \in Custodians /\ SlotFn(s) \in Custodians /\ CallerOf(c) # SlotFn(s)
      /\ \A d \in Callers : CallerOf(c) = CallerOf(d) => cpc[d] # "inlineReturn"
  BY <1>1, <1>2, CustodiansExist, CustodiansApart
<1>8. LeaversStay
  BY <1>1 DEF LeaversStay
<1>9. ended \subseteq Bodies /\ NoBody \notin Bodies
  BY BodyAssumption DEF BodyTypeInv
<1> QED BY <1>1, <1>4, <1>6, <1>7, <1>8, <1>9, HeldHand

(* The decrement in run_inline(): the body has ended.                      *)
LEMMA InlineUncountHeld ==
    ASSUME BodyTypeInv, HeldInv, NEW c \in Callers, InlineUncount(c)
    PROVE  HeldInv'
<1>1. /\ cpc[c] = "inlineCount" /\ cpc'[c] = "inlineReturn" /\ subject' = subject
      /\ offered' = offered /\ ended' = ended \cup ({subject[c]} \ {NoBody})
      /\ mem' = mem /\ subject[c] \in MaybeBody
      /\ \A d \in Callers : d # c => cpc'[d] = cpc[d] /\ subject'[d] = subject[d]
      /\ UNCHANGED <<readySlots, rpc, rslot, rbody>>
  BY DEF BodyTypeInv, InlineUncount, CAt, CGoto, graphVars, poolSide, runnerVars
<1>2. /\ \A h \in Custodians : h # CallerOf(c) /\ (\A n \in 1 .. MaxGraphSize : h # NodeFn(n)) =>
                                  Custody(h)' = Custody(h)
      /\ LeaversBut(c)
  BY <1>1, CallerElsewhere
<1>3. \A n \in 1 .. MaxGraphSize : Custody(NodeFn(n))' = Custody(NodeFn(n))
  BY <1>1, CustodyOf
<1>4. Custody(CallerOf(c))' = Custody(CallerOf(c)) /\ Custody(CallerOf(c)) = subject[c]
  BY <1>1, CustodyOf
<1>5. \A h \in Custodians : Custody(h)' = Custody(h)
  BY <1>2, <1>3, <1>4
<1> QED BY <1>1, <1>2, <1>4, <1>5, HeldEnd

(* The return of run_inline(): of a body that has ended.                   *)
LEMMA InlineReturnHeld ==
    ASSUME BodyTypeInv, SlotInv, OwnInv, HeldInv, NEW c \in Callers, InlineReturn(c)
    PROVE  HeldInv'
<1>1. /\ cpc[c] = "inlineReturn" /\ cpc'[c] \in {"idle", "node"} /\ subject'[c] = NoBody
      /\ offered' = offered /\ ended' = ended
      /\ \A d \in Callers : d # c => cpc'[d] = cpc[d] /\ subject'[d] = subject[d]
      /\ UNCHANGED <<readySlots, rpc, rslot, rbody>>
  BY DEF BodyTypeInv, InlineReturn, Resume, Leave, CAt, CGoto, graphVars, poolSide,
         runnerVars, bodyHistory
<1>2. /\ \A s \in Slots : mem'.owns[SlotFn(s)] = mem.owns[SlotFn(s)]
      /\ \A n \in 1 .. MaxGraphSize : mem'.owns[NodeFn(n)] = mem.owns[NodeFn(n)]
  BY InlineReturnEffect, ObjectsExist, ObjectsApart DEF Takes
<1>3. /\ \A h \in Custodians : h # CallerOf(c) /\ (\A n \in 1 .. MaxGraphSize : h # NodeFn(n)) =>
                                  Custody(h)' = Custody(h)
      /\ LeaversBut(c)
  BY <1>1, <1>2, CallerElsewhere
<1>4. \A n \in 1 .. MaxGraphSize : Custody(NodeFn(n))' = Custody(NodeFn(n))
  BY <1>2, CustodyOf
<1>5. Custody(CallerOf(c))' = NoBody /\ Custody(CallerOf(c)) = subject[c]
  BY <1>1, CustodyOf
<1>6. \A h \in Custodians : h # CallerOf(c) => Custody(h)' = Custody(h)
  BY <1>3, <1>4
<1>7. Custody(CallerOf(c)) \in ended \cup {NoBody} /\ offered' = offered /\ ended' = ended
  BY <1>1, <1>5 DEF HeldInv
<1>8. ended \subseteq Bodies /\ cpc'[c] # "inlineReturn" /\ CallerOf(c) \in Custodians
  BY <1>1, CustodiansExist DEF BodyTypeInv
<1>9. /\ \A d \in Callers : CallerOf(d) # CallerOf(c) =>
            /\ cpc'[d] = "inlineReturn" <=> cpc[d] = "inlineReturn"
            /\ cpc[d] = "inlineReturn" => subject'[d] = subject[d]
      /\ \A d \in Callers : CallerOf(d) = CallerOf(c) => cpc'[d] # "inlineReturn"
  BY <1>3, <1>8, CustodiansApart DEF LeaversBut
<1> QED BY <1>5, <1>6, <1>7, <1>8, <1>9, HeldDrop

(* A copy that throws in the slot: the body may be offered again.          *)
LEMMA SlotThrowsHeld ==
    ASSUME BodyTypeInv, SlotInv, OwnInv, HeldInv, NEW c \in Callers, SlotThrows(c)
    PROVE  HeldInv'
<1>1. /\ cpc[c] = "construct" /\ cpc'[c] \in {"idle", "node"} /\ subject'[c] = NoBody
      /\ offered' = offered \ {subject[c]} /\ ended' = ended
      /\ \A d \in Callers : d # c => cpc'[d] = cpc[d] /\ subject'[d] = subject[d]
      /\ UNCHANGED <<readySlots, rpc, rslot, rbody>>
  BY DEF BodyTypeInv, SlotThrows, SubjectThrows, Leave, CAt, CGoto, graphVars, runnerVars
<1>2. mem' = mem
  BY SlotThrowsEffect
<1>3. /\ \A h \in Custodians : h # CallerOf(c) /\ (\A n \in 1 .. MaxGraphSize : h # NodeFn(n)) =>
                                  Custody(h)' = Custody(h)
      /\ LeaversBut(c)
  BY <1>1, <1>2, CallerElsewhere
<1>4. \A n \in 1 .. MaxGraphSize : Custody(NodeFn(n))' = Custody(NodeFn(n))
  BY <1>2, CustodyOf
<1>5. Custody(CallerOf(c))' = NoBody /\ Custody(CallerOf(c)) = subject[c]
  BY <1>1, CustodyOf
<1>6. \A h \in Custodians : h # CallerOf(c) => Custody(h)' = Custody(h)
  BY <1>3, <1>4
<1>7. /\ Custody(CallerOf(c)) \in Bodies \ ended
      /\ offered' = offered \ {Custody(CallerOf(c))} /\ ended' = ended
  <2>1. subject[c] \in Bodies
    BY <1>1 DEF BodyTypeInv
  <2>2. subject[c] \notin ended
    BY <1>1, <1>5, CustodiansExist, CustodiansApart DEF HeldInv
  <2> QED BY <1>1, <1>5, <2>1, <2>2
<1>8. ended \subseteq Bodies /\ cpc'[c] # "inlineReturn" /\ CallerOf(c) \in Custodians
  BY <1>1, CustodiansExist DEF BodyTypeInv
<1>9. /\ \A d \in Callers : CallerOf(d) # CallerOf(c) =>
            /\ cpc'[d] = "inlineReturn" <=> cpc[d] = "inlineReturn"
            /\ cpc[d] = "inlineReturn" => subject'[d] = subject[d]
      /\ \A d \in Callers : CallerOf(d) = CallerOf(c) => cpc'[d] # "inlineReturn"
  BY <1>3, <1>8, CustodiansApart DEF LeaversBut
<1> QED BY <1>5, <1>6, <1>7, <1>8, <1>9, HeldDrop

(* A copy that throws in the description: the body may be offered again.   *)
LEMMA DescThrowsHeld ==
    ASSUME BodyTypeInv, SlotInv, OwnInv, HeldInv, NEW c \in Callers, DescThrows(c)
    PROVE  HeldInv'
<1>1. /\ cpc[c] = "constructInline" /\ cpc'[c] \in {"idle", "node"} /\ subject'[c] = NoBody
      /\ offered' = offered \ {subject[c]} /\ ended' = ended
      /\ \A d \in Callers : d # c => cpc'[d] = cpc[d] /\ subject'[d] = subject[d]
      /\ UNCHANGED <<readySlots, rpc, rslot, rbody>>
  BY DEF BodyTypeInv, DescThrows, SubjectThrows, Leave, CAt, CGoto, graphVars, runnerVars
<1>2. mem' = mem
  BY DEF DescThrows
<1>3. /\ \A h \in Custodians : h # CallerOf(c) /\ (\A n \in 1 .. MaxGraphSize : h # NodeFn(n)) =>
                                  Custody(h)' = Custody(h)
      /\ LeaversBut(c)
  BY <1>1, <1>2, CallerElsewhere
<1>4. \A n \in 1 .. MaxGraphSize : Custody(NodeFn(n))' = Custody(NodeFn(n))
  BY <1>2, CustodyOf
<1>5. Custody(CallerOf(c))' = NoBody /\ Custody(CallerOf(c)) = subject[c]
  BY <1>1, CustodyOf
<1>6. \A h \in Custodians : h # CallerOf(c) => Custody(h)' = Custody(h)
  BY <1>3, <1>4
<1>7. /\ Custody(CallerOf(c)) \in Bodies \ ended
      /\ offered' = offered \ {Custody(CallerOf(c))} /\ ended' = ended
  <2>1. subject[c] \in Bodies
    BY <1>1 DEF BodyTypeInv
  <2>2. subject[c] \notin ended
    BY <1>1, <1>5, CustodiansExist, CustodiansApart DEF HeldInv
  <2> QED BY <1>1, <1>5, <2>1, <2>2
<1>8. ended \subseteq Bodies /\ cpc'[c] # "inlineReturn" /\ CallerOf(c) \in Custodians
  BY <1>1, CustodiansExist DEF BodyTypeInv
<1>9. /\ \A d \in Callers : CallerOf(d) # CallerOf(c) =>
            /\ cpc'[d] = "inlineReturn" <=> cpc[d] = "inlineReturn"
            /\ cpc[d] = "inlineReturn" => subject'[d] = subject[d]
      /\ \A d \in Callers : CallerOf(d) = CallerOf(c) => cpc'[d] # "inlineReturn"
  BY <1>3, <1>8, CustodiansApart DEF LeaversBut
<1> QED BY <1>5, <1>6, <1>7, <1>8, <1>9, HeldDrop

(* A step of a runner leaves callers and nodes alone.                      *)
LEMMA RunnerElsewhere ==
    ASSUME NEW r \in Runners, UNCHANGED callerVars, \A q \in Runners : q # r => rbody'[q] = rbody[q],
           \A n \in 1 .. MaxGraphSize : mem'.owns[NodeFn(n)] = mem.owns[NodeFn(n)]
    PROVE  /\ \A h \in Custodians : h # RunnerOf(r) /\ (\A s \in Slots : h # SlotFn(s)) =>
                                       Custody(h)' = Custody(h)
           /\ LeaversStay
<1>1. \A d \in Callers : Custody(CallerOf(d))' = Custody(CallerOf(d))
  BY CustodyOf DEF callerVars
<1>2. \A q \in Runners : q # r => Custody(RunnerOf(q))' = Custody(RunnerOf(q))
  BY CustodyOf
<1>3. \A n \in 1 .. MaxGraphSize : Custody(NodeFn(n))' = Custody(NodeFn(n))
  BY CustodyOf
<1>4. \A h \in Custodians : h # RunnerOf(r) /\ (\A s \in Slots : h # SlotFn(s)) =>
                               Custody(h)' = Custody(h)
  BY <1>1, <1>2, <1>3, CustodiansAre
<1> QED BY <1>4 DEF LeaversStay, callerVars

(* Nor does it change custody if the same slots are to be called.          *)
LEMMA RunnerKeeps ==
    ASSUME HeldInv, NEW r \in Runners, UNCHANGED callerVars, rbody' = rbody,
           \A n \in 1 .. MaxGraphSize : mem'.owns[NodeFn(n)] = mem.owns[NodeFn(n)],
           \A s \in Slots : ToCall(s)' <=> ToCall(s),
           \A s \in Slots : ToCall(s) => mem'.owns[SlotFn(s)] = mem.owns[SlotFn(s)],
           UNCHANGED <<offered, ended>>
    PROVE  HeldInv'
<1>1. /\ \A h \in Custodians : h # RunnerOf(r) /\ (\A s \in Slots : h # SlotFn(s)) =>
                                  Custody(h)' = Custody(h)
      /\ LeaversStay
  BY RunnerElsewhere
<1>2. Custody(RunnerOf(r))' = Custody(RunnerOf(r))
  BY CustodyOf
<1>3. ASSUME NEW s \in Slots
      PROVE  Custody(SlotFn(s))' = Custody(SlotFn(s))
  <2>1. /\ Custody(SlotFn(s)) = IF ToCall(s) THEN mem.owns[SlotFn(s)] ELSE NoBody
        /\ Custody(SlotFn(s))' = IF ToCall(s)' THEN mem'.owns[SlotFn(s)] ELSE NoBody
    BY CustodyOf
  <2> QED BY <2>1
<1>4. \A h \in Custodians : Custody(h)' = Custody(h)
  BY <1>1, <1>2, <1>3
<1> QED BY <1>1, <1>4, HeldStays

(* A runner's taking of a task: it stays to be called.                     *)
LEMMA TakeReadyHeld ==
    ASSUME BodyTypeInv, HeldInv, NEW r \in Runners, TakeReady(r)
    PROVE  HeldInv'
<1>1. /\ rpc[r] = "idle" /\ rpc' = [rpc EXCEPT ![r] = "call"]
      /\ UNCHANGED <<callerVars, mem, rbody, offered, ended>>
  BY DEF TakeReady, RGoto, bodyHistory
<1>2. PICK s \in readySlots : readySlots' = readySlots \ {s} /\ rslot' = [rslot EXCEPT ![r] = s]
  BY DEF TakeReady
<1>3. ASSUME NEW x \in Slots
      PROVE  ToCall(x)' <=> ToCall(x)
  <2>1. rpc'[r] = "call" /\ rslot'[r] = s
    BY <1>1, <1>2 DEF BodyTypeInv
  <2>2. \A q \in Runners : q # r => rpc'[q] = rpc[q] /\ rslot'[q] = rslot[q]
    BY <1>1, <1>2 DEF BodyTypeInv
  <2>3. CASE x = s
    BY <1>2, <2>1, <2>3 DEF ToCall
  <2>4. CASE x # s
    BY <1>1, <1>2, <2>1, <2>2, <2>4 DEF ToCall
  <2> QED BY <2>3, <2>4
<1> QED BY <1>1, <1>3, RunnerKeeps

(* The runner that calls the body has it from here on, not the slot.       *)
LEMMA ExecuteBodyHeld ==
    ASSUME BodyTypeInv, SlotInv, HeldInv, NEW r \in Runners, ExecuteBody(r)
    PROVE  HeldInv'
<1>0. PICK s \in Slots : s = rslot[r]
  BY DEF SlotInv, OnSlot, ExecuteBody
<1>1. PICK b \in Bodies : mem.owns[SlotFn(s)] = b /\ rbody' = [rbody EXCEPT ![r] = b]
  BY <1>0, ExecuteBodyCalls
<1>2. /\ rpc[r] = "call" /\ rpc' = [rpc EXCEPT ![r] = "release"]
      /\ UNCHANGED <<callerVars, mem, readySlots, rslot, offered, ended>>
  BY DEF ExecuteBody, RGoto, poolSide
<1>3. /\ rbody'[r] = b /\ rbody[r] \notin Bodies
      /\ \A q \in Runners : q # r => rbody'[q] = rbody[q] /\ rpc'[q] = rpc[q]
      /\ rpc'[r] = "release"
  BY <1>1, <1>2 DEF BodyTypeInv
<1>4. s \notin readySlots /\ \A q \in Runners : q # r /\ OnSlot(q) => rslot[q] # s
  BY <1>0, <1>2 DEF SlotInv, OnSlot
<1>5. ToCall(s) /\ ~ ToCall(s)'
  BY <1>0, <1>2, <1>3, <1>4 DEF ToCall, OnSlot
<1>6. ASSUME NEW x \in Slots, x # s
      PROVE  Custody(SlotFn(x))' = Custody(SlotFn(x))
  <2>1. ToCall(x)' <=> ToCall(x)
    BY <1>0, <1>2, <1>3, <1>6 DEF ToCall
  <2>2. /\ Custody(SlotFn(x)) = IF ToCall(x) THEN mem.owns[SlotFn(x)] ELSE NoBody
        /\ Custody(SlotFn(x))' = IF ToCall(x)' THEN mem'.owns[SlotFn(x)] ELSE NoBody
    BY CustodyOf
  <2> QED BY <1>2, <2>1, <2>2
<1>7. /\ \A h \in Custodians : h # RunnerOf(r) /\ (\A x \in Slots : h # SlotFn(x)) =>
                                  Custody(h)' = Custody(h)
      /\ LeaversStay
  BY <1>2, <1>3, RunnerElsewhere
<1>8. \A h \in Custodians : h # SlotFn(s) /\ h # RunnerOf(r) => Custody(h)' = Custody(h)
  BY <1>6, <1>7
<1>9. /\ Custody(SlotFn(s)) = b /\ Custody(SlotFn(s))' = NoBody
      /\ Custody(RunnerOf(r)) \notin Bodies /\ Custody(RunnerOf(r))' = b
  BY <1>1, <1>3, <1>5, CustodyOf
<1>10. /\ SlotFn(s) \in Custodians /\ RunnerOf(r) \in Custodians /\ SlotFn(s) # RunnerOf(r)
       /\ \A c \in Callers : SlotFn(s) = CallerOf(c) => cpc[c] # "inlineReturn"
  BY CustodiansExist, CustodiansApart
<1>11. ended \subseteq Bodies
  BY DEF BodyTypeInv
<1> QED BY <1>2, <1>7, <1>8, <1>9, <1>10, <1>11, HeldHand

(* The reset in release(): the runner keeps the body.                      *)
LEMMA ReleaseBodyHeld ==
    ASSUME BodyTypeInv, SlotInv, HeldInv, NEW r \in Runners, ReleaseBody(r)
    PROVE  HeldInv'
<1>1. /\ rpc[r] = "release" /\ rpc' = [rpc EXCEPT ![r] = "free"]
      /\ UNCHANGED <<callerVars, rbody, rslot, readySlots, offered, ended>>
  BY DEF ReleaseBody, RGoto, poolSide, bodyHistory
<1>2. rslot[r] \in Slots /\ Takes(mem, mem', SlotFn(rslot[r]))
  BY ReleaseBodyEffect
<1>3. /\ \A s \in Slots : s # rslot[r] => mem'.owns[SlotFn(s)] = mem.owns[SlotFn(s)]
      /\ \A n \in 1 .. MaxGraphSize : mem'.owns[NodeFn(n)] = mem.owns[NodeFn(n)]
  BY <1>2, ObjectsExist, ObjectsApart DEF Takes
<1>4. ~ ToCall(rslot[r])
  BY <1>1, NotToCall DEF OnSlot
<1>5. \A s \in Slots : ToCall(s) => mem'.owns[SlotFn(s)] = mem.owns[SlotFn(s)]
  BY <1>3, <1>4
<1>6. \A s \in Slots : ToCall(s)' <=> ToCall(s)
  <2>1. \A q \in Runners : rpc'[q] = "call" <=> rpc[q] = "call"
    BY <1>1 DEF BodyTypeInv
  <2> QED BY <1>1, <2>1 DEF ToCall
<1> QED BY <1>1, <1>3, <1>5, <1>6, RunnerKeeps

(* The slot's return to the free list: the runner keeps the body.          *)
LEMMA GiveSlotBackHeld ==
    ASSUME BodyTypeInv, HeldInv, NEW r \in Runners, GiveSlotBack(r)
    PROVE  HeldInv'
<1>1. /\ rpc[r] = "free" /\ rpc' = [rpc EXCEPT ![r] = "uncount"]
      /\ UNCHANGED <<callerVars, mem, rbody, rslot, readySlots, offered, ended>>
  BY DEF GiveSlotBack, RGoto, bodyHistory
<1>2. \A s \in Slots : ToCall(s)' <=> ToCall(s)
  <2>1. \A q \in Runners : rpc'[q] = "call" <=> rpc[q] = "call"
    BY <1>1 DEF BodyTypeInv
  <2> QED BY <1>1, <2>1 DEF ToCall
<1> QED BY <1>1, <1>2, RunnerKeeps

(* The decrement in complete(): the body has ended.                        *)
LEMMA UncountBodyHeld ==
    ASSUME BodyTypeInv, HeldInv, NEW r \in Runners, UncountBody(r)
    PROVE  HeldInv'
<1>1. /\ rpc[r] = "uncount" /\ rpc' = [rpc EXCEPT ![r] = "idle"]
      /\ rslot' = [rslot EXCEPT ![r] = 0] /\ rbody' = [rbody EXCEPT ![r] = NoBody]
      /\ ended' = ended \cup {rbody[r]} /\ offered' = offered
      /\ UNCHANGED <<callerVars, mem, readySlots>>
  BY DEF UncountBody, RGoto, poolSide
<1>2. /\ rbody[r] \in Bodies /\ rbody'[r] = NoBody /\ rpc'[r] # "call"
      /\ \A q \in Runners : q # r =>
            rpc'[q] = rpc[q] /\ rbody'[q] = rbody[q] /\ rslot'[q] = rslot[q]
  BY <1>1 DEF BodyTypeInv
<1>3. \A s \in Slots : ToCall(s)' <=> ToCall(s)
  BY <1>1, <1>2 DEF ToCall
<1>4. ASSUME NEW s \in Slots
      PROVE  Custody(SlotFn(s))' = Custody(SlotFn(s))
  <2>1. /\ Custody(SlotFn(s)) = IF ToCall(s) THEN mem.owns[SlotFn(s)] ELSE NoBody
        /\ Custody(SlotFn(s))' = IF ToCall(s)' THEN mem'.owns[SlotFn(s)] ELSE NoBody
    BY CustodyOf
  <2> QED BY <1>1, <1>3, <2>1
<1>5. /\ \A h \in Custodians : h # RunnerOf(r) /\ (\A s \in Slots : h # SlotFn(s)) =>
                                  Custody(h)' = Custody(h)
      /\ LeaversStay
  BY <1>1, <1>2, RunnerElsewhere
<1>6. \A h \in Custodians : h # RunnerOf(r) => Custody(h)' = Custody(h)
  BY <1>4, <1>5
<1>7. Custody(RunnerOf(r)) = rbody[r] /\ Custody(RunnerOf(r))' = NoBody
  BY <1>2, CustodyOf
<1>8. /\ ended \subseteq Bodies /\ RunnerOf(r) \in Custodians
      /\ \A d \in Callers : CallerOf(d) # RunnerOf(r)
  BY CustodiansExist, CustodiansApart DEF BodyTypeInv
<1>9. /\ \A d \in Callers : CallerOf(d) # RunnerOf(r) =>
            /\ cpc'[d] = "inlineReturn" <=> cpc[d] = "inlineReturn"
            /\ cpc[d] = "inlineReturn" => subject'[d] = subject[d]
      /\ \A d \in Callers : CallerOf(d) = RunnerOf(r) => cpc'[d] # "inlineReturn"
  BY <1>5, <1>8 DEF LeaversStay
<1>10. /\ Custody(RunnerOf(r)) \in Bodies /\ offered' = offered
       /\ ended' = ended \cup {Custody(RunnerOf(r))}
  BY <1>1, <1>2, <1>7
<1> QED BY <1>6, <1>7, <1>8, <1>9, <1>10, HeldDrop

(* At the start nobody has a body.                                         *)
LEMMA HeldInit == BodyInit => HeldInv
<1> SUFFICES ASSUME BodyInit PROVE HeldInv
  OBVIOUS
<1>1. ASSUME NEW h \in Custodians
      PROVE  Custody(h) = NoBody
  <2>1. \A s \in Slots : ~ ToCall(s)
    BY DEF BodyInit, ToCall
  <2>2. \A c \in Callers : Custody(CallerOf(c)) = NoBody
    BY CustodyOf DEF BodyInit
  <2>3. \A r \in Runners : Custody(RunnerOf(r)) = NoBody
    BY CustodyOf DEF BodyInit
  <2>4. \A s \in Slots : Custody(SlotFn(s)) = NoBody
    BY <2>1, CustodyOf
  <2>5. \A n \in 1 .. MaxGraphSize : Custody(NodeFn(n)) = NoBody
    BY CustodyOf, ObjectsExist DEF BodyInit
  <2> QED BY <2>2, <2>3, <2>4, <2>5, CustodiansAre
<1>2. offered = {} /\ ended = {} /\ \A c \in Callers : cpc[c] = "idle"
  BY DEF BodyInit
<1> QED BY <1>1, <1>2, BodyAssumption DEF HeldInv

-----------------------------------------------------------------------------
(* Calls.                                                                  *)

(* At the start nothing has been called.                                   *)
LEMMA CallInit == BodyInit => CallInv
BY BodyAssumption DEF BodyInit, CallInv, WasCalled

(* A caller that is not at the end of a run_inline() changes nothing.      *)
LEMMA CallerCallsNothing ==
    ASSUME CallInv, NEW c \in Callers, UNCHANGED <<executed, ended, rbody>>,
           \A d \in Callers : d # c => cpc'[d] = cpc[d] /\ subject'[d] = subject[d],
           cpc[c] \notin {"inlineCount", "inlineReturn"},
           cpc'[c] \notin {"inlineCount", "inlineReturn"}
    PROVE  CallInv'
<1>1. \A b \in Bodies : WasCalled(b)' <=> WasCalled(b)
  BY DEF WasCalled
<1> QED BY <1>1 DEF CallInv

(* Nor does a runner whose body stays what it is.                          *)
LEMMA RunnerCallsNothing ==
    ASSUME CallInv, UNCHANGED <<executed, ended, rbody, callerVars>>
    PROVE  CallInv'
<1>1. \A b \in Bodies : WasCalled(b)' <=> WasCalled(b)
  BY DEF WasCalled, callerVars
<1> QED BY <1>1 DEF CallInv

(* What a custodian that has not called it has, nobody has called.         *)
LEMMA NotCalledYet ==
    ASSUME BodyTypeInv, HeldInv, NEW h \in Custodians, Custody(h) \in Bodies,
           \A r \in Runners : h # RunnerOf(r),
           \A c \in Callers : h = CallerOf(c) => cpc[c] \notin {"inlineCount", "inlineReturn"}
    PROVE  ~ WasCalled(Custody(h))
<1>1. Custody(h) \notin ended
  BY DEF HeldInv
<1>2. \A r \in Runners : rbody[r] # Custody(h)
  <2> TAKE r \in Runners
  <2>1. RunnerOf(r) \in Custodians /\ Custody(RunnerOf(r)) = rbody[r]
    BY CustodiansExist, CustodyOf
  <2> QED BY <2>1 DEF HeldInv
<1>3. ASSUME NEW c \in Callers, cpc[c] \in {"inlineCount", "inlineReturn"}
      PROVE  subject[c] # Custody(h)
  <2>1. CallerOf(c) \in Custodians /\ Custody(CallerOf(c)) = subject[c]
    BY <1>3, CustodiansExist, CustodyOf
  <2> QED BY <1>3, <2>1 DEF HeldInv
<1> QED BY <1>1, <1>2, <1>3 DEF WasCalled

(* run_inline() calls a body that was not called before, ...               *)
LEMMA InlineCallCall ==
    ASSUME BodyTypeInv, OwnInv, HeldInv, CallInv, NEW c \in Callers, InlineCall(c)
    PROVE  CallInv'
<1>1. /\ cpc[c] = "inlineCall" /\ cpc'[c] = "inlineCount" /\ subject' = subject
      /\ \A d \in Callers : d # c => cpc'[d] = cpc[d]
      /\ UNCHANGED <<ended, rbody>>
  BY DEF BodyTypeInv, InlineCall, CAt, CGoto, graphVars, poolSide, runnerVars
<1>2. \A b \in Bodies : WasCalled(b)' <=> WasCalled(b) \/ b = subject[c]
  BY <1>1 DEF WasCalled
<1>3. CASE subject[c] = NoBody
  <2>1. executed' = executed
    BY <1>3, InlineCallCalls
  <2> QED BY <1>2, <1>3, <2>1, BodyAssumption DEF CallInv
<1>4. CASE subject[c] # NoBody
  <2>1. /\ subject[c] \in Bodies
        /\ executed' = [executed EXCEPT ![subject[c]] = executed[subject[c]] + 1]
    BY <1>4, InlineCallCalls
  <2>2. CallerOf(c) \in Custodians /\ Custody(CallerOf(c)) = subject[c]
    BY <1>1, CustodiansExist, CustodyOf
  <2>3. ~ WasCalled(subject[c])
    BY <1>1, <2>1, <2>2, NotCalledYet, CustodiansApart
  <2>4. executed[subject[c]] = 0
    BY <2>1, <2>3 DEF CallInv
  <2>5. \A b \in Bodies : executed'[b] = IF b = subject[c] THEN 1 ELSE executed[b]
    BY <2>1, <2>4 DEF BodyTypeInv
  <2> QED BY <1>2, <2>5 DEF CallInv
<1> QED BY <1>3, <1>4

(* ... and so does execute().                                              *)
LEMMA ExecuteBodyCall ==
    ASSUME BodyTypeInv, SlotInv, HeldInv, CallInv, NEW r \in Runners, ExecuteBody(r)
    PROVE  CallInv'
<1>1. PICK b \in Bodies : /\ rslot[r] \in Slots /\ mem.owns[SlotFn(rslot[r])] = b
                          /\ executed' = [executed EXCEPT ![b] = executed[b] + 1]
                          /\ rbody' = [rbody EXCEPT ![r] = b]
  BY ExecuteBodyCalls
<1>2. /\ rpc[r] = "call" /\ UNCHANGED <<callerVars, ended>> /\ rbody[r] \notin Bodies
      /\ rbody'[r] = b /\ \A q \in Runners : q # r => rbody'[q] = rbody[q]
  BY <1>1 DEF BodyTypeInv, ExecuteBody
<1>3. \A x \in Bodies : WasCalled(x)' <=> WasCalled(x) \/ x = b
  BY <1>2 DEF WasCalled, callerVars
<1>4. ToCall(rslot[r])
  BY <1>2 DEF ToCall
<1>5. SlotFn(rslot[r]) \in Custodians /\ Custody(SlotFn(rslot[r])) = b
  BY <1>1, <1>4, CustodiansExist, CustodyOf
<1>6. ~ WasCalled(b)
  <2>1. /\ \A q \in Runners : SlotFn(rslot[r]) # RunnerOf(q)
        /\ \A c \in Callers : SlotFn(rslot[r]) # CallerOf(c)
    BY CustodiansApart
  <2> QED BY <1>5, <2>1, NotCalledYet
<1>7. executed[b] = 0
  BY <1>6 DEF CallInv
<1>8. \A x \in Bodies : executed'[x] = IF x = b THEN 1 ELSE executed[x]
  BY <1>1, <1>7 DEF BodyTypeInv
<1> QED BY <1>3, <1>8 DEF CallInv

(* Who leaves run_inline() leaves a body that has ended.                   *)
LEMMA InlineEndCall ==
    ASSUME BodyTypeInv, HeldInv, CallInv, NEW c \in Callers, InlineUncount(c) \/ InlineReturn(c)
    PROVE  CallInv'
<1>1. CASE InlineUncount(c)
  <2>1. /\ cpc[c] = "inlineCount" /\ cpc'[c] = "inlineReturn" /\ subject' = subject
        /\ ended' = ended \cup ({subject[c]} \ {NoBody})
        /\ \A d \in Callers : d # c => cpc'[d] = cpc[d]
        /\ UNCHANGED <<executed, rbody>>
    BY <1>1 DEF BodyTypeInv, InlineUncount, CAt, CGoto, graphVars, poolSide, runnerVars
  <2>2. \A b \in Bodies : WasCalled(b)' <=> WasCalled(b)
    BY <2>1, BodyAssumption DEF WasCalled
  <2> QED BY <2>1, <2>2 DEF CallInv
<1>2. CASE InlineReturn(c)
  <2>1. /\ cpc[c] = "inlineReturn" /\ cpc'[c] \in {"idle", "node"}
        /\ \A d \in Callers : d # c => cpc'[d] = cpc[d] /\ subject'[d] = subject[d]
        /\ UNCHANGED <<ended, executed, rbody>>
    BY <1>2
       DEF BodyTypeInv, InlineReturn, Resume, Leave, CAt, CGoto, graphVars, poolSide,
           runnerVars, bodyHistory
  <2>2. subject[c] \in ended \cup {NoBody}
    BY <2>1 DEF HeldInv
  <2>3. \A b \in Bodies : WasCalled(b)' <=> WasCalled(b)
    BY <2>1, <2>2, BodyAssumption DEF WasCalled
  <2> QED BY <2>1, <2>3 DEF CallInv
<1> QED BY <1>1, <1>2

(* A body that was called and ends stays called.                           *)
LEMMA UncountBodyCall ==
    ASSUME BodyTypeInv, CallInv, NEW r \in Runners, UncountBody(r)
    PROVE  CallInv'
<1>1. /\ rbody[r] \in Bodies /\ rbody'[r] = NoBody /\ ended' = ended \cup {rbody[r]}
      /\ \A q \in Runners : q # r => rbody'[q] = rbody[q]
      /\ UNCHANGED <<executed, callerVars>>
  BY DEF BodyTypeInv, UncountBody
<1>2. \A b \in Bodies : WasCalled(b)' <=> WasCalled(b)
  BY <1>1, BodyAssumption DEF WasCalled, callerVars
<1> QED BY <1>1, <1>2 DEF CallInv

(* So each step of a caller keeps the account of calls, ...                *)
LEMMA CallerCallStep ==
    ASSUME BodyTypeInv, OwnInv, HeldInv, CallInv, NEW c \in Callers, CallerStep(c)
    PROVE  CallInv'
<1>1. ASSUME NEW b \in Bodies, BuildDesc(c, b) PROVE CallInv'
  BY <1>1, CallerCallsNothing
     DEF BodyTypeInv, BuildDesc, Offer, CAt, CGoto, graphVars, poolSide, runnerVars
<1>2. ASSUME NEW b \in Bodies, CountEmplace(c, b) PROVE CallInv'
  BY <1>2, CallerCallsNothing
     DEF BodyTypeInv, CountEmplace, Offer, CAt, CGoto, graphVars, poolSide, runnerVars
<1>3. CASE AddNode(c)
  BY <1>3, CallerCallsNothing
     DEF BodyTypeInv, AddNode, Leave, CAt, CGoto, poolSide, runnerVars, bodyHistory
<1>4. CASE SubmitGraph(c)
  BY <1>4, CallerCallsNothing
     DEF BodyTypeInv, SubmitGraph, CAt, CGoto, poolSide, runnerVars, bodyHistory
<1>5. CASE NodeDesc(c)
  BY <1>5, CallerCallsNothing
     DEF BodyTypeInv, NodeDesc, CAt, CGoto, graphVars, poolSide, runnerVars, bodyHistory
<1>6. CASE CountBody(c)
  BY <1>6, CallerCallsNothing
     DEF BodyTypeInv, CountBody, CAt, CGoto, graphVars, poolSide, runnerVars, bodyHistory
<1>7. CASE AcquireMove(c)
  BY <1>7, CallerCallsNothing
     DEF BodyTypeInv, AcquireMove, HoldFreeSlot, CAt, CGoto, graphVars, runnerVars,
         bodyHistory
<1>8. CASE AcquireNothing(c)
  BY <1>8, CallerCallsNothing
     DEF BodyTypeInv, AcquireNothing, CAt, CGoto, graphVars, poolSide, runnerVars,
         bodyHistory
<1>9. CASE PublishBody(c)
  BY <1>9, CallerCallsNothing
     DEF BodyTypeInv, PublishBody, CAt, CGoto, graphVars, runnerVars, bodyHistory
<1>10. CASE SubmitReturn(c)
  BY <1>10, CallerCallsNothing
     DEF BodyTypeInv, SubmitReturn, Resume, Leave, CAt, CGoto, graphVars, poolSide,
         runnerVars, bodyHistory
<1>11. CASE InlineMove(c)
  BY <1>11, CallerCallsNothing
     DEF BodyTypeInv, InlineMove, CAt, CGoto, graphVars, poolSide, runnerVars, bodyHistory
<1>12. CASE ReserveSlot(c)
  BY <1>12, CallerCallsNothing
     DEF BodyTypeInv, ReserveSlot, HoldFreeSlot, CAt, CGoto, graphVars, runnerVars,
         bodyHistory
<1>13. CASE ConstructInSlot(c)
  BY <1>13, CallerCallsNothing
     DEF BodyTypeInv, ConstructInSlot, CAt, CGoto, graphVars, poolSide, runnerVars,
         bodyHistory
<1>14. CASE ConstructInDesc(c)
  BY <1>14, CallerCallsNothing
     DEF BodyTypeInv, ConstructInDesc, CAt, CGoto, graphVars, poolSide, runnerVars,
         bodyHistory
<1>15. CASE SlotThrows(c)
  BY <1>15, CallerCallsNothing
     DEF BodyTypeInv, SlotThrows, SubjectThrows, Leave, CAt, CGoto, graphVars, runnerVars
<1>16. CASE DescThrows(c)
  BY <1>16, CallerCallsNothing
     DEF BodyTypeInv, DescThrows, SubjectThrows, Leave, CAt, CGoto, graphVars, runnerVars
<1> QED
  BY <1>1, <1>2, <1>3, <1>4, <1>5, <1>6, <1>7, <1>8, <1>9, <1>10, <1>11, <1>12, <1>13,
     <1>14, <1>15, <1>16,
     InlineCallCall, InlineEndCall DEF CallerStep

(* ... and each step of a runner.                                          *)
LEMMA RunnerCallStep ==
    ASSUME BodyTypeInv, SlotInv, HeldInv, CallInv, NEW r \in Runners, RunnerStep(r)
    PROVE  CallInv'
<1>1. CASE TakeReady(r)
  BY <1>1, RunnerCallsNothing DEF TakeReady, bodyHistory
<1>2. CASE ReleaseBody(r)
  BY <1>2, RunnerCallsNothing DEF ReleaseBody, bodyHistory
<1>3. CASE GiveSlotBack(r)
  BY <1>3, RunnerCallsNothing DEF GiveSlotBack, bodyHistory
<1> QED BY <1>1, <1>2, <1>3, ExecuteBodyCall, UncountBodyCall DEF RunnerStep

-----------------------------------------------------------------------------
(* Callables.                                                              *)

(* At the start there are no callables.                                    *)
LEMMA LiveInit == BodyInit => LiveInv
BY BodyAssumption DEF BodyInit, LiveInv

(* A callable is constructed where there is none, of a body that has none. *)
LEMMA LivePut ==
    ASSUME BodyTypeInv, LiveInv, NEW o \in Objects, NEW b \in Bodies, Puts(mem, mem', o, b),
           mem.owns[o] = NoBody, \A p \in Objects : mem.owns[p] # b
    PROVE  LiveInv'
<1>1. /\ \A p \in Objects : mem'.owns[p] = IF p = o THEN b ELSE mem.owns[p]
      /\ \A x \in Bodies : mem'.live[x] = IF x = b THEN mem.live[x] + 1 ELSE mem.live[x]
  BY DEF Puts
<1>2. \A p, q \in Objects : mem'.owns[p] \in Bodies /\ mem'.owns[p] = mem'.owns[q] => p = q
  BY <1>1 DEF LiveInv
<1>3. ASSUME NEW x \in Bodies
      PROVE  mem'.live[x] = IF \E p \in Objects : mem'.owns[p] = x THEN 1 ELSE 0
  <2>1. CASE x = b
    <3>1. mem.live[x] = 0
      BY <2>1 DEF LiveInv
    <3>2. \E p \in Objects : mem'.owns[p] = x
      BY <1>1, <2>1
    <3> QED BY <1>1, <2>1, <3>1, <3>2
  <2>2. CASE x # b
    <3>1. (\E p \in Objects : mem'.owns[p] = x) <=> (\E p \in Objects : mem.owns[p] = x)
      BY <1>1, <2>2, BodyAssumption
    <3> QED BY <1>1, <2>2, <3>1 DEF LiveInv
  <2> QED BY <2>1, <2>2
<1> QED BY <1>2, <1>3 DEF LiveInv

(* It moves to where there is none.                                        *)
LEMMA LiveShift ==
    ASSUME LiveInv, NEW f \in Objects, NEW t \in Objects, f # t, Shifts(mem, mem', f, t),
           mem.owns[t] = NoBody
    PROVE  LiveInv'
<1>1. /\ \A p \in Objects : mem'.owns[p] = IF p = t THEN mem.owns[f]
                                           ELSE IF p = f THEN NoBody ELSE mem.owns[p]
      /\ \A x \in Bodies : mem'.live[x] = mem.live[x]
  BY DEF Shifts
<1>2. NoBody \notin Bodies
  BY BodyAssumption
<1>3. ASSUME NEW p \in Objects, NEW q \in Objects,
             mem'.owns[p] \in Bodies, mem'.owns[p] = mem'.owns[q]
      PROVE  p = q
  BY <1>1, <1>2, <1>3 DEF LiveInv
<1>4. ASSUME NEW x \in Bodies
      PROVE  (\E p \in Objects : mem'.owns[p] = x) <=> (\E p \in Objects : mem.owns[p] = x)
  <2>1. ASSUME NEW p \in Objects, mem.owns[p] = x PROVE \E q \in Objects : mem'.owns[q] = x
    BY <1>1, <1>2, <2>1
  <2>2. ASSUME NEW p \in Objects, mem'.owns[p] = x PROVE \E q \in Objects : mem.owns[q] = x
    BY <1>1, <1>2, <2>2
  <2> QED BY <2>1, <2>2
<1> QED BY <1>1, <1>3, <1>4 DEF LiveInv

(* It is destroyed.                                                        *)
LEMMA LiveTake ==
    ASSUME LiveInv, NEW o \in Objects, Takes(mem, mem', o)
    PROVE  LiveInv'
<1>1. /\ \A p \in Objects : mem'.owns[p] = IF p = o THEN NoBody ELSE mem.owns[p]
      /\ \A x \in Bodies : mem'.live[x] = IF x = mem.owns[o] THEN mem.live[x] - 1 ELSE mem.live[x]
  BY DEF Takes
<1>2. NoBody \notin Bodies
  BY BodyAssumption
<1>3. \A p, q \in Objects : mem'.owns[p] \in Bodies /\ mem'.owns[p] = mem'.owns[q] => p = q
  BY <1>1, <1>2 DEF LiveInv
<1>4. ASSUME NEW x \in Bodies
      PROVE  mem'.live[x] = IF \E p \in Objects : mem'.owns[p] = x THEN 1 ELSE 0
  <2>1. CASE x = mem.owns[o]
    <3>1. mem.live[x] = 1
      BY <2>1 DEF LiveInv
    <3>2. \A p \in Objects : mem'.owns[p] # x
      BY <1>1, <1>2, <2>1 DEF LiveInv
    <3> QED BY <1>1, <2>1, <3>1, <3>2
  <2>2. CASE x # mem.owns[o]
    <3>1. (\E p \in Objects : mem'.owns[p] = x) <=> (\E p \in Objects : mem.owns[p] = x)
      BY <1>1, <1>2, <2>2
    <3> QED BY <1>1, <2>2, <3>1 DEF LiveInv
  <2> QED BY <2>1, <2>2
<1> QED BY <1>3, <1>4 DEF LiveInv

(* What a TaskFunction owns is in somebody's custody; if that is a caller, *)
(* it has the callable, and at the end of run_inline() in its local.       *)
LEMMA OwnedIsHeld ==
    ASSUME BodyTypeInv, SlotInv, OwnInv, NEW o \in Objects, mem.owns[o] \in Bodies
    PROVE  \E h \in Custodians :
              /\ Custody(h) = mem.owns[o]
              /\ \A c \in Callers : h = CallerOf(c) =>
                    /\ cpc[c] \notin {"idle", "reserve", "construct", "constructInline"}
                    /\ cpc[c] = "inlineReturn" => o = LocalOf(c)
<1> DEFINE Kept(h) == /\ Custody(h) = mem.owns[o]
                      /\ \A c \in Callers : h = CallerOf(c) =>
                            /\ cpc[c] \notin {"idle", "reserve", "construct", "constructInline"}
                            /\ cpc[c] = "inlineReturn" => o = LocalOf(c)
<1> SUFFICES \E h \in Custodians : Kept(h)
  OBVIOUS
<1>0. NoBody \notin Bodies
  BY BodyAssumption
<1>1. ASSUME NEW c \in Callers, o = ArgOf(c) \/ o = DescOf(c) \/ o = LocalOf(c)
      PROVE  \E h \in Custodians : Kept(h)
  <2>1. /\ cpc[c] \in {"count", "acquire", "add", "inline", "inlineCall", "inlineCount",
                       "inlineReturn"}
        /\ mem.owns[o] = subject[c] /\ (cpc[c] = "inlineReturn" => o = LocalOf(c))
    BY <1>0, <1>1 DEF OwnInv, InDesc, InLocal
  <2>2. CallerOf(c) \in Custodians /\ \A d \in Callers : CallerOf(c) = CallerOf(d) => d = c
    BY CustodiansExist, CustodiansApart
  <2>3. Custody(CallerOf(c)) = subject[c]
    BY <2>1, CustodyOf
  <2>4. Kept(CallerOf(c))
    BY <2>1, <2>2, <2>3
  <2> HIDE DEF Kept
  <2> QED BY <2>2, <2>4
<1>2. ASSUME NEW s \in Slots, o = SlotFn(s)
      PROVE  \E h \in Custodians : Kept(h)
  <2>1. /\ SlotFn(s) \in Custodians /\ \A d \in Callers : SlotFn(s) # CallerOf(d)
        /\ \A r \in Runners : RunnerOf(r) \in Custodians
        /\ \A r \in Runners, d \in Callers : RunnerOf(r) # CallerOf(d)
    BY CustodiansExist, CustodiansApart
  <2>2. CASE ToCall(s)
    <3>1. Custody(SlotFn(s)) = mem.owns[o]
      BY <1>2, <2>2, CustodyOf
    <3>2. Kept(SlotFn(s))
      BY <2>1, <3>1
    <3> HIDE DEF Kept
    <3> QED BY <2>1, <3>2
  <2>3. s \notin freeSlots
    BY <1>0, <1>2 DEF OwnInv
  <2>4. ASSUME NEW c \in Callers, HasSlot(c), cslot[c] = s
        PROVE  \E h \in Custodians : Kept(h)
    <3>1. cpc[c] = "publish" /\ mem.owns[o] = subject[c]
      BY <1>0, <1>2, <2>4 DEF OwnInv, HasSlot
    <3>2. CallerOf(c) \in Custodians /\ \A d \in Callers : CallerOf(c) = CallerOf(d) => d = c
      BY CustodiansExist, CustodiansApart
    <3>3. Custody(CallerOf(c)) = subject[c]
      BY <3>1, CustodyOf
    <3>4. Kept(CallerOf(c))
      BY <3>1, <3>2, <3>3
    <3> HIDE DEF Kept
    <3> QED BY <3>2, <3>4
  <2>5. ASSUME NEW r \in Runners, OnSlot(r), rslot[r] = s, ~ ToCall(s)
        PROVE  \E h \in Custodians : Kept(h)
    <3>1. rpc[r] = "release" /\ mem.owns[o] = rbody[r]
      BY <1>0, <1>2, <2>5 DEF OwnInv, OnSlot, ToCall
    <3>2. Custody(RunnerOf(r)) = mem.owns[o]
      BY <3>1, CustodyOf
    <3>3. Kept(RunnerOf(r))
      BY <2>1, <3>2
    <3> HIDE DEF Kept
    <3> QED BY <2>1, <3>3
  <2> HIDE DEF Kept
  <2>6. s \in readySlots => ToCall(s)
    BY DEF ToCall
  <2> QED BY <2>2, <2>3, <2>4, <2>5, <2>6 DEF SlotInv
<1>3. ASSUME NEW n \in 1 .. MaxGraphSize, o = NodeFn(n)
      PROVE  \E h \in Custodians : Kept(h)
  <2>1. NodeFn(n) \in Custodians /\ \A d \in Callers : NodeFn(n) # CallerOf(d)
    BY CustodiansExist, CustodiansApart
  <2>2. Custody(NodeFn(n)) = mem.owns[o]
    BY <1>3, CustodyOf
  <2>3. Kept(NodeFn(n))
    BY <2>1, <2>2
  <2> HIDE DEF Kept
  <2> QED BY <2>1, <2>3
<1> HIDE DEF Kept
<1> QED BY <1>1, <1>2, <1>3, ObjectsAre

(* So a body that is new, or whose callable is still to be constructed,    *)
(* has no callable.                                                        *)
LEMMA NotOwnedYet ==
    ASSUME BodyTypeInv, SlotInv, OwnInv, HeldInv, NEW b \in Bodies,
           \/ b \notin offered
           \/ \E c \in Callers : cpc[c] \in {"construct", "constructInline"} /\ subject[c] = b
    PROVE  \A o \in Objects : mem.owns[o] # b
<1> SUFFICES ASSUME NEW o \in Objects, mem.owns[o] = b PROVE FALSE
  OBVIOUS
<1>1. PICK h \in Custodians :
         /\ Custody(h) = b
         /\ \A c \in Callers : h = CallerOf(c) =>
               cpc[c] \notin {"idle", "reserve", "construct", "constructInline"}
  BY OwnedIsHeld
<1>2. b \in offered
  BY <1>1 DEF HeldInv
<1>3. PICK c \in Callers : cpc[c] \in {"construct", "constructInline"} /\ subject[c] = b
  BY <1>2
<1>4. CallerOf(c) \in Custodians /\ Custody(CallerOf(c)) = b
  BY <1>3, CustodiansExist, CustodyOf
<1>5. h = CallerOf(c)
  BY <1>1, <1>4 DEF HeldInv
<1> QED BY <1>1, <1>3, <1>5

(* Each step of a caller keeps the account of callables, ...               *)
LEMMA CallerLiveStep ==
    ASSUME BodyTypeInv, SlotInv, OwnInv, HeldInv, LiveInv, NEW c \in Callers, CallerStep(c)
    PROVE  LiveInv'
<1>0. /\ ArgOf(c) \in Objects /\ DescOf(c) \in Objects /\ LocalOf(c) \in Objects
      /\ DescOf(c) # LocalOf(c)
  BY ObjectsExist, ObjectsApart
<1>1. ASSUME mem' = mem PROVE LiveInv'
  BY <1>1 DEF LiveInv
<1>2. ASSUME NEW b \in Bodies, BuildDesc(c, b) PROVE LiveInv'
  <2>1. b \notin offered /\ mem.owns[DescOf(c)] = NoBody
    BY <1>2 DEF BuildDesc, Offer, CAt, OwnInv, InDesc
  <2> QED BY <1>0, <1>2, <2>1, BuildDescEffect, NotOwnedYet, LivePut
<1>3. ASSUME NEW b \in Bodies, CountEmplace(c, b) PROVE LiveInv'
  BY <1>1, <1>3 DEF CountEmplace
<1>4. CASE AddNode(c)
  <2>1. PICK g \in 1 .. MaxGraphSize :
           g = graphSize + 1 /\ Shifts(mem, mem', DescOf(c), NodeFn(g))
    BY <1>4, AddNodeEffect
  <2>2. mem.owns[NodeFn(g)] = NoBody
    BY <2>1 DEF BodyTypeInv, OwnInv
  <2> QED BY <1>0, <2>1, <2>2, ObjectsExist, ObjectsApart, LiveShift
<1>5. CASE NodeDesc(c)
  <2>1. CASE ~ nodeAt[c] <= graphSize
    BY <1>1, <1>5, <2>1 DEF NodeDesc
  <2>2. CASE nodeAt[c] <= graphSize
    <3>1. PICK k \in 1 .. MaxGraphSize : Shifts(mem, mem', NodeFn(k), DescOf(c))
      BY <1>5, <2>2, NodeDescEffect
    <3>2. mem.owns[DescOf(c)] = NoBody
      BY <1>5 DEF NodeDesc, CAt, OwnInv, InDesc
    <3> QED BY <1>0, <3>1, <3>2, ObjectsExist, ObjectsApart, LiveShift
  <2> QED BY <2>1, <2>2
<1>6. CASE AcquireMove(c)
  <2>1. PICK s \in freeSlots : Shifts(mem, mem', DescOf(c), SlotFn(s))
    BY <1>6, AcquireMoveEffect
  <2>2. s \in Slots /\ mem.owns[SlotFn(s)] = NoBody
    BY DEF BodyTypeInv, OwnInv
  <2> QED BY <1>0, <2>1, <2>2, ObjectsExist, ObjectsApart, LiveShift
<1>7. CASE SubmitReturn(c)
  BY <1>1, <1>7, SubmitReturnEffect
<1>8. CASE InlineMove(c)
  <2>1. mem.owns[LocalOf(c)] = NoBody
    BY <1>8 DEF InlineMove, CAt, OwnInv, InLocal
  <2> QED BY <1>0, <1>8, <2>1, InlineMoveEffect, LiveShift
<1>9. CASE InlineReturn(c)
  BY <1>0, <1>9, InlineReturnEffect, LiveTake
<1>10. CASE ConstructInSlot(c)
  <2>1. /\ cpc[c] = "construct" /\ subject[c] \in Bodies
        /\ mem.owns[SlotFn(cslot[c])] = NoBody
    BY <1>10 DEF ConstructInSlot, CAt, BodyTypeInv, OwnInv
  <2>2. \A o \in Objects : mem.owns[o] # subject[c]
    BY <2>1, NotOwnedYet
  <2>3. /\ SlotFn(cslot[c]) \in Objects
        /\ Puts(mem, mem', SlotFn(cslot[c]), subject[c])
    BY <1>10, ConstructInSlotEffect, ObjectsExist
  <2> QED BY <2>1, <2>2, <2>3, LivePut
<1>11. CASE ConstructInDesc(c)
  <2>1. /\ cpc[c] = "constructInline" /\ subject[c] \in Bodies
        /\ mem.owns[DescOf(c)] = NoBody
    BY <1>11 DEF ConstructInDesc, CAt, BodyTypeInv, OwnInv, InDesc
  <2>2. \A o \in Objects : mem.owns[o] # subject[c]
    BY <2>1, NotOwnedYet
  <2>3. Puts(mem, mem', DescOf(c), subject[c])
    BY <1>11, ConstructInDescEffect
  <2> QED BY <1>0, <2>1, <2>2, <2>3, LivePut
<1>12. CASE SlotThrows(c)
  BY <1>1, <1>12, SlotThrowsEffect
<1>13. CASE \/ SubmitGraph(c) \/ CountBody(c) \/ AcquireNothing(c) \/ PublishBody(c)
            \/ InlineCall(c) \/ InlineUncount(c) \/ ReserveSlot(c) \/ DescThrows(c)
  BY <1>1, <1>13 DEF SubmitGraph, CountBody, AcquireNothing, PublishBody, InlineCall,
                     InlineUncount, ReserveSlot, DescThrows
<1> QED
  BY <1>2, <1>3, <1>4, <1>5, <1>6, <1>7, <1>8, <1>9, <1>10, <1>11, <1>12, <1>13
     DEF CallerStep

(* ... and each step of a runner.                                          *)
LEMMA RunnerLiveStep ==
    ASSUME BodyTypeInv, SlotInv, LiveInv, NEW r \in Runners, RunnerStep(r)
    PROVE  LiveInv'
<1>1. CASE ReleaseBody(r)
  <2>1. SlotFn(rslot[r]) \in Objects /\ Takes(mem, mem', SlotFn(rslot[r]))
    BY <1>1, ReleaseBodyEffect, ObjectsExist
  <2> QED BY <2>1, LiveTake
<1>2. ASSUME mem' = mem PROVE LiveInv'
  BY <1>2 DEF LiveInv
<1> QED BY <1>1, <1>2 DEF RunnerStep, TakeReady, ExecuteBody, GiveSlotBack, UncountBody

-----------------------------------------------------------------------------
(* What is counted.                                                        *)

(* What is counted is finite.                                              *)
LEMMA CountedFinite ==
    ASSUME BodyTypeInv
    PROVE  /\ IsFiniteSet(InFlight) /\ IsFiniteSet(readySlots) /\ IsFiniteSet(Busy)
           /\ Cardinality(InFlight) \in Nat /\ Cardinality(readySlots) \in Nat
           /\ Cardinality(Busy) \in Nat
<1>1. IsFiniteSet(Slots)
  BY BodyAssumption, FS_Interval DEF Slots
<1>2. IsFiniteSet(InFlight) /\ IsFiniteSet(Busy) /\ IsFiniteSet(readySlots)
  BY <1>1, BodyAssumption, FS_Subset DEF BodyTypeInv, InFlight, Busy
<1> QED BY <1>2, FS_CardinalityType

(* At the start nothing is counted.                                        *)
LEMMA CountInit == BodyInit => CountInv
<1> SUFFICES ASSUME BodyInit PROVE CountInv
  OBVIOUS
<1>1. InFlight = {} /\ readySlots = {} /\ Busy = {} /\ counted = 0
  BY DEF BodyInit, InFlight, Busy
<1> QED BY <1>1, FS_EmptySet DEF CountInv

(* A caller begins to be counted, ...                                      *)
LEMMA CountUp ==
    ASSUME BodyTypeInv, CountInv, NEW c, c \notin InFlight, InFlight' = InFlight \cup {c},
           counted' = counted + 1, readySlots' = readySlots, Busy' = Busy
    PROVE  CountInv'
<1>1. Cardinality(InFlight') = Cardinality(InFlight) + 1
  BY CountedFinite, FS_AddElement
<1> QED BY <1>1, CountedFinite DEF CountInv

(* ... a caller or a runner ends to be.                                    *)
LEMMA CountDown ==
    ASSUME BodyTypeInv, CountInv, NEW x, counted' = counted - 1, readySlots' = readySlots,
           \/ x \in InFlight /\ InFlight' = InFlight \ {x} /\ Busy' = Busy
           \/ x \in Busy /\ Busy' = Busy \ {x} /\ InFlight' = InFlight
    PROVE  CountInv'
<1>1. CASE x \in InFlight /\ InFlight' = InFlight \ {x} /\ Busy' = Busy
  <2>1. Cardinality(InFlight') = Cardinality(InFlight) - 1
    BY <1>1, CountedFinite, FS_RemoveElement
  <2> QED BY <1>1, <2>1, CountedFinite DEF CountInv
<1>2. CASE x \in Busy /\ Busy' = Busy \ {x} /\ InFlight' = InFlight
  <2>1. Cardinality(Busy') = Cardinality(Busy) - 1
    BY <1>2, CountedFinite, FS_RemoveElement
  <2> QED BY <1>2, <2>1, CountedFinite DEF CountInv
<1> QED BY <1>1, <1>2

(* A task passes from its caller to the queues, ...                        *)
LEMMA PublishBodyCount ==
    ASSUME BodyTypeInv, SlotInv, CountInv, NEW c \in Callers, PublishBody(c)
    PROVE  CountInv'
<1>1. /\ c \in InFlight /\ InFlight' = InFlight \ {c} /\ Busy' = Busy /\ counted' = counted
      /\ readySlots' = readySlots \cup {cslot[c]} /\ cslot[c] \notin readySlots
  BY DEF BodyTypeInv, SlotInv, HasSlot, InFlight, Busy, PublishBody, CAt, CGoto,
         graphVars, runnerVars, bodyHistory
<1>2. Cardinality(InFlight') = Cardinality(InFlight) - 1
  BY <1>1, CountedFinite, FS_RemoveElement
<1>3. Cardinality(readySlots') = Cardinality(readySlots) + 1
  BY <1>1, CountedFinite, FS_AddElement
<1> QED BY <1>1, <1>2, <1>3, CountedFinite DEF CountInv

(* ... and from there to a runner.                                         *)
LEMMA TakeReadyCount ==
    ASSUME BodyTypeInv, CountInv, NEW r \in Runners, TakeReady(r)
    PROVE  CountInv'
<1>1. /\ r \notin Busy /\ Busy' = Busy \cup {r} /\ InFlight' = InFlight /\ counted' = counted
  BY DEF BodyTypeInv, InFlight, Busy, TakeReady, RGoto, graphVars, callerVars, bodyHistory
<1>2. PICK s \in readySlots : readySlots' = readySlots \ {s}
  BY DEF TakeReady
<1>3. Cardinality(Busy') = Cardinality(Busy) + 1
  BY <1>1, CountedFinite, FS_AddElement
<1>4. Cardinality(readySlots') = Cardinality(readySlots) - 1
  BY <1>2, CountedFinite, FS_RemoveElement
<1> QED BY <1>1, <1>3, <1>4, CountedFinite DEF CountInv

(* Each step of a caller keeps outstanding_ right, ...                     *)
LEMMA CallerCountStep ==
    ASSUME BodyTypeInv, SlotInv, CountInv, NEW c \in Callers, CallerStep(c)
    PROVE  CountInv'
<1>1. ASSUME InFlight' = InFlight, UNCHANGED <<readySlots, counted>>, Busy' = Busy PROVE CountInv'
  BY <1>1 DEF CountInv
<1>2. ASSUME NEW b \in Bodies, BuildDesc(c, b) PROVE CountInv'
  BY <1>1, <1>2
     DEF BodyTypeInv, InFlight, Busy, BuildDesc, Offer, CAt, CGoto, graphVars, poolSide,
         runnerVars
<1>3. ASSUME NEW b \in Bodies, CountEmplace(c, b) PROVE CountInv'
  <2>1. /\ c \notin InFlight /\ InFlight' = InFlight \cup {c} /\ counted' = counted + 1
        /\ readySlots' = readySlots /\ Busy' = Busy
    BY <1>3
       DEF BodyTypeInv, InFlight, Busy, CountEmplace, Offer, CAt, CGoto, graphVars,
           poolSide, runnerVars
  <2> QED BY <2>1, CountUp
<1>4. CASE CountBody(c)
  <2>1. /\ c \notin InFlight /\ InFlight' = InFlight \cup {c} /\ counted' = counted + 1
        /\ readySlots' = readySlots /\ Busy' = Busy
    BY <1>4
       DEF BodyTypeInv, InFlight, Busy, CountBody, CAt, CGoto, graphVars, poolSide,
           runnerVars, bodyHistory
  <2> QED BY <2>1, CountUp
<1>5. CASE InlineUncount(c)
  <2>1. /\ c \in InFlight /\ InFlight' = InFlight \ {c} /\ counted' = counted - 1
        /\ readySlots' = readySlots /\ Busy' = Busy
    BY <1>5
       DEF BodyTypeInv, InFlight, Busy, InlineUncount, CAt, CGoto, graphVars, poolSide,
           runnerVars
  <2> QED BY <2>1, CountDown
<1>6. CASE SlotThrows(c)
  <2>1. /\ c \in InFlight /\ InFlight' = InFlight \ {c} /\ counted' = counted - 1
        /\ readySlots' = readySlots /\ Busy' = Busy
    BY <1>6
       DEF BodyTypeInv, InFlight, Busy, SlotThrows, SubjectThrows, Leave, CAt, CGoto,
           graphVars, runnerVars
  <2> QED BY <2>1, CountDown
<1>7. CASE DescThrows(c)
  <2>1. /\ c \in InFlight /\ InFlight' = InFlight \ {c} /\ counted' = counted - 1
        /\ readySlots' = readySlots /\ Busy' = Busy
    BY <1>7
       DEF BodyTypeInv, InFlight, Busy, DescThrows, SubjectThrows, Leave, CAt, CGoto,
           graphVars, runnerVars
  <2> QED BY <2>1, CountDown
<1>8. CASE AddNode(c)
  BY <1>1, <1>8
     DEF BodyTypeInv, InFlight, Busy, AddNode, Leave, CAt, CGoto, poolSide, runnerVars,
         bodyHistory
<1>9. CASE SubmitGraph(c)
  BY <1>1, <1>9
     DEF BodyTypeInv, InFlight, Busy, SubmitGraph, CAt, CGoto, poolSide, runnerVars,
         bodyHistory
<1>10. CASE NodeDesc(c)
  BY <1>1, <1>10
     DEF BodyTypeInv, InFlight, Busy, NodeDesc, CAt, CGoto, graphVars, poolSide,
         runnerVars, bodyHistory
<1>11. CASE AcquireMove(c)
  BY <1>1, <1>11
     DEF BodyTypeInv, InFlight, Busy, AcquireMove, HoldFreeSlot, CAt, CGoto, graphVars,
         runnerVars, bodyHistory
<1>12. CASE AcquireNothing(c)
  BY <1>1, <1>12
     DEF BodyTypeInv, InFlight, Busy, AcquireNothing, CAt, CGoto, graphVars, poolSide,
         runnerVars, bodyHistory
<1>13. CASE SubmitReturn(c)
  BY <1>1, <1>13
     DEF BodyTypeInv, InFlight, Busy, SubmitReturn, Resume, Leave, CAt, CGoto, graphVars,
         poolSide, runnerVars, bodyHistory
<1>14. CASE InlineMove(c)
  BY <1>1, <1>14
     DEF BodyTypeInv, InFlight, Busy, InlineMove, CAt, CGoto, graphVars, poolSide,
         runnerVars, bodyHistory
<1>15. CASE InlineCall(c)
  BY <1>1, <1>15
     DEF BodyTypeInv, InFlight, Busy, InlineCall, CAt, CGoto, graphVars, poolSide,
         runnerVars
<1>16. CASE InlineReturn(c)
  BY <1>1, <1>16
     DEF BodyTypeInv, InFlight, Busy, InlineReturn, Resume, Leave, CAt, CGoto, graphVars,
         poolSide, runnerVars, bodyHistory
<1>17. CASE ReserveSlot(c)
  BY <1>1, <1>17
     DEF BodyTypeInv, InFlight, Busy, ReserveSlot, HoldFreeSlot, CAt, CGoto, graphVars,
         runnerVars, bodyHistory
<1>18. CASE ConstructInSlot(c)
  BY <1>1, <1>18
     DEF BodyTypeInv, InFlight, Busy, ConstructInSlot, CAt, CGoto, graphVars, poolSide,
         runnerVars, bodyHistory
<1>19. CASE ConstructInDesc(c)
  BY <1>1, <1>19
     DEF BodyTypeInv, InFlight, Busy, ConstructInDesc, CAt, CGoto, graphVars, poolSide,
         runnerVars, bodyHistory
<1> QED
  BY <1>2, <1>3, <1>4, <1>5, <1>6, <1>7, <1>8, <1>9, <1>10, <1>11, <1>12, <1>13, <1>14,
     <1>15, <1>16, <1>17, <1>18, <1>19, PublishBodyCount DEF CallerStep

(* ... and each step of a runner.                                          *)
LEMMA RunnerCountStep ==
    ASSUME BodyTypeInv, CountInv, NEW r \in Runners, RunnerStep(r)
    PROVE  CountInv'
<1>1. ASSUME InFlight' = InFlight, UNCHANGED <<readySlots, counted>>, Busy' = Busy PROVE CountInv'
  BY <1>1 DEF CountInv
<1>2. CASE ExecuteBody(r)
  BY <1>1, <1>2
     DEF BodyTypeInv, InFlight, Busy, ExecuteBody, RGoto, graphVars, poolSide, callerVars
<1>3. CASE ReleaseBody(r)
  BY <1>1, <1>3
     DEF BodyTypeInv, InFlight, Busy, ReleaseBody, RGoto, graphVars, poolSide, callerVars,
         bodyHistory
<1>4. CASE GiveSlotBack(r)
  BY <1>1, <1>4
     DEF BodyTypeInv, InFlight, Busy, GiveSlotBack, RGoto, graphVars, callerVars,
         bodyHistory
<1>5. CASE UncountBody(r)
  <2>1. /\ r \in Busy /\ Busy' = Busy \ {r} /\ counted' = counted - 1
        /\ readySlots' = readySlots /\ InFlight' = InFlight
    BY <1>5 DEF BodyTypeInv, InFlight, Busy, UncountBody, RGoto, graphVars, poolSide, callerVars
  <2> QED BY <2>1, CountDown
<1> QED BY <1>2, <1>3, <1>4, <1>5, TakeReadyCount DEF RunnerStep

-----------------------------------------------------------------------------
(* The inductive invariant.                                                *)

(* Each step of a caller keeps the ranges, ...                             *)
LEMMA CallerTypeStep ==
    ASSUME BodyTypeInv, SlotInv, OwnInv, NEW c \in Callers, CallerStep(c)
    PROVE  BodyTypeInv'
BY BuildDescType, CountEmplaceType, AddNodeType, SubmitGraphType, NodeDescType, CountBodyType,
   AcquireMoveType, AcquireNothingType, PublishBodyType, SubmitReturnType, InlineMoveType,
   InlineCallType, InlineUncountType, InlineReturnType, ReserveSlotType, ConstructInSlotType,
   ConstructInDescType, SlotThrowsType, DescThrowsType DEF CallerStep

(* ... what each TaskFunction owns, ...                                    *)
LEMMA CallerOwnStep ==
    ASSUME BodyTypeInv, SlotInv, OwnInv, NEW c \in Callers, CallerStep(c)
    PROVE  OwnInv'
BY BuildDescOwn, CountEmplaceOwn, AddNodeOwn, SubmitGraphOwn, NodeDescOwn, CountBodyOwn,
   AcquireMoveOwn, AcquireNothingOwn, PublishBodyOwn, SubmitReturnOwn, InlineMoveOwn,
   InlineCallOwn, InlineUncountOwn, InlineReturnOwn, ReserveSlotOwn, ConstructInSlotOwn,
   ConstructInDescOwn, SlotThrowsOwn, DescThrowsOwn DEF CallerStep

(* ... and one custodian for each body.                                    *)
LEMMA CallerHeldStep ==
    ASSUME BodyTypeInv, SlotInv, OwnInv, HeldInv, NEW c \in Callers, CallerStep(c)
    PROVE  HeldInv'
BY BuildDescHeld, CountEmplaceHeld, AddNodeHeld, SubmitGraphHeld, NodeDescHeld, CountBodyHeld,
   AcquireMoveHeld, AcquireNothingHeld, PublishBodyHeld, SubmitReturnHeld, InlineMoveHeld,
   InlineCallHeld, InlineUncountHeld, InlineReturnHeld, ReserveSlotHeld, ConstructInSlotHeld,
   ConstructInDescHeld, SlotThrowsHeld, DescThrowsHeld DEF CallerStep

(* So does each step of a runner.                                          *)
LEMMA RunnerKeepsCustody ==
    ASSUME BodyTypeInv, SlotInv, OwnInv, HeldInv, NEW r \in Runners, RunnerStep(r)
    PROVE  BodyTypeInv' /\ OwnInv' /\ HeldInv'
<1>1. BodyTypeInv'
  BY TakeReadyType, ExecuteBodyType, ReleaseBodyType, GiveSlotBackType, UncountBodyType
     DEF RunnerStep
<1>2. OwnInv'
  BY TakeReadyOwn, ExecuteBodyOwn, ReleaseBodyOwn, GiveSlotBackOwn, UncountBodyOwn
     DEF RunnerStep
<1>3. HeldInv'
  BY TakeReadyHeld, ExecuteBodyHeld, ReleaseBodyHeld, GiveSlotBackHeld, UncountBodyHeld
     DEF RunnerStep
<1> QED BY <1>1, <1>2, <1>3

(* A step that changes no variable changes no custody.                     *)
LEMMA BodyStutters ==
    ASSUME BodyIInv, UNCHANGED allBodyVars
    PROVE  BodyIInv'
<1>1. UNCHANGED <<inPlace, graphSize, graphRuns, mem, freeSlots, readySlots, counted>>
  BY DEF allBodyVars, graphVars, poolSide
<1>2. UNCHANGED <<cpc, subject, cslot, nodeAt, rpc, rslot, rbody, offered, executed, ended>>
  BY DEF allBodyVars, callerVars, runnerVars, bodyHistory
<1>3. BodyTypeInv'
  BY <1>1, <1>2 DEF BodyIInv, BodyTypeInv
<1>4. SlotInv'
  BY <1>1, <1>2 DEF BodyIInv, SlotInv, HasSlot, OnSlot
<1>5. OwnInv'
  BY <1>1, <1>2 DEF BodyIInv, OwnInv, InDesc, InLocal
<1>6. \A h : Custody(h)' = Custody(h)
  BY <1>1, <1>2 DEF Custody, ToCall
<1>7. HeldInv'
  BY <1>2, <1>6 DEF BodyIInv, HeldInv
<1>8. CallInv'
  BY <1>2 DEF BodyIInv, CallInv, WasCalled
<1>9. LiveInv'
  BY <1>1 DEF BodyIInv, LiveInv
<1>10. CountInv'
  BY <1>1, <1>2 DEF BodyIInv, CountInv, InFlight, Busy
<1> QED BY <1>3, <1>4, <1>5, <1>7, <1>8, <1>9, <1>10 DEF BodyIInv

(* The invariant is inductive.                                             *)
LEMMA BodyNextInv == BodyIInv /\ [BodyNext]_allBodyVars => BodyIInv'
<1> SUFFICES ASSUME BodyIInv, [BodyNext]_allBodyVars PROVE BodyIInv'
  OBVIOUS
<1>0. /\ BodyTypeInv /\ SlotInv /\ OwnInv
      /\ HeldInv /\ CallInv /\ LiveInv /\ CountInv
  BY DEF BodyIInv
<1>1. ASSUME NEW c \in Callers, CallerStep(c) PROVE BodyIInv'
  <2>1. BodyTypeInv' /\ SlotInv' /\ OwnInv' /\ HeldInv'
    BY <1>0, <1>1, CallerTypeStep, CallerSlotStep, CallerOwnStep, CallerHeldStep
  <2>2. CallInv' /\ LiveInv' /\ CountInv'
    BY <1>0, <1>1, CallerCallStep, CallerLiveStep, CallerCountStep
  <2> QED BY <2>1, <2>2 DEF BodyIInv
<1>2. ASSUME NEW r \in Runners, RunnerStep(r) PROVE BodyIInv'
  <2>1. BodyTypeInv' /\ SlotInv' /\ OwnInv' /\ HeldInv'
    BY <1>0, <1>2, RunnerKeepsCustody, RunnerSlotStep
  <2>2. CallInv' /\ LiveInv' /\ CountInv'
    BY <1>0, <1>2, RunnerCallStep, RunnerLiveStep, RunnerCountStep
  <2> QED BY <2>1, <2>2 DEF BodyIInv
<1>3. CASE UNCHANGED allBodyVars
  BY <1>3, BodyStutters
<1> QED BY <1>1, <1>2, <1>3 DEF BodyNext, BodiesAtRest

(* BodyIInv holds throughout.                                              *)
THEOREM BodyInvariance == BodySpec => []BodyIInv
<1>1. BodyInit => BodyIInv
  BY TypeInit, SlotInit, OwnInit, HeldInit, CallInit, LiveInit, CountInit DEF BodyIInv
<1> QED BY <1>1, BodyNextInv, PTL DEF BodySpec

-----------------------------------------------------------------------------
(* What follows from it.                                                   *)

(* The callables of a body are those that TaskFunctions own, one at most.  *)
LEMMA LiveIsOwned ==
    ASSUME LiveInv, NEW b \in Bodies
    PROVE  mem.live[b] <= 1 /\ mem.live[b] = Cardinality({o \in Objects : mem.owns[o] = b})
<1> DEFINE Owners == {o \in Objects : mem.owns[o] = b}
<1>1. CASE \E o \in Objects : mem.owns[o] = b
  <2>1. PICK o \in Objects : mem.owns[o] = b
    BY <1>1
  <2>2. Owners = {o}
    BY <2>1 DEF LiveInv
  <2>3. mem.live[b] = 1
    BY <1>1 DEF LiveInv
  <2> QED BY <2>2, <2>3, FS_Singleton
<1>2. CASE ~ \E o \in Objects : mem.owns[o] = b
  <2>1. Owners = {}
    BY <1>2
  <2>2. mem.live[b] = 0
    BY <1>2 DEF LiveInv
  <2> QED BY <2>1, <2>2, FS_EmptySet
<1> QED BY <1>1, <1>2

(* With outstanding_ at zero nobody has a body any more but a caller that  *)
(* has not counted it yet, a run_inline() about to return, and a graph.    *)
LEMMA NothingCounted ==
    ASSUME BodyTypeInv, OwnInv, CountInv, counted = 0,
           NEW h \in Custodians, NEW b \in Bodies, Custody(h) = b
    PROVE  \/ \E c \in Callers : cpc[c] = "inlineReturn" /\ subject[c] = b
           \/ \E o \in Objects : mem.owns[o] = b /\ o[1] \in {"desc", "node"}
<1>1. /\ IsFiniteSet(InFlight) /\ IsFiniteSet(readySlots) /\ IsFiniteSet(Busy)
      /\ Cardinality(InFlight) = 0 /\ Cardinality(readySlots) = 0 /\ Cardinality(Busy) = 0
  BY CountedFinite DEF CountInv
<1>2. InFlight = {} /\ readySlots = {} /\ Busy = {}
  BY <1>1, FS_EmptySet
<1>3. b # NoBody
  BY BodyAssumption
<1>4. ASSUME NEW c \in Callers, h = CallerOf(c)
      PROVE  \/ cpc[c] = "inlineReturn" /\ subject[c] = b
             \/ mem.owns[DescOf(c)] = b
  <2>1. cpc[c] # "return" /\ subject[c] = b
    BY <1>3, <1>4, CustodyOf
  <2>2. cpc[c] \in {"count", "add", "inlineReturn"}
    BY <1>2, <1>3, <2>1 DEF InFlight, BodyTypeInv
  <2> QED BY <2>1, <2>2 DEF OwnInv, InDesc
<1>5. ASSUME NEW r \in Runners, h = RunnerOf(r)
      PROVE  FALSE
  <2>1. rbody[r] = b
    BY <1>5, CustodyOf
  <2> QED BY <1>2, <2>1 DEF BodyTypeInv, Busy
<1>6. ASSUME NEW s \in Slots, h = SlotFn(s)
      PROVE  FALSE
  <2>1. ToCall(s)
    BY <1>3, <1>6, CustodyOf
  <2> QED BY <1>2, <2>1 DEF ToCall, Busy
<1>7. ASSUME NEW n \in 1 .. MaxGraphSize, h = NodeFn(n)
      PROVE  mem.owns[NodeFn(n)] = b
  BY <1>7, CustodyOf
<1>8. /\ \A c \in Callers : DescOf(c) \in Objects /\ DescOf(c)[1] = "desc"
      /\ \A n \in 1 .. MaxGraphSize : NodeFn(n) \in Objects /\ NodeFn(n)[1] = "node"
  BY ObjectsExist DEF DescOf, NodeFn
<1> QED BY <1>4, <1>5, <1>6, <1>7, <1>8, CustodiansAre

(* BodyTypeInv: the memory, the slots and the places of the threads keep   *)
(* their ranges; a runner has a body exactly from the call of execute() to *)
(* the end of complete().                                                  *)
THEOREM BodyTypeCorrect == BodySpec => []BodyTypeInv
<1>1. BodyIInv => BodyTypeInv
  BY DEF BodyIInv
<1> QED BY <1>1, BodyInvariance, PTL

(* BodyLedger: whatever a body goes through - moved from TaskFunction to   *)
(* TaskFunction, constructed in a slot, thrown away half-way, run inline - *)
(* its callables are those TaskFunctions own, one at most, so none leaks   *)
(* and none is destroyed twice; slots on the free list own nothing, and    *)
(* once a task is no longer counted its body is gone, but for the local of *)
(* a run_inline() that is about to return.                                 *)
THEOREM CallablesAccounted == BodySpec => []BodyLedger
<1>1. BodyIInv => BodyLedger
  <2> SUFFICES ASSUME BodyIInv PROVE BodyLedger
    OBVIOUS
  <2>0. BodyTypeInv /\ SlotInv /\ OwnInv /\ HeldInv /\ LiveInv
    BY DEF BodyIInv
  <2>1. \A b \in Bodies : /\ mem.live[b] <= 1
                          /\ mem.live[b] = Cardinality({o \in Objects : mem.owns[o] = b})
    BY <2>0, LiveIsOwned
  <2>2. \A s \in freeSlots : ~ Holds(mem, SlotFn(s))
    BY <2>0 DEF OwnInv, Holds
  <2>3. ASSUME NEW b \in ended, NEW o \in Objects, mem.owns[o] = b
        PROVE  \E c \in Callers : o = LocalOf(c) /\ CAt(c, "inlineReturn")
    <3>1. b \in Bodies
      BY <2>0 DEF BodyTypeInv
    <3>2. PICK h \in Custodians :
             /\ Custody(h) = b
             /\ \A c \in Callers : h = CallerOf(c) => (cpc[c] = "inlineReturn" => o = LocalOf(c))
      BY <2>0, <2>3, <3>1, OwnedIsHeld
    <3>3. PICK c \in Callers : h = CallerOf(c) /\ cpc[c] = "inlineReturn"
      BY <2>0, <3>2 DEF HeldInv
    <3> QED BY <3>2, <3>3 DEF CAt
  <2> QED BY <2>1, <2>2, <2>3 DEF BodyLedger
<1> QED BY <1>1, BodyInvariance, PTL

(* BodyRunsOnce: a body is never called twice, it has been called when its *)
(* task stops being counted, and with outstanding_ at zero every body that *)
(* was offered has been called or is still with a caller or a graph that   *)
(* has yet to submit it.                                                   *)
THEOREM BodiesAreCalledOnce == BodySpec => []BodyRunsOnce
<1>1. BodyIInv => BodyRunsOnce
  <2> SUFFICES ASSUME BodyIInv PROVE BodyRunsOnce
    OBVIOUS
  <2>0. BodyTypeInv /\ OwnInv /\ HeldInv /\ CallInv /\ CountInv
    BY DEF BodyIInv
  <2>1. \A b \in Bodies : executed[b] <= 1
    BY <2>0 DEF CallInv
  <2>2. \A b \in ended : executed[b] = 1
    BY <2>0 DEF CallInv, WasCalled, BodyTypeInv
  <2>3. ASSUME counted = 0, NEW b \in offered
        PROVE  \/ executed[b] = 1
               \/ \E o \in Objects : mem.owns[o] = b /\ o[1] \in {"desc", "node"}
    <3>1. b \in Bodies
      BY <2>0 DEF BodyTypeInv
    <3>2. CASE b \in ended
      BY <2>2, <3>2
    <3>3. CASE b \notin ended
      <4>1. PICK h \in Custodians : Custody(h) = b
        BY <2>0, <3>1, <3>3 DEF HeldInv
      <4>2. \/ \E c \in Callers : cpc[c] = "inlineReturn" /\ subject[c] = b
            \/ \E o \in Objects : mem.owns[o] = b /\ o[1] \in {"desc", "node"}
        BY <2>0, <2>3, <3>1, <4>1, NothingCounted
      <4>3. (\E c \in Callers : cpc[c] = "inlineReturn" /\ subject[c] = b) => executed[b] = 1
        BY <2>0, <3>1 DEF CallInv, WasCalled
      <4> QED BY <4>2, <4>3
    <3> QED BY <3>2, <3>3
  <2> QED BY <2>1, <2>2, <2>3 DEF BodyRunsOnce
<1> QED BY <1>1, BodyInvariance, PTL

-----------------------------------------------------------------------------
(* A graph that is submitted once.  execute() relies on the task in its    *)
(* hands having a body: it has, if nobody submits a graph twice.           *)

(* The nodes that TaskGraph::submit has not come to yet.                   *)
Unsent(n) ==
    n <= graphSize /\ (graphRuns = 0 \/ \E c \in Callers : nodeAt[c] > 0 /\ nodeAt[c] <= n)

FilledInv ==
    /\ graphRuns <= 1
    /\ \A c \in Callers : nodeAt[c] > 0 => c = Builder /\ graphRuns = 1
    /\ \A c \in Callers : cpc[c] \notin {"idle", "node", "return"} => subject[c] \in Bodies
    /\ \A n \in 1 .. MaxGraphSize : Unsent(n) => mem.owns[NodeFn(n)] \in Bodies
    /\ \A s \in Slots : ToCall(s) => mem.owns[SlotFn(s)] \in Bodies

(* What a step does that leaves the nodes and the slots to be called alone.*)
NodesAlone == /\ UNCHANGED <<graphSize, graphRuns, nodeAt>>
              /\ \A n \in 1 .. MaxGraphSize : mem'.owns[NodeFn(n)] = mem.owns[NodeFn(n)]
SlotsAlone == /\ UNCHANGED <<readySlots, rpc, rslot>>
              /\ \A s \in Slots : ToCall(s) => mem'.owns[SlotFn(s)] = mem.owns[SlotFn(s)]

(* Such a step of a caller keeps all filled if the caller has a body.      *)
LEMMA FilledKeeps ==
    ASSUME FilledInv, NEW c \in Callers, NodesAlone, SlotsAlone,
           \A d \in Callers : d # c => cpc'[d] = cpc[d] /\ subject'[d] = subject[d],
           cpc'[c] \notin {"idle", "node", "return"} => subject'[c] \in Bodies
    PROVE  FilledInv'
<1>1. \A d \in Callers : cpc'[d] \notin {"idle", "node", "return"} => subject'[d] \in Bodies
  BY DEF FilledInv
<1>2. \A n \in 1 .. MaxGraphSize : Unsent(n)' => mem'.owns[NodeFn(n)] \in Bodies
  BY DEF FilledInv, NodesAlone, Unsent
<1>3. \A s \in Slots : ToCall(s)' => mem'.owns[SlotFn(s)] \in Bodies
  BY DEF FilledInv, SlotsAlone, ToCall
<1> QED BY <1>1, <1>2, <1>3 DEF FilledInv, NodesAlone

(* It is kept when a function that is none of those gets a body, ...       *)
LEMMA PutsElsewhere ==
    ASSUME NEW o \in Objects, NEW b, Puts(mem, mem', o, b),
           \A n \in 1 .. MaxGraphSize : o # NodeFn(n), \A s \in Slots : ToCall(s) => o # SlotFn(s)
    PROVE  /\ \A n \in 1 .. MaxGraphSize : mem'.owns[NodeFn(n)] = mem.owns[NodeFn(n)]
           /\ \A s \in Slots : ToCall(s) => mem'.owns[SlotFn(s)] = mem.owns[SlotFn(s)]
BY ObjectsExist DEF Puts

(* ... loses it, ...                                                       *)
LEMMA TakesElsewhere ==
    ASSUME NEW o \in Objects, Takes(mem, mem', o),
           \A n \in 1 .. MaxGraphSize : o # NodeFn(n), \A s \in Slots : ToCall(s) => o # SlotFn(s)
    PROVE  /\ \A n \in 1 .. MaxGraphSize : mem'.owns[NodeFn(n)] = mem.owns[NodeFn(n)]
           /\ \A s \in Slots : ToCall(s) => mem'.owns[SlotFn(s)] = mem.owns[SlotFn(s)]
BY ObjectsExist DEF Takes

(* ... or hands it to another.                                             *)
LEMMA ShiftsElsewhere ==
    ASSUME NEW f \in Objects, NEW t \in Objects, Shifts(mem, mem', f, t),
           \A n \in 1 .. MaxGraphSize : f # NodeFn(n) /\ t # NodeFn(n),
           \A s \in Slots : ToCall(s) => f # SlotFn(s) /\ t # SlotFn(s)
    PROVE  /\ \A n \in 1 .. MaxGraphSize : mem'.owns[NodeFn(n)] = mem.owns[NodeFn(n)]
           /\ \A s \in Slots : ToCall(s) => mem'.owns[SlotFn(s)] = mem.owns[SlotFn(s)]
BY ObjectsExist DEF Shifts

(* The steps of a caller in a submission, except for what they do to the   *)
(* memory.                                                                 *)
LEMMA SubmissionControl ==
    ASSUME BodyTypeInv, FilledInv, NEW c \in Callers,
           \/ \E b \in Bodies : BuildDesc(c, b) \/ CountEmplace(c, b)
           \/ CountBody(c) \/ AcquireMove(c) \/ AcquireNothing(c) \/ SubmitReturn(c)
           \/ InlineMove(c) \/ InlineCall(c) \/ InlineUncount(c) \/ InlineReturn(c)
           \/ ReserveSlot(c) \/ ConstructInSlot(c) \/ ConstructInDesc(c)
           \/ SlotThrows(c) \/ DescThrows(c)
    PROVE  /\ UNCHANGED <<graphSize, graphRuns, nodeAt, readySlots, rpc, rslot>>
           /\ \A d \in Callers : d # c => cpc'[d] = cpc[d] /\ subject'[d] = subject[d]
           /\ cpc'[c] \notin {"idle", "node", "return"} => subject'[c] \in Bodies
<1> DEFINE Goal == /\ UNCHANGED <<graphSize, graphRuns, nodeAt, readySlots, rpc, rslot>>
                   /\ \A d \in Callers : d # c => cpc'[d] = cpc[d] /\ subject'[d] = subject[d]
                   /\ cpc'[c] \notin {"idle", "node", "return"} => subject'[c] \in Bodies
<1> SUFFICES Goal
  OBVIOUS
<1>1. ASSUME NEW b \in Bodies, BuildDesc(c, b) PROVE Goal
  BY <1>1
     DEF BodyTypeInv, FilledInv, BuildDesc, Offer, CAt, CGoto, graphVars, poolSide,
         runnerVars
<1>2. ASSUME NEW b \in Bodies, CountEmplace(c, b) PROVE Goal
  BY <1>2
     DEF BodyTypeInv, FilledInv, CountEmplace, Offer, CAt, CGoto, graphVars, poolSide,
         runnerVars
<1>3. CASE CountBody(c)
  BY <1>3
     DEF BodyTypeInv, FilledInv, CountBody, CAt, CGoto, graphVars, poolSide, runnerVars,
         bodyHistory
<1>4. CASE AcquireMove(c)
  BY <1>4
     DEF BodyTypeInv, FilledInv, AcquireMove, HoldFreeSlot, CAt, CGoto, graphVars,
         runnerVars, bodyHistory
<1>5. CASE AcquireNothing(c)
  BY <1>5
     DEF BodyTypeInv, FilledInv, AcquireNothing, CAt, CGoto, graphVars, poolSide,
         runnerVars, bodyHistory
<1>6. CASE SubmitReturn(c)
  BY <1>6
     DEF BodyTypeInv, FilledInv, SubmitReturn, Resume, Leave, CAt, CGoto, graphVars,
         poolSide, runnerVars, bodyHistory
<1>7. CASE InlineMove(c)
  BY <1>7
     DEF BodyTypeInv, FilledInv, InlineMove, CAt, CGoto, graphVars, poolSide, runnerVars,
         bodyHistory
<1>8. CASE InlineCall(c)
  BY <1>8 DEF BodyTypeInv, FilledInv, InlineCall, CAt, CGoto, graphVars, poolSide, runnerVars
<1>9. CASE InlineUncount(c)
  BY <1>9 DEF BodyTypeInv, FilledInv, InlineUncount, CAt, CGoto, graphVars, poolSide, runnerVars
<1>10. CASE InlineReturn(c)
  BY <1>10
     DEF BodyTypeInv, FilledInv, InlineReturn, Resume, Leave, CAt, CGoto, graphVars,
         poolSide, runnerVars, bodyHistory
<1>11. CASE ReserveSlot(c)
  BY <1>11
     DEF BodyTypeInv, FilledInv, ReserveSlot, HoldFreeSlot, CAt, CGoto, graphVars,
         runnerVars, bodyHistory
<1>12. CASE ConstructInSlot(c)
  BY <1>12
     DEF BodyTypeInv, FilledInv, ConstructInSlot, CAt, CGoto, graphVars, poolSide,
         runnerVars, bodyHistory
<1>13. CASE ConstructInDesc(c)
  BY <1>13
     DEF BodyTypeInv, FilledInv, ConstructInDesc, CAt, CGoto, graphVars, poolSide,
         runnerVars, bodyHistory
<1>14. CASE SlotThrows(c)
  BY <1>14
     DEF BodyTypeInv, FilledInv, SlotThrows, SubjectThrows, Leave, CAt, CGoto, graphVars,
         runnerVars
<1>15. CASE DescThrows(c)
  BY <1>15
     DEF BodyTypeInv, FilledInv, DescThrows, SubjectThrows, Leave, CAt, CGoto, graphVars,
         runnerVars
<1> HIDE DEF Goal
<1> QED
  BY <1>1, <1>2, <1>3, <1>4, <1>5, <1>6, <1>7, <1>8,
     <1>9, <1>10, <1>11, <1>12, <1>13, <1>14, <1>15

(* What they do to the memory is done elsewhere.                           *)
LEMMA SubmissionMemory ==
    ASSUME BodyTypeInv, SlotInv, OwnInv, NEW c \in Callers,
           \/ \E b \in Bodies : BuildDesc(c, b) \/ CountEmplace(c, b)
           \/ CountBody(c) \/ AcquireMove(c) \/ AcquireNothing(c) \/ SubmitReturn(c)
           \/ InlineMove(c) \/ InlineCall(c) \/ InlineUncount(c) \/ InlineReturn(c)
           \/ ReserveSlot(c) \/ ConstructInSlot(c) \/ ConstructInDesc(c)
           \/ SlotThrows(c) \/ DescThrows(c)
    PROVE  /\ \A n \in 1 .. MaxGraphSize : mem'.owns[NodeFn(n)] = mem.owns[NodeFn(n)]
           /\ \A s \in Slots : ToCall(s) => mem'.owns[SlotFn(s)] = mem.owns[SlotFn(s)]
<1> DEFINE Goal == /\ \A n \in 1 .. MaxGraphSize : mem'.owns[NodeFn(n)] = mem.owns[NodeFn(n)]
                   /\ \A s \in Slots : ToCall(s) => mem'.owns[SlotFn(s)] = mem.owns[SlotFn(s)]
<1> SUFFICES Goal
  OBVIOUS
<1>0. /\ DescOf(c) \in Objects /\ LocalOf(c) \in Objects
      /\ \A n : DescOf(c) # NodeFn(n) /\ LocalOf(c) # NodeFn(n)
      /\ \A s : DescOf(c) # SlotFn(s) /\ LocalOf(c) # SlotFn(s)
  BY ObjectsExist, ObjectsApart
<1>1. ASSUME mem' = mem PROVE Goal
  BY <1>1
<1>2. ASSUME NEW b \in Bodies, BuildDesc(c, b) PROVE Goal
  BY <1>0, <1>2, BuildDescEffect, PutsElsewhere
<1>3. CASE AcquireMove(c)
  <2>1. PICK s \in freeSlots : Shifts(mem, mem', DescOf(c), SlotFn(s))
    BY <1>3, AcquireMoveEffect
  <2>2. /\ SlotFn(s) \in Objects /\ \A n : SlotFn(s) # NodeFn(n)
        /\ \A x : SlotFn(s) = SlotFn(x) => s = x
    BY ObjectsExist, ObjectsApart DEF BodyTypeInv
  <2>3. \A x \in Slots : ToCall(x) => SlotFn(s) # SlotFn(x)
    BY <2>2, NotToCall
  <2> QED BY <1>0, <2>1, <2>2, <2>3, ShiftsElsewhere
<1>4. CASE SubmitReturn(c)
  BY <1>1, <1>4, SubmitReturnEffect
<1>5. CASE InlineMove(c)
  BY <1>0, <1>5, InlineMoveEffect, ShiftsElsewhere
<1>6. CASE InlineReturn(c)
  BY <1>0, <1>6, InlineReturnEffect, TakesElsewhere
<1>7. CASE ConstructInSlot(c)
  <2>1. PICK s \in Slots : s = cslot[c] /\ Puts(mem, mem', SlotFn(s), subject[c])
    BY <1>7, ConstructInSlotEffect
  <2>2. /\ SlotFn(s) \in Objects /\ \A n : SlotFn(s) # NodeFn(n)
        /\ \A x : SlotFn(s) = SlotFn(x) => s = x
    BY ObjectsExist, ObjectsApart
  <2>3. ~ ToCall(s)
    BY <1>7, <2>1, NotToCall DEF ConstructInSlot, CAt, HasSlot
  <2>4. \A x \in Slots : ToCall(x) => SlotFn(s) # SlotFn(x)
    BY <2>2, <2>3
  <2> QED BY <2>1, <2>2, <2>4, PutsElsewhere
<1>8. CASE ConstructInDesc(c)
  BY <1>0, <1>8, ConstructInDescEffect, PutsElsewhere
<1>9. CASE SlotThrows(c)
  BY <1>1, <1>9, SlotThrowsEffect
<1>10. CASE \/ \E b \in Bodies : CountEmplace(c, b)
            \/ CountBody(c) \/ AcquireNothing(c) \/ InlineCall(c) \/ InlineUncount(c)
            \/ ReserveSlot(c) \/ DescThrows(c)
  BY <1>1, <1>10 DEF CountEmplace, CountBody, AcquireNothing, InlineCall, InlineUncount,
                     ReserveSlot, DescThrows
<1> HIDE DEF Goal
<1> QED BY <1>2, <1>3, <1>4, <1>5, <1>6, <1>7, <1>8, <1>9, <1>10

(* A node that is added is filled.                                         *)
LEMMA AddNodeFilled ==
    ASSUME BodyTypeInv, OwnInv, FilledInv, NEW c \in Callers, AddNode(c)
    PROVE  FilledInv'
<1>1. /\ cpc[c] = "add" /\ cpc'[c] = "idle" /\ graphSize' = graphSize + 1
      /\ UNCHANGED <<graphRuns, nodeAt, readySlots, rpc, rslot>>
      /\ \A d \in Callers : d # c => cpc'[d] = cpc[d] /\ subject'[d] = subject[d]
  BY DEF BodyTypeInv, AddNode, Leave, CAt, CGoto, poolSide, runnerVars
<1>2. PICK g \in 1 .. MaxGraphSize :
         g = graphSize + 1 /\ Shifts(mem, mem', DescOf(c), NodeFn(g))
  BY AddNodeEffect
<1>3. mem.owns[DescOf(c)] \in Bodies
  BY <1>1 DEF OwnInv, InDesc, FilledInv
<1>4. /\ DescOf(c) \in Objects /\ NodeFn(g) \in Objects
      /\ \A n : DescOf(c) # NodeFn(n) /\ (NodeFn(g) = NodeFn(n) => g = n)
      /\ \A s : DescOf(c) # SlotFn(s) /\ NodeFn(g) # SlotFn(s)
  BY ObjectsExist, ObjectsApart
<1>5. /\ mem'.owns[NodeFn(g)] \in Bodies
      /\ \A n \in 1 .. MaxGraphSize : n # g => mem'.owns[NodeFn(n)] = mem.owns[NodeFn(n)]
      /\ \A s \in Slots : mem'.owns[SlotFn(s)] = mem.owns[SlotFn(s)]
  BY <1>2, <1>3, <1>4, ObjectsExist DEF Shifts
<1>6. ASSUME NEW n \in 1 .. MaxGraphSize, Unsent(n)'
      PROVE  mem'.owns[NodeFn(n)] \in Bodies
  <2>1. n = g \/ Unsent(n)
    BY <1>1, <1>2, <1>6 DEF Unsent, BodyTypeInv
  <2> QED BY <1>5, <2>1 DEF FilledInv
<1>7. \A s \in Slots : ToCall(s)' => mem'.owns[SlotFn(s)] \in Bodies
  BY <1>1, <1>5 DEF FilledInv, ToCall
<1> QED BY <1>1, <1>6, <1>7 DEF FilledInv

(* The one submission of the graph finds every node filled, ...            *)
LEMMA SubmitGraphFilled ==
    ASSUME GraphSubmissions \in 0 .. 1, BodyTypeInv, FilledInv, NEW c \in Callers, SubmitGraph(c)
    PROVE  FilledInv'
<1>1. /\ graphRuns = 0 /\ graphRuns' = 1 /\ c = Builder
      /\ nodeAt' = [nodeAt EXCEPT ![c] = 1] /\ cpc'[c] = "node"
      /\ \A d \in Callers : d # c => cpc'[d] = cpc[d]
      /\ UNCHANGED <<graphSize, mem, subject, readySlots, rpc, rslot>>
  BY DEF BodyTypeInv, SubmitGraph, CAt, CGoto, poolSide, runnerVars
<1>2. \A d \in Callers : nodeAt'[d] > 0 => d = Builder
  BY <1>1 DEF BodyTypeInv, FilledInv
<1>3. \A n \in 1 .. MaxGraphSize : Unsent(n)' => Unsent(n)
  BY <1>1 DEF Unsent
<1>4. \A s \in Slots : ToCall(s)' <=> ToCall(s)
  BY <1>1 DEF ToCall
<1> QED BY <1>1, <1>2, <1>3, <1>4 DEF FilledInv

(* ... and takes each when it comes to it.                                 *)
LEMMA NodeDescFilled ==
    ASSUME BodyTypeInv, FilledInv, NEW c \in Callers, NodeDesc(c)
    PROVE  FilledInv'
<1>1. /\ cpc[c] = "node" /\ nodeAt[c] \in Nat /\ nodeAt[c] > 0
      /\ \A d \in Callers : d # c =>
            cpc'[d] = cpc[d] /\ subject'[d] = subject[d] /\ nodeAt'[d] = nodeAt[d]
      /\ UNCHANGED <<graphSize, graphRuns, readySlots, rpc, rslot>>
  BY DEF BodyTypeInv, NodeDesc, CAt, CGoto, graphVars, poolSide, runnerVars
<1>2. /\ graphRuns = 1 /\ graphRuns' = 1 /\ c = Builder
      /\ \A d \in Callers : d # c => ~ nodeAt[d] > 0
  BY <1>1 DEF FilledInv
<1>3. \A s \in Slots : ToCall(s)' <=> ToCall(s)
  BY <1>1 DEF ToCall
<1>4. \A d \in Callers : nodeAt'[d] > 0 => d = Builder
  BY <1>1, <1>2
<1>5. CASE nodeAt[c] <= graphSize
  <2>1. PICK k \in 1 .. MaxGraphSize :
           k = nodeAt[c] /\ k <= graphSize /\ Shifts(mem, mem', NodeFn(k), DescOf(c))
    BY <1>5, NodeDescEffect
  <2>2. mem.owns[NodeFn(k)] \in Bodies
    BY <1>1, <2>1 DEF FilledInv, Unsent
  <2>3. subject'[c] \in Bodies /\ nodeAt'[c] = k + 1
    BY <1>5, <2>1, <2>2 DEF NodeDesc, BodyTypeInv
  <2>4. /\ DescOf(c) \in Objects /\ NodeFn(k) \in Objects
        /\ \A n : DescOf(c) # NodeFn(n) /\ (NodeFn(k) = NodeFn(n) => k = n)
        /\ \A s : DescOf(c) # SlotFn(s) /\ NodeFn(k) # SlotFn(s)
    BY ObjectsExist, ObjectsApart
  <2>5. /\ \A n \in 1 .. MaxGraphSize : n # k => mem'.owns[NodeFn(n)] = mem.owns[NodeFn(n)]
        /\ \A s \in Slots : mem'.owns[SlotFn(s)] = mem.owns[SlotFn(s)]
    BY <2>1, <2>4, ObjectsExist DEF Shifts
  <2>6. \A n \in 1 .. MaxGraphSize : Unsent(n)' => n # k /\ Unsent(n)
    <3>1. SUFFICES ASSUME NEW n \in 1 .. MaxGraphSize, Unsent(n)' PROVE n # k /\ Unsent(n)
      OBVIOUS
    <3>2. PICK d \in Callers : nodeAt'[d] > 0 /\ nodeAt'[d] <= n
      BY <1>2, <3>1 DEF Unsent
    <3>3. d = c
      BY <1>2, <1>4, <3>2
    <3>4. k + 1 <= n /\ n <= graphSize
      BY <1>1, <2>3, <3>1, <3>2, <3>3 DEF Unsent
    <3>5. nodeAt[c] <= n
      BY <2>1, <3>4
    <3> QED BY <1>1, <3>4, <3>5 DEF Unsent
  <2>7. \A n \in 1 .. MaxGraphSize : Unsent(n)' => mem'.owns[NodeFn(n)] \in Bodies
    BY <2>5, <2>6 DEF FilledInv
  <2> QED BY <1>1, <1>2, <1>3, <1>4, <2>3, <2>5, <2>7 DEF FilledInv
<1>6. CASE ~ nodeAt[c] <= graphSize
  <2>1. mem' = mem /\ subject' = subject /\ nodeAt'[c] = 0 /\ cpc'[c] = "idle"
    BY <1>6 DEF NodeDesc, CGoto, BodyTypeInv
  <2>2. \A n \in 1 .. MaxGraphSize : ~ Unsent(n)'
    BY <1>1, <1>2, <2>1 DEF Unsent
  <2> QED BY <1>1, <1>2, <1>3, <1>4, <2>1, <2>2 DEF FilledInv
<1> QED BY <1>5, <1>6

(* What is enqueued has a body.                                            *)
LEMMA PublishBodyFilled ==
    ASSUME BodyTypeInv, SlotInv, OwnInv, FilledInv, NEW c \in Callers, PublishBody(c)
    PROVE  FilledInv'
<1>1. /\ cpc[c] = "publish" /\ cpc'[c] = "return" /\ readySlots' = readySlots \cup {cslot[c]}
      /\ \A d \in Callers : d # c => cpc'[d] = cpc[d]
      /\ UNCHANGED <<graphSize, graphRuns, nodeAt, subject, mem, rpc, rslot>>
  BY DEF BodyTypeInv, PublishBody, CAt, CGoto, graphVars, runnerVars
<1>2. mem.owns[SlotFn(cslot[c])] \in Bodies
  BY <1>1 DEF OwnInv, FilledInv
<1>3. ASSUME NEW s \in Slots, ToCall(s)'
      PROVE  mem'.owns[SlotFn(s)] \in Bodies
  <2>1. s = cslot[c] \/ ToCall(s)
    BY <1>1, <1>3 DEF ToCall
  <2> QED BY <1>1, <1>2, <2>1 DEF FilledInv
<1>4. \A n \in 1 .. MaxGraphSize : Unsent(n)' <=> Unsent(n)
  BY <1>1 DEF Unsent
<1> QED BY <1>1, <1>3, <1>4 DEF FilledInv

(* A runner takes nothing from a slot before it has called the body.       *)
LEMMA RunnerFilled ==
    ASSUME BodyTypeInv, SlotInv, FilledInv, NEW r \in Runners, RunnerStep(r)
    PROVE  FilledInv'
<1>1. /\ UNCHANGED <<graphSize, graphRuns, nodeAt, cpc, subject>>
  BY DEF RunnerStep, TakeReady, ExecuteBody, ReleaseBody, GiveSlotBack, UncountBody, graphVars,
         callerVars
<1>2. /\ \A n \in 1 .. MaxGraphSize : mem'.owns[NodeFn(n)] = mem.owns[NodeFn(n)]
      /\ \A s \in Slots : ToCall(s) => mem'.owns[SlotFn(s)] = mem.owns[SlotFn(s)]
  <2>1. CASE mem' = mem
    BY <2>1
  <2>2. CASE ReleaseBody(r)
    <3>1. PICK s \in Slots : s = rslot[r] /\ Takes(mem, mem', SlotFn(s))
      BY <2>2, ReleaseBodyEffect
    <3>2. ~ ToCall(s)
      BY <2>2, <3>1, NotToCall DEF ReleaseBody, OnSlot
    <3>3. /\ SlotFn(s) \in Objects /\ \A n : SlotFn(s) # NodeFn(n)
          /\ \A x \in Slots : ToCall(x) => SlotFn(s) # SlotFn(x)
      BY <3>2, ObjectsExist, ObjectsApart
    <3> QED BY <3>1, <3>3, TakesElsewhere
  <2> QED BY <2>1, <2>2 DEF RunnerStep, TakeReady, ExecuteBody, GiveSlotBack, UncountBody
<1>3. \A s \in Slots : ToCall(s)' => ToCall(s)
  <2>1. CASE TakeReady(r)
    <3>1. PICK s \in readySlots : /\ readySlots' = readySlots \ {s}
                                  /\ rslot' = [rslot EXCEPT ![r] = s]
      BY <2>1 DEF TakeReady
    <3>2. rslot'[r] = s /\ \A q \in Runners : q # r => rslot'[q] = rslot[q] /\ rpc'[q] = rpc[q]
      BY <2>1, <3>1 DEF TakeReady, RGoto, BodyTypeInv
    <3> QED BY <3>1, <3>2 DEF ToCall
  <2>2. CASE ExecuteBody(r) \/ ReleaseBody(r) \/ GiveSlotBack(r) \/ UncountBody(r)
    <3>1. /\ readySlots' = readySlots /\ rpc'[r] # "call"
          /\ \A q \in Runners : q # r => rslot'[q] = rslot[q] /\ rpc'[q] = rpc[q]
      BY <2>2 DEF ExecuteBody, ReleaseBody, GiveSlotBack, UncountBody, RGoto, BodyTypeInv, poolSide
    <3> QED BY <3>1 DEF ToCall
  <2> QED BY <2>1, <2>2 DEF RunnerStep
<1>4. \A n \in 1 .. MaxGraphSize : Unsent(n)' <=> Unsent(n)
  BY <1>1 DEF Unsent
<1>5. \A n \in 1 .. MaxGraphSize : Unsent(n)' => mem'.owns[NodeFn(n)] \in Bodies
  BY <1>2, <1>4 DEF FilledInv
<1>6. \A s \in Slots : ToCall(s)' => mem'.owns[SlotFn(s)] \in Bodies
  BY <1>2, <1>3 DEF FilledInv
<1> QED BY <1>1, <1>5, <1>6 DEF FilledInv

(* So with one submission at most FilledInv is kept.                       *)
LEMMA FilledNext ==
    ASSUME GraphSubmissions \in 0 .. 1
    PROVE  BodyIInv /\ FilledInv /\ [BodyNext]_allBodyVars => FilledInv'
<1> SUFFICES ASSUME BodyIInv, FilledInv, [BodyNext]_allBodyVars PROVE FilledInv'
  OBVIOUS
<1>0. BodyTypeInv /\ SlotInv /\ OwnInv
  BY DEF BodyIInv
<1>1. ASSUME NEW c \in Callers, CallerStep(c) PROVE FilledInv'
  <2>1. CASE AddNode(c)
    BY <1>0, <2>1, AddNodeFilled
  <2>2. CASE SubmitGraph(c)
    BY <1>0, <2>2, SubmitGraphFilled
  <2>3. CASE NodeDesc(c)
    BY <1>0, <2>3, NodeDescFilled
  <2>4. CASE PublishBody(c)
    BY <1>0, <2>4, PublishBodyFilled
  <2>5. CASE \/ \E b \in Bodies : BuildDesc(c, b) \/ CountEmplace(c, b)
             \/ CountBody(c) \/ AcquireMove(c) \/ AcquireNothing(c) \/ SubmitReturn(c)
             \/ InlineMove(c) \/ InlineCall(c) \/ InlineUncount(c) \/ InlineReturn(c)
             \/ ReserveSlot(c) \/ ConstructInSlot(c) \/ ConstructInDesc(c)
             \/ SlotThrows(c) \/ DescThrows(c)
    <3>1. /\ UNCHANGED <<graphSize, graphRuns, nodeAt, readySlots, rpc, rslot>>
          /\ \A d \in Callers : d # c => cpc'[d] = cpc[d] /\ subject'[d] = subject[d]
          /\ cpc'[c] \notin {"idle", "node", "return"} => subject'[c] \in Bodies
      BY <1>0, <2>5, SubmissionControl
    <3>2. NodesAlone /\ SlotsAlone
      BY <1>0, <2>5, <3>1, SubmissionMemory DEF NodesAlone, SlotsAlone
    <3> QED BY <3>1, <3>2, FilledKeeps
  <2> QED BY <1>1, <2>1, <2>2, <2>3, <2>4, <2>5 DEF CallerStep
<1>2. ASSUME NEW r \in Runners, RunnerStep(r) PROVE FilledInv'
  BY <1>0, <1>2, RunnerFilled
<1>3. CASE UNCHANGED allBodyVars
  <2>1. UNCHANGED <<graphSize, graphRuns, nodeAt, cpc, subject, mem, readySlots, rpc, rslot>>
    BY <1>3 DEF allBodyVars, graphVars, poolSide, callerVars, runnerVars
  <2> QED BY <2>1 DEF FilledInv, Unsent, ToCall
<1> QED BY <1>1, <1>2, <1>3 DEF BodyNext, BodiesAtRest

(* ExecutedHoldsBody: as long as the graph is submitted once at most,      *)
(* execute() never has an empty TaskFunction to call, whichever ways the   *)
(* callables take; graph_resubmitted shows one with a second submission.   *)
THEOREM ExecutedTasksHaveBodies ==
    ASSUME GraphSubmissions \in 0 .. 1
    PROVE  BodySpec => []ExecutedHoldsBody
<1>1. BodyInit => FilledInv
  BY BodyAssumption DEF BodyInit, FilledInv, Unsent, ToCall
<1>2. BodyIInv /\ FilledInv /\ [BodyNext]_allBodyVars => FilledInv'
  BY FilledNext
<1>3. BodyIInv /\ FilledInv => ExecutedHoldsBody
  <2> SUFFICES ASSUME BodyIInv, FilledInv, NEW r \in Runners, rpc[r] = "call"
               PROVE  Holds(mem, SlotFn(rslot[r]))
    BY DEF ExecutedHoldsBody
  <2>1. rslot[r] \in Slots
    BY DEF BodyIInv, SlotInv, OnSlot
  <2>2. ToCall(rslot[r])
    BY DEF ToCall
  <2> QED BY <2>1, <2>2, BodyAssumption DEF FilledInv, Holds
<1> QED BY <1>1, <1>2, <1>3, BodyInvariance, PTL DEF BodySpec

=============================================================================
