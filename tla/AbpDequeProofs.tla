--------------------------- MODULE AbpDequeProofs ----------------------------
(***************************************************************************)
(* Theorems about AbpDeque for every number of thieves, every set of items *)
(* and every capacity.                                                     *)
(***************************************************************************)
EXTENDS AbpDeque, TLAPS

Lo(i) == bufLo[Slot(i)]
Hi(i) == bufHi[Slot(i)]

Pushing == {"writeLo", "writeHi", "publish"}
Popping == {"popTop", "popCas", "popRestore"}

(* The indices: never more than capacity_ elements, and what the owner's   *)
(* locals say about them in the middle of push() and pop().                *)
IndexInv ==
    /\ top <= Limit
    /\ Limit - top <= Capacity
    /\ opc \in Popping => ob = bottom
    /\ opc \in Pushing => bottom - top < Capacity /\ oval \in Items \ pushed
    /\ opc = "popCas" => ot = ob /\ (top = ob \/ top = ob + 1)
    /\ opc = "popRestore" => top = ob + 1

(* The owner's own value: the half it has written, the element it read.    *)
OwnerInv ==
    /\ opc \in {"writeHi", "publish"} => Lo(bottom) = oval
    /\ opc = "publish" => Hi(bottom) = oval
    /\ opc = "popCas" /\ top = ob => oval = Lo(ob)

(* The elements between top and bottom are whole, distinct, pushed items   *)
(* that nobody has been given.                                             *)
WindowInv ==
    /\ \A i \in Window : Hi(i) = Lo(i) /\ Lo(i) \in pushed /\ takes[Lo(i)] = 0
    /\ \A i, j \in Window : i # j => Lo(i) # Lo(j)

(* A pushed item is in the deque or was taken once.                        *)
AccountInv ==
    /\ \A v \in Items : takes[v] <= 1
    /\ \A v \in pushed : takes[v] = 1 \/ \E i \in Window : Lo(i) = v
    /\ \A v \in Values \ pushed : takes[v] = 0

(* What a thief read is only worth something while top has not moved, and  *)
(* then it is exactly the top element.                                     *)
ThiefInv ==
    \A th \in Thieves :
        /\ tt[th] <= top
        /\ tpc[th] \in {"readLo", "readHi", "cas"} /\ tt[th] = top => top < Limit
        /\ tpc[th] \in {"readHi", "cas"} /\ tt[th] = top => tlo[th] = Lo(top)
        /\ tpc[th] = "cas" /\ tt[th] = top => thi[th] = Hi(top)

IInv == TypeOK /\ IndexInv /\ OwnerInv /\ WindowInv /\ AccountInv /\ ThiefInv

-----------------------------------------------------------------------------
(* Arithmetic of the ring buffer. *)

(* Every index maps to a cell of the buffer (index & mask_). *)
LEMMA SlotInRange ==
    ASSUME NEW i \in Nat
    PROVE  Slot(i) \in 0 .. Capacity - 1
  BY CapacityAssumption, Z3T(30) DEF Slot

(* An index is its lap times capacity_ plus its cell. *)
LEMMA SlotDivision ==
    ASSUME NEW i \in Nat
    PROVE  \E lap \in Int : i = Capacity * lap + Slot(i)
  <1>1. /\ i \div Capacity \in Int
        /\ i = Capacity * (i \div Capacity) + Slot(i)
    BY CapacityAssumption, Z3T(30) DEF Slot
  <1> QED BY <1>1

(* Two multiples of capacity_ are never less than capacity_ apart. *)
LEMMA MultiplesApart ==
    ASSUME NEW a \in Int, NEW b \in Int, NEW d \in 1 .. Capacity - 1
    PROVE  Capacity * a # Capacity * b + d
  <1> SUFFICES ASSUME Capacity * a = Capacity * b + d PROVE FALSE
    OBVIOUS
  <1>1. CASE a <= b
    BY <1>1, CapacityAssumption
  <1>2. CASE a >= b + 1
    BY <1>2, CapacityAssumption
  <1> QED BY <1>1, <1>2

(* Indices less than capacity_ apart have different cells: a push into a   *)
(* deque that is not full touches no element of it.                        *)
LEMMA SlotDistinct ==
    ASSUME NEW i \in Nat, NEW j \in Nat, i < j, j - i < Capacity
    PROVE  Slot(i) # Slot(j)
  <1>1. PICK a \in Int : i = Capacity * a + Slot(i)
    BY SlotDivision
  <1>2. PICK b \in Int : j = Capacity * b + Slot(j)
    BY SlotDivision
  <1>3. Slot(i) \in Int /\ Slot(j) \in Int
    BY SlotInRange, CapacityAssumption
  <1>4. j - i \in 1 .. Capacity - 1
    BY CapacityAssumption
  <1>5. SUFFICES ASSUME Slot(i) = Slot(j) PROVE FALSE
    OBVIOUS
  <1>6. Capacity * a \in Int /\ Capacity * b \in Int
    BY CapacityAssumption
  <1>7. Capacity * b = Capacity * a + (j - i)
    BY <1>1, <1>2, <1>3, <1>5, <1>6
  <1> QED BY <1>4, <1>7, MultiplesApart

-----------------------------------------------------------------------------
(* The inductive invariant holds in the initial states. *)
LEMMA InitIInv == Init => IInv
  BY CapacityAssumption, ValuesAssumption, SlotInRange
  DEF Init, IInv, TypeOK, IndexInv, OwnerInv, WindowInv, AccountInv, ThiefInv, Limit,
      Window, Lo, Hi, OwnerStates, ThiefStates, Values, Pushing, Popping

(* Giving out one element of the window, by whichever end, keeps the       *)
(* accounting: the element leaves the window as its count becomes one.     *)
LEMMA TakeOne ==
    ASSUME TypeOK, WindowInv, AccountInv, NEW w \in Window,
           Window' = Window \ {w},
           Deliver(Lo(w)),
           UNCHANGED <<bufLo, bufHi, pushed>>
    PROVE  WindowInv' /\ AccountInv'
  <1> DEFINE d == Lo(w)
  <1>1. d \in pushed /\ d \in Items /\ takes[d] = 0
    BY DEF WindowInv, TypeOK
  <1>2. takes' = [takes EXCEPT ![d] = takes[d] + 1] /\ takes \in [Values -> Nat]
    BY DEF Deliver, TypeOK
  <1>3. takes'[d] = 1 /\ \A v \in Values \ {d} : takes'[v] = takes[v]
    BY <1>1, <1>2 DEF Values
  <1>4. \A i \in Window : Lo(i)' = Lo(i) /\ Hi(i)' = Hi(i)
    BY DEF Lo, Hi
  <1>5. \A i \in Window' : i \in Window /\ Lo(i) # d /\ Lo(i) \in Values
    BY DEF WindowInv, TypeOK, Values
  <1> HIDE DEF d
  <1>6. WindowInv'
    BY <1>3, <1>4, <1>5 DEF WindowInv
  <1>7. \A v \in pushed : v # d /\ takes[v] # 1 => \E i \in Window' : Lo(i)' = v
    BY <1>4 DEF AccountInv, d
  <1>8. AccountInv'
    <2>1. \A v \in Items : takes'[v] <= 1
      BY <1>3 DEF AccountInv, Values
    <2>2. \A v \in pushed' : takes'[v] = 1 \/ \E i \in Window' : Lo(i)' = v
      BY <1>3, <1>7 DEF TypeOK, Values
    <2>3. \A v \in Values \ pushed' : takes'[v] = 0
      BY <1>1, <1>3 DEF AccountInv
    <2> QED BY <2>1, <2>2, <2>3 DEF AccountInv
  <1> QED BY <1>6, <1>8

(* The cell push() writes holds no element of the deque. *)
LEMMA PushMissesWindow ==
    ASSUME IInv, opc \in Pushing
    PROVE  \A i \in Window : Slot(i) # Slot(bottom) /\ Slot(i) \in 0 .. Capacity - 1
  <1>1. TAKE i \in Window
  <1>2. i \in Nat /\ bottom \in Nat /\ i < bottom /\ bottom - i < Capacity
    BY CapacityAssumption DEF IInv, TypeOK, IndexInv, Window, Limit, Pushing
  <1> QED BY <1>2, SlotInRange, SlotDistinct

(* push() on a full deque *)
LEMMA PushFullStep ==
    ASSUME IInv, PushFull
    PROVE  IInv'
  BY CapacityAssumption, ValuesAssumption
  DEF IInv, TypeOK, IndexInv, OwnerInv, WindowInv, AccountInv, ThiefInv, Limit, Join, Deliver,
      Window, Lo, Hi, OwnerStates, ThiefStates, Values, Pushing, Popping, thiefVars,
      ownerVars, bufVars, PushFull

(* push() that found room *)
LEMMA PushCheckStep ==
    ASSUME IInv, NEW v \in Items, PushCheck(v)
    PROVE  IInv'
  BY CapacityAssumption, ValuesAssumption
  DEF IInv, TypeOK, IndexInv, OwnerInv, WindowInv, AccountInv, ThiefInv, Limit, Join, Deliver,
      Window, Lo, Hi, OwnerStates, ThiefStates, Values, Pushing, Popping, thiefVars,
      ownerVars, bufVars, PushCheck

(* push() writing one half of the element *)
LEMMA PushWriteLoStep ==
    ASSUME IInv, PushWriteLo
    PROVE  IInv'
  <1>1. TypeOK' /\ IndexInv' /\ Window' = Window /\ UNCHANGED <<bufHi, takes, pushed>>
    BY CapacityAssumption, SlotInRange
    DEF IInv, TypeOK, IndexInv, OwnerInv, WindowInv, AccountInv, ThiefInv, Limit, Join, Deliver,
      Window, Lo, Hi, OwnerStates, ThiefStates, Values, Pushing, Popping, thiefVars,
      ownerVars, bufVars, PushWriteLo
  <1>2. \A i \in Window : Slot(i) # Slot(bottom) /\ Slot(i) \in 0 .. Capacity - 1
    BY PushMissesWindow DEF PushWriteLo, Pushing
  <1>3. \A i \in Window : Lo(i)' = Lo(i) /\ Hi(i)' = Hi(i)
    BY <1>1, <1>2 DEF PushWriteLo, Lo, Hi, IInv, TypeOK
  <1>4. OwnerInv'
    BY CapacityAssumption, SlotInRange
    DEF IInv, TypeOK, OwnerInv, IndexInv, Limit, Lo, PushWriteLo, Pushing
  <1>5. WindowInv'
    BY <1>1, <1>3 DEF IInv, WindowInv
  <1>6. AccountInv'
    BY <1>1, <1>3 DEF IInv, AccountInv
  <1>7. ThiefInv'
    BY <1>3, CapacityAssumption
    DEF IInv, TypeOK, IndexInv, ThiefInv, Window, Limit, Pushing, PushWriteLo, thiefVars
  <1> QED BY <1>1, <1>4, <1>5, <1>6, <1>7 DEF IInv

(* push() writing the other half *)
LEMMA PushWriteHiStep ==
    ASSUME IInv, PushWriteHi
    PROVE  IInv'
  <1>1. TypeOK' /\ IndexInv' /\ Window' = Window /\ UNCHANGED <<bufLo, takes, pushed>>
    BY CapacityAssumption, SlotInRange
    DEF IInv, TypeOK, IndexInv, OwnerInv, WindowInv, AccountInv, ThiefInv, Limit, Join, Deliver,
      Window, Lo, Hi, OwnerStates, ThiefStates, Values, Pushing, Popping, thiefVars,
      ownerVars, bufVars, PushWriteHi
  <1>2. \A i \in Window : Slot(i) # Slot(bottom) /\ Slot(i) \in 0 .. Capacity - 1
    BY PushMissesWindow DEF PushWriteHi, Pushing
  <1>3. \A i \in Window : Lo(i)' = Lo(i) /\ Hi(i)' = Hi(i)
    BY <1>1, <1>2 DEF PushWriteHi, Lo, Hi, IInv, TypeOK
  <1>4. OwnerInv'
    <2>1. bottom \in Nat
      BY DEF IInv, TypeOK, IndexInv, Limit, PushWriteHi
    <2>2. Hi(bottom)' = oval /\ Lo(bottom)' = oval
      BY <2>1, <1>1, SlotInRange DEF IInv, TypeOK, OwnerInv, Lo, Hi, PushWriteHi
    <2> QED BY <2>2 DEF OwnerInv, PushWriteHi
  <1>5. WindowInv'
    BY <1>1, <1>3 DEF IInv, WindowInv
  <1>6. AccountInv'
    BY <1>1, <1>3 DEF IInv, AccountInv
  <1>7. ThiefInv'
    BY <1>3, CapacityAssumption
    DEF IInv, TypeOK, IndexInv, ThiefInv, Window, Limit, Pushing, PushWriteHi, thiefVars
  <1> QED BY <1>1, <1>4, <1>5, <1>6, <1>7 DEF IInv

(* push() advancing bottom_ *)
LEMMA PushPublishStep ==
    ASSUME IInv, PushPublish
    PROVE  IInv'
  <1>1. TypeOK' /\ IndexInv' /\ OwnerInv'
    BY CapacityAssumption DEF IInv, TypeOK, IndexInv, OwnerInv, WindowInv, AccountInv, ThiefInv, Limit, Join, Deliver,
      Window, Lo, Hi, OwnerStates, ThiefStates, Values, Pushing, Popping, thiefVars,
      ownerVars, bufVars, PushPublish
  <1>2. /\ Window' = Window \cup {bottom}
        /\ Lo(bottom) = oval /\ Hi(bottom) = oval
        /\ oval \in Items \ pushed /\ pushed' = pushed \cup {oval} /\ takes' = takes
    BY CapacityAssumption
    DEF IInv, TypeOK, IndexInv, OwnerInv, Window, Limit, Pushing, PushPublish
  <1>3. \A i \in Window' : Lo(i)' = Lo(i) /\ Hi(i)' = Hi(i)
    BY DEF PushPublish, bufVars, Lo, Hi
  <1>4. takes[oval] = 0
    BY <1>2 DEF IInv, AccountInv, Values
  <1>5. WindowInv'
    BY <1>2, <1>3, <1>4 DEF IInv, WindowInv
  <1>6. AccountInv'
    BY <1>2, <1>3 DEF IInv, AccountInv
  <1>7. ThiefInv'
    BY CapacityAssumption
    DEF IInv, TypeOK, IndexInv, ThiefInv, Limit, Lo, Hi, Pushing, PushPublish, thiefVars, bufVars
  <1> QED BY <1>1, <1>5, <1>6, <1>7 DEF IInv

(* pop() lowering bottom_ *)
LEMMA PopClaimStep ==
    ASSUME IInv, PopClaim
    PROVE  IInv'
  BY CapacityAssumption, ValuesAssumption
  DEF IInv, TypeOK, IndexInv, OwnerInv, WindowInv, AccountInv, ThiefInv, Limit, Join, Deliver,
      Window, Lo, Hi, OwnerStates, ThiefStates, Values, Pushing, Popping, thiefVars,
      ownerVars, bufVars, PopClaim

(* pop() that found nothing *)
LEMMA PopEmptyStep ==
    ASSUME IInv, PopEmpty
    PROVE  IInv'
  BY CapacityAssumption, ValuesAssumption
  DEF IInv, TypeOK, IndexInv, OwnerInv, WindowInv, AccountInv, ThiefInv, Limit, Join, Deliver,
      Window, Lo, Hi, OwnerStates, ThiefStates, Values, Pushing, Popping, thiefVars,
      ownerVars, bufVars, PopEmpty

(* pop() with more than one element *)
LEMMA PopTakeStep ==
    ASSUME IInv, PopTake
    PROVE  IInv'
  <1>1. /\ ob \in Window /\ ob \in Nat /\ top <= ob - 1
        /\ Window' = Window \ {ob}
        /\ UNCHANGED <<top, bufLo, bufHi, pushed>>
    BY CapacityAssumption
    DEF IInv, TypeOK, IndexInv, Window, Limit, Popping, PopTake, bufVars
  <1>2. Join(bufLo[Slot(ob)], bufHi[Slot(ob)]) = Lo(ob) /\ Lo(ob) \in Values
    BY <1>1 DEF IInv, TypeOK, WindowInv, Join, Lo, Hi, Values
  <1>3. Deliver(Lo(ob))
    BY <1>2 DEF PopTake
  <1>4. TypeOK'
    BY <1>2, <1>3, CapacityAssumption
    DEF IInv, TypeOK, PopTake, Deliver, OwnerStates, thiefVars, bufVars
  <1>5. IndexInv' /\ OwnerInv'
    BY CapacityAssumption DEF IInv, TypeOK, IndexInv, OwnerInv, Limit, Pushing, Popping, PopTake
  <1>6. WindowInv' /\ AccountInv'
    BY <1>1, <1>3, TakeOne DEF IInv
  <1>7. ThiefInv'
    BY <1>1, CapacityAssumption
    DEF IInv, TypeOK, IndexInv, ThiefInv, Limit, Lo, Hi, Popping, PopTake, thiefVars
  <1> QED BY <1>4, <1>5, <1>6, <1>7 DEF IInv

(* pop() that found the last element *)
LEMMA PopLastStep ==
    ASSUME IInv, PopLast
    PROVE  IInv'
  BY CapacityAssumption, ValuesAssumption
  DEF IInv, TypeOK, IndexInv, OwnerInv, WindowInv, AccountInv, ThiefInv, Limit, Join, Deliver,
      Window, Lo, Hi, OwnerStates, ThiefStates, Values, Pushing, Popping, thiefVars,
      ownerVars, bufVars, PopLast

(* pop() winning the last element *)
LEMMA PopCasWonStep ==
    ASSUME IInv, PopCasWon
    PROVE  IInv'
  <1>1. /\ top = ob /\ ob = bottom /\ ob \in Nat /\ ob \in Window
        /\ Window' = Window \ {ob}
        /\ top' = top + 1 /\ Limit' = Limit /\ Limit = top + 1
        /\ UNCHANGED <<bufLo, bufHi, pushed>>
    BY CapacityAssumption
    DEF IInv, TypeOK, IndexInv, Window, Limit, Popping, PopCasWon, bufVars
  <1>2. Deliver(Lo(ob)) /\ oval \in Values
    BY <1>1 DEF IInv, TypeOK, OwnerInv, PopCasWon
  <1>3. TypeOK'
    BY <1>1, <1>2 DEF IInv, TypeOK, PopCasWon, Deliver, OwnerStates, thiefVars, bufVars
  <1>4. IndexInv' /\ OwnerInv'
    BY <1>1, CapacityAssumption
    DEF IInv, TypeOK, IndexInv, OwnerInv, Limit, Pushing, Popping, PopCasWon
  <1>5. WindowInv' /\ AccountInv'
    BY <1>1, <1>2, TakeOne DEF IInv
  <1>6. ThiefInv'
    BY <1>1 DEF IInv, TypeOK, ThiefInv, PopCasWon, thiefVars
  <1> QED BY <1>3, <1>4, <1>5, <1>6 DEF IInv

(* pop() losing the last element *)
LEMMA PopCasLostStep ==
    ASSUME IInv, PopCasLost
    PROVE  IInv'
  BY CapacityAssumption, ValuesAssumption
  DEF IInv, TypeOK, IndexInv, OwnerInv, WindowInv, AccountInv, ThiefInv, Limit, Join, Deliver,
      Window, Lo, Hi, OwnerStates, ThiefStates, Values, Pushing, Popping, thiefVars,
      ownerVars, bufVars, PopCasLost

(* pop() putting bottom_ back *)
LEMMA PopRestoreStep ==
    ASSUME IInv, PopRestore
    PROVE  IInv'
  BY CapacityAssumption, ValuesAssumption
  DEF IInv, TypeOK, IndexInv, OwnerInv, WindowInv, AccountInv, ThiefInv, Limit, Join, Deliver,
      Window, Lo, Hi, OwnerStates, ThiefStates, Values, Pushing, Popping, thiefVars,
      ownerVars, bufVars, PopRestore

(* steal() reading top_ *)
LEMMA StealTopStep ==
    ASSUME IInv, NEW th \in Thieves, StealTop(th)
    PROVE  IInv'
  BY CapacityAssumption, ValuesAssumption
  DEF IInv, TypeOK, IndexInv, OwnerInv, WindowInv, AccountInv, ThiefInv, Limit, Join, Deliver,
      Window, Lo, Hi, OwnerStates, ThiefStates, Values, Pushing, Popping, thiefVars,
      ownerVars, bufVars, StealTop

(* steal() that found nothing *)
LEMMA StealEmptyStep ==
    ASSUME IInv, NEW th \in Thieves, StealEmpty(th)
    PROVE  IInv'
  BY CapacityAssumption, ValuesAssumption
  DEF IInv, TypeOK, IndexInv, OwnerInv, WindowInv, AccountInv, ThiefInv, Limit, Join, Deliver,
      Window, Lo, Hi, OwnerStates, ThiefStates, Values, Pushing, Popping, thiefVars,
      ownerVars, bufVars, StealEmpty

(* steal() that found an element *)
LEMMA StealBottomStep ==
    ASSUME IInv, NEW th \in Thieves, StealBottom(th)
    PROVE  IInv'
  BY CapacityAssumption, ValuesAssumption
  DEF IInv, TypeOK, IndexInv, OwnerInv, WindowInv, AccountInv, ThiefInv, Limit, Join, Deliver,
      Window, Lo, Hi, OwnerStates, ThiefStates, Values, Pushing, Popping, thiefVars,
      ownerVars, bufVars, StealBottom

(* steal() reading one half of the element *)
LEMMA StealReadLoStep ==
    ASSUME IInv, NEW th \in Thieves, StealReadLo(th)
    PROVE  IInv'
  <1>1. UNCHANGED <<top, bottom, bufLo, bufHi, opc, ob, ot, oval, pushed, takes, ownerRet>>
    BY DEF StealReadLo, bufVars, ownerVars
  <1>2. TypeOK'
    BY <1>1, SlotInRange DEF IInv, TypeOK, StealReadLo, ThiefStates
  <1>3. IndexInv' /\ OwnerInv' /\ WindowInv' /\ AccountInv'
    BY <1>1
    DEF IInv, IndexInv, OwnerInv, WindowInv, AccountInv, Window, Limit, Lo, Hi
  <1>4. ThiefInv'
    BY <1>1 DEF IInv, TypeOK, ThiefInv, StealReadLo, Limit, Lo, Hi
  <1> QED BY <1>2, <1>3, <1>4 DEF IInv

(* steal() reading the other half *)
LEMMA StealReadHiStep ==
    ASSUME IInv, NEW th \in Thieves, StealReadHi(th)
    PROVE  IInv'
  <1>1. UNCHANGED <<top, bottom, bufLo, bufHi, opc, ob, ot, oval, pushed, takes, ownerRet>>
    BY DEF StealReadHi, bufVars, ownerVars
  <1>2. TypeOK'
    BY <1>1, SlotInRange DEF IInv, TypeOK, StealReadHi, ThiefStates
  <1>3. IndexInv' /\ OwnerInv' /\ WindowInv' /\ AccountInv'
    BY <1>1
    DEF IInv, IndexInv, OwnerInv, WindowInv, AccountInv, Window, Limit, Lo, Hi
  <1>4. ThiefInv'
    BY <1>1 DEF IInv, TypeOK, ThiefInv, StealReadHi, Limit, Lo, Hi
  <1> QED BY <1>2, <1>3, <1>4 DEF IInv

(* steal() winning the top element *)
LEMMA StealCasWonStep ==
    ASSUME IInv, NEW th \in Thieves, StealCasWon(th)
    PROVE  IInv'
  <1>1. /\ top = tt[th] /\ top < Limit /\ top \in Window
        /\ Window' = Window \ {top}
        /\ top' = top + 1 /\ Limit' = Limit
        /\ UNCHANGED <<bufLo, bufHi, pushed, bottom, opc, ob, ot, oval, ownerRet>>
    BY SMTT(20), CapacityAssumption
    DEF IInv, TypeOK, IndexInv, ThiefInv, Window, Limit, StealCasWon, bufVars, ownerVars
  <1>2. Join(tlo[th], thi[th]) = Lo(top) /\ Lo(top) \in Values
    BY <1>1 DEF IInv, TypeOK, ThiefInv, WindowInv, Join, StealCasWon, Values
  <1>3. Deliver(Lo(top))
    BY <1>2 DEF StealCasWon
  <1>4. TypeOK'
    BY <1>1, <1>2, <1>3 DEF IInv, TypeOK, StealCasWon, Deliver, ThiefStates
  <1>5. opc # "popRestore" /\ (opc = "popCas" => top = ob)
    BY <1>1 DEF IInv, TypeOK, IndexInv, Limit, Popping
  <1>6. IndexInv' /\ OwnerInv'
    <2>1. /\ top \in Nat /\ bottom \in Int /\ ob \in Int
          /\ Limit \in Int /\ Capacity \in Nat
          /\ top + 1 <= Limit /\ Limit - top <= Capacity
      BY <1>1, CapacityAssumption DEF IInv, TypeOK, IndexInv, Limit
    <2>2. (top <= Limit /\ Limit - top <= Capacity)'
      BY <1>1, <2>1
    <2>3. (opc \in Popping => ob = bottom)'
      BY <1>1 DEF IInv, IndexInv
    <2>4. (opc \in Pushing => bottom - top < Capacity /\ oval \in Items \ pushed)'
      BY <1>1, <2>1 DEF IInv, IndexInv
    <2>5. (opc = "popCas" => ot = ob /\ (top = ob \/ top = ob + 1))'
      BY <1>1, <1>5 DEF IInv, IndexInv
    <2>6. (opc = "popRestore" => top = ob + 1)'
      BY <1>1, <1>5
    <2>7. (opc = "popCas" /\ top = ob => oval = Lo(ob))'
      BY <1>1, <1>5, <2>1
    <2>8. QED
      BY <1>1, <2>2, <2>3, <2>4, <2>5, <2>6, <2>7 DEF IInv, IndexInv, OwnerInv, Lo, Hi
  <1>7. WindowInv' /\ AccountInv'
    BY <1>1, <1>3, TakeOne DEF IInv
  <1>8. ThiefInv'
    BY <1>1 DEF IInv, TypeOK, ThiefInv, StealCasWon
  <1> QED BY <1>4, <1>6, <1>7, <1>8 DEF IInv

(* steal() losing the top element *)
LEMMA StealCasLostStep ==
    ASSUME IInv, NEW th \in Thieves, StealCasLost(th)
    PROVE  IInv'
  BY CapacityAssumption, ValuesAssumption
  DEF IInv, TypeOK, IndexInv, OwnerInv, WindowInv, AccountInv, ThiefInv, Limit, Join, Deliver,
      Window, Lo, Hi, OwnerStates, ThiefStates, Values, Pushing, Popping, thiefVars,
      ownerVars, bufVars, StealCasLost

-----------------------------------------------------------------------------
(* Every step of the owner or of a thief keeps the inductive invariant. *)
LEMMA NextIInv == IInv /\ [Next]_vars => IInv'
  <1> SUFFICES ASSUME IInv, [Next]_vars PROVE IInv'
    OBVIOUS
  <1>1. CASE OwnerNext
    BY <1>1, PushFullStep, PushCheckStep, PushWriteLoStep, PushWriteHiStep, PushPublishStep,
       PopClaimStep, PopEmptyStep, PopTakeStep, PopLastStep, PopCasWonStep, PopCasLostStep,
       PopRestoreStep
    DEF OwnerNext
  <1>2. CASE \E th \in Thieves : ThiefNext(th)
    BY <1>2, StealTopStep, StealEmptyStep, StealBottomStep, StealReadLoStep,
       StealReadHiStep, StealCasWonStep, StealCasLostStep
    DEF ThiefNext
  <1>3. CASE UNCHANGED vars
    BY <1>3
    DEF vars, IInv, TypeOK, IndexInv, OwnerInv, WindowInv, AccountInv, ThiefInv, Limit,
        Window, Lo, Hi
  <1> QED BY <1>1, <1>2, <1>3 DEF Next

(* The inductive invariant of the deque holds in every reachable state.    *)
THEOREM Invariance == Spec => []IInv
  BY InitIInv, NextIInv, PTL DEF Spec

(* Type correctness: in particular bottom_ never falls below -1, however   *)
(* often the owner pops an empty deque.                                    *)
THEOREM TypeCorrect == Spec => []TypeOK
  <1>1. IInv => TypeOK
    BY DEF IInv
  <1> QED BY Invariance, <1>1, PTL

(* Every item that push() accepted is in the deque or was returned by      *)
(* exactly one pop() or steal(): no double execution and no lost task,     *)
(* for any number of thieves and any capacity.                             *)
THEOREM ExactlyOnceHolds == Spec => []ExactlyOnce
  <1>1. ASSUME IInv PROVE ExactlyOnce
    <2>1. \A i \in Window : At(i) = Lo(i) /\ Lo(i) \in pushed /\ takes[Lo(i)] = 0
      BY <1>1 DEF IInv, WindowInv, At, Join, Lo, Hi
    <2> SUFFICES ASSUME NEW v \in Items
                 PROVE  /\ takes[v] <= 1
                        /\ v \in pushed <=> (takes[v] = 1 \/ \E i \in Window : At(i) = v)
                        /\ ~(takes[v] = 1 /\ \E i \in Window : At(i) = v)
      BY DEF ExactlyOnce
    <2>2. takes[v] <= 1
      BY <1>1 DEF IInv, AccountInv
    <2>3. v \in pushed => takes[v] = 1 \/ \E i \in Window : At(i) = v
      BY <1>1, <2>1 DEF IInv, AccountInv
    <2>4. v \notin pushed => takes[v] = 0
      BY <1>1 DEF IInv, AccountInv, Values
    <2> QED BY <2>1, <2>2, <2>3, <2>4
  <1> QED BY Invariance, <1>1, PTL

(* No caller is ever handed an unwritten or a torn handle, although        *)
(* steal() reads the buffer while push() may be writing it.                *)
THEOREM NoTornDeliveryHolds == Spec => []NoTornDelivery
  <1>1. IInv => NoTornDelivery
    BY ValuesAssumption DEF IInv, TypeOK, AccountInv, NoTornDelivery, Values
  <1> QED BY Invariance, <1>1, PTL


-----------------------------------------------------------------------------
(* The refinement of WorkDeque: what the ring buffer and the two indices   *)
(* stand for is a sequence, and every step changes it as one indivisible   *)
(* operation does, or not at all.                                          *)

(* The sequence and the counts that WorkDeque is instantiated with. *)
Elems   == [k \in 1 .. Limit - top |-> At(top + k - 1)]
TakesOf == [v \in Items |-> takes[v]]

(* The elements are a sequence of items, in the order of their indices. *)
LEMMA ElemsSeq ==
    ASSUME IInv
    PROVE  /\ Elems \in Seq(Items)
           /\ Limit - top \in Nat
           /\ Len(Elems) = Limit - top
           /\ DOMAIN Elems = 1 .. Limit - top
           /\ \A k \in 1 .. Limit - top : Elems[k] = Lo(top + k - 1)
           /\ \A i \in Window : At(i) = Lo(i) /\ Lo(i) \in Items
  <1>1. top \in Nat /\ Limit \in Int /\ top <= Limit
    BY DEF IInv, TypeOK, IndexInv, Limit
  <1>2. Limit - top \in Nat
    BY <1>1
  <1>3. \A i \in Window : At(i) = Lo(i) /\ Lo(i) \in Items
    BY DEF IInv, TypeOK, WindowInv, At, Join, Lo, Hi
  <1>4. \A k \in 1 .. Limit - top : top + k - 1 \in Window
    BY <1>1 DEF Window
  <1>5. \A k \in 1 .. Limit - top : Elems[k] = Lo(top + k - 1) /\ Elems[k] \in Items
    BY <1>3, <1>4 DEF Elems
  <1>6. Elems \in [1 .. Limit - top -> Items]
    BY <1>5 DEF Elems
  <1>7. Elems \in Seq(Items)
    BY <1>2, <1>6
  <1>8. DOMAIN Elems = 1 .. Limit - top
    BY DEF Elems
  <1>9. Len(Elems) = Limit - top
    BY <1>2, <1>7, <1>8
  <1> QED BY <1>2, <1>3, <1>5, <1>7, <1>8, <1>9

(* Two sequences of items are the same when they have the same length and  *)
(* the same elements.                                                      *)
LEMMA SameSeq ==
    ASSUME NEW s \in Seq(Items), NEW t \in Seq(Items), Len(s) = Len(t),
           \A k \in 1 .. Len(s) : s[k] = t[k]
    PROVE  s = t
  OBVIOUS

(* A step that moves neither end of the window, writes none of its cells   *)
(* and returns nothing leaves what the deque stands for alone.             *)
LEMMA NothingMoves ==
    ASSUME IInv, IInv', Window' = Window, Limit' = Limit, UNCHANGED <<top, takes>>,
           \A i \in Window : Lo(i)' = Lo(i)
    PROVE  Elems' = Elems /\ TakesOf' = TakesOf
  <1>1. \A k \in 1 .. Limit - top : top + k - 1 \in Window
    BY DEF IInv, TypeOK, IndexInv, Window, Limit
  <1>2. \A i \in Window : At(i) = Lo(i)
    BY ElemsSeq
  <1>3. \A i \in Window : At(i)' = Lo(i)'
    BY DEF IInv, TypeOK, WindowInv, At, Join, Lo, Hi
  <1> QED BY <1>1, <1>2, <1>3 DEF Elems, TakesOf

(* What the primed sequence is, in terms of the primed indices. *)
LEMMA ElemsNext ==
    ASSUME IInv'
    PROVE  /\ Elems' \in Seq(Items)
           /\ Limit' - top' \in Nat
           /\ Len(Elems') = Limit' - top'
           /\ \A k \in 1 .. Limit' - top' : Elems'[k] = bufLo'[Slot(top' + k - 1)]
  <1> DEFINE l == Limit'
             t == top'
             lo(i) == bufLo'[Slot(i)]
             hi(i) == bufHi'[Slot(i)]
  <1>1. t \in Nat /\ l \in Int /\ t <= l
    <2>1. TypeOK' /\ IndexInv'
      BY DEF IInv
    <2>2. (top \in Nat /\ Limit \in Int)'
      BY <2>1 DEF TypeOK, Limit
    <2>3. (top <= Limit)'
      BY <2>1 DEF IndexInv
    <2> QED BY <2>2, <2>3
  <1>2. \A i \in t .. l - 1 : hi(i) = lo(i) /\ lo(i) \in Items
    BY DEF IInv, TypeOK, WindowInv, Window, Lo, Hi
  <1>3. Elems' = [k \in 1 .. l - t |-> Join(lo(t + k - 1), hi(t + k - 1))]
    BY DEF Elems, At
  <1> SUFFICES /\ Elems' \in Seq(Items)
               /\ l - t \in Nat
               /\ Len(Elems') = l - t
               /\ \A k \in 1 .. l - t : Elems'[k] = lo(t + k - 1)
    OBVIOUS
  <1> HIDE DEF l, t, lo, hi
  <1>4. l - t \in Nat
    BY <1>1
  <1>5. \A k \in 1 .. l - t : t + k - 1 \in t .. l - 1
    BY <1>1
  <1>6. \A k \in 1 .. l - t : Elems'[k] = lo(t + k - 1) /\ Elems'[k] \in Items
    BY <1>2, <1>3, <1>5 DEF Join
  <1>7. Elems' \in [1 .. l - t -> Items]
    BY <1>3, <1>6
  <1>8. Elems' \in Seq(Items)
    BY <1>4, <1>7
  <1>9. DOMAIN Elems' = 1 .. l - t
    BY <1>3
  <1>10. Len(Elems') = l - t
    BY <1>4, <1>8, <1>9
  <1> QED BY <1>4, <1>6, <1>8, <1>10

-----------------------------------------------------------------------------
(* push() refused: the sequence holds capacity_ elements. *)
LEMMA PushFullRefines ==
    ASSUME IInv, IInv', PushFull
    PROVE  WD!PushFull
  <1>1. Limit - top = Capacity
    BY CapacityAssumption DEF IInv, TypeOK, IndexInv, Limit, PushFull
  <1>2. Len(Elems) = Capacity
    BY <1>1, ElemsSeq
  <1>3. Elems' = Elems /\ TakesOf' = TakesOf
    BY DEF Elems, TakesOf, At, Limit, PushFull, bufVars
  <1>4. ownerRet' = "full" /\ UNCHANGED <<pushed, thiefRet>>
    BY DEF PushFull, thiefVars
  <1> QED BY <1>2, <1>3, <1>4 DEF WD!PushFull, Elems, TakesOf

(* push() taking effect: the store of bottom_ appends the item. *)
LEMMA PushPublishRefines ==
    ASSUME IInv, IInv', PushPublish
    PROVE  \E v \in Items : WD!Push(v)
  <1> DEFINE l == Limit
  <1>1. /\ l \in Int /\ top \in Nat /\ top <= l
        /\ Limit' = l + 1 /\ top' = top /\ bufLo' = bufLo
        /\ l - top < Capacity
        /\ bufLo[Slot(l)] = oval /\ oval \in Items \ pushed
    BY CapacityAssumption
    DEF IInv, TypeOK, IndexInv, OwnerInv, Limit, Lo, Pushing, PushPublish, bufVars
  <1> HIDE DEF l
  <1>2. /\ Elems \in Seq(Items) /\ Len(Elems) = l - top
        /\ \A k \in 1 .. l - top : Elems[k] = bufLo[Slot(top + k - 1)]
    BY ElemsSeq DEF l, Lo
  <1>3. /\ Elems' \in Seq(Items) /\ Len(Elems') = l + 1 - top
        /\ \A k \in 1 .. l + 1 - top : Elems'[k] = bufLo[Slot(top + k - 1)]
    BY ElemsNext, <1>1
  <1>4. /\ Append(Elems, oval) \in Seq(Items)
        /\ Len(Append(Elems, oval)) = l + 1 - top
        /\ \A k \in 1 .. l - top : Append(Elems, oval)[k] = Elems[k]
        /\ Append(Elems, oval)[l + 1 - top] = oval
    BY <1>1, <1>2
  <1>5. \A k \in 1 .. l + 1 - top : Elems'[k] = Append(Elems, oval)[k]
    <2> DEFINE s == Elems'
               t == Append(Elems, oval)
    <2>1. \A k \in 1 .. l + 1 - top : s[k] = bufLo[Slot(top + k - 1)]
      BY <1>3
    <2>2. \A k \in 1 .. l - top : t[k] = bufLo[Slot(top + k - 1)]
      BY <1>2, <1>4
    <2>3. t[l + 1 - top] = oval
      BY <1>1, <1>4
    <2>4. top + (l + 1 - top) - 1 = l
      BY <1>1
    <2> HIDE DEF s, t
    <2>5. s[l + 1 - top] = bufLo[Slot(l)]
      BY <1>1, <2>1, <2>4
    <2> SUFFICES \A k \in 1 .. l + 1 - top : s[k] = t[k]
      BY DEF s, t
    <2>6. \A k \in 1 .. l + 1 - top : k \in 1 .. l - top \/ k = l + 1 - top
      BY <1>1
    <2> QED BY <1>1, <2>1, <2>2, <2>3, <2>5, <2>6
  <1>6. Elems' = Append(Elems, oval)
    BY <1>1, <1>3, <1>4, <1>5, SameSeq
  <1>7. TakesOf' = TakesOf
    BY DEF TakesOf, PushPublish
  <1>8. /\ pushed' = pushed \cup {oval} /\ ownerRet' = "pushed"
        /\ thiefRet' = thiefRet
    BY DEF PushPublish, thiefVars
  <1>9. WD!Push(oval)
    BY <1>1, <1>2, <1>6, <1>7, <1>8 DEF WD!Push, Elems, TakesOf
  <1> QED BY <1>1, <1>9

(* Returning one item adds one to its count and to no other. *)
LEMMA DeliverRefines ==
    ASSUME IInv, NEW d \in Items, Deliver(d)
    PROVE  TakesOf' = [TakesOf EXCEPT ![d] = TakesOf[d] + 1]
  <1>1. takes' = [takes EXCEPT ![d] = takes[d] + 1] /\ takes \in [Values -> Nat]
    BY DEF Deliver, IInv, TypeOK
  <1>2. \A v \in Items : takes'[v] = IF v = d THEN takes[v] + 1 ELSE takes[v]
    BY <1>1 DEF Values
  <1> QED BY <1>2 DEF TakesOf

(* The window losing its last element is Front(). *)
LEMMA FrontOfElems ==
    ASSUME IInv, IInv', top < Limit, Limit' - top' = Limit - top - 1,
           top' = top \/ Limit - top = 1, bufLo' = bufLo
    PROVE  /\ Elems # << >>
           /\ WD!Last(Elems) = Lo(Limit - 1)
           /\ Elems' = WD!Front(Elems)
  <1> DEFINE n == Limit - top
  <1>1. /\ Elems \in Seq(Items) /\ Len(Elems) = n /\ n \in Nat
        /\ \A k \in 1 .. n : Elems[k] = bufLo[Slot(top + k - 1)]
    BY ElemsSeq DEF Lo
  <1>2. /\ Elems' \in Seq(Items) /\ Len(Elems') = n - 1
        /\ \A k \in 1 .. n - 1 : Elems'[k] = bufLo[Slot(top' + k - 1)]
    BY ElemsNext
  <1>3. /\ n >= 1 /\ top \in Nat /\ Limit \in Int /\ top + n - 1 = Limit - 1
        /\ top' = top \/ n = 1
    BY DEF IInv, TypeOK, Limit
  <1> HIDE DEF n
  <1>4. Elems # << >>
    BY <1>1, <1>3
  <1>5. WD!Last(Elems) = Lo(Limit - 1)
    BY <1>1, <1>3 DEF WD!Last, Lo
  <1>6. WD!Front(Elems) = SubSeq(Elems, 1, n - 1)
    BY <1>1 DEF WD!Front
  <1>7. /\ SubSeq(Elems, 1, n - 1) \in Seq(Items)
        /\ Len(SubSeq(Elems, 1, n - 1)) = n - 1
        /\ \A k \in 1 .. n - 1 : SubSeq(Elems, 1, n - 1)[k] = Elems[k]
    BY <1>1, <1>3
  <1>8. \A k \in 1 .. n - 1 : Elems'[k] = Elems[k]
    <2>1. CASE n = 1
      BY <2>1
    <2>2. CASE top' = top
      <3>1. \A k \in 1 .. n - 1 : Elems'[k] = bufLo[Slot(top + k - 1)]
        BY <2>2, <1>2
      <3> DEFINE e == Elems'
      <3> HIDE DEF e
      <3>2. \A k \in 1 .. n - 1 : e[k] = Elems[k]
        BY <3>1, <1>1, <1>3 DEF e
      <3> QED BY <3>2 DEF e
    <2> QED BY <2>1, <2>2, <1>3
  <1>9. Elems' = SubSeq(Elems, 1, n - 1)
    BY <1>2, <1>7, <1>8, SameSeq
  <1> QED BY <1>4, <1>5, <1>6, <1>9

(* pop() taking effect where it reads top_: more than one element, the     *)
(* bottom one is returned without a CAS.                                   *)
LEMMA PopTakeRefines ==
    ASSUME IInv, IInv', PopTake
    PROVE  WD!Pop
  <1>1. /\ top < Limit /\ Limit' - top' = Limit - top - 1
        /\ top' = top /\ bufLo' = bufLo
        /\ Limit - 1 = ob /\ ob \in Window
    BY CapacityAssumption DEF IInv, TypeOK, IndexInv, Limit, Window, Popping, PopTake, bufVars
  <1>2. /\ Elems # << >>
        /\ WD!Last(Elems) = Lo(ob)
        /\ Elems' = WD!Front(Elems)
    BY <1>1, FrontOfElems
  <1>3. Lo(ob) \in Items /\ At(ob) = Lo(ob)
    BY <1>1, ElemsSeq
  <1>4. Deliver(Lo(ob))
    BY <1>3 DEF PopTake, At
  <1>5. TakesOf' = [TakesOf EXCEPT ![Lo(ob)] = TakesOf[Lo(ob)] + 1]
    BY <1>3, <1>4, DeliverRefines
  <1>6. ownerRet' = "popped" /\ UNCHANGED <<pushed, thiefRet>>
    BY DEF PopTake, thiefVars
  <1> QED BY <1>2, <1>5, <1>6 DEF WD!Pop, WD!Deliver, Elems, TakesOf

(* pop() taking effect where its CAS wins the last element. *)
LEMMA PopCasWonRefines ==
    ASSUME IInv, IInv', PopCasWon
    PROVE  WD!Pop
  <1>1. /\ top < Limit /\ Limit' - top' = Limit - top - 1
        /\ Limit - top = 1 /\ bufLo' = bufLo
        /\ Limit - 1 = ob /\ ob \in Window
    BY CapacityAssumption DEF IInv, TypeOK, IndexInv, Limit, Window, Popping, PopCasWon, bufVars
  <1>2. /\ Elems # << >>
        /\ WD!Last(Elems) = Lo(ob)
        /\ Elems' = WD!Front(Elems)
    BY <1>1, FrontOfElems
  <1>3. Lo(ob) \in Items
    BY <1>1, ElemsSeq
  <1>4. Deliver(Lo(ob))
    BY CapacityAssumption DEF PopCasWon, IInv, TypeOK, IndexInv, OwnerInv
  <1>5. TakesOf' = [TakesOf EXCEPT ![Lo(ob)] = TakesOf[Lo(ob)] + 1]
    BY <1>3, <1>4, DeliverRefines
  <1>6. ownerRet' = "popped" /\ UNCHANGED <<pushed, thiefRet>>
    BY DEF PopCasWon, thiefVars
  <1> QED BY <1>2, <1>5, <1>6 DEF WD!Pop, WD!Deliver, Elems, TakesOf

(* pop() reports "empty", at its read of top_ or at its lost CAS, only     *)
(* when the sequence is empty.                                             *)
LEMMA PopEmptyRefines ==
    ASSUME IInv, IInv', PopEmpty \/ PopCasLost
    PROVE  WD!PopEmpty
  <1>1. Limit - top = 0
    BY CapacityAssumption DEF IInv, TypeOK, IndexInv, Limit, Popping, PopEmpty, PopCasLost
  <1>2. Elems = << >>
    BY <1>1, ElemsSeq
  <1>3. Elems' = Elems /\ TakesOf' = TakesOf
    BY DEF Elems, TakesOf, At, Limit, PopEmpty, PopCasLost, bufVars
  <1>4. ownerRet' = "empty" /\ UNCHANGED <<pushed, thiefRet>>
    BY DEF PopEmpty, PopCasLost, thiefVars
  <1> QED BY <1>2, <1>3, <1>4 DEF WD!PopEmpty, Elems, TakesOf

(* steal() taking effect at its CAS: the oldest element leaves. *)
LEMMA StealCasWonRefines ==
    ASSUME IInv, IInv', NEW th \in Thieves, StealCasWon(th)
    PROVE  WD!Steal(th)
  <1> DEFINE n == Limit - top
  <1>1. /\ top \in Nat /\ Limit \in Int /\ top < Limit /\ top \in Window
        /\ top' = top + 1 /\ Limit' = Limit /\ bufLo' = bufLo /\ tt[th] = top
    <2>1. tt[th] = top /\ top' = top + 1 /\ bufLo' = bufLo /\ tpc[th] = "cas"
      BY DEF StealCasWon, bufVars
    <2>2. Limit' = Limit
      BY DEF StealCasWon, ownerVars, Limit
    <2>3. top \in Nat /\ bottom \in Int
      BY DEF IInv, TypeOK
    <2>4. Limit \in Int
      BY <2>3 DEF Limit
    <2>5. top < Limit
      BY <2>1 DEF IInv, ThiefInv
    <2>6. top \in Window
      BY <2>3, <2>4, <2>5 DEF Window
    <2> QED BY <2>1, <2>2, <2>3, <2>4, <2>5, <2>6
  <1>2. /\ Elems \in Seq(Items) /\ Len(Elems) = n /\ n \in Nat
        /\ \A k \in 1 .. n : Elems[k] = bufLo[Slot(top + k - 1)]
    BY ElemsSeq DEF Lo
  <1>3. Limit' - top' = n - 1 /\ n >= 1
    BY <1>1
  <1>4. /\ Elems' \in Seq(Items) /\ Len(Elems') = n - 1
        /\ \A k \in 1 .. n - 1 : Elems'[k] = bufLo[Slot(top + 1 + k - 1)]
    BY <1>1, <1>3, ElemsNext
  <1> HIDE DEF n
  <1>5. Elems # << >> /\ Head(Elems) = Lo(top)
    <2>1. Head(Elems) = Elems[1]
      BY <1>2, <1>3
    <2>2. top + 1 - 1 = top
      BY <1>1
    <2> QED BY <1>2, <1>3, <2>1, <2>2 DEF Lo
  <1>6. /\ Tail(Elems) \in Seq(Items) /\ Len(Tail(Elems)) = n - 1
        /\ \A k \in 1 .. n - 1 : Tail(Elems)[k] = Elems[k + 1]
    BY <1>2, <1>3, <1>5
  <1>7. Elems' = Tail(Elems)
    <2> DEFINE s == Elems'
               t == Tail(Elems)
    <2>1. \A k \in 1 .. n - 1 : t[k] = bufLo[Slot(top + (k + 1) - 1)]
      BY <1>2, <1>3, <1>6
    <2>2. \A k \in 1 .. n - 1 : s[k] = bufLo[Slot(top + 1 + k - 1)]
      BY <1>4
    <2>3. s \in Seq(Items) /\ t \in Seq(Items) /\ Len(s) = n - 1 /\ Len(t) = n - 1
      BY <1>4, <1>6
    <2> HIDE DEF s, t
    <2>4. \A k \in 1 .. n - 1 : top + (k + 1) - 1 = top + 1 + k - 1
      BY <1>1, <1>2
    <2>5. \A k \in 1 .. n - 1 : s[k] = t[k]
      BY <2>1, <2>2, <2>4
    <2>6. s = t
      BY <2>3, <2>5, SameSeq
    <2> QED BY <2>6 DEF s, t
  <1>8. Lo(top) \in Items
    BY <1>1, ElemsSeq
  <1>9. Deliver(Lo(top))
    <2>1. tlo[th] = Lo(top) /\ thi[th] = Hi(top) /\ Hi(top) = Lo(top)
      BY <1>1 DEF IInv, ThiefInv, WindowInv, StealCasWon
    <2> QED BY <2>1 DEF StealCasWon, Join
  <1>10. TakesOf' = [TakesOf EXCEPT ![Lo(top)] = TakesOf[Lo(top)] + 1]
    BY <1>8, <1>9, DeliverRefines
  <1>11. thiefRet' = [thiefRet EXCEPT ![th] = "success"] /\ UNCHANGED <<pushed, ownerRet>>
    BY DEF StealCasWon, ownerVars
  <1> QED BY <1>5, <1>7, <1>10, <1>11 DEF WD!Steal, WD!Deliver, Elems, TakesOf

(* steal() reports "empty" with at most one element there: the one that    *)
(* pop() has claimed by lowering bottom_.                                  *)
LEMMA StealEmptyRefines ==
    ASSUME IInv, IInv', NEW th \in Thieves, StealEmpty(th)
    PROVE  WD!StealEmpty(th)
  <1>1. Limit - top <= 1
    BY SMTT(20), CapacityAssumption DEF IInv, TypeOK, IndexInv, ThiefInv, Limit, StealEmpty
  <1>2. Len(Elems) <= 1
    BY <1>1, ElemsSeq
  <1>3. Elems' = Elems /\ TakesOf' = TakesOf
    BY DEF Elems, TakesOf, At, Limit, StealEmpty, bufVars, ownerVars
  <1>4. thiefRet' = [thiefRet EXCEPT ![th] = "empty"] /\ UNCHANGED <<pushed, ownerRet>>
    BY DEF StealEmpty, ownerVars
  <1> QED BY <1>2, <1>3, <1>4 DEF WD!StealEmpty, Elems, TakesOf

(* steal() giving up after a lost CAS. *)
LEMMA StealCasLostRefines ==
    ASSUME IInv, IInv', NEW th \in Thieves, StealCasLost(th)
    PROVE  WD!StealAbort(th)
  <1>1. Elems' = Elems /\ TakesOf' = TakesOf
    BY DEF Elems, TakesOf, At, Limit, StealCasLost, bufVars, ownerVars
  <1>2. thiefRet' = [thiefRet EXCEPT ![th] = "abort"] /\ UNCHANGED <<pushed, ownerRet>>
    BY DEF StealCasLost, ownerVars
  <1> QED BY <1>1, <1>2 DEF WD!StealAbort, Elems, TakesOf

(* The owner's steps that take no effect yet, or none any more: the check  *)
(* and the two half writes of push(), the claim, the look and the          *)
(* restoring of bottom_ of pop().                                          *)
LEMMA OwnerStutters ==
    ASSUME IInv, IInv',
           \/ \E v \in Items : PushCheck(v)
           \/ PushWriteLo \/ PushWriteHi \/ PopClaim \/ PopLast \/ PopRestore
    PROVE  UNCHANGED WD!vars
  <1>1. UNCHANGED <<top, takes, pushed, ownerRet, thiefRet>>
    BY DEF PushCheck, PushWriteLo, PushWriteHi, PopClaim, PopLast, PopRestore, thiefVars
  <1>2. Limit' = Limit /\ Window' = Window
    <2>1. CASE \E v \in Items : PushCheck(v)
      BY <2>1 DEF PushCheck, Limit, Window
    <2>2. CASE PushWriteLo \/ PushWriteHi \/ PopLast
      BY <2>2 DEF PushWriteLo, PushWriteHi, PopLast, Limit, Window
    <2>3. CASE PopClaim
      BY <2>3 DEF IInv, TypeOK, PopClaim, Limit, Window
    <2>4. CASE PopRestore
      BY <2>4 DEF IInv, TypeOK, IndexInv, Popping, PopRestore, Limit, Window
    <2> QED BY <2>1, <2>2, <2>3, <2>4
  <1>3. \A i \in Window : Lo(i)' = Lo(i)
    <2>1. CASE PushWriteLo
      <3>1. \A i \in Window : Slot(i) # Slot(bottom) /\ Slot(i) \in 0 .. Capacity - 1
        BY <2>1, PushMissesWindow DEF PushWriteLo, Pushing
      <3> QED BY <2>1, <3>1 DEF IInv, TypeOK, PushWriteLo, Lo
    <2>2. CASE ~PushWriteLo
      BY <2>2 DEF PushCheck, PushWriteHi, PopClaim, PopLast, PopRestore, bufVars, Lo
    <2> QED BY <2>1, <2>2
  <1>4. Elems' = Elems /\ TakesOf' = TakesOf
    BY <1>1, <1>2, <1>3, NothingMoves
  <1> QED BY <1>1, <1>4 DEF WD!vars, Elems, TakesOf

(* A thief's steps up to its CAS: loads of shared memory only. *)
LEMMA ThiefStutters ==
    ASSUME NEW th \in Thieves,
           StealTop(th) \/ StealBottom(th) \/ StealReadLo(th) \/ StealReadHi(th)
    PROVE  UNCHANGED WD!vars
  <1>1. Elems' = Elems /\ TakesOf' = TakesOf
    BY DEF Elems, TakesOf, At, Limit, StealTop, StealBottom, StealReadLo, StealReadHi, bufVars,
           ownerVars
  <1>2. UNCHANGED <<pushed, ownerRet, thiefRet>>
    BY DEF StealTop, StealBottom, StealReadLo, StealReadHi, ownerVars
  <1> QED BY <1>1, <1>2 DEF WD!vars, Elems, TakesOf

(* The fresh deque is the empty sequence. *)
LEMMA InitRefines == Init => WD!Init
  <1> SUFFICES ASSUME Init PROVE WD!Init
    OBVIOUS
  <1>1. IInv
    BY InitIInv
  <1>2. Limit - top = 0
    BY DEF Init, Limit
  <1>3. Elems = << >>
    BY <1>1, <1>2, ElemsSeq
  <1>4. TakesOf = [v \in Items |-> 0]
    BY DEF Init, TakesOf, Values
  <1> QED BY <1>3, <1>4 DEF Init, WD!Init, Elems, TakesOf

(* Every step of the ring buffer is one operation of WorkDeque or none. *)
LEMMA NextRefines == IInv /\ IInv' /\ [Next]_vars => [WD!Next]_(WD!vars)
  <1> SUFFICES ASSUME IInv, IInv', [Next]_vars PROVE WD!Next \/ UNCHANGED WD!vars
    OBVIOUS
  <1>1. CASE OwnerNext
    BY <1>1, PushFullRefines, PushPublishRefines, PopTakeRefines, PopCasWonRefines,
       PopEmptyRefines, OwnerStutters
    DEF OwnerNext, WD!Next
  <1>2. CASE \E th \in Thieves : ThiefNext(th)
    BY <1>2, StealCasWonRefines, StealEmptyRefines, StealCasLostRefines, ThiefStutters
    DEF ThiefNext, WD!Next
  <1>3. CASE UNCHANGED vars
    BY <1>3 DEF vars, WD!vars, At, Limit
  <1> QED BY <1>1, <1>2, <1>3 DEF Next

(* AbpDeque.hpp keeps the promise of WorkDeque: whatever the owner and any *)
(* number of thieves interleave, the callers see a bounded sequence whose  *)
(* push(), pop() and steal() take effect one at a time - in one step each, *)
(* between call and return - and in which "full" and "empty" are reported  *)
(* only when they are true of that sequence (steal(): when no second       *)
(* element is there).                                                      *)
THEOREM DequeRefinement == Spec => ImplementsWorkDeque
  BY Invariance, InitRefines, NextRefines, PTL DEF Spec, ImplementsWorkDeque, WD!Spec

=============================================================================
