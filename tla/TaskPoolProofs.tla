---------------------------- MODULE TaskPoolProofs -----------------------------
(***************************************************************************)
(* Theorems about TaskPool for every number of threads, shards and pools,  *)
(* and every capacity: no slot is lost or handed out twice, no flush goes  *)
(* into a dead pool, and acquire() fails truthfully when left alone.       *)
(*                                                                         *)
(* The inductive invariant:                                                *)
(*   TypeInv     the ranges                                                *)
(*   PlaceInv    what a thread's place in the code says of its locals      *)
(*   CacheInv    a cache names a pool that has caches, and fits its array  *)
(*   FlushInv    who is flushing has the registry locked, and its pool in  *)
(*   RepeatInv   no list and no cache has a slot twice                     *)
(*   PoolOk      what a pool's lists, caches and clients have is its own   *)
(*               (Within), no two of them have the same slot (Apart), and  *)
(*               a pool that can be used has lost none (Covers)            *)
(*   QuietInv    the shards a search has passed are empty, if left alone   *)
(***************************************************************************)
EXTENDS TaskPool, FiniteSetTheorems, TLAPS

Places0 == {"idle", "exited", "cache", "push", "search", "none", "flush", "flushShard",
            "put", "pop", "refill", "spill"}

CacheType == [id : 0 .. MaxPools, pool : Addresses \cup {NoAddress}, slots : Seq(Nat)]

TypeInv ==
    /\ created \in 0 .. MaxPools
    /\ address \in [Ids -> Addresses \cup {NoAddress}]
    /\ capacity \in [Ids -> Nat]
    /\ alive \subseteq 1 .. created /\ registry \subseteq alive
    /\ regMutex \in Threads \cup {Nobody}
    /\ freeList \in [Ids -> [Shards -> Seq(Nat)]]
    /\ held \in [Ids -> SUBSET Nat]
    /\ cache \in [Threads -> CacheType]
    /\ pc \in [Threads -> Places0]
    /\ call \in [Threads -> {"none", "acquire", "release", "exit"}]
    /\ cur \in [Threads -> 0 .. MaxPools]
    /\ slot \in [Threads -> Nat]
    /\ offset \in [Threads -> 0 .. ShardCount]
    /\ quiet \in [Threads -> BOOLEAN]
    /\ \A p \in Ids : p > created => capacity[p] = 0

(* Where a thread is in a call on a pool with caches, and bound to it. *)
Bound == {"put", "pop", "refill", "spill"}

PlaceOk(t) ==
    /\ cur[t] \in 0 .. created
    /\ pc[t] = "idle" => call[t] = "none" /\ cur[t] = 0 /\ offset[t] = 0
    /\ pc[t] = "exited" => call[t] = "exit"
    /\ call[t] = "exit" => cur[t] = 0 /\ pc[t] \in {"flush", "flushShard", "exited"}
    /\ call[t] = "none" => pc[t] = "idle"
    /\ call[t] \in {"acquire", "release"} => cur[t] # 0
    /\ pc[t] \in {"search", "pop", "refill", "none"} => call[t] = "acquire"
    /\ pc[t] \in {"push", "put", "spill"} => call[t] = "release"
    /\ pc[t] \in {"search", "refill"} => offset[t] < ShardCount
    /\ pc[t] \in {"cache", "flush", "flushShard", "pop"} => offset[t] < ShardCount
    /\ pc[t] = "none" => offset[t] = ShardCount
    /\ call[t] \in {"acquire", "release"} /\ pc[t] \in Bound \cup {"cache", "flush", "flushShard"}
        => Batch(cur[t]) # 0

PlaceInv == \A t \in Threads : PlaceOk(t)

CacheOk(t) ==
    LET c == cache[t] IN
    /\ c.id \in 0 .. created
    /\ c.id = 0 => c.slots = << >>
    /\ c.id # 0 => Batch(c.id) # 0 /\ Len(c.slots) <= 2 * Batch(c.id)
    /\ pc[t] \in Bound => c.id = cur[t]
    /\ pc[t] = "refill" => c.slots = << >>
    /\ pc[t] = "spill" => Len(c.slots) = 2 * Batch(c.id)

CacheInv == \A t \in Threads : CacheOk(t)

FlushInv ==
    \A t \in Threads : pc[t] = "flushShard" => regMutex = t /\ cache[t].id \in registry

-----------------------------------------------------------------------------
(* The boxes of a pool: whatever may have a slot of it. *)
NoRepeat(q) == \A i, j \in 1 .. Len(q) : q[i] = q[j] => i = j

Boxes == ({"list"} \X Shards) \cup ({"cache", "hand"} \X Threads) \cup {<<"held", 0>>}

CacheBox(p, t) == IF cache[t].id = p THEN ToSet(cache[t].slots) ELSE {}
HandBox(p, t) == IF call[t] = "release" /\ cur[t] = p THEN {slot[t]} ELSE {}

Box(p, b) ==
    IF b[1] = "list" THEN ToSet(freeList[p][b[2]])
    ELSE IF b[1] = "cache" THEN CacheBox(p, b[2])
    ELSE IF b[1] = "hand" THEN HandBox(p, b[2])
    ELSE held[p]

RepeatInv ==
    /\ \A p \in Ids, s \in Shards : NoRepeat(freeList[p][s])
    /\ \A t \in Threads : NoRepeat(cache[t].slots)

Within(p) == \A b \in Boxes : Box(p, b) \subseteq Slots(p)
Apart(p) == \A a, b \in Boxes : a # b => Box(p, a) \cap Box(p, b) = {}
Covers(p) == \A i \in Slots(p) : \E b \in Boxes : i \in Box(p, b)

PoolOk(p) == Within(p) /\ Apart(p) /\ (Usable(p) => Covers(p))

BoxInv == RepeatInv /\ \A p \in Ids : PoolOk(p)

QuietInv ==
    \A t \in Threads :
        call[t] = "acquire" /\ quiet[t] =>
            \A j \in 0 .. offset[t] - 1 : freeList[cur[t]][(Home(t) + j) % ShardCount] = << >>

StepInv == TypeInv /\ PlaceInv /\ CacheInv /\ FlushInv
IInv == StepInv /\ BoxInv /\ QuietInv

-----------------------------------------------------------------------------
(* Lists and caches: what the operations on them do to the slots in them. *)

(* push_back *)
LEMMA AppendFacts ==
    ASSUME NEW q \in Seq(Nat), NEW i \in Nat
    PROVE  /\ Append(q, i) \in Seq(Nat) /\ Len(Append(q, i)) = Len(q) + 1
           /\ ToSet(Append(q, i)) = ToSet(q) \cup {i}
           /\ NoRepeat(q) /\ i \notin ToSet(q) => NoRepeat(Append(q, i))
  <1> DEFINE r == Append(q, i)
             n == Len(q)
  <1>1. /\ r \in Seq(Nat) /\ Len(r) = n + 1 /\ n \in Nat
        /\ \A k \in 1 .. n : r[k] = q[k]
        /\ r[n + 1] = i
        /\ DOMAIN q = 1 .. n /\ DOMAIN r = 1 .. n + 1
    OBVIOUS
  <1> HIDE DEF r
  <1>2. ToSet(r) = ToSet(q) \cup {i}
    BY <1>1 DEF ToSet
  <1>3. NoRepeat(q) /\ i \notin ToSet(q) => NoRepeat(r)
    <2>1. i \notin ToSet(q) => \A k \in 1 .. n : q[k] # i
      BY <1>1 DEF ToSet
    <2>2. \A k \in 1 .. n + 1 : k \in 1 .. n \/ k = n + 1
      BY <1>1, SMT
    <2> QED BY <1>1, <2>1, <2>2 DEF NoRepeat
  <1> QED BY <1>1, <1>2, <1>3 DEF r

(* A list cut in two. *)
LEMMA SplitFacts ==
    ASSUME NEW q \in Seq(Nat), NEW n \in 0 .. Len(q)
    PROVE  LET a == SubSeq(q, 1, n)
               b == SubSeq(q, n + 1, Len(q))
           IN  /\ a \in Seq(Nat) /\ Len(a) = n /\ b \in Seq(Nat) /\ Len(b) = Len(q) - n
               /\ ToSet(q) = ToSet(a) \cup ToSet(b)
               /\ NoRepeat(q) => ToSet(a) \cap ToSet(b) = {} /\ NoRepeat(a) /\ NoRepeat(b)
  <1> DEFINE a == SubSeq(q, 1, n)
             b == SubSeq(q, n + 1, Len(q))
             m == Len(q)
  <1>1. m \in Nat /\ n \in Nat /\ n <= m /\ m - n \in Nat /\ DOMAIN q = 1 .. m
    OBVIOUS
  <1>2. /\ a \in Seq(Nat) /\ Len(a) = n /\ DOMAIN a = 1 .. n
        /\ \A k \in 1 .. n : a[k] = q[k]
    OBVIOUS
  <1>3. /\ b \in Seq(Nat) /\ Len(b) = m - n /\ DOMAIN b = 1 .. m - n
        /\ \A k \in 1 .. m - n : b[k] = q[n + k]
    OBVIOUS
  <1> HIDE DEF a, b, m
  <1>4. \A k \in 1 .. m : k \in 1 .. n \/ (k - n \in 1 .. m - n /\ n + (k - n) = k)
    BY <1>1
  <1>5. (\A k \in 1 .. n : k \in 1 .. m) /\ (\A k \in 1 .. m - n : n + k \in 1 .. m /\ n + k \notin 1 .. n)
    BY <1>1
  <1>6. ToSet(q) = ToSet(a) \cup ToSet(b)
    <2>1. ASSUME NEW x \in ToSet(q) PROVE x \in ToSet(a) \cup ToSet(b)
      <3>1. PICK k \in 1 .. m : x = q[k]
        BY <1>1 DEF ToSet
      <3>2. CASE k \in 1 .. n
        BY <1>2, <3>1, <3>2 DEF ToSet
      <3>3. CASE k - n \in 1 .. m - n /\ n + (k - n) = k
        <4>1. b[k - n] = x
          BY <1>3, <3>1, <3>3
        <4> QED BY <1>3, <3>3, <4>1 DEF ToSet
      <3> QED BY <1>4, <3>2, <3>3
    <2>2. \A x \in ToSet(a) \cup ToSet(b) : x \in ToSet(q)
      BY <1>1, <1>2, <1>3, <1>5 DEF ToSet
    <2> QED BY <2>1, <2>2
  <1>7. ASSUME NoRepeat(q) PROVE ToSet(a) \cap ToSet(b) = {} /\ NoRepeat(a) /\ NoRepeat(b)
    <2>1. \A i, j \in 1 .. m : q[i] = q[j] => i = j
      BY <1>7 DEF NoRepeat, m
    <2>2. NoRepeat(a)
      BY <1>2, <1>5, <2>1 DEF NoRepeat
    <2>3. NoRepeat(b)
      <3> SUFFICES ASSUME NEW i \in 1 .. m - n, NEW j \in 1 .. m - n, b[i] = b[j] PROVE i = j
        BY <1>3 DEF NoRepeat
      <3>1. n + i = n + j
        BY <1>3, <1>5, <2>1
      <3> QED BY <1>1, <3>1
    <2>4. ASSUME NEW i \in 1 .. n, NEW j \in 1 .. m - n, a[i] = b[j] PROVE FALSE
      <3>1. q[i] = q[n + j]
        BY <1>2, <1>3, <2>4
      <3>2. i = n + j
        BY <1>5, <2>1, <3>1
      <3> QED BY <1>5, <3>2
    <2> QED BY <1>2, <1>3, <2>2, <2>3, <2>4 DEF ToSet
  <1> QED BY <1>2, <1>3, <1>6, <1>7 DEF a, b, m

(* pop_back *)
LEMMA FrontFacts ==
    ASSUME NEW q \in Seq(Nat), q # << >>
    PROVE  /\ Front(q) \in Seq(Nat) /\ Len(Front(q)) = Len(q) - 1 /\ Last(q) \in Nat
           /\ Last(q) \in ToSet(q)
           /\ NoRepeat(q) => ToSet(Front(q)) = ToSet(q) \ {Last(q)} /\ NoRepeat(Front(q))
  <1> DEFINE n == Len(q) - 1
             b == SubSeq(q, n + 1, Len(q))
  <1>1. n \in 0 .. Len(q) /\ n + 1 = Len(q) /\ Len(q) \in 1 .. Len(q) /\ DOMAIN q = 1 .. Len(q)
    OBVIOUS
  <1>2. Last(q) \in Nat /\ Last(q) \in ToSet(q)
    BY <1>1 DEF Last, ToSet
  <1>3. Front(q) = SubSeq(q, 1, n)
    BY DEF Front
  <1>4. ToSet(b) = {Last(q)}
    <2>1. b = SubSeq(q, Len(q), Len(q))
      BY <1>1
    <2>2. Len(b) = 1 /\ b[1] = q[Len(q)] /\ DOMAIN b = {1}
      BY <1>1, <2>1
    <2> QED BY <2>2 DEF Last, ToSet
  <1> HIDE DEF n, b
  <1>5. /\ SubSeq(q, 1, n) \in Seq(Nat) /\ Len(SubSeq(q, 1, n)) = n
        /\ ToSet(q) = ToSet(SubSeq(q, 1, n)) \cup ToSet(b)
        /\ NoRepeat(q) => ToSet(SubSeq(q, 1, n)) \cap ToSet(b) = {} /\ NoRepeat(SubSeq(q, 1, n))
    BY <1>1, SplitFacts DEF b
  <1> QED BY <1>1, <1>2, <1>3, <1>4, <1>5

(* One list after another. *)
LEMMA ConcatFacts ==
    ASSUME NEW q \in Seq(Nat), NEW r \in Seq(Nat)
    PROVE  /\ q \o r \in Seq(Nat) /\ Len(q \o r) = Len(q) + Len(r)
           /\ ToSet(q \o r) = ToSet(q) \cup ToSet(r)
           /\ NoRepeat(q) /\ NoRepeat(r) /\ ToSet(q) \cap ToSet(r) = {} => NoRepeat(q \o r)
  <1> DEFINE c == q \o r
             n == Len(q)
             m == Len(r)
  <1>1. /\ c \in Seq(Nat) /\ Len(c) = n + m /\ n \in Nat /\ m \in Nat
        /\ DOMAIN c = 1 .. n + m /\ DOMAIN q = 1 .. n /\ DOMAIN r = 1 .. m
        /\ \A k \in 1 .. n : c[k] = q[k]
        /\ \A k \in 1 .. m : c[n + k] = r[k]
    OBVIOUS
  <1> HIDE DEF c
  <1>2. \A k \in 1 .. n + m : k \in 1 .. n \/ (k - n \in 1 .. m /\ n + (k - n) = k)
    BY <1>1
  <1>3. \A k \in 1 .. m : n + k \in 1 .. n + m
    BY <1>1
  <1>4. ToSet(c) = ToSet(q) \cup ToSet(r)
    <2>1. ASSUME NEW x \in ToSet(c) PROVE x \in ToSet(q) \cup ToSet(r)
      <3>1. PICK k \in 1 .. n + m : x = c[k]
        BY <1>1 DEF ToSet
      <3>2. CASE k \in 1 .. n
        BY <1>1, <3>1, <3>2 DEF ToSet
      <3>3. CASE k - n \in 1 .. m /\ n + (k - n) = k
        <4>1. r[k - n] = x
          BY <1>1, <3>1, <3>3
        <4> QED BY <1>1, <3>3, <4>1 DEF ToSet
      <3> QED BY <1>2, <3>2, <3>3
    <2>2. ASSUME NEW x \in ToSet(q) \cup ToSet(r) PROVE x \in ToSet(c)
      <3>1. ASSUME NEW k \in 1 .. n, x = q[k] PROVE x \in ToSet(c)
        <4>1. k \in 1 .. n + m /\ c[k] = x
          BY <1>1, <3>1
        <4> QED BY <1>1, <4>1 DEF ToSet
      <3>2. ASSUME NEW k \in 1 .. m, x = r[k] PROVE x \in ToSet(c)
        <4>1. n + k \in 1 .. n + m /\ c[n + k] = x
          BY <1>1, <1>3, <3>2
        <4> QED BY <1>1, <4>1 DEF ToSet
      <3> QED BY <1>1, <3>1, <3>2 DEF ToSet
    <2> QED BY <2>1, <2>2
  <1>5. ASSUME NoRepeat(q), NoRepeat(r), ToSet(q) \cap ToSet(r) = {} PROVE NoRepeat(c)
    <2>0. \A i \in 1 .. n, j \in 1 .. m : q[i] # r[j]
      <3>1. \A i \in 1 .. n : q[i] \in ToSet(q)
        BY <1>1 DEF ToSet
      <3>2. \A j \in 1 .. m : r[j] \in ToSet(r)
        BY <1>1 DEF ToSet
      <3> QED BY <1>5, <3>1, <3>2
    <2>1. /\ \A i, j \in 1 .. n : q[i] = q[j] => i = j
          /\ \A i, j \in 1 .. m : r[i] = r[j] => i = j
      BY <1>5 DEF NoRepeat
    <2> SUFFICES ASSUME NEW i \in 1 .. n + m, NEW j \in 1 .. n + m, c[i] = c[j] PROVE i = j
      BY <1>1 DEF NoRepeat
    <2>2. CASE i \in 1 .. n /\ j \in 1 .. n
      BY <1>1, <2>1, <2>2
    <2>3. CASE i \in 1 .. n /\ j \notin 1 .. n
      <3>1. j - n \in 1 .. m /\ c[j] = r[j - n]
        BY <1>1, <1>2, <2>3
      <3> QED BY <1>1, <2>0, <2>3, <3>1
    <2>4. CASE i \notin 1 .. n /\ j \in 1 .. n
      <3>1. i - n \in 1 .. m /\ c[i] = r[i - n]
        BY <1>1, <1>2, <2>4
      <3> QED BY <1>1, <2>0, <2>4, <3>1
    <2>5. CASE i \notin 1 .. n /\ j \notin 1 .. n
      <3>1. i - n \in 1 .. m /\ j - n \in 1 .. m /\ r[i - n] = r[j - n]
        BY <1>1, <1>2, <2>5
      <3>2. i - n = j - n
        BY <2>1, <3>1
      <3> QED BY <1>1, <3>2
    <2> QED BY <2>2, <2>3, <2>4, <2>5
  <1> QED BY <1>1, <1>4, <1>5 DEF c

(* A list turned round, as a refill puts it into the cache. *)
LEMMA ReverseFacts ==
    ASSUME NEW q \in Seq(Nat)
    PROVE  /\ Reverse(q) \in Seq(Nat) /\ Len(Reverse(q)) = Len(q)
           /\ ToSet(Reverse(q)) = ToSet(q)
           /\ NoRepeat(q) => NoRepeat(Reverse(q))
  <1> DEFINE n == Len(q)
             r == Reverse(q)
  <1>1. n \in Nat /\ DOMAIN q = 1 .. n /\ \A k \in 1 .. n : (n - k) + 1 \in 1 .. n /\ (n - ((n - k) + 1)) + 1 = k
    OBVIOUS
  <1>2. /\ r \in Seq(Nat) /\ Len(r) = n /\ DOMAIN r = 1 .. n
        /\ \A k \in 1 .. n : r[k] = q[(n - k) + 1]
    BY <1>1 DEF Reverse
  <1> HIDE DEF r, n
  <1>3. ToSet(r) = ToSet(q)
    <2>1. ASSUME NEW x \in ToSet(r) PROVE x \in ToSet(q)
      <3>1. PICK k \in 1 .. n : x = r[k]
        BY <1>2, <2>1 DEF ToSet
      <3>2. (n - k) + 1 \in 1 .. n /\ q[(n - k) + 1] = x
        BY <1>1, <1>2, <3>1
      <3> QED BY <1>1, <3>2 DEF ToSet
    <2>2. ASSUME NEW x \in ToSet(q) PROVE x \in ToSet(r)
      <3>1. PICK k \in 1 .. n : x = q[k]
        BY <1>1, <2>2 DEF ToSet
      <3>2. (n - k) + 1 \in 1 .. n /\ r[(n - k) + 1] = x
        BY <1>1, <1>2, <3>1
      <3> QED BY <1>2, <3>2 DEF ToSet
    <2> QED BY <2>1, <2>2
  <1>4. ASSUME NoRepeat(q) PROVE NoRepeat(r)
    <2> SUFFICES ASSUME NEW i \in 1 .. n, NEW j \in 1 .. n, r[i] = r[j] PROVE i = j
      BY <1>2 DEF NoRepeat
    <2>1. (n - i) + 1 = (n - j) + 1
      BY <1>1, <1>2, <1>4 DEF NoRepeat, n
    <2> QED BY <1>1, <2>1
  <1> QED BY <1>2, <1>3, <1>4 DEF n, r

(* The empty list has nothing. *)
LEMMA EmptyFacts ==
    /\ << >> \in Seq(Nat) /\ Len(<< >>) = 0 /\ ToSet(<< >>) = {} /\ NoRepeat(<< >>)
    /\ \A q \in Seq(Nat) : Len(q) \in Nat /\ (Len(q) = 0 <=> q = << >>)
  BY DEF ToSet, NoRepeat

(* std::min *)
LEMMA MinFacts ==
    ASSUME NEW a \in Nat, NEW b \in Nat
    PROVE  Min({a, b}) = IF a <= b THEN a ELSE b
  <1> DEFINE x == IF a <= b THEN a ELSE b
  <1>1. x \in {a, b} /\ \A y \in {a, b} : x <= y
    OBVIOUS
  <1>2. \A z \in {a, b} : (\A y \in {a, b} : z <= y) => z = x
    OBVIOUS
  <1> QED BY <1>1, <1>2 DEF Min

-----------------------------------------------------------------------------
(* Round-robin *)

(* Division by the number of shards. *)
LEMMA ShardDivision ==
    ASSUME NEW i \in Nat
    PROVE  /\ i \div ShardCount \in Nat /\ i % ShardCount \in Shards
           /\ i = ShardCount * (i \div ShardCount) + (i % ShardCount)
  <1>1. ShardCount \in Nat \ {0}
    BY PoolAssumption
  <1>2. i % ShardCount \in 0 .. ShardCount - 1
    BY <1>1, Z3T(30)
  <1>3. i = ShardCount * (i \div ShardCount) + (i % ShardCount)
    BY <1>1, Z3T(30)
  <1>4. i \div ShardCount \in Nat
    BY <1>1, Z3T(30)
  <1> QED BY <1>2, <1>3, <1>4 DEF Shards

(* Multiples of it grow with the factor, and are at least that far apart. *)
LEMMA MultiplesGrow ==
    ASSUME NEW a \in Int, NEW b \in Int, a < b
    PROVE  ShardCount * a + ShardCount <= ShardCount * b
  <1>1. ShardCount \in Nat /\ b - a >= 1
    BY PoolAssumption
  <1>2. ShardCount * (b - a) >= ShardCount
    BY <1>1
  <1> QED BY <1>1, <1>2

(* A slot has one shard and one place in its deal. *)
LEMMA MultiplesApart ==
    ASSUME NEW a \in Int, NEW b \in Int, NEW r \in Shards, NEW s \in Shards,
           r + a * ShardCount = s + b * ShardCount
    PROVE  r = s /\ a = b
  <1>1. /\ ShardCount \in Nat \ {0} /\ r \in 0 .. ShardCount - 1 /\ s \in 0 .. ShardCount - 1
        /\ a * ShardCount = ShardCount * a /\ b * ShardCount = ShardCount * b
        /\ ShardCount * a \in Int /\ ShardCount * b \in Int
    BY PoolAssumption DEF Shards
  <1>2. CASE a < b
    BY <1>1, <1>2, MultiplesGrow
  <1>3. CASE b < a
    BY <1>1, <1>3, MultiplesGrow
  <1>4. CASE a = b
    BY <1>1, <1>4
  <1> QED BY <1>2, <1>3, <1>4

(* The constructor deals each slot of the pool once, into one shard. *)
LEMMA DealFacts ==
    ASSUME NEW c \in Nat
    PROVE  /\ \A s \in Shards : /\ Deal(c, s) \in Seq(Nat) /\ NoRepeat(Deal(c, s))
                                /\ ToSet(Deal(c, s)) \subseteq 0 .. c - 1
           /\ \A r, s \in Shards : r # s => ToSet(Deal(c, r)) \cap ToSet(Deal(c, s)) = {}
           /\ \A i \in 0 .. c - 1 : \E s \in Shards : i \in ToSet(Deal(c, s))
  <1> DEFINE N(s) == (c + ShardCount - 1 - s) \div ShardCount
  <1>1. ASSUME NEW s \in Shards
        PROVE  /\ N(s) \in Nat
               /\ ShardCount * N(s) <= c + ShardCount - 1 - s
               /\ c - 1 - s < ShardCount * N(s)
    <2>1. c + ShardCount - 1 - s \in Nat /\ ShardCount \in Nat \ {0}
      BY PoolAssumption DEF Shards
    <2>2. /\ N(s) \in Nat
          /\ (c + ShardCount - 1 - s) % ShardCount \in Shards
          /\ c + ShardCount - 1 - s = ShardCount * N(s) + ((c + ShardCount - 1 - s) % ShardCount)
      BY <2>1, ShardDivision
    <2>3. ShardCount * N(s) \in Int
      BY <2>1, <2>2
    <2> DEFINE m == ShardCount * N(s)
               r == (c + ShardCount - 1 - s) % ShardCount
    <2>4. c + ShardCount - 1 - s = m + r /\ m \in Int /\ r \in 0 .. ShardCount - 1 /\ ShardCount \in Nat /\ s \in Nat
      BY <2>1, <2>2, <2>3 DEF Shards
    <2> HIDE DEF m, r
    <2>5. m <= c + ShardCount - 1 - s /\ c - 1 - s < m
      BY <2>4
    <2> QED BY <2>2, <2>5 DEF m
  <1>2. \A s \in Shards : Deal(c, s) = [k \in 1 .. N(s) |-> s + (N(s) - k) * ShardCount]
    BY DEF Deal
  <1> HIDE DEF N
  <1>3. ASSUME NEW s \in Shards, NEW k \in 1 .. N(s)
        PROVE  s + (N(s) - k) * ShardCount \in 0 .. c - 1
    <2>1. N(s) \in Nat /\ N(s) - k \in Nat /\ N(s) - k < N(s) /\ ShardCount \in Nat /\ s \in Nat
      BY <1>1, PoolAssumption DEF Shards
    <2>2. ShardCount * (N(s) - k) + ShardCount <= ShardCount * N(s)
      BY <2>1, MultiplesGrow
    <2>3. ShardCount * (N(s) - k) \in Nat /\ (N(s) - k) * ShardCount = ShardCount * (N(s) - k)
      BY <2>1
    <2>4. ShardCount * N(s) \in Nat
      BY <2>1
    <2> QED BY <1>1, <2>1, <2>2, <2>3, <2>4
  <1>4. ASSUME NEW s \in Shards
        PROVE  Deal(c, s) \in Seq(Nat) /\ NoRepeat(Deal(c, s)) /\ ToSet(Deal(c, s)) \subseteq 0 .. c - 1
    <2> DEFINE q == [k \in 1 .. N(s) |-> s + (N(s) - k) * ShardCount]
    <2>1. N(s) \in Nat /\ Deal(c, s) = q
      BY <1>1, <1>2
    <2>2. \A k \in 1 .. N(s) : q[k] \in 0 .. c - 1 /\ q[k] = s + (N(s) - k) * ShardCount
      BY <1>3
    <2>3. DOMAIN q = 1 .. N(s)
      OBVIOUS
    <2>4. q \in Seq(Nat) /\ Len(q) = N(s)
      <3>1. q \in [1 .. N(s) -> Nat]
        BY <2>2
      <3> HIDE DEF q
      <3> QED BY <2>1, <2>3, <3>1
    <2> HIDE DEF q
    <2>5. ASSUME NEW i \in 1 .. N(s), NEW j \in 1 .. N(s), q[i] = q[j] PROVE i = j
      <3>1. s + (N(s) - i) * ShardCount = s + (N(s) - j) * ShardCount
        BY <2>2, <2>5
      <3>2. N(s) - i = N(s) - j
        BY <2>1, <3>1, MultiplesApart
      <3> QED BY <2>1, <3>2
    <2> QED BY <2>1, <2>2, <2>3, <2>4, <2>5 DEF NoRepeat, ToSet
  <1>5. ASSUME NEW r \in Shards, NEW s \in Shards, NEW x \in ToSet(Deal(c, r)) \cap ToSet(Deal(c, s))
        PROVE  r = s
    <2>1. PICK i \in 1 .. N(r) : x = r + (N(r) - i) * ShardCount
      BY <1>2, <1>5 DEF ToSet
    <2>2. PICK j \in 1 .. N(s) : x = s + (N(s) - j) * ShardCount
      BY <1>2, <1>5 DEF ToSet
    <2>3. N(r) - i \in Int /\ N(s) - j \in Int
      BY <1>1
    <2> QED BY <2>1, <2>2, <2>3, MultiplesApart
  <1>6. ASSUME NEW i \in 0 .. c - 1 PROVE \E u \in Shards : i \in ToSet(Deal(c, u))
    <2> DEFINE s == i % ShardCount
               j == i \div ShardCount
    <2>1. i \in Nat /\ j \in Nat /\ s \in Shards /\ i = ShardCount * j + s
      BY ShardDivision DEF s, j
    <2> HIDE DEF s, j
    <2>2. N(s) \in Nat /\ c - 1 - s < ShardCount * N(s) /\ s \in Nat /\ ShardCount \in Nat
      BY <1>1, <2>1, PoolAssumption DEF Shards
    <2>3. j < N(s)
      <3> SUFFICES ASSUME N(s) <= j PROVE FALSE
        BY <2>1, <2>2
      <3>1. CASE N(s) = j
        BY <2>1, <2>2, <3>1
      <3>2. CASE N(s) < j
        <4>1. ShardCount * N(s) + ShardCount <= ShardCount * j
          BY <2>1, <2>2, <3>2, MultiplesGrow
        <4>2. ShardCount * N(s) \in Nat /\ ShardCount * j \in Nat
          BY <2>1, <2>2
        <4> QED BY <2>1, <2>2, <4>1, <4>2
      <3> QED BY <2>1, <2>2, <3>1, <3>2
    <2>4. N(s) - j \in 1 .. N(s) /\ N(s) - (N(s) - j) = j
      BY <2>1, <2>2, <2>3
    <2>5. j * ShardCount = ShardCount * j /\ j * ShardCount \in Nat
      BY <2>1, <2>2
    <2>6. Deal(c, s)[N(s) - j] = i /\ N(s) - j \in DOMAIN Deal(c, s)
      <3>1. Deal(c, s)[N(s) - j] = s + j * ShardCount /\ N(s) - j \in DOMAIN Deal(c, s)
        BY <1>2, <2>1, <2>4
      <3> QED BY <2>1, <2>2, <2>5, <3>1
    <2> QED BY <2>1, <2>6 DEF ToSet
  <1> QED BY <1>4, <1>5, <1>6

(* A search that starts at home and takes every offset sees every shard. *)
LEMMA SearchSeesAll ==
    ASSUME NEW h \in Shards, NEW s \in Shards
    PROVE  \E j \in 0 .. ShardCount - 1 : (h + j) % ShardCount = s
  <1>1. ASSUME NEW i \in Nat, NEW r \in Shards, i = r \/ i = r + ShardCount PROVE i % ShardCount = r
    <2>1. i \div ShardCount \in Nat /\ i % ShardCount \in Shards
          /\ i = ShardCount * (i \div ShardCount) + (i % ShardCount)
      BY ShardDivision
    <2>2. /\ ShardCount * (i \div ShardCount) = (i \div ShardCount) * ShardCount
          /\ ShardCount \in Nat /\ r \in Nat /\ i % ShardCount \in Nat
          /\ (i \div ShardCount) * ShardCount \in Nat
      BY <2>1, PoolAssumption DEF Shards
    <2>3. CASE i = r
      <3>1. r + 0 * ShardCount = (i % ShardCount) + (i \div ShardCount) * ShardCount
        BY <2>1, <2>2, <2>3
      <3> QED BY <2>1, <3>1, MultiplesApart
    <2>4. CASE i = r + ShardCount
      <3>1. r + 1 * ShardCount = (i % ShardCount) + (i \div ShardCount) * ShardCount
        BY <2>1, <2>2, <2>4
      <3> QED BY <2>1, <3>1, MultiplesApart
    <2> QED BY <1>1, <2>3, <2>4
  <1>2. CASE h <= s
    <2>1. s - h \in 0 .. ShardCount - 1 /\ h + (s - h) = s /\ s \in Nat
      BY <1>2, PoolAssumption DEF Shards
    <2>2. (h + (s - h)) % ShardCount = s
      BY <1>1, <2>1
    <2> QED BY <2>1, <2>2
  <1>3. CASE s < h
    <2>1. s + ShardCount - h \in 0 .. ShardCount - 1 /\ h + (s + ShardCount - h) = s + ShardCount
          /\ s + ShardCount \in Nat
      BY <1>3, PoolAssumption DEF Shards
    <2>2. (h + (s + ShardCount - h)) % ShardCount = s
      BY <1>1, <2>1
    <2> QED BY <2>1, <2>2
  <1> QED BY <1>2, <1>3, PoolAssumption DEF Shards

(* The shard a thread starts at and the one it has come to exist. *)
LEMMA ShardFacts ==
    ASSUME TypeInv, NEW t \in Threads
    PROVE  Home(t) \in Shards /\ Shard(t) \in Shards
  <1>1. t \in Nat /\ offset[t] \in Nat
    BY PoolAssumption DEF TypeInv, Threads
  <1>2. Home(t) \in Shards
    BY <1>1, ShardDivision DEF Home
  <1>3. Home(t) + offset[t] \in Nat
    BY <1>1, <1>2, PoolAssumption DEF Shards
  <1> QED BY <1>2, <1>3, ShardDivision DEF Shard

-----------------------------------------------------------------------------
(* The ranges *)

(* A batch is a number of slots. *)
LEMMA BatchFacts ==
    ASSUME NEW c \in Nat
    PROVE  BatchOf(c) \in Nat
  <1>1. c \div CacheShare \in Nat /\ MaxBatch \in Nat
    BY PoolAssumption, SMT
  <1>2. Min({MaxBatch, c \div CacheShare}) \in Nat
    BY <1>1, MinFacts
  <1> QED
    BY <1>2, SMT DEF BatchOf

(* refill_cache() takes no more than the shard has. *)
LEMMA RefillFacts ==
    ASSUME NEW q \in Seq(Nat), NEW b \in Nat
    PROVE  LET n == Min({Len(q), b})
           IN  n \in 0 .. Len(q) /\ n <= b /\ Len(q) - n \in 0 .. Len(q) /\ (b # 0 /\ n = 0 => q = << >>)
  <1>1. Len(q) \in Nat /\ (Len(q) = 0 => q = << >>)
    BY EmptyFacts
  <1> QED
    BY <1>1, MinFacts, SMT

(* The history variable stays a truth value. *)
LEMMA ObserveType ==
    ASSUME TypeInv, Observe
    PROVE  quiet' \in [Threads -> BOOLEAN]
  BY DEF TypeInv, Observe

(* A thread in a call is in a call on a pool. *)
LEMMA CallFacts ==
    ASSUME TypeInv, PlaceInv, NEW t \in Threads
    PROVE  /\ cur[t] \in Nat /\ cur[t] <= created
           /\ call[t] \in {"acquire", "release"} =>
                cur[t] \in Ids /\ cur[t] # 0 /\ cur[t] \in 1 .. created
           /\ cur[t] \notin Ids => cur[t] = 0
           /\ cache[t].id \in 0 .. MaxPools /\ cache[t].slots \in Seq(Nat)
           /\ cache[t].pool \in Addresses \cup {NoAddress}
  <1>1. cur[t] \in 0 .. MaxPools /\ MaxPools \in Nat /\ cur[t] \in 0 .. created /\ created \in 0 .. MaxPools
    BY PoolAssumption DEF TypeInv, PlaceInv, PlaceOk
  <1>2. call[t] \in {"acquire", "release"} => cur[t] # 0
    BY DEF PlaceInv, PlaceOk
  <1>3. cache[t] \in CacheType
    BY DEF TypeInv
  <1> QED
    BY <1>1, <1>2, <1>3, SMT DEF Ids, CacheType

(* One shard's list changes, or one pool's held slots. *)
LEMMA ListChange ==
    ASSUME TypeInv, NEW p \in Ids, NEW s \in Shards, NEW x \in Seq(Nat)
    PROVE  [freeList EXCEPT ![p][s] = x] \in [Ids -> [Shards -> Seq(Nat)]]
  <1>1. [freeList[p] EXCEPT ![s] = x] \in [Shards -> Seq(Nat)]
    BY DEF TypeInv
  <1> QED BY <1>1 DEF TypeInv

(* A slot is handed out. *)
LEMMA HeldChange ==
    ASSUME TypeInv, NEW p \in Ids, NEW i \in Nat
    PROVE  [held EXCEPT ![p] = held[p] \cup {i}] \in [Ids -> SUBSET Nat]
  <1>1. held[p] \cup {i} \in SUBSET Nat
    BY DEF TypeInv
  <1> QED BY <1>1 DEF TypeInv

(* A call returns. *)
LEMMA ReturnTypes ==
    ASSUME TypeInv, NEW t \in Threads, Return(t)
    PROVE  /\ pc' \in [Threads -> Places0]
           /\ call' \in [Threads -> {"none", "acquire", "release", "exit"}]
           /\ cur' \in [Threads -> 0 .. MaxPools]
           /\ slot' \in [Threads -> Nat]
           /\ offset' \in [Threads -> 0 .. ShardCount]
  <1>1. 0 \in 0 .. MaxPools /\ 0 \in 0 .. ShardCount /\ "idle" \in Places0
    BY PoolAssumption, SMT DEF Places0
  <1> QED BY <1>1 DEF Return, Goto, TypeInv

(* Every operation keeps every variable in its range. *)
LEMMA PoolLifeKeepsTypes ==
    ASSUME TypeInv
    PROVE  /\ \A a \in Addresses, c \in Capacities : Construct(a, c) => TypeInv'
           /\ \A p \in Ids : Unregister(p) \/ Free(p) => TypeInv'
  <1>1. ASSUME NEW a \in Addresses, NEW c \in Capacities, Construct(a, c) PROVE TypeInv'
    <2>1. c \in Nat /\ created + 1 \in Ids /\ created \in Nat /\ MaxPools \in Nat
      BY <1>1, PoolAssumption DEF Construct, TypeInv
    <2>2. \A s \in Shards : Deal(c, s) \in Seq(Nat)
      BY <2>1, DealFacts
    <2>3. freeList' \in [Ids -> [Shards -> Seq(Nat)]]
      BY <1>1, <2>1, <2>2 DEF Construct, TypeInv
    <2>4. /\ created' = created + 1 /\ created' \in 0 .. MaxPools
          /\ alive' \subseteq 1 .. created' /\ registry' \subseteq alive'
      BY <1>1, <2>1, SMT DEF Construct, TypeInv, Ids
    <2>5. /\ address' \in [Ids -> Addresses \cup {NoAddress}]
          /\ capacity' \in [Ids -> Nat]
          /\ \A p \in Ids : p > created' => capacity'[p] = 0
      BY <1>1, <2>1, SMT DEF Construct, TypeInv, Ids
    <2>6. quiet' \in [Threads -> BOOLEAN]
      BY <1>1, ObserveType DEF Construct
    <2> QED
      BY <1>1, <2>3, <2>4, <2>5, <2>6 DEF Construct, threadVars, TypeInv
  <1>2. ASSUME NEW p \in Ids, Unregister(p) \/ Free(p) PROVE TypeInv'
    <2>1. quiet' \in [Threads -> BOOLEAN]
      BY <1>2, ObserveType DEF Unregister, Free
    <2>2. CASE Unregister(p)
      BY <2>1, <2>2 DEF Unregister, threadVars, TypeInv
    <2>3. CASE Free(p)
      <3>1. freeList' \in [Ids -> [Shards -> Seq(Nat)]]
        BY <2>3, EmptyFacts DEF Free, TypeInv
      <3> QED
        BY <2>1, <2>3, <3>1 DEF Free, threadVars, TypeInv
    <2> QED BY <1>2, <2>2, <2>3
  <1> QED BY <1>1, <1>2

(* The steps that begin and end a call. *)
LEMMA CallsKeepTypes ==
    ASSUME TypeInv, PlaceInv, NEW t \in Threads
    PROVE  /\ \A p \in Ids : Acquire(t, p) => TypeInv'
           /\ \A p \in Ids : \A i \in held[p] : Release(t, p, i) => TypeInv'
           /\ Exhausted(t) \/ ThreadExit(t) \/ CacheLookup(t) => TypeInv'
  <1>1. 0 \in Nat /\ 0 \in 0 .. MaxPools /\ 0 \in 0 .. ShardCount /\ Ids \subseteq 0 .. MaxPools
    BY PoolAssumption, SMT DEF Ids
  <1>2. ASSUME NEW p \in Ids, Acquire(t, p) PROVE TypeInv'
    BY <1>1, <1>2, ObserveType DEF Acquire, Begin, Goto, poolVars, Places0, TypeInv
  <1>3. ASSUME NEW p \in Ids, NEW i \in held[p], Release(t, p, i) PROVE TypeInv'
    BY <1>1, <1>3, ObserveType DEF Release, Begin, Goto, poolVars, Places0, TypeInv
  <1>4. CASE Exhausted(t)
    BY <1>1, <1>4, ObserveType DEF Exhausted, Return, Goto, poolVars, Places0, TypeInv
  <1>5. CASE ThreadExit(t)
    BY <1>1, <1>5, ObserveType DEF ThreadExit, Goto, poolVars, Places0, TypeInv
  <1>6. CASE CacheLookup(t)
    BY <1>6, ObserveType DEF CacheLookup, Goto, poolVars, threadVars, Places0, TypeInv
  <1> QED BY <1>2, <1>3, <1>4, <1>5, <1>6

(* The steps that move one slot. *)
LEMMA ListStepsKeepTypes ==
    ASSUME TypeInv, PlaceInv, NEW t \in Threads, TakeFreeSlot(t) \/ PushShard(t) \/ PopCache(t) \/ PutCache(t)
    PROVE  TypeInv'
  <1>1. 0 \in Nat /\ 0 \in 0 .. MaxPools /\ 0 \in 0 .. ShardCount /\ Ids \subseteq 0 .. MaxPools
    BY PoolAssumption, SMT DEF Ids
  <1>2. /\ cur[t] \in Ids
        /\ Home(t) \in Shards /\ Shard(t) \in Shards
        /\ cache[t] \in CacheType /\ cache[t].slots \in Seq(Nat)
        /\ freeList[cur[t]] \in [Shards -> Seq(Nat)]
    <2>1. call[t] \in {"acquire", "release"}
      BY DEF TakeFreeSlot, PushShard, PopCache, PutCache, PlaceInv, PlaceOk
    <2> QED BY <2>1, CallFacts, ShardFacts DEF TypeInv
  <1>3. quiet' \in [Threads -> BOOLEAN]
    BY ObserveType DEF TakeFreeSlot, PushShard, PopCache, PutCache
  <1>4. CASE TakeFreeSlot(t)
    <2> DEFINE list == freeList[cur[t]][Shard(t)]
    <2>1. list \in Seq(Nat) /\ (list # << >> => Front(list) \in Seq(Nat) /\ Last(list) \in Nat)
      BY <1>2, FrontFacts
    <2>2. CASE list # << >>
      <3>1. freeList' \in [Ids -> [Shards -> Seq(Nat)]]
        <4>1. freeList' = [freeList EXCEPT ![cur[t]][Shard(t)] = Front(list)]
          BY <1>4, <2>2 DEF TakeFreeSlot
        <4>2. Front(list) \in Seq(Nat) /\ cur[t] \in Ids /\ Shard(t) \in Shards
          BY <1>2, <2>1, <2>2
        <4> QED BY ONLY <4>1, <4>2, ListChange, TypeInv
      <3>2. held' \in [Ids -> SUBSET Nat]
        <4>1. held' = [held EXCEPT ![cur[t]] = held[cur[t]] \cup {Last(list)}]
          BY <1>4, <2>2 DEF TakeFreeSlot, HandOut
        <4>2. Last(list) \in Nat /\ cur[t] \in Ids
          BY <1>2, <2>1, <2>2
        <4> QED BY ONLY <4>1, <4>2, HeldChange, TypeInv
      <3> QED
        BY <1>3, <1>4, <2>2, <3>1, <3>2, ReturnTypes DEF TakeFreeSlot, HandOut, poolVars, TypeInv
    <2>3. CASE list = << >>
      <3>1. offset[t] + 1 \in 0 .. ShardCount
        <4>1. offset[t] \in 0 .. ShardCount /\ offset[t] < ShardCount /\ ShardCount \in Nat
          BY <1>4, PoolAssumption DEF TakeFreeSlot, TypeInv, PlaceInv, PlaceOk
        <4> QED BY <4>1, SMT
      <3> QED
        BY <1>3, <1>4, <2>3, <3>1 DEF TakeFreeSlot, NextShard, Goto, poolVars, Places0, TypeInv
    <2> QED BY <2>2, <2>3
  <1>5. CASE PushShard(t)
    <2>1. Append(freeList[cur[t]][Home(t)], slot[t]) \in Seq(Nat)
      BY <1>2, AppendFacts DEF TypeInv
    <2>2. freeList' \in [Ids -> [Shards -> Seq(Nat)]]
      <3>1. freeList' = [freeList EXCEPT ![cur[t]][Home(t)] = Append(freeList[cur[t]][Home(t)], slot[t])]
        BY <1>5 DEF PushShard
      <3> QED BY <1>2, <2>1, <3>1, ListChange
    <2> QED
      BY <1>3, <1>5, <2>2, ReturnTypes DEF PushShard, poolVars, TypeInv
  <1>6. CASE PopCache(t)
    <2> DEFINE slots == cache[t].slots
    <2>1. slots # << >> => Front(slots) \in Seq(Nat) /\ Last(slots) \in Nat
      BY <1>2, FrontFacts
    <2>2. CASE slots # << >>
      <3>1. [cache[t] EXCEPT !.slots = Front(slots)] \in CacheType
        BY <1>2, <2>1, <2>2 DEF CacheType
      <3>2. cache' \in [Threads -> CacheType]
        BY <1>6, <2>2, <3>1 DEF PopCache, TypeInv
      <3>3. held' \in [Ids -> SUBSET Nat]
        <4>1. held' = [held EXCEPT ![cur[t]] = held[cur[t]] \cup {Last(slots)}]
          BY <1>6, <2>2 DEF PopCache, HandOut
        <4>2. Last(slots) \in Nat /\ cur[t] \in Ids
          BY <1>2, <2>1, <2>2
        <4> QED BY ONLY <4>1, <4>2, HeldChange, TypeInv
      <3> QED
        BY <1>3, <1>6, <2>2, <3>2, <3>3, ReturnTypes DEF PopCache, HandOut, poolVars, TypeInv
    <2>3. CASE slots = << >>
      BY <1>3, <1>6, <2>3 DEF PopCache, Goto, poolVars, threadVars, Places0, TypeInv
    <2> QED BY <2>2, <2>3
  <1>7. CASE PutCache(t)
    <2>1. [cache[t] EXCEPT !.slots = Append(cache[t].slots, slot[t])] \in CacheType
      BY <1>2, AppendFacts DEF CacheType, TypeInv
    <2>2. cache' \in [Threads -> CacheType]
      BY <1>7, <2>1 DEF PutCache, TypeInv
    <2> QED
      <3>1. CASE Return(t)
        BY <1>3, <1>7, <2>2, <3>1, ReturnTypes DEF PutCache, poolVars, TypeInv
      <3>2. CASE Goto(t, "spill") /\ UNCHANGED threadVars
        BY <1>3, <1>7, <2>2, <3>2 DEF PutCache, Goto, poolVars, threadVars, Places0, TypeInv
      <3> QED BY <1>7, <3>1, <3>2 DEF PutCache
  <1> QED BY <1>4, <1>5, <1>6, <1>7

(* The steps that move many. *)
LEMMA FlushStepsKeepTypes ==
    ASSUME TypeInv, PlaceInv, CacheInv, FlushInv, NEW t \in Threads,
           FlushLookup(t) \/ FlushShard(t) \/ Refill(t) \/ Spill(t)
    PROVE  TypeInv'
  <1>1. /\ Home(t) \in Shards /\ Shard(t) \in Shards
        /\ cache[t] \in CacheType /\ cache[t].slots \in Seq(Nat) /\ cache[t].id \in 0 .. MaxPools
        /\ call[t] = "exit" \/ cur[t] \in Ids
    <2>1. call[t] \in {"acquire", "release", "exit"}
      BY DEF FlushLookup, FlushShard, Refill, Spill, PlaceInv, PlaceOk, TypeInv
    <2> QED BY <2>1, CallFacts, ShardFacts DEF TypeInv
  <1>2. quiet' \in [Threads -> BOOLEAN]
    BY ObserveType DEF FlushLookup, FlushShard, Refill, Spill
  <1>3. Rebound(t) => cache' \in [Threads -> CacheType] /\ pc' \in [Threads -> Places0]
    <2>1. NoCache \in CacheType
      BY PoolAssumption, EmptyFacts, SMT DEF NoCache, CacheType
    <2>2. cur[t] \in Ids => [id |-> cur[t], pool |-> address[cur[t]], slots |-> << >>] \in CacheType
      BY PoolAssumption, EmptyFacts, SMT DEF CacheType, Ids, TypeInv
    <2> QED BY <1>1, <2>1, <2>2 DEF Rebound, Goto, Places0, TypeInv
  <1>4. CASE FlushLookup(t)
    BY <1>2, <1>3, <1>4 DEF FlushLookup, Goto, poolVars, threadVars, Places0, TypeInv
  <1>5. CASE FlushShard(t)
    <2>1. cache[t].id \in Ids
      BY <1>1, <1>5 DEF FlushShard, FlushInv, TypeInv, Ids
    <2>2. freeList[cache[t].id][Home(t)] \o cache[t].slots \in Seq(Nat)
      BY <1>1, <2>1, ConcatFacts DEF TypeInv
    <2> QED
      BY <1>1, <1>2, <1>3, <1>5, <2>1, <2>2 DEF FlushShard, poolVars, threadVars, TypeInv
  <1>6. CASE Refill(t)
    <2> DEFINE list == freeList[cur[t]][Shard(t)]
               n    == Min({Len(list), Batch(cur[t])})
    <2>1. cur[t] \in Ids /\ list \in Seq(Nat)
      BY <1>1, <1>6 DEF Refill, PlaceInv, PlaceOk, TypeInv
    <2>2. n \in 0 .. Len(list) /\ Len(list) - n \in 0 .. Len(list)
      BY <2>1, BatchFacts, RefillFacts DEF Batch, TypeInv
    <2>3. SubSeq(list, Len(list) - n + 1, Len(list)) \in Seq(Nat) /\ SubSeq(list, 1, Len(list) - n) \in Seq(Nat)
      BY <2>1, <2>2, SplitFacts
    <2>4. cache[t].slots \o Reverse(SubSeq(list, Len(list) - n + 1, Len(list))) \in Seq(Nat)
      BY <1>1, <2>3, ReverseFacts, ConcatFacts
    <2>5. [cache[t] EXCEPT !.slots = @ \o Reverse(SubSeq(list, Len(list) - n + 1, Len(list)))] \in CacheType
      BY <1>1, <2>4 DEF CacheType
    <2>6. CASE n # 0
      <3>1. cache' \in [Threads -> CacheType]
        BY <1>6, <2>5, <2>6 DEF Refill, TypeInv
      <3>2. freeList' \in [Ids -> [Shards -> Seq(Nat)]]
        <4>1. freeList' = [freeList EXCEPT ![cur[t]][Shard(t)] = SubSeq(list, 1, Len(list) - n)]
          BY <1>6, <2>6 DEF Refill
        <4>2. SubSeq(list, 1, Len(list) - n) \in Seq(Nat) /\ cur[t] \in Ids /\ Shard(t) \in Shards
          BY <1>1, <2>1, <2>3
        <4> QED BY ONLY <4>1, <4>2, ListChange, TypeInv
      <3> QED
        BY <1>2, <1>6, <2>6, <3>1, <3>2 DEF Refill, Goto, poolVars, Places0, TypeInv
    <2>7. CASE n = 0
      <3>1. offset[t] + 1 \in 0 .. ShardCount
        <4>1. offset[t] \in 0 .. ShardCount /\ offset[t] < ShardCount /\ ShardCount \in Nat
          BY <1>6, PoolAssumption DEF Refill, TypeInv, PlaceInv, PlaceOk
        <4> QED BY <4>1, SMT
      <3> QED
        BY <1>2, <1>6, <2>7, <3>1 DEF Refill, NextShard, Goto, poolVars, Places0, TypeInv
    <2> QED BY <2>6, <2>7
  <1>7. CASE Spill(t)
    <2> DEFINE slots == cache[t].slots
               n == Batch(cur[t])
    <2>1. cur[t] \in Ids /\ slots \in Seq(Nat) /\ freeList[cur[t]][Home(t)] \in Seq(Nat)
      BY <1>1, <1>7 DEF Spill, PlaceInv, PlaceOk, TypeInv
    <2>2. n \in 0 .. Len(slots)
      <3>1. n \in Nat /\ Len(slots) = 2 * n
        BY <1>7, <2>1, BatchFacts DEF Spill, CacheInv, CacheOk, Bound, Batch, TypeInv
      <3> QED BY <3>1, SMT
    <2>3. SubSeq(slots, 1, n) \in Seq(Nat) /\ SubSeq(slots, n + 1, Len(slots)) \in Seq(Nat)
      BY <2>1, <2>2, SplitFacts
    <2>4. freeList[cur[t]][Home(t)] \o SubSeq(slots, 1, n) \in Seq(Nat)
      BY <2>1, <2>3, ConcatFacts
    <2>5. [cache[t] EXCEPT !.slots = SubSeq(slots, n + 1, Len(slots))] \in CacheType
      BY <1>1, <2>3 DEF CacheType
    <2> QED
      BY <1>1, <1>2, <1>7, <2>1, <2>4, <2>5 DEF Spill, Goto, poolVars, threadVars, Places0, TypeInv
  <1> QED BY <1>4, <1>5, <1>6, <1>7

(* Every step keeps the ranges. *)
LEMMA TypeStep ==
    ASSUME StepInv, [PoolNext]_allPoolVars
    PROVE  TypeInv'
  <1>1. CASE UNCHANGED allPoolVars
    BY <1>1 DEF allPoolVars, poolVars, threadVars, StepInv, TypeInv
  <1>2. ASSUME NEW t \in Threads, ThreadStep(t) \/ ThreadCalls(t) PROVE TypeInv'
    BY <1>2, CallsKeepTypes, ListStepsKeepTypes, FlushStepsKeepTypes DEF ThreadStep, ThreadCalls, StepInv
  <1>3. ASSUME NEW a \in Addresses, NEW c \in Capacities, Construct(a, c) PROVE TypeInv'
    BY <1>3, PoolLifeKeepsTypes DEF StepInv
  <1>4. ASSUME NEW p \in Ids, Unregister(p) \/ Free(p) PROVE TypeInv'
    BY <1>4, PoolLifeKeepsTypes DEF StepInv
  <1> QED BY <1>1, <1>2, <1>3, <1>4 DEF PoolNext

-----------------------------------------------------------------------------
(* Where a thread is, and what its cache is bound to *)

(* A thread's step leaves the other threads' locals and caches alone, and  *)
(* every pool's capacity.                                                  *)
LEMMA OthersLocals ==
    ASSUME TypeInv, NEW t \in Threads, ThreadStep(t) \/ ThreadCalls(t)
    PROVE  /\ created' = created /\ capacity' = capacity /\ alive' = alive /\ registry' = registry
           /\ \A u \in Threads \ {t} :
                /\ pc'[u] = pc[u] /\ call'[u] = call[u] /\ cur'[u] = cur[u]
                /\ slot'[u] = slot[u] /\ offset'[u] = offset[u] /\ cache'[u] = cache[u]
  <1>1. CASE Exhausted(t) \/ ThreadExit(t) \/ CacheLookup(t)
    BY <1>1 DEF TypeInv, Exhausted, ThreadExit, CacheLookup, Return, Goto, poolVars, threadVars
  <1>2. CASE TakeFreeSlot(t)
    BY <1>2 DEF TypeInv, TakeFreeSlot, HandOut, NextShard, Return, Goto, poolVars
  <1>3. CASE PushShard(t) \/ PutCache(t)
    BY <1>3 DEF TypeInv, PushShard, PutCache, Return, Goto, poolVars, threadVars
  <1>4. CASE FlushLookup(t) \/ FlushShard(t)
    BY <1>4 DEF TypeInv, FlushLookup, FlushShard, Rebound, Goto, poolVars, threadVars
  <1>5. CASE PopCache(t)
    BY <1>5 DEF TypeInv, PopCache, HandOut, Return, Goto, poolVars, threadVars
  <1>6. CASE Refill(t) \/ Spill(t)
    BY <1>6 DEF TypeInv, Refill, NextShard, Spill, Goto, poolVars, threadVars
  <1>7. ASSUME NEW p \in Ids, NEW i, Acquire(t, p) \/ Release(t, p, i)
        PROVE  /\ created' = created /\ capacity' = capacity /\ alive' = alive /\ registry' = registry
               /\ \A u \in Threads \ {t} :
                    /\ pc'[u] = pc[u] /\ call'[u] = call[u] /\ cur'[u] = cur[u]
                    /\ slot'[u] = slot[u] /\ offset'[u] = offset[u] /\ cache'[u] = cache[u]
    BY <1>7 DEF TypeInv, Acquire, Release, Begin, Goto, poolVars
  <1> QED BY <1>1, <1>2, <1>3, <1>4, <1>5, <1>6, <1>7 DEF ThreadStep, ThreadCalls

(* So what holds of them goes on holding. *)
LEMMA OthersOk ==
    ASSUME StepInv, NEW t \in Threads, ThreadStep(t) \/ ThreadCalls(t)
    PROVE  \A u \in Threads \ {t} : PlaceOk(u)' /\ CacheOk(u)'
  <1> SUFFICES ASSUME NEW u \in Threads \ {t} PROVE PlaceOk(u)' /\ CacheOk(u)'
    OBVIOUS
  <1>1. PlaceOk(u) /\ CacheOk(u)
    BY DEF StepInv, PlaceInv, CacheInv
  <1>2. /\ created' = created /\ capacity' = capacity
        /\ pc'[u] = pc[u] /\ call'[u] = call[u] /\ cur'[u] = cur[u]
        /\ offset'[u] = offset[u] /\ cache'[u] = cache[u]
    BY OthersLocals DEF StepInv
  <1> QED BY <1>1, <1>2 DEF PlaceOk, CacheOk, Batch

(* The new place of the thread that steps. *)
LEMMA PlaceOfStep ==
    ASSUME StepInv, TypeInv', NEW t \in Threads, ThreadStep(t) \/ ThreadCalls(t)
    PROVE  PlaceOk(t)'
  <1>1. /\ created' = created /\ capacity' = capacity
        /\ created \in Nat /\ ShardCount \in Nat \ {0} /\ offset[t] \in Nat /\ cur[t] \in Nat
    <2>1. created' = created /\ capacity' = capacity
      BY OthersLocals DEF StepInv
    <2>2. cur[t] \in Nat
      BY CallFacts DEF StepInv
    <2>3. created \in Nat /\ ShardCount \in Nat \ {0} /\ offset[t] \in Nat
      BY PoolAssumption, SMT DEF StepInv, TypeInv
    <2> QED BY <2>1, <2>2, <2>3
  <1>2. PlaceOk(t)
    BY DEF StepInv, PlaceInv
  <1>3. CASE Exhausted(t) \/ ThreadExit(t) \/ CacheLookup(t)
    <2>1. CASE Exhausted(t)
      BY <1>1, <1>2, <2>1, SMTT(20)
      DEF StepInv, TypeInv, Exhausted, Return, Goto, poolVars, PlaceOk, Batch, Bound
    <2>2. CASE ThreadExit(t)
      BY <1>1, <1>2, <2>2, SMTT(20) DEF StepInv, TypeInv, ThreadExit, Goto, poolVars, PlaceOk, Batch, Bound
    <2>3. CASE CacheLookup(t)
      BY <1>1, <1>2, <2>3, SMTT(20)
      DEF StepInv, TypeInv, CacheLookup, Goto, poolVars, threadVars, PlaceOk, Batch, Bound
    <2> QED BY <1>3, <2>1, <2>2, <2>3
  <1>4. CASE TakeFreeSlot(t)
    BY <1>1, <1>2, <1>4, SMTT(20)
    DEF StepInv, TypeInv, TakeFreeSlot, HandOut, NextShard, Return, Goto, poolVars, PlaceOk, Batch, Bound
  <1>5. CASE PushShard(t) \/ PutCache(t)
    BY <1>1, <1>2, <1>5, SMTT(20)
    DEF StepInv, TypeInv, PushShard, PutCache, Return, Goto, poolVars, threadVars, PlaceOk, Batch, Bound
  <1>6. CASE FlushLookup(t) \/ FlushShard(t)
    BY <1>1, <1>2, <1>6, SMTT(20)
    DEF StepInv, TypeInv, FlushLookup, FlushShard, Rebound, Goto, poolVars, threadVars, PlaceOk, Batch, Bound
  <1>7. CASE PopCache(t)
    BY <1>1, <1>2, <1>7, SMTT(20)
    DEF StepInv, TypeInv, PopCache, HandOut, Return, Goto, poolVars, threadVars, PlaceOk, Batch, Bound
  <1>8. CASE Refill(t) \/ Spill(t)
    <2>1. CASE Refill(t)
      <3>1. /\ call' = call /\ cur' = cur /\ pc[t] = "refill"
            /\ \/ pc'[t] = "pop" /\ offset' = offset
               \/ /\ offset'[t] = offset[t] + 1
                  /\ pc'[t] = IF offset[t] + 1 < ShardCount THEN "refill" ELSE "none"
        BY <2>1 DEF StepInv, TypeInv, Refill, NextShard, Goto
      <3> QED
        BY <1>1, <1>2, <3>1, SMTT(20) DEF PlaceOk, Batch, Bound
    <2>2. CASE Spill(t)
      BY <1>1, <1>2, <2>2, SMTT(20) DEF StepInv, TypeInv, Spill, Goto, poolVars, threadVars, PlaceOk, Batch, Bound
    <2> QED BY <1>8, <2>1, <2>2
  <1>9. ASSUME NEW p \in Ids, NEW i, Acquire(t, p) \/ Release(t, p, i) PROVE PlaceOk(t)'
    <2>1. p \in 1 .. created /\ p # 0
      BY <1>9, SMT DEF StepInv, TypeInv, Acquire, Release, Begin, Usable
    <2> QED
      BY <1>1, <1>2, <1>9, <2>1, SMTT(20)
      DEF StepInv, TypeInv, Acquire, Release, Begin, Goto, poolVars, PlaceOk, Batch, Bound
  <1> QED BY <1>3, <1>4, <1>5, <1>6, <1>7, <1>8, <1>9 DEF ThreadStep, ThreadCalls

(* The cache of the thread that steps. *)
LEMMA CacheOfStep ==
    ASSUME StepInv, TypeInv', NEW t \in Threads, ThreadStep(t) \/ ThreadCalls(t)
    PROVE  CacheOk(t)'
  <1> DEFINE B(p) == 2 * Batch(p)
  <1>1. created' = created /\ capacity' = capacity /\ \A p \in Ids : Batch(p) \in Nat
    <2>1. created' = created /\ capacity' = capacity
      BY OthersLocals DEF StepInv
    <2> QED BY <2>1, BatchFacts DEF Batch, StepInv, TypeInv
  <1>2. CacheOk(t) /\ PlaceOk(t)
    BY DEF StepInv, PlaceInv, CacheInv
  <1>3. /\ cache[t].slots \in Seq(Nat) /\ cache[t] \in CacheType /\ cache[t].id \in 0 .. MaxPools
        /\ Len(cache[t].slots) \in Nat /\ << >> \in Seq(Nat) /\ Len(<< >>) = 0
    BY CallFacts, EmptyFacts DEF StepInv, TypeInv
  <1>4. SUFFICES \/ cache'[t] = cache[t] /\ (pc'[t] \in Bound => pc'[t] \in {"put", "pop"} /\ cache[t].id = cur'[t])
                 \/ CacheOk(t)'
    BY <1>1, <1>2, <1>3 DEF CacheOk, Batch, Bound
  <1>5. CASE Exhausted(t) \/ ThreadExit(t) \/ CacheLookup(t)
    BY <1>5 DEF StepInv, TypeInv, Exhausted, ThreadExit, CacheLookup, Return, Goto, threadVars, Bound
  <1>6. CASE TakeFreeSlot(t) \/ PushShard(t)
    BY <1>6 DEF StepInv, TypeInv, TakeFreeSlot, PushShard, HandOut, NextShard, Return, Goto, Bound
  <1>7. ASSUME NEW p \in Ids, NEW i, Acquire(t, p) \/ Release(t, p, i)
        PROVE  cache'[t] = cache[t] /\ pc'[t] \notin Bound
    BY <1>7 DEF StepInv, TypeInv, Acquire, Release, Begin, Goto, Bound
  <1>8. CASE FlushLookup(t) \/ FlushShard(t)
    <2>1. CASE cache' = cache /\ pc'[t] = "flushShard"
      BY <2>1 DEF Bound
    <2>2. CASE Rebound(t)
      <3>1. CASE call[t] = "exit"
        <4>1. cache'[t] = NoCache /\ pc'[t] = "exited"
          BY <2>2, <3>1 DEF Rebound, Goto, StepInv, TypeInv
        <4> QED BY <4>1, PoolAssumption, SMT DEF CacheOk, NoCache, Bound, StepInv, TypeInv
      <3>2. CASE call[t] # "exit"
        <4>1. /\ cache'[t] = [id |-> cur[t], pool |-> address[cur[t]], slots |-> << >>]
              /\ pc'[t] = "cache"
          BY <2>2, <3>2 DEF Rebound, Goto, StepInv, TypeInv
        <4>2. call[t] \in {"acquire", "release"}
          BY <1>2, <1>8, <3>2 DEF FlushLookup, FlushShard, PlaceOk, StepInv, TypeInv
        <4>3. cur[t] \in Ids /\ cur[t] \in 0 .. created /\ Batch(cur[t]) # 0
          BY <1>2, <1>8, <4>2, CallFacts DEF FlushLookup, FlushShard, PlaceOk, Bound, StepInv
        <4> QED BY <1>1, <1>3, <4>1, <4>3, SMT DEF CacheOk, Bound, Batch
      <3> QED BY <3>1, <3>2
    <2> QED
      BY <1>8, <2>1, <2>2 DEF FlushLookup, FlushShard, Goto, StepInv, TypeInv
  <1>9. CASE PopCache(t)
    <2>1. CASE cache[t].slots # << >>
      <3>1. /\ cache'[t] = [cache[t] EXCEPT !.slots = Front(cache[t].slots)] /\ pc'[t] = "idle"
        BY <1>9, <2>1 DEF PopCache, HandOut, Return, Goto, StepInv, TypeInv
      <3>2. cache'[t].id = cache[t].id /\ cache'[t].slots = Front(cache[t].slots)
        BY <1>3, <3>1 DEF CacheType
      <3>3. Len(Front(cache[t].slots)) = Len(cache[t].slots) - 1
        BY <1>3, <2>1, FrontFacts
      <3>4. cache[t].id # 0 /\ cache[t].id \in Ids
        BY <1>2, <1>3, <2>1, PoolAssumption, SMT DEF CacheOk, Ids
      <3> QED BY <1>1, <1>2, <1>3, <3>1, <3>2, <3>3, <3>4, SMT DEF CacheOk, Bound, Batch
    <2>2. CASE cache[t].slots = << >>
      <3>1. cache'[t] = cache[t] /\ pc'[t] = "refill" /\ cur'[t] = cur[t] /\ pc[t] = "pop"
        BY <1>9, <2>2 DEF PopCache, threadVars, Goto, StepInv, TypeInv
      <3> QED BY <1>1, <1>2, <2>2, <3>1 DEF CacheOk, Bound, Batch
    <2> QED BY <2>1, <2>2
  <1>10. CASE Refill(t)
    <2> DEFINE list == freeList[cur[t]][Shard(t)]
               n    == Min({Len(list), Batch(cur[t])})
               new  == Reverse(SubSeq(list, Len(list) - n + 1, Len(list)))
    <2>1. cur[t] \in Ids /\ pc[t] = "refill" /\ cur'[t] = cur[t]
      BY <1>2, <1>10, CallFacts DEF Refill, PlaceOk, StepInv
    <2>2. list \in Seq(Nat)
      BY <2>1, ShardFacts DEF StepInv, TypeInv
    <2>3. CASE n # 0
      <3>1. n \in 0 .. Len(list) /\ Len(list) - n \in 0 .. Len(list) /\ n <= Batch(cur[t])
        BY <1>1, <2>1, <2>2, RefillFacts
      <3>2. new \in Seq(Nat) /\ Len(new) = n
        <4>1. Len(list) - (Len(list) - n) = n
          BY <2>2, <3>1, EmptyFacts, SMT
        <4>2. LET m == Len(list) - n
                  b == SubSeq(list, m + 1, Len(list))
              IN  b \in Seq(Nat) /\ Len(b) = Len(list) - m
          BY <2>2, <3>1, SplitFacts
        <4> QED BY <4>1, <4>2, ReverseFacts
      <3>3. cache[t].slots = << >> /\ cache[t].id = cur[t]
        BY <1>2, <2>1 DEF CacheOk, Bound
      <3>4. Len(cache[t].slots \o new) = n
        BY <1>3, <3>1, <3>2, <3>3, ConcatFacts, EmptyFacts
      <3>5. /\ cache'[t] = [cache[t] EXCEPT !.slots = cache[t].slots \o new] /\ pc'[t] = "pop"
        BY <1>10, <2>3 DEF Refill, Goto, StepInv, TypeInv
      <3>6. cache'[t].id = cur[t] /\ cache'[t].slots = cache[t].slots \o new
        BY <1>3, <3>3, <3>5 DEF CacheType
      <3>7. n <= 2 * Batch(cur[t]) /\ cur[t] # 0
        BY <1>1, <2>1, <3>1, SMT DEF Ids
      <3> QED BY <1>1, <1>2, <2>1, <3>3, <3>4, <3>5, <3>6, <3>7 DEF CacheOk, Bound, Batch
    <2>4. CASE n = 0
      <3>1. cache'[t] = cache[t] /\ pc'[t] \in {"refill", "none"}
        BY <1>10, <2>4 DEF Refill, NextShard, Goto, StepInv, TypeInv
      <3> QED BY <1>1, <1>2, <2>1, <3>1 DEF CacheOk, Bound, Batch
    <2> QED BY <2>3, <2>4
  <1>11. CASE PutCache(t)
    <2>1. /\ cur[t] \in Ids /\ cache[t].id = cur[t] /\ cur[t] # 0 /\ Batch(cur[t]) \in Nat
          /\ Len(cache[t].slots) <= 2 * Batch(cur[t]) /\ Batch(cur[t]) # 0
      BY <1>1, <1>2, <1>11, CallFacts DEF PutCache, PlaceOk, CacheOk, Bound, StepInv
    <2>2. CASE Len(cache[t].slots) = 2 * Batch(cur[t])
      <3>1. cache'[t] = cache[t] /\ pc'[t] = "spill" /\ cur'[t] = cur[t]
        BY <1>11, <2>2 DEF PutCache, threadVars, Goto, StepInv, TypeInv
      <3> QED BY <1>1, <1>2, <2>1, <2>2, <3>1 DEF CacheOk, Bound, Batch
    <2>3. CASE Len(cache[t].slots) # 2 * Batch(cur[t])
      <3>1. /\ cache'[t] = [cache[t] EXCEPT !.slots = Append(cache[t].slots, slot[t])] /\ pc'[t] = "idle"
        BY <1>11, <2>3 DEF PutCache, Return, Goto, StepInv, TypeInv
      <3>2. cache'[t].id = cache[t].id /\ cache'[t].slots = Append(cache[t].slots, slot[t])
        BY <1>3, <3>1 DEF CacheType
      <3>3. Len(Append(cache[t].slots, slot[t])) = Len(cache[t].slots) + 1
        BY <1>3, AppendFacts DEF StepInv, TypeInv
      <3>4. Len(cache'[t].slots) <= 2 * Batch(cur[t])
        BY <1>3, <2>1, <2>3, <3>2, <3>3, SMT
      <3> QED BY <1>1, <1>2, <2>1, <3>1, <3>2, <3>4 DEF CacheOk, Bound, Batch
    <2> QED BY <2>2, <2>3
  <1>12. CASE Spill(t)
    <2> DEFINE slots == cache[t].slots
               n == Batch(cur[t])
    <2>1. /\ cur[t] \in Ids /\ cache[t].id = cur[t] /\ cur[t] # 0 /\ n \in Nat
          /\ Len(slots) = 2 * n /\ n # 0
      BY <1>1, <1>2, <1>12, CallFacts DEF Spill, PlaceOk, CacheOk, Bound, StepInv
    <2>2. /\ cache'[t] = [cache[t] EXCEPT !.slots = SubSeq(slots, n + 1, Len(slots))]
          /\ pc'[t] = "put" /\ cur'[t] = cur[t]
      BY <1>12 DEF Spill, threadVars, Goto, StepInv, TypeInv
    <2>3. cache'[t].id = cache[t].id /\ cache'[t].slots = SubSeq(slots, n + 1, Len(slots))
      BY <1>3, <2>2 DEF CacheType
    <2>4. n \in 0 .. Len(slots) /\ Len(slots) - n <= 2 * n
      BY <2>1, SMT
    <2>5. Len(SubSeq(slots, n + 1, Len(slots))) <= 2 * n
      BY <1>3, <2>4, SplitFacts
    <2> QED BY <1>1, <1>2, <2>1, <2>2, <2>3, <2>5 DEF CacheOk, Bound, Batch
  <1> QED BY <1>5, <1>6, <1>7, <1>8, <1>9, <1>10, <1>11, <1>12 DEF ThreadStep, ThreadCalls

(* A pool that appears or goes changes no thread's place and no cache. *)
LEMMA PoolLifeKeepsPlaces ==
    ASSUME StepInv
    PROVE  /\ \A a \in Addresses, c \in Capacities : Construct(a, c) => PlaceInv' /\ CacheInv'
           /\ \A p \in Ids : Unregister(p) \/ Free(p) => PlaceInv' /\ CacheInv'
  <1>1. ASSUME created' \in Nat, created <= created', UNCHANGED <<cache, pc, threadVars>>,
               \A p \in Ids : p <= created => capacity'[p] = capacity[p]
        PROVE  PlaceInv' /\ CacheInv'
    <2> SUFFICES ASSUME NEW t \in Threads PROVE PlaceOk(t)' /\ CacheOk(t)'
      BY DEF PlaceInv, CacheInv
    <2>1. PlaceOk(t) /\ CacheOk(t)
      BY DEF StepInv, PlaceInv, CacheInv
    <2>2. /\ cur[t] \in 0 .. created' /\ cache[t].id \in 0 .. created'
          /\ cur[t] # 0 => Batch(cur[t])' = Batch(cur[t])
          /\ cache[t].id # 0 => Batch(cache[t].id)' = Batch(cache[t].id)
      <3>1. /\ cur[t] \in 0 .. created /\ cache[t].id \in 0 .. created /\ created \in Nat
            /\ cur[t] # 0 => cur[t] \in Ids /\ cur[t] <= created
            /\ cache[t].id # 0 => cache[t].id \in Ids /\ cache[t].id <= created
        BY <2>1, PoolAssumption, SMT DEF PlaceOk, CacheOk, StepInv, TypeInv, Ids
      <3>2. cur' = cur /\ cache' = cache
        BY <1>1 DEF threadVars
      <3> QED BY <1>1, <3>1, <3>2, SMT DEF Batch
    <2>3. PlaceOk(t)'
      BY <1>1, <2>1, <2>2 DEF PlaceOk, threadVars, Bound
    <2>4. CacheOk(t)'
      <3>1. cache' = cache /\ pc' = pc /\ cur' = cur
        BY <1>1 DEF threadVars
      <3> DEFINE k == cache[t].id
      <3>2. CASE k = 0
        <4>1. pc[t] \notin Bound
          BY <2>1, <3>2 DEF CacheOk, PlaceOk, Bound
        <4> QED BY <2>1, <2>2, <3>1, <3>2, <4>1 DEF CacheOk, Bound
      <3>3. CASE k # 0
        <4>1. Batch(k) # 0 /\ Len(cache[t].slots) <= 2 * Batch(k) /\ k \in 0 .. created'
              /\ capacity'[k] = capacity[k] /\ (pc[t] = "spill" => Len(cache[t].slots) = 2 * Batch(k))
          <5>1. k \in Ids /\ k <= created
            BY <2>1, <3>3, PoolAssumption, SMT DEF CacheOk, StepInv, TypeInv, Ids
          <5> QED BY <1>1, <2>1, <2>2, <3>1, <3>3, <5>1 DEF CacheOk
        <4> QED BY <2>1, <3>1, <3>3, <4>1 DEF CacheOk, Bound, Batch
      <3> QED BY <3>2, <3>3
    <2> QED BY <2>3, <2>4
  <1>2. ASSUME NEW a \in Addresses, NEW c \in Capacities, Construct(a, c)
        PROVE  PlaceInv' /\ CacheInv'
    <2>1. /\ created' = created + 1 /\ created \in Nat
          /\ \A p \in Ids : p <= created => capacity'[p] = capacity[p]
      BY <1>2, SMT DEF Construct, StepInv, TypeInv
    <2> QED BY <1>1, <1>2, <2>1 DEF Construct
  <1>3. ASSUME NEW p \in Ids, Unregister(p) \/ Free(p) PROVE PlaceInv' /\ CacheInv'
    <2>1. created' = created /\ capacity' = capacity /\ created \in Nat
      BY <1>3, SMT DEF Unregister, Free, StepInv, TypeInv
    <2> QED BY <1>1, <1>3, <2>1 DEF Unregister, Free
  <1> QED BY <1>2, <1>3

(* Only who holds the registry's mutex flushes, and a pool leaves the      *)
(* registry under that mutex.                                              *)
LEMMA FlushStep ==
    ASSUME StepInv, [PoolNext]_allPoolVars
    PROVE  FlushInv'
  <1> SUFFICES ASSUME NEW u \in Threads, pc'[u] = "flushShard"
               PROVE  regMutex' = u /\ cache'[u].id \in registry'
    BY DEF FlushInv
  <1>1. pc[u] = "flushShard" => regMutex = u /\ cache[u].id \in registry /\ u # Nobody
    BY PoolAssumption DEF StepInv, FlushInv, Threads
  <1>2. CASE UNCHANGED allPoolVars
    BY <1>1, <1>2 DEF allPoolVars, poolVars
  <1>3. ASSUME NEW t \in Threads, ThreadStep(t) \/ ThreadCalls(t)
        PROVE  regMutex' = u /\ cache'[u].id \in registry'
    <2>1. CASE FlushLookup(t)
      BY <1>1, <2>1 DEF FlushLookup, Rebound, Goto, poolVars, StepInv, TypeInv
    <2>2. CASE FlushShard(t)
      BY <1>1, <2>2 DEF FlushShard, Rebound, Goto, poolVars, StepInv, TypeInv, FlushInv
    <2>3. CASE ~FlushLookup(t) /\ ~FlushShard(t)
      <3>1. registry' = registry /\ (u # t => pc[u] = "flushShard" /\ cache'[u] = cache[u])
        BY <1>3, OthersLocals DEF StepInv
      <3>2. regMutex' = regMutex /\ pc'[t] # "flushShard"
        <4>1. CASE Exhausted(t) \/ ThreadExit(t) \/ CacheLookup(t)
          BY <4>1 DEF StepInv, TypeInv, Exhausted, ThreadExit, CacheLookup, Return, Goto
        <4>2. CASE TakeFreeSlot(t) \/ PushShard(t)
          BY <4>2 DEF StepInv, TypeInv, TakeFreeSlot, PushShard, HandOut, NextShard, Return, Goto
        <4>3. CASE PopCache(t) \/ PutCache(t)
          BY <4>3 DEF StepInv, TypeInv, PopCache, PutCache, HandOut, Return, Goto
        <4>4. CASE Refill(t) \/ Spill(t)
          BY <4>4 DEF StepInv, TypeInv, Refill, Spill, NextShard, Goto
        <4>5. ASSUME NEW p \in Ids, NEW i, Acquire(t, p) \/ Release(t, p, i)
              PROVE  regMutex' = regMutex /\ pc'[t] # "flushShard"
          BY <4>5 DEF StepInv, TypeInv, Acquire, Release, Begin, Goto
        <4> QED BY <1>3, <2>3, <4>1, <4>2, <4>3, <4>4, <4>5 DEF ThreadStep, ThreadCalls
      <3> QED BY <1>1, <3>1, <3>2
    <2> QED BY <2>1, <2>2, <2>3
  <1>4. ASSUME NEW a \in Addresses, NEW c \in Capacities, Construct(a, c)
        PROVE  regMutex' = u /\ cache'[u].id \in registry'
    BY <1>1, <1>4 DEF Construct
  <1>5. ASSUME NEW p \in Ids, Unregister(p) \/ Free(p)
        PROVE  regMutex' = u /\ cache'[u].id \in registry'
    BY <1>1, <1>5 DEF Unregister, Free
  <1> QED BY <1>2, <1>3, <1>4, <1>5 DEF PoolNext

(* Every step keeps the layers about ranges, places, caches and the flush. *)
LEMMA StepStep ==
    ASSUME StepInv, [PoolNext]_allPoolVars
    PROVE  StepInv'
  <1>1. TypeInv' /\ FlushInv'
    BY TypeStep, FlushStep
  <1>2. CASE UNCHANGED allPoolVars
    BY <1>1, <1>2
    DEF allPoolVars, poolVars, threadVars, StepInv, PlaceInv, PlaceOk, CacheInv, CacheOk, Batch
  <1>3. ASSUME NEW t \in Threads, ThreadStep(t) \/ ThreadCalls(t) PROVE PlaceInv' /\ CacheInv'
    BY <1>1, <1>3, OthersOk, PlaceOfStep, CacheOfStep DEF PlaceInv, CacheInv
  <1>4. ASSUME NEW a \in Addresses, NEW c \in Capacities, Construct(a, c) PROVE PlaceInv' /\ CacheInv'
    BY <1>4, PoolLifeKeepsPlaces
  <1>5. ASSUME NEW p \in Ids, Unregister(p) \/ Free(p) PROVE PlaceInv' /\ CacheInv'
    BY <1>5, PoolLifeKeepsPlaces
  <1> QED BY <1>1, <1>2, <1>3, <1>4, <1>5 DEF PoolNext, StepInv

-----------------------------------------------------------------------------
(* The boxes of a pool *)

(* What the boxes are. *)
LEMMA BoxFacts ==
    /\ \A s \in Shards : <<"list", s>> \in Boxes
    /\ \A t \in Threads : <<"cache", t>> \in Boxes /\ <<"hand", t>> \in Boxes
    /\ <<"held", 0>> \in Boxes
    /\ \A b \in Boxes : \/ \E s \in Shards : b = <<"list", s>>
                        \/ \E t \in Threads : b = <<"cache", t>> \/ b = <<"hand", t>>
                        \/ b = <<"held", 0>>
  BY DEF Boxes

(* What is in each, before a step ... *)
LEMMA BoxNames ==
    ASSUME NEW p
    PROVE  /\ \A s \in Shards : Box(p, <<"list", s>>) = ToSet(freeList[p][s])
           /\ \A t \in Threads : /\ Box(p, <<"cache", t>>) = CacheBox(p, t)
                                 /\ Box(p, <<"hand", t>>) = HandBox(p, t)
           /\ Box(p, <<"held", 0>>) = held[p]
  BY DEF Box

(* ... and after it. *)
LEMMA BoxNamesNext ==
    ASSUME NEW p
    PROVE  /\ \A s \in Shards : Box(p, <<"list", s>>)' = ToSet(freeList'[p][s])
           /\ \A t \in Threads : /\ Box(p, <<"cache", t>>)' = CacheBox(p, t)'
                                 /\ Box(p, <<"hand", t>>)' = HandBox(p, t)'
           /\ Box(p, <<"held", 0>>)' = held'[p]
  BY DEF Box

(* A box changes only if its list, cache, hand or set does. *)
LEMMA UnchangedBoxes ==
    ASSUME NEW q \in Ids, NEW E,
           \A s \in Shards : <<"list", s>> \notin E => freeList'[q][s] = freeList[q][s],
           \A u \in Threads : <<"cache", u>> \notin E => CacheBox(q, u)' = CacheBox(q, u),
           \A u \in Threads : <<"hand", u>> \notin E => HandBox(q, u)' = HandBox(q, u),
           <<"held", 0>> \notin E => held'[q] = held[q]
    PROVE  \A d \in Boxes \ E : Box(q, d)' = Box(q, d)
  <1> SUFFICES ASSUME NEW d \in Boxes, d \notin E PROVE Box(q, d)' = Box(q, d)
    OBVIOUS
  <1>1. ASSUME NEW s \in Shards, d = <<"list", s>> PROVE Box(q, d)' = Box(q, d)
    <2>1. freeList'[q][s] = freeList[q][s]
      BY <1>1
    <2> QED BY <1>1, <2>1 DEF Box
  <1>2. ASSUME NEW u \in Threads, d = <<"cache", u>> PROVE Box(q, d)' = Box(q, d)
    <2>1. CacheBox(q, u)' = CacheBox(q, u)
      BY <1>2
    <2> QED BY <1>2, <2>1 DEF Box
  <1>3. ASSUME NEW u \in Threads, d = <<"hand", u>> PROVE Box(q, d)' = Box(q, d)
    <2>1. HandBox(q, u)' = HandBox(q, u)
      BY <1>3
    <2> QED BY <1>3, <2>1 DEF Box
  <1>4. ASSUME d = <<"held", 0>> PROVE Box(q, d)' = Box(q, d)
    <2>1. held'[q] = held[q]
      BY <1>4
    <2> QED BY <1>4, <2>1 DEF Box
  <1> QED BY <1>1, <1>2, <1>3, <1>4, BoxFacts

(* A pool whose boxes all stay as they are stays in order. *)
LEMMA SameBoxes ==
    ASSUME NEW q \in Ids, PoolOk(q), capacity'[q] = capacity[q], Usable(q)' => Usable(q),
           \A d \in Boxes : Box(q, d)' = Box(q, d)
    PROVE  PoolOk(q)'
  <1>1. Slots(q)' = Slots(q)
    BY DEF Slots
  <1> QED
    BY <1>1 DEF PoolOk, Within, Apart, Covers

(* Slots go from one box to another. *)
LEMMA MovedBoxes ==
    ASSUME NEW q \in Ids, NEW a \in Boxes, NEW b \in Boxes, a # b, PoolOk(q),
           capacity'[q] = capacity[q], Usable(q)' => Usable(q),
           \A d \in Boxes \ {a, b} : Box(q, d)' = Box(q, d),
           Box(q, a)' \subseteq Box(q, a),
           Box(q, b)' = Box(q, b) \cup (Box(q, a) \ Box(q, a)')
    PROVE  PoolOk(q)'
  <1>1. Slots(q)' = Slots(q)
    BY DEF Slots
  <1>2. Within(q)'
    BY <1>1 DEF PoolOk, Within
  <1>3. Apart(q)'
    <2> SUFFICES ASSUME NEW c \in Boxes, NEW d \in Boxes, c # d PROVE Box(q, c)' \cap Box(q, d)' = {}
      BY DEF Apart
    <2>1. /\ Box(q, c) \cap Box(q, d) = {} /\ Box(q, a) \cap Box(q, b) = {}
          /\ c # a => Box(q, c) \cap Box(q, a) = {}
          /\ d # a => Box(q, d) \cap Box(q, a) = {}
          /\ c # b => Box(q, c) \cap Box(q, b) = {}
          /\ d # b => Box(q, d) \cap Box(q, b) = {}
      BY DEF PoolOk, Apart
    <2>2. CASE c \notin {a, b}
      <3>1. Box(q, c)' = Box(q, c) /\ (d \notin {a, b} => Box(q, d)' = Box(q, d))
        BY <2>2
      <3> QED BY <2>1, <2>2, <3>1
    <2>3. CASE d \notin {a, b}
      <3>1. Box(q, d)' = Box(q, d) /\ (c \notin {a, b} => Box(q, c)' = Box(q, c))
        BY <2>3
      <3> QED BY <2>1, <2>3, <3>1
    <2>4. CASE c \in {a, b} /\ d \in {a, b}
      <3>1. Box(q, a)' \cap Box(q, b)' = {}
        BY <2>1
      <3> QED BY <2>4, <3>1
    <2> QED BY <2>2, <2>3, <2>4
  <1>4. ASSUME Covers(q) PROVE Covers(q)'
    <2> SUFFICES ASSUME NEW i \in Slots(q) PROVE \E d \in Boxes : i \in Box(q, d)'
      BY <1>1 DEF Covers
    <2>1. PICK d \in Boxes : i \in Box(q, d)
      BY <1>4 DEF Covers
    <2>2. CASE d \notin {a, b}
      BY <2>1, <2>2
    <2>3. CASE d = a
      <3>1. i \in Box(q, a)' \/ i \in Box(q, b)'
        BY <2>1, <2>3
      <3> QED BY <3>1
    <2>4. CASE d = b
      <3>1. i \in Box(q, b)'
        BY <2>1, <2>4
      <3> QED BY <3>1
    <2> QED BY <2>2, <2>3, <2>4
  <1> QED BY <1>2, <1>3, <1>4 DEF PoolOk

(* The slots of a pool that cannot be used any more may go. *)
LEMMA ShrunkBoxes ==
    ASSUME NEW q \in Ids, PoolOk(q), capacity'[q] = capacity[q], ~Usable(q)',
           \A d \in Boxes : Box(q, d)' \subseteq Box(q, d)
    PROVE  PoolOk(q)'
  <1>1. Slots(q)' = Slots(q)
    BY DEF Slots
  <1>2. Within(q)'
    <2> SUFFICES ASSUME NEW b \in Boxes PROVE Box(q, b)' \subseteq Slots(q)
      BY <1>1 DEF Within
    <2> QED BY DEF PoolOk, Within
  <1>3. Apart(q)'
    <2> SUFFICES ASSUME NEW c \in Boxes, NEW d \in Boxes, c # d PROVE Box(q, c)' \cap Box(q, d)' = {}
      BY DEF Apart
    <2>1. Box(q, c) \cap Box(q, d) = {}
      BY DEF PoolOk, Apart
    <2> QED BY <2>1
  <1> QED BY <1>2, <1>3 DEF PoolOk

(* What a thread's step leaves alone. *)
LEMMA ThreadFrame ==
    ASSUME StepInv, NEW t \in Threads, ThreadStep(t) \/ ThreadCalls(t), NEW q \in Ids
    PROVE  /\ capacity'[q] = capacity[q] /\ (Usable(q)' => Usable(q))
           /\ \A u \in Threads \ {t} : CacheBox(q, u)' = CacheBox(q, u) /\ HandBox(q, u)' = HandBox(q, u)
  <1>1. /\ capacity' = capacity /\ alive' = alive /\ registry' = registry
        /\ \A u \in Threads \ {t} :
             call'[u] = call[u] /\ cur'[u] = cur[u] /\ slot'[u] = slot[u] /\ cache'[u] = cache[u]
    BY OthersLocals DEF StepInv
  <1>2. capacity'[q] = capacity[q] /\ (Usable(q)' => Usable(q))
    BY <1>1 DEF Usable, Batch
  <1>3. ASSUME NEW u \in Threads \ {t}
        PROVE  CacheBox(q, u)' = CacheBox(q, u) /\ HandBox(q, u)' = HandBox(q, u)
    BY <1>1 DEF CacheBox, HandBox
  <1> QED BY <1>2, <1>3

(* A thread's step that moves no slot of the pool q ... *)
LEMMA ThreadKeeps ==
    ASSUME StepInv, BoxInv, NEW t \in Threads, ThreadStep(t) \/ ThreadCalls(t), NEW q \in Ids,
           \A s \in Shards : freeList'[q][s] = freeList[q][s],
           CacheBox(q, t)' = CacheBox(q, t), HandBox(q, t)' = HandBox(q, t), held'[q] = held[q]
    PROVE  PoolOk(q)'
  <1>1. \A d \in Boxes \ {} : Box(q, d)' = Box(q, d)
    BY ThreadFrame, UnchangedBoxes
  <1> QED BY <1>1, ThreadFrame, SameBoxes DEF BoxInv

(* ... and one that moves slots of it from a to b. *)
LEMMA ThreadMoves ==
    ASSUME StepInv, BoxInv, NEW t \in Threads, ThreadStep(t) \/ ThreadCalls(t), NEW q \in Ids,
           NEW a \in Boxes, NEW b \in Boxes, a # b,
           \A s \in Shards : <<"list", s>> = a \/ <<"list", s>> = b \/ freeList'[q][s] = freeList[q][s],
           <<"cache", t>> = a \/ <<"cache", t>> = b \/ CacheBox(q, t)' = CacheBox(q, t),
           <<"hand", t>> = a \/ <<"hand", t>> = b \/ HandBox(q, t)' = HandBox(q, t),
           <<"held", 0>> = a \/ <<"held", 0>> = b \/ held'[q] = held[q],
           Box(q, a)' \subseteq Box(q, a),
           Box(q, b)' = Box(q, b) \cup (Box(q, a) \ Box(q, a)')
    PROVE  PoolOk(q)'
  <1>1. PICK E : E = {a, b}
    OBVIOUS
  <1>2. /\ \A s \in Shards : <<"list", s>> \notin E => freeList'[q][s] = freeList[q][s]
        /\ \A u \in Threads : <<"cache", u>> \notin E => CacheBox(q, u)' = CacheBox(q, u)
        /\ \A u \in Threads : <<"hand", u>> \notin E => HandBox(q, u)' = HandBox(q, u)
        /\ <<"held", 0>> \notin E => held'[q] = held[q]
    <2>1. \A s \in Shards : <<"list", s>> \notin E => freeList'[q][s] = freeList[q][s]
      BY <1>1
    <2>2. ASSUME NEW u \in Threads, <<"cache", u>> \notin E PROVE CacheBox(q, u)' = CacheBox(q, u)
      <3>1. u # t \/ CacheBox(q, t)' = CacheBox(q, t)
        BY <1>1, <2>2
      <3> QED BY <3>1, ThreadFrame
    <2>3. ASSUME NEW u \in Threads, <<"hand", u>> \notin E PROVE HandBox(q, u)' = HandBox(q, u)
      <3>1. u # t \/ HandBox(q, t)' = HandBox(q, t)
        BY <1>1, <2>3
      <3> QED BY <3>1, ThreadFrame
    <2>4. <<"held", 0>> \notin E => held'[q] = held[q]
      BY <1>1
    <2> QED BY <2>1, <2>2, <2>3, <2>4
  <1>3. \A d \in Boxes \ E : Box(q, d)' = Box(q, d)
    BY <1>2, UnchangedBoxes
  <1> QED BY <1>1, <1>3, ThreadFrame, MovedBoxes DEF BoxInv

-----------------------------------------------------------------------------
(* What each operation does to the boxes *)

(* A list or cache that changes must again be without repetition. *)
LEMMA RepeatKept ==
    ASSUME RepeatInv,
           \A p \in Ids, s \in Shards : freeList'[p][s] = freeList[p][s] \/ NoRepeat(freeList'[p][s]),
           \A u \in Threads : cache'[u].slots = cache[u].slots \/ NoRepeat(cache'[u].slots)
    PROVE  RepeatInv'
  <1>1. \A p \in Ids, s \in Shards : NoRepeat(freeList'[p][s])
    BY DEF RepeatInv
  <1>2. \A u \in Threads : NoRepeat(cache'[u].slots)
    BY DEF RepeatInv
  <1> QED BY <1>1, <1>2 DEF RepeatInv, NoRepeat

(* A thread takes a step that moves no slot. *)
LEMMA NothingMoves ==
    ASSUME StepInv, BoxInv, NEW t \in Threads, ThreadStep(t) \/ ThreadCalls(t),
           freeList' = freeList, held' = held, cache' = cache,
           \A q \in Ids : HandBox(q, t)' = HandBox(q, t)
    PROVE  BoxInv'
  <1>1. RepeatInv'
    BY RepeatKept DEF BoxInv
  <1>2. ASSUME NEW q \in Ids PROVE PoolOk(q)'
    <2>1. CacheBox(q, t)' = CacheBox(q, t)
      BY DEF CacheBox
    <2> QED BY <2>1, ThreadKeeps
  <1> QED BY <1>1, <1>2 DEF BoxInv

(* The steps of a call that touch neither lists nor caches. *)
LEMMA CallsMoveNothing ==
    ASSUME StepInv, BoxInv, NEW t \in Threads,
           (\E p \in Ids : Acquire(t, p)) \/ Exhausted(t) \/ ThreadExit(t) \/ CacheLookup(t)
    PROVE  BoxInv'
  <1>1. freeList' = freeList /\ held' = held /\ cache' = cache
    BY DEF Acquire, Begin, Exhausted, ThreadExit, CacheLookup
  <1>2. ASSUME NEW q \in Ids PROVE HandBox(q, t)' = HandBox(q, t)
    <2>0. PlaceOk(t)
      BY DEF StepInv, PlaceInv
    <2>1. ASSUME NEW p \in Ids, Acquire(t, p) PROVE HandBox(q, t)' = HandBox(q, t)
      <3>1. call[t] = "none" /\ call'[t] = "acquire"
        BY <2>0, <2>1 DEF Acquire, Begin, PlaceOk, StepInv, TypeInv
      <3> QED BY <3>1 DEF HandBox
    <2>2. CASE Exhausted(t)
      <3>1. call[t] = "acquire" /\ call'[t] = "none"
        BY <2>0, <2>2 DEF Exhausted, Return, PlaceOk, StepInv, TypeInv
      <3> QED BY <3>1 DEF HandBox
    <2>3. CASE ThreadExit(t)
      <3>1. call[t] = "none" /\ call'[t] = "exit"
        BY <2>0, <2>3 DEF ThreadExit, PlaceOk, StepInv, TypeInv
      <3> QED BY <3>1 DEF HandBox
    <2>4. CASE CacheLookup(t)
      BY <2>4 DEF CacheLookup, threadVars, HandBox
    <2> QED BY <2>1, <2>2, <2>3, <2>4
  <1> QED BY <1>1, <1>2, NothingMoves DEF ThreadStep, ThreadCalls

(* release(): from the caller into the thread's hand. *)
LEMMA ReleaseMoves ==
    ASSUME StepInv, BoxInv, NEW t \in Threads, NEW p \in Ids, NEW i \in held[p], Release(t, p, i)
    PROVE  BoxInv'
  <1>0. ThreadCalls(t) /\ TypeInv
    BY DEF ThreadCalls, StepInv
  <1>1. /\ freeList' = freeList /\ cache' = cache /\ call[t] = "none"
        /\ call'[t] = "release" /\ cur'[t] = p /\ slot'[t] = i
        /\ \A q \in Ids : held'[q] = IF q = p THEN held[p] \ {i} ELSE held[q]
    BY <1>0 DEF Release, Begin, StepInv, TypeInv, PlaceInv, PlaceOk
  <1>2. RepeatInv'
    BY <1>1, RepeatKept DEF BoxInv
  <1>3. ASSUME NEW q \in Ids PROVE PoolOk(q)'
    <2>1. CacheBox(q, t)' = CacheBox(q, t) /\ HandBox(q, t) = {}
          /\ HandBox(q, t)' = IF q = p THEN {i} ELSE {}
      BY <1>1 DEF CacheBox, HandBox
    <2>2. CASE q # p
      BY <1>0, <1>1, <2>1, <2>2, ThreadKeeps
    <2>3. CASE q = p
      <3> DEFINE a == <<"held", 0>>
                 b == <<"hand", t>>
      <3>1. a \in Boxes /\ b \in Boxes /\ a # b
        BY BoxFacts
      <3>2. /\ Box(q, a) = held[p] /\ Box(q, a)' = held[p] \ {i}
            /\ Box(q, b) = {} /\ Box(q, b)' = {i}
        BY <1>1, <2>1, <2>3, BoxNames, BoxNamesNext
      <3>3. Box(q, a)' \subseteq Box(q, a) /\ Box(q, b)' = Box(q, b) \cup (Box(q, a) \ Box(q, a)')
        BY <3>2
      <3> QED BY <1>0, <1>1, <2>1, <3>1, <3>3, ThreadMoves
    <2> QED BY <2>2, <2>3
  <1> QED BY <1>2, <1>3 DEF BoxInv

(* acquire() without caches: from a shard to the caller. *)
LEMMA TakeFreeSlotMoves ==
    ASSUME StepInv, BoxInv, NEW t \in Threads, TakeFreeSlot(t)
    PROVE  BoxInv'
  <1>0. ThreadStep(t) /\ TypeInv
    BY DEF ThreadStep, StepInv
  <1>1. PICK p \in Ids, s \in Shards : p = cur[t] /\ s = Shard(t)
    BY CallFacts, ShardFacts DEF TakeFreeSlot, StepInv, PlaceInv, PlaceOk
  <1> DEFINE list == freeList[p][s]
  <1>2. list \in Seq(Nat) /\ call[t] = "acquire" /\ cache' = cache /\ NoRepeat(list)
    BY <1>0, <1>1 DEF TakeFreeSlot, StepInv, PlaceInv, PlaceOk, TypeInv, BoxInv, RepeatInv
  <1>3. CASE list = << >>
    <2>1. freeList' = freeList /\ held' = held /\ call' = call
      BY <1>1, <1>3 DEF TakeFreeSlot
    <2>2. \A q \in Ids : HandBox(q, t)' = HandBox(q, t)
      BY <1>2, <2>1 DEF HandBox
    <2> QED BY <1>0, <1>2, <2>1, <2>2, NothingMoves
  <1>4. CASE list # << >>
    <2>1. /\ freeList' = [freeList EXCEPT ![p][s] = Front(list)]
          /\ held' = [held EXCEPT ![p] = held[p] \cup {Last(list)}]
          /\ call'[t] = "none"
      BY <1>0, <1>1, <1>4 DEF TakeFreeSlot, HandOut, Return, TypeInv
    <2>2. /\ \A q \in Ids, r \in Shards : q # p \/ r # s => freeList'[q][r] = freeList[q][r]
          /\ freeList'[p][s] = Front(list)
          /\ \A q \in Ids : q # p => held'[q] = held[q]
          /\ held'[p] = held[p] \cup {Last(list)}
      BY <1>0, <2>1 DEF TypeInv
    <2>3. /\ Last(list) \in ToSet(list) /\ NoRepeat(Front(list))
          /\ ToSet(Front(list)) = ToSet(list) \ {Last(list)}
      BY <1>2, <1>4, FrontFacts
    <2>4. RepeatInv'
      BY <1>2, <2>2, <2>3, RepeatKept DEF BoxInv
    <2>5. ASSUME NEW q \in Ids PROVE PoolOk(q)'
      <3>1. HandBox(q, t)' = HandBox(q, t) /\ CacheBox(q, t)' = CacheBox(q, t)
        BY <1>2, <2>1 DEF HandBox, CacheBox
      <3>2. CASE q # p
        BY <1>0, <2>2, <3>1, <3>2, ThreadKeeps
      <3>3. CASE q = p
        <4> DEFINE a == <<"list", s>>
                   b == <<"held", 0>>
        <4>1. a \in Boxes /\ b \in Boxes /\ a # b
          BY BoxFacts
        <4>2. \A r \in Shards : <<"list", r>> = a \/ freeList'[q][r] = freeList[q][r]
          BY <2>2, <3>3
        <4>3. /\ Box(q, a) = ToSet(list) /\ Box(q, a)' = ToSet(list) \ {Last(list)}
              /\ Box(q, b)' = Box(q, b) \cup {Last(list)}
          BY <2>2, <2>3, <3>3, BoxNames, BoxNamesNext
        <4>4. Box(q, a)' \subseteq Box(q, a) /\ Box(q, b)' = Box(q, b) \cup (Box(q, a) \ Box(q, a)')
          BY <2>3, <4>3
        <4> QED BY <1>0, <3>1, <4>1, <4>2, <4>4, ThreadMoves
      <3> QED BY <3>2, <3>3
    <2> QED BY <2>4, <2>5 DEF BoxInv
  <1> QED BY <1>3, <1>4

(* release() without caches: from the hand to the thread's own shard. *)
LEMMA PushShardMoves ==
    ASSUME StepInv, BoxInv, NEW t \in Threads, PushShard(t)
    PROVE  BoxInv'
  <1>0. ThreadStep(t) /\ TypeInv
    BY DEF ThreadStep, StepInv
  <1>1. PICK p \in Ids, s \in Shards, i \in Nat : p = cur[t] /\ s = Home(t) /\ i = slot[t]
    BY <1>0, CallFacts, ShardFacts DEF PushShard, StepInv, PlaceInv, PlaceOk, TypeInv
  <1> DEFINE list == freeList[p][s]
  <1>2. /\ list \in Seq(Nat) /\ call[t] = "release" /\ call'[t] = "none"
        /\ cache' = cache /\ held' = held /\ NoRepeat(list)
    BY <1>0, <1>1 DEF PushShard, Return, StepInv, PlaceInv, PlaceOk, TypeInv, BoxInv, RepeatInv
  <1>3. /\ \A q \in Ids, r \in Shards : q # p \/ r # s => freeList'[q][r] = freeList[q][r]
        /\ freeList'[p][s] = Append(list, i)
    BY <1>0, <1>1 DEF PushShard, TypeInv
  <1>4. /\ \A q \in Ids : HandBox(q, t)' = {} /\ CacheBox(q, t)' = CacheBox(q, t)
        /\ \A q \in Ids : HandBox(q, t) = IF q = p THEN {i} ELSE {}
    BY <1>1, <1>2 DEF HandBox, CacheBox
  <1> DEFINE a == <<"hand", t>>
             b == <<"list", s>>
  <1>5. a \in Boxes /\ b \in Boxes /\ a # b
    BY BoxFacts
  <1>6. Box(p, a) = {i} /\ Box(p, b) = ToSet(list) /\ i \notin ToSet(list)
    <2>1. Box(p, a) = {i} /\ Box(p, b) = ToSet(list)
      BY <1>4, BoxNames
    <2> QED BY <1>5, <2>1 DEF BoxInv, PoolOk, Apart
  <1>7. ToSet(Append(list, i)) = ToSet(list) \cup {i} /\ NoRepeat(Append(list, i))
    BY <1>2, <1>6, AppendFacts
  <1>8. RepeatInv'
    BY <1>2, <1>3, <1>7, RepeatKept DEF BoxInv
  <1>9. ASSUME NEW q \in Ids PROVE PoolOk(q)'
    <2>1. CASE q # p
      BY <1>0, <1>2, <1>3, <1>4, <2>1, ThreadKeeps
    <2>2. CASE q = p
      <3>1. \A r \in Shards : <<"list", r>> = b \/ freeList'[q][r] = freeList[q][r]
        BY <1>3, <2>2
      <3>2. Box(q, a)' = {} /\ Box(q, b)' = ToSet(list) \cup {i}
        <4>1. freeList'[q][s] = Append(list, i) /\ HandBox(q, t)' = {}
          BY <1>3, <1>4, <2>2
        <4>2. Box(q, a)' = HandBox(q, t)' /\ Box(q, b)' = ToSet(freeList'[q][s])
          BY BoxNamesNext
        <4> QED BY <1>7, <4>1, <4>2
      <3>3. Box(q, a)' \subseteq Box(q, a) /\ Box(q, b)' = Box(q, b) \cup (Box(q, a) \ Box(q, a)')
        BY <1>6, <2>2, <3>2
      <3> QED BY <1>0, <1>2, <1>4, <1>5, <3>1, <3>3, ThreadMoves
    <2> QED BY <2>1, <2>2
  <1> QED BY <1>8, <1>9 DEF BoxInv

(* The flush: from the cache to the thread's shard of the cache's pool. *)
LEMMA FlushShardMoves ==
    ASSUME StepInv, BoxInv, NEW t \in Threads, FlushShard(t)
    PROVE  BoxInv'
  <1>0. ThreadStep(t) /\ TypeInv
    BY DEF ThreadStep, StepInv
  <1>1. PICK p \in Ids, s \in Shards : p = cache[t].id /\ s = Home(t)
    <2>1. cache[t].id \in alive
      BY <1>0 DEF FlushShard, StepInv, FlushInv, TypeInv
    <2>2. cache[t].id \in Ids
      <3>1. created \in 0 .. MaxPools /\ alive \subseteq 1 .. created
        BY <1>0 DEF TypeInv
      <3>2. cache[t].id \in 1 .. created
        BY <2>1, <3>1
      <3> QED BY <3>1, <3>2, PoolAssumption, SMT DEF Ids
    <2> QED BY <1>0, <2>2, ShardFacts
  <1> DEFINE list == freeList[p][s]
  <1>2. PICK slots \in Seq(Nat) : slots = cache[t].slots
    BY <1>0, CallFacts DEF StepInv
  <1>3. /\ list \in Seq(Nat) /\ held' = held /\ call' = call /\ cur' = cur /\ slot' = slot
        /\ NoRepeat(list) /\ NoRepeat(slots)
    BY <1>0, <1>1, <1>2 DEF FlushShard, threadVars, TypeInv, BoxInv, RepeatInv
  <1>4. /\ \A q \in Ids, r \in Shards : q # p \/ r # s => freeList'[q][r] = freeList[q][r]
        /\ freeList'[p][s] = list \o slots
    BY <1>0, <1>1, <1>2 DEF FlushShard, TypeInv
  <1>5. cache'[t].slots = << >> /\ \A u \in Threads \ {t} : cache'[u] = cache[u]
    BY <1>0 DEF FlushShard, Rebound, NoCache, TypeInv
  <1>6. /\ \A q \in Ids : HandBox(q, t)' = HandBox(q, t) /\ CacheBox(q, t)' = {}
        /\ \A q \in Ids : CacheBox(q, t) = IF q = p THEN ToSet(slots) ELSE {}
    BY <1>1, <1>2, <1>3, <1>5, EmptyFacts DEF HandBox, CacheBox
  <1> DEFINE a == <<"cache", t>>
             b == <<"list", s>>
  <1>7. a \in Boxes /\ b \in Boxes /\ a # b
    BY BoxFacts
  <1>8. Box(p, a) = ToSet(slots) /\ Box(p, b) = ToSet(list) /\ ToSet(list) \cap ToSet(slots) = {}
    <2>1. Box(p, a) = ToSet(slots) /\ Box(p, b) = ToSet(list)
      BY <1>6, BoxNames
    <2> QED BY <1>7, <2>1 DEF BoxInv, PoolOk, Apart
  <1>9. ToSet(list \o slots) = ToSet(list) \cup ToSet(slots) /\ NoRepeat(list \o slots)
    BY <1>2, <1>3, <1>8, ConcatFacts
  <1>10. RepeatInv'
    BY <1>4, <1>5, <1>9, EmptyFacts, RepeatKept DEF BoxInv
  <1>11. ASSUME NEW q \in Ids PROVE PoolOk(q)'
    <2>1. CASE q # p
      BY <1>0, <1>3, <1>4, <1>6, <2>1, ThreadKeeps
    <2>2. CASE q = p
      <3>1. \A r \in Shards : <<"list", r>> = b \/ freeList'[q][r] = freeList[q][r]
        BY <1>4, <2>2
      <3>2. Box(q, a)' = {} /\ Box(q, b)' = ToSet(list) \cup ToSet(slots)
        <4>1. freeList'[q][s] = list \o slots /\ CacheBox(q, t)' = {}
          BY <1>4, <1>6, <2>2
        <4>2. Box(q, a)' = CacheBox(q, t)' /\ Box(q, b)' = ToSet(freeList'[q][s])
          BY BoxNamesNext
        <4> QED BY <1>9, <4>1, <4>2
      <3>3. Box(q, a)' \subseteq Box(q, a) /\ Box(q, b)' = Box(q, b) \cup (Box(q, a) \ Box(q, a)')
        BY <1>8, <2>2, <3>2
      <3> QED BY <1>0, <1>3, <1>6, <1>7, <3>1, <3>3, ThreadMoves
    <2> QED BY <2>1, <2>2
  <1> QED BY <1>10, <1>11 DEF BoxInv

(* The lookup: nothing moves, or the slots of a pool that is gone are dropped. *)
LEMMA FlushLookupMoves ==
    ASSUME StepInv, BoxInv, NEW t \in Threads, FlushLookup(t)
    PROVE  BoxInv'
  <1>0. ThreadStep(t) /\ TypeInv
    BY DEF ThreadStep, StepInv
  <1>1. /\ freeList' = freeList /\ held' = held /\ call' = call /\ cur' = cur /\ slot' = slot
    BY DEF FlushLookup, threadVars
  <1>2. \A q \in Ids : HandBox(q, t)' = HandBox(q, t)
    BY <1>1 DEF HandBox
  <1>3. CASE cache' = cache
    BY <1>0, <1>1, <1>2, <1>3, NothingMoves
  <1>4. CASE Rebound(t) /\ (cache[t].slots = << >> \/ cache[t].id \notin registry)
    <2>1. cache'[t].slots = << >> /\ \A u \in Threads \ {t} : cache'[u] = cache[u]
      BY <1>0, <1>4 DEF Rebound, NoCache, TypeInv
    <2>2. RepeatInv'
      BY <1>1, <2>1, EmptyFacts, RepeatKept DEF BoxInv
    <2>3. ASSUME NEW q \in Ids PROVE PoolOk(q)'
      <3>1. CacheBox(q, t)' = {}
        BY <2>1, EmptyFacts DEF CacheBox
      <3>2. CASE CacheBox(q, t) = {}
        BY <1>0, <1>1, <1>2, <3>1, <3>2, ThreadKeeps
      <3>3. CASE CacheBox(q, t) # {}
        <4>1. cache[t].id = q /\ q \notin registry
          BY <1>4, <3>3, EmptyFacts DEF CacheBox
        <4>2. Batch(q) # 0 /\ capacity' = capacity /\ registry' = registry
          <5>1. q # 0
            BY SMT DEF Ids
          <5> QED BY <4>1, <5>1 DEF StepInv, CacheInv, CacheOk, FlushLookup, poolVars
        <4>3. ~Usable(q)'
          BY <4>1, <4>2 DEF Usable, Batch
        <4>4. \A d \in Boxes \ {<<"cache", t>>} : Box(q, d)' = Box(q, d)
          <5>1. PICK E : E = {<<"cache", t>>}
            OBVIOUS
          <5>2. \A u \in Threads : <<"cache", u>> \notin E => CacheBox(q, u)' = CacheBox(q, u)
            <6>1. \A u \in Threads : <<"cache", u>> \notin E => u # t
              BY <5>1
            <6> QED BY <1>0, <6>1, ThreadFrame
          <5>3. \A u \in Threads : HandBox(q, u)' = HandBox(q, u)
            BY <1>0, <1>2, ThreadFrame
          <5>4. \A d \in Boxes \ E : Box(q, d)' = Box(q, d)
            BY <1>1, <5>2, <5>3, UnchangedBoxes
          <5> QED BY <5>1, <5>4
        <4>5. Box(q, <<"cache", t>>)' = {}
          BY <3>1, BoxNamesNext
        <4>6. \A d \in Boxes : Box(q, d)' \subseteq Box(q, d)
          BY <4>4, <4>5
        <4> QED BY <1>0, <4>3, <4>6, ThreadFrame, ShrunkBoxes DEF BoxInv
      <3> QED BY <3>2, <3>3
    <2> QED BY <2>2, <2>3 DEF BoxInv
  <1> QED BY <1>3, <1>4 DEF FlushLookup

(* acquire() from the cache. *)
LEMMA PopCacheMoves ==
    ASSUME StepInv, BoxInv, NEW t \in Threads, PopCache(t)
    PROVE  BoxInv'
  <1>0. ThreadStep(t) /\ TypeInv
    BY DEF ThreadStep, StepInv
  <1>1. PICK p \in Ids, slots \in Seq(Nat) : p = cur[t] /\ slots = cache[t].slots
    BY CallFacts DEF PopCache, StepInv, PlaceInv, PlaceOk
  <1>2. /\ call[t] = "acquire" /\ freeList' = freeList /\ NoRepeat(slots) /\ cache[t].id = p
        /\ cache[t] \in CacheType
    BY <1>0, <1>1
    DEF PopCache, StepInv, PlaceInv, PlaceOk, CacheInv, CacheOk, Bound, TypeInv, BoxInv, RepeatInv
  <1>3. CASE slots = << >>
    <2>1. cache' = cache /\ held' = held /\ call' = call
      BY <1>1, <1>3 DEF PopCache, threadVars
    <2>2. \A q \in Ids : HandBox(q, t)' = HandBox(q, t)
      BY <1>2, <2>1 DEF HandBox
    <2> QED BY <1>0, <1>2, <2>1, <2>2, NothingMoves
  <1>4. CASE slots # << >>
    <2>1. /\ \A u \in Threads \ {t} : cache'[u] = cache[u]
          /\ cache'[t].id = p /\ cache'[t].slots = Front(slots)
      <3>1. cache' = [cache EXCEPT ![t].slots = Front(slots)]
        BY <1>0, <1>1, <1>4 DEF PopCache, TypeInv
      <3>2. cache'[t] = [cache[t] EXCEPT !.slots = Front(slots)] /\ \A u \in Threads \ {t} : cache'[u] = cache[u]
        BY <1>0, <3>1 DEF TypeInv
      <3> QED BY <1>2, <3>2 DEF CacheType
    <2>2. /\ \A q \in Ids : q # p => held'[q] = held[q]
          /\ held'[p] = held[p] \cup {Last(slots)} /\ call'[t] = "none"
      BY <1>0, <1>1, <1>4 DEF PopCache, HandOut, Return, TypeInv
    <2>3. /\ Last(slots) \in ToSet(slots) /\ NoRepeat(Front(slots))
          /\ ToSet(Front(slots)) = ToSet(slots) \ {Last(slots)}
      BY <1>1, <1>2, <1>4, FrontFacts
    <2>4. RepeatInv'
      BY <1>2, <2>1, <2>3, RepeatKept DEF BoxInv
    <2>5. ASSUME NEW q \in Ids PROVE PoolOk(q)'
      <3>1. /\ HandBox(q, t)' = HandBox(q, t)
            /\ CacheBox(q, t) = IF q = p THEN ToSet(slots) ELSE {}
            /\ CacheBox(q, t)' = IF q = p THEN ToSet(Front(slots)) ELSE {}
        BY <1>1, <1>2, <2>1, <2>2 DEF HandBox, CacheBox
      <3>2. CASE q # p
        BY <1>0, <1>2, <2>2, <3>1, <3>2, ThreadKeeps
      <3>3. CASE q = p
        <4> DEFINE a == <<"cache", t>>
                   b == <<"held", 0>>
        <4>1. a \in Boxes /\ b \in Boxes /\ a # b
          BY BoxFacts
        <4>2. /\ Box(q, a) = ToSet(slots) /\ Box(q, a)' = ToSet(slots) \ {Last(slots)}
              /\ Box(q, b)' = Box(q, b) \cup {Last(slots)}
          BY <2>2, <2>3, <3>1, <3>3, BoxNames, BoxNamesNext
        <4>3. Box(q, a)' \subseteq Box(q, a) /\ Box(q, b)' = Box(q, b) \cup (Box(q, a) \ Box(q, a)')
          BY <2>3, <4>2
        <4> QED BY <1>0, <1>2, <3>1, <4>1, <4>3, ThreadMoves
      <3> QED BY <3>2, <3>3
    <2> QED BY <2>4, <2>5 DEF BoxInv
  <1> QED BY <1>3, <1>4

(* A refill: from the top of a shard to the cache. *)
LEMMA RefillMoves ==
    ASSUME StepInv, BoxInv, NEW t \in Threads, Refill(t)
    PROVE  BoxInv'
  <1>0. ThreadStep(t) /\ TypeInv
    BY DEF ThreadStep, StepInv
  <1>1. PICK p \in Ids, s \in Shards : p = cur[t] /\ s = Shard(t)
    BY <1>0, CallFacts, ShardFacts DEF Refill, StepInv, PlaceInv, PlaceOk
  <1>2. PICK list \in Seq(Nat) : list = freeList[p][s]
    BY <1>0 DEF TypeInv
  <1>3. Batch(p) \in Nat
    BY <1>0, BatchFacts DEF TypeInv, Batch
  <1>4. PICK m \in 0 .. Len(list) : Len(list) - m = Min({Len(list), Batch(p)})
    <2>1. LET n == Min({Len(list), Batch(p)}) IN Len(list) - n \in 0 .. Len(list) /\ n \in 0 .. Len(list)
      BY <1>3, RefillFacts
    <2>2. LET n == Min({Len(list), Batch(p)}) IN Len(list) - (Len(list) - n) = n
      BY <2>1, EmptyFacts, SMT
    <2> QED BY <2>1, <2>2
  <1>5. /\ call[t] = "acquire" /\ call' = call /\ cur' = cur /\ slot' = slot /\ held' = held
        /\ NoRepeat(list) /\ cache[t].id = p /\ cache[t].slots = << >> /\ cache[t] \in CacheType
    BY <1>0, <1>1, <1>2
    DEF Refill, StepInv, PlaceInv, PlaceOk, CacheInv, CacheOk, Bound, TypeInv, BoxInv, RepeatInv
  <1>6. \A q \in Ids : HandBox(q, t)' = HandBox(q, t)
    BY <1>5 DEF HandBox
  <1>7. CASE Len(list) - m = 0
    <2>1. freeList' = freeList /\ cache' = cache
      BY <1>1, <1>2, <1>4, <1>7 DEF Refill
    <2> QED BY <1>0, <1>5, <1>6, <2>1, NothingMoves
  <1>8. CASE Len(list) - m # 0
    <2> DEFINE rest == SubSeq(list, 1, m)
               top  == SubSeq(list, m + 1, Len(list))
               new  == << >> \o Reverse(top)
    <2>1. /\ rest \in Seq(Nat) /\ top \in Seq(Nat) /\ NoRepeat(rest) /\ NoRepeat(top)
          /\ ToSet(list) = ToSet(rest) \cup ToSet(top) /\ ToSet(rest) \cap ToSet(top) = {}
      BY <1>5, SplitFacts
    <2>2. NoRepeat(new) /\ ToSet(new) = ToSet(top)
      <3>1. /\ Reverse(top) \in Seq(Nat) /\ ToSet(Reverse(top)) = ToSet(top)
            /\ NoRepeat(Reverse(top))
        BY <2>1, ReverseFacts
      <3>2. ToSet(<< >>) \cap ToSet(Reverse(top)) = {}
        BY EmptyFacts
      <3> HIDE DEF top
      <3> QED BY <3>1, <3>2, EmptyFacts, ConcatFacts
    <2>3. /\ freeList' = [freeList EXCEPT ![p][s] = rest]
          /\ cache' = [cache EXCEPT ![t].slots = new]
      <3>1. Len(list) - (Len(list) - m) = m /\ Len(list) - (Len(list) - m) + 1 = m + 1
        BY EmptyFacts, SMT
      <3>2. /\ freeList' = [freeList EXCEPT ![p][s] = SubSeq(list, 1, Len(list) - (Len(list) - m))]
            /\ cache' = [cache EXCEPT ![t].slots = << >> \o
                            Reverse(SubSeq(list, Len(list) - (Len(list) - m) + 1, Len(list)))]
        BY <1>0, <1>1, <1>2, <1>4, <1>5, <1>8 DEF Refill, TypeInv
      <3> QED BY <3>1, <3>2
    <2> HIDE DEF rest, new
    <2>4. /\ \A q \in Ids, r \in Shards : q # p \/ r # s => freeList'[q][r] = freeList[q][r]
          /\ freeList'[p][s] = rest
      BY <1>0, <2>3 DEF TypeInv
    <2>5. /\ \A u \in Threads \ {t} : cache'[u] = cache[u]
          /\ cache'[t].id = p /\ cache'[t].slots = new
      <3>1. cache'[t] = [cache[t] EXCEPT !.slots = new] /\ \A u \in Threads \ {t} : cache'[u] = cache[u]
        BY <1>0, <2>3 DEF TypeInv
      <3> QED BY <1>5, <3>1 DEF CacheType
    <2>6. RepeatInv'
      BY <2>1, <2>2, <2>4, <2>5, RepeatKept DEF BoxInv
    <2>7. ASSUME NEW q \in Ids PROVE PoolOk(q)'
      <3>1. /\ CacheBox(q, t) = {}
            /\ CacheBox(q, t)' = IF q = p THEN ToSet(new) ELSE {}
        BY <1>5, <2>5, EmptyFacts DEF CacheBox
      <3>2. CASE q # p
        BY <1>0, <1>5, <1>6, <2>4, <3>1, <3>2, ThreadKeeps
      <3>3. CASE q = p
        <4> DEFINE a == <<"list", s>>
                   b == <<"cache", t>>
        <4>1. a \in Boxes /\ b \in Boxes /\ a # b
          BY BoxFacts
        <4>2. \A r \in Shards : <<"list", r>> = a \/ freeList'[q][r] = freeList[q][r]
          BY <2>4, <3>3
        <4>3. /\ Box(q, a) = ToSet(list) /\ Box(q, a)' = ToSet(rest)
              /\ Box(q, b) = {} /\ Box(q, b)' = ToSet(top)
          <5>1. freeList'[q][s] = rest /\ CacheBox(q, t)' = ToSet(top) /\ freeList[q][s] = list
            BY <1>2, <2>2, <2>4, <3>1, <3>3
          <5>2. Box(q, a)' = ToSet(freeList'[q][s]) /\ Box(q, b)' = CacheBox(q, t)'
            BY BoxNamesNext
          <5>3. Box(q, a) = ToSet(freeList[q][s]) /\ Box(q, b) = CacheBox(q, t)
            BY BoxNames
          <5> QED BY <3>1, <5>1, <5>2, <5>3
        <4>4. Box(q, a)' \subseteq Box(q, a) /\ Box(q, b)' = Box(q, b) \cup (Box(q, a) \ Box(q, a)')
          BY <2>1, <4>3
        <4> QED BY <1>0, <1>5, <1>6, <4>1, <4>2, <4>4, ThreadMoves
      <3> QED BY <3>2, <3>3
    <2> QED BY <2>6, <2>7 DEF BoxInv
  <1> QED BY <1>7, <1>8

(* release() into the cache. *)
LEMMA PutCacheMoves ==
    ASSUME StepInv, BoxInv, NEW t \in Threads, PutCache(t)
    PROVE  BoxInv'
  <1>0. ThreadStep(t) /\ TypeInv
    BY DEF ThreadStep, StepInv
  <1>1. PICK p \in Ids, i \in Nat, slots \in Seq(Nat) : p = cur[t] /\ i = slot[t] /\ slots = cache[t].slots
    BY <1>0, CallFacts DEF PutCache, StepInv, PlaceInv, PlaceOk, TypeInv
  <1>2. /\ call[t] = "release" /\ freeList' = freeList /\ held' = held /\ NoRepeat(slots)
        /\ cache[t].id = p /\ cache[t] \in CacheType
    BY <1>0, <1>1
    DEF PutCache, StepInv, PlaceInv, PlaceOk, CacheInv, CacheOk, Bound, TypeInv, BoxInv, RepeatInv
  <1>3. CASE Len(slots) = 2 * Batch(p)
    <2>1. cache' = cache /\ call' = call /\ cur' = cur /\ slot' = slot
      BY <1>1, <1>3 DEF PutCache, threadVars
    <2>2. \A q \in Ids : HandBox(q, t)' = HandBox(q, t)
      BY <2>1 DEF HandBox
    <2> QED BY <1>0, <1>2, <2>1, <2>2, NothingMoves
  <1>4. CASE Len(slots) # 2 * Batch(p)
    <2>1. cache' = [cache EXCEPT ![t].slots = Append(slots, i)] /\ call'[t] = "none"
      BY <1>0, <1>1, <1>4 DEF PutCache, Return, TypeInv
    <2>2. /\ \A u \in Threads \ {t} : cache'[u] = cache[u]
          /\ cache'[t].id = p /\ cache'[t].slots = Append(slots, i)
      <3>1. /\ cache'[t] = [cache[t] EXCEPT !.slots = Append(slots, i)]
            /\ \A u \in Threads \ {t} : cache'[u] = cache[u]
        BY <1>0, <2>1 DEF TypeInv
      <3> QED BY <1>2, <3>1 DEF CacheType
    <2>3. ASSUME NEW q \in Ids
          PROVE  /\ HandBox(q, t)' = {} /\ HandBox(q, t) = IF q = p THEN {i} ELSE {}
                 /\ CacheBox(q, t) = IF q = p THEN ToSet(slots) ELSE {}
                 /\ CacheBox(q, t)' = IF q = p THEN ToSet(Append(slots, i)) ELSE {}
      BY <1>1, <1>2, <2>1, <2>2 DEF HandBox, CacheBox
    <2> DEFINE a == <<"hand", t>>
               b == <<"cache", t>>
    <2>4. a \in Boxes /\ b \in Boxes /\ a # b
      BY BoxFacts
    <2>5. Box(p, a) = {i} /\ Box(p, b) = ToSet(slots) /\ i \notin ToSet(slots)
      <3>1. Box(p, a) = {i} /\ Box(p, b) = ToSet(slots)
        BY <2>3, BoxNames
      <3> QED BY <2>4, <3>1 DEF BoxInv, PoolOk, Apart
    <2>6. ToSet(Append(slots, i)) = ToSet(slots) \cup {i} /\ NoRepeat(Append(slots, i))
      BY <1>2, <2>5, AppendFacts
    <2>7. RepeatInv'
      BY <1>2, <2>2, <2>6, RepeatKept DEF BoxInv
    <2>8. ASSUME NEW q \in Ids PROVE PoolOk(q)'
      <3>1. CASE q # p
        BY <1>0, <1>2, <2>3, <3>1, ThreadKeeps
      <3>2. CASE q = p
        <4>1. Box(q, a)' = {} /\ Box(q, b)' = ToSet(slots) \cup {i}
          <5>1. Box(q, a)' = HandBox(q, t)' /\ Box(q, b)' = CacheBox(q, t)'
            BY BoxNamesNext
          <5> QED BY <2>3, <2>6, <3>2, <5>1
        <4>2. Box(q, a)' \subseteq Box(q, a) /\ Box(q, b)' = Box(q, b) \cup (Box(q, a) \ Box(q, a)')
          BY <2>5, <3>2, <4>1
        <4> QED BY <1>0, <1>2, <2>4, <4>2, ThreadMoves
      <3> QED BY <3>1, <3>2
    <2> QED BY <2>7, <2>8 DEF BoxInv
  <1> QED BY <1>3, <1>4

(* A spill: the older half of the cache to the thread's shard. *)
LEMMA SpillMoves ==
    ASSUME StepInv, BoxInv, NEW t \in Threads, Spill(t)
    PROVE  BoxInv'
  <1>0. ThreadStep(t) /\ TypeInv
    BY DEF ThreadStep, StepInv
  <1>1. PICK p \in Ids, s \in Shards, slots \in Seq(Nat) : p = cur[t] /\ s = Home(t) /\ slots = cache[t].slots
    BY <1>0, CallFacts, ShardFacts DEF Spill, StepInv, PlaceInv, PlaceOk
  <1>2. PICK n \in 0 .. Len(slots) : n = Batch(p)
    <2>1. Batch(p) \in Nat /\ Len(slots) = 2 * Batch(p)
      BY <1>0, <1>1, BatchFacts DEF TypeInv, Batch, Spill, StepInv, CacheInv, CacheOk, Bound
    <2> QED BY <2>1, SMT
  <1>3. PICK list \in Seq(Nat) : list = freeList[p][s]
    BY <1>0 DEF TypeInv
  <1>4. /\ call' = call /\ cur' = cur /\ slot' = slot /\ held' = held
        /\ NoRepeat(slots) /\ NoRepeat(list) /\ cache[t].id = p /\ cache[t] \in CacheType
    BY <1>0, <1>1, <1>3
    DEF Spill, threadVars, StepInv, CacheInv, CacheOk, Bound, TypeInv, BoxInv, RepeatInv
  <1> DEFINE old  == SubSeq(slots, 1, n)
             rest == SubSeq(slots, n + 1, Len(slots))
  <1>5. /\ old \in Seq(Nat) /\ rest \in Seq(Nat) /\ NoRepeat(old) /\ NoRepeat(rest)
        /\ ToSet(slots) = ToSet(old) \cup ToSet(rest) /\ ToSet(old) \cap ToSet(rest) = {}
    BY <1>4, SplitFacts
  <1>6. /\ freeList' = [freeList EXCEPT ![p][s] = list \o old]
        /\ cache' = [cache EXCEPT ![t].slots = rest]
    BY <1>0, <1>1, <1>2, <1>3 DEF Spill, TypeInv
  <1> HIDE DEF old, rest
  <1>7. /\ \A q \in Ids, r \in Shards : q # p \/ r # s => freeList'[q][r] = freeList[q][r]
        /\ freeList'[p][s] = list \o old
    BY <1>0, <1>6 DEF TypeInv
  <1>8. /\ \A u \in Threads \ {t} : cache'[u] = cache[u]
        /\ cache'[t].id = p /\ cache'[t].slots = rest
    <2>1. cache'[t] = [cache[t] EXCEPT !.slots = rest] /\ \A u \in Threads \ {t} : cache'[u] = cache[u]
      BY <1>0, <1>6 DEF TypeInv
    <2> QED BY <1>4, <2>1 DEF CacheType
  <1>9. ASSUME NEW q \in Ids
        PROVE  /\ HandBox(q, t)' = HandBox(q, t)
               /\ CacheBox(q, t) = IF q = p THEN ToSet(slots) ELSE {}
               /\ CacheBox(q, t)' = IF q = p THEN ToSet(rest) ELSE {}
    BY <1>1, <1>4, <1>8 DEF HandBox, CacheBox
  <1> DEFINE a == <<"cache", t>>
             b == <<"list", s>>
  <1>10. a \in Boxes /\ b \in Boxes /\ a # b
    BY BoxFacts
  <1>11. Box(p, a) = ToSet(slots) /\ Box(p, b) = ToSet(list) /\ ToSet(list) \cap ToSet(slots) = {}
    <2>1. Box(p, a) = ToSet(slots) /\ Box(p, b) = ToSet(list)
      BY <1>3, <1>9, BoxNames
    <2> QED BY <1>10, <2>1 DEF BoxInv, PoolOk, Apart
  <1>12. ToSet(list \o old) = ToSet(list) \cup ToSet(old) /\ NoRepeat(list \o old)
    BY <1>4, <1>5, <1>11, ConcatFacts
  <1>13. RepeatInv'
    BY <1>5, <1>7, <1>8, <1>12, RepeatKept DEF BoxInv
  <1>14. ASSUME NEW q \in Ids PROVE PoolOk(q)'
    <2>1. CASE q # p
      BY <1>0, <1>4, <1>7, <1>9, <2>1, ThreadKeeps
    <2>2. CASE q = p
      <3>1. \A r \in Shards : <<"list", r>> = b \/ freeList'[q][r] = freeList[q][r]
        BY <1>7, <2>2
      <3>2. Box(q, a)' = ToSet(rest) /\ Box(q, b)' = ToSet(list) \cup ToSet(old)
        <4>1. freeList'[q][s] = list \o old /\ CacheBox(q, t)' = ToSet(rest)
          BY <1>7, <1>9, <2>2
        <4>2. Box(q, a)' = CacheBox(q, t)' /\ Box(q, b)' = ToSet(freeList'[q][s])
          BY BoxNamesNext
        <4> QED BY <1>12, <4>1, <4>2
      <3>3. Box(q, a)' \subseteq Box(q, a) /\ Box(q, b)' = Box(q, b) \cup (Box(q, a) \ Box(q, a)')
        <4>1. ToSet(slots) \ ToSet(rest) = ToSet(old) /\ ToSet(rest) \subseteq ToSet(slots)
          BY <1>5
        <4>2. Box(q, a) = ToSet(slots) /\ Box(q, b) = ToSet(list)
          BY <1>11, <2>2
        <4> QED BY ONLY <3>2, <4>1, <4>2
      <3> QED BY <1>0, <1>4, <1>9, <1>10, <3>1, <3>3, ThreadMoves
    <2> QED BY <2>1, <2>2
  <1> QED BY <1>13, <1>14 DEF BoxInv

(* A new pool has all its slots on its lists, dealt out without overlap;   *)
(* before, nothing had a slot of it.                                       *)
LEMMA ConstructMoves ==
    ASSUME StepInv, BoxInv, NEW a \in Addresses, NEW c \in Capacities, Construct(a, c)
    PROVE  BoxInv'
  <1>0. TypeInv /\ c \in Nat
    BY PoolAssumption DEF StepInv
  <1>1. PICK p \in Ids : p = created + 1
    BY DEF Construct
  <1>2. /\ held' = held /\ cache' = cache /\ call' = call /\ cur' = cur /\ slot' = slot
        /\ \A q \in Ids : q # p => capacity'[q] = capacity[q] /\ freeList'[q] = freeList[q]
        /\ capacity'[p] = c /\ freeList'[p] = [s \in Shards |-> Deal(c, s)]
        /\ alive' = alive \cup {p} /\ registry \subseteq registry' /\ registry' \subseteq registry \cup {p}
    BY <1>0, <1>1 DEF Construct, threadVars, TypeInv
  <1>3. /\ \A s \in Shards : NoRepeat(Deal(c, s)) /\ ToSet(Deal(c, s)) \subseteq 0 .. c - 1
        /\ \A r, s \in Shards : r # s => ToSet(Deal(c, r)) \cap ToSet(Deal(c, s)) = {}
        /\ \A i \in 0 .. c - 1 : \E s \in Shards : i \in ToSet(Deal(c, s))
    BY <1>0, DealFacts
  <1>4. RepeatInv'
    <2>1. ASSUME NEW q \in Ids, NEW s \in Shards
          PROVE  freeList'[q][s] = freeList[q][s] \/ NoRepeat(freeList'[q][s])
      BY <1>2, <1>3
    <2> QED BY <1>2, <2>1, RepeatKept DEF BoxInv
  <1>5. ASSUME NEW q \in Ids, NEW u \in Threads
        PROVE  CacheBox(q, u)' = CacheBox(q, u) /\ HandBox(q, u)' = HandBox(q, u)
    BY <1>2 DEF CacheBox, HandBox
  <1>6. ASSUME NEW q \in Ids, q # p PROVE PoolOk(q)'
    <2>1. Usable(q)' => Usable(q)
      BY <1>2, <1>6 DEF Usable, Batch
    <2>2. \A d \in Boxes \ {} : Box(q, d)' = Box(q, d)
      BY <1>2, <1>5, <1>6, UnchangedBoxes
    <2> QED BY <1>2, <1>6, <2>1, <2>2, SameBoxes DEF BoxInv
  <1>7. PoolOk(p)'
    <2>1. \A d \in Boxes : Box(p, d) = {}
      <3>1. capacity[p] = 0
        <4>1. p > created
          BY <1>0, <1>1, SMT DEF TypeInv
        <4> QED BY <1>0, <4>1 DEF TypeInv
      <3>2. Slots(p) = {}
        BY <3>1, SMT DEF Slots
      <3> QED BY <3>2 DEF BoxInv, PoolOk, Within
    <2>2. ASSUME NEW s \in Shards PROVE Box(p, <<"list", s>>)' = ToSet(Deal(c, s))
      <3>1. freeList'[p][s] = Deal(c, s)
        BY <1>2
      <3> QED BY <3>1, BoxNamesNext
    <2>3. ASSUME NEW d \in Boxes, \A s \in Shards : d # <<"list", s>> PROVE Box(p, d)' = {}
      <3>1. PICK E : E = {<<"list", s>> : s \in Shards}
        OBVIOUS
      <3>2. \A s \in Shards : <<"list", s>> \notin E => freeList'[p][s] = freeList[p][s]
        BY <3>1
      <3>3. \A b \in Boxes \ E : Box(p, b)' = Box(p, b)
        BY <1>2, <1>5, <3>2, UnchangedBoxes
      <3>4. d \notin E
        BY <2>3, <3>1
      <3> QED BY <2>1, <3>3, <3>4
    <2>4. Slots(p)' = 0 .. c - 1
      BY <1>2 DEF Slots
    <2>5. Within(p)'
      <3> SUFFICES ASSUME NEW b \in Boxes PROVE Box(p, b)' \subseteq 0 .. c - 1
        BY <2>4 DEF Within
      <3>1. CASE \E s \in Shards : b = <<"list", s>>
        <4>1. PICK s \in Shards : b = <<"list", s>>
          BY <3>1
        <4>2. Box(p, b)' = ToSet(Deal(c, s))
          BY <2>2, <4>1
        <4> QED BY <1>3, <4>2
      <3>2. CASE \A s \in Shards : b # <<"list", s>>
        <4>1. Box(p, b)' = {}
          BY <2>3, <3>2
        <4> QED BY <4>1
      <3> QED BY <3>1, <3>2
    <2>6. Apart(p)'
      <3> SUFFICES ASSUME NEW b \in Boxes, NEW d \in Boxes, b # d PROVE Box(p, b)' \cap Box(p, d)' = {}
        BY DEF Apart
      <3>1. CASE \E r, s \in Shards : b = <<"list", r>> /\ d = <<"list", s>>
        <4>1. PICK r \in Shards, s \in Shards : b = <<"list", r>> /\ d = <<"list", s>>
          BY <3>1
        <4>2. Box(p, b)' = ToSet(Deal(c, r)) /\ Box(p, d)' = ToSet(Deal(c, s)) /\ r # s
          BY <2>2, <4>1
        <4> QED BY <1>3, <4>2
      <3>2. CASE \A s \in Shards : b # <<"list", s>>
        <4>1. Box(p, b)' = {}
          BY <2>3, <3>2
        <4> QED BY <4>1
      <3>3. CASE \A s \in Shards : d # <<"list", s>>
        <4>1. Box(p, d)' = {}
          BY <2>3, <3>3
        <4> QED BY <4>1
      <3> QED BY <3>1, <3>2, <3>3
    <2>7. Covers(p)'
      <3> SUFFICES ASSUME NEW i \in 0 .. c - 1 PROVE \E b \in Boxes : i \in Box(p, b)'
        BY <2>4 DEF Covers
      <3>1. PICK s \in Shards : i \in ToSet(Deal(c, s))
        BY <1>3
      <3>2. i \in Box(p, <<"list", s>>)' /\ <<"list", s>> \in Boxes
        BY <2>2, <3>1, BoxFacts
      <3> QED BY <3>2
    <2> QED BY <2>5, <2>6, <2>7 DEF PoolOk
  <1>8. \A q \in Ids : PoolOk(q)'
    BY <1>6, <1>7
  <1> QED BY <1>4, <1>8 DEF BoxInv

(* A pool off the registry, or gone, can be used no more.                  *)
LEMMA PoolEndMoves ==
    ASSUME StepInv, BoxInv, NEW p \in Ids, Unregister(p) \/ Free(p)
    PROVE  BoxInv'
  <1>0. TypeInv
    BY DEF StepInv
  <1>1. /\ held' = held /\ cache' = cache /\ call' = call /\ cur' = cur /\ slot' = slot
        /\ capacity' = capacity /\ alive' \subseteq alive /\ registry' \subseteq registry
        /\ \A q \in Ids : q # p => freeList'[q] = freeList[q]
    BY <1>0 DEF Unregister, Free, threadVars, TypeInv
  <1>2. ASSUME NEW q \in Ids, NEW u \in Threads
        PROVE  CacheBox(q, u)' = CacheBox(q, u) /\ HandBox(q, u)' = HandBox(q, u)
    BY <1>1 DEF CacheBox, HandBox
  <1>3. ASSUME NEW q \in Ids, freeList'[q] = freeList[q] PROVE PoolOk(q)'
    <2>1. Usable(q)' => Usable(q)
      BY <1>1 DEF Usable, Batch
    <2>2. \A d \in Boxes \ {} : Box(q, d)' = Box(q, d)
      BY <1>1, <1>2, <1>3, UnchangedBoxes
    <2> QED BY <1>1, <2>1, <2>2, SameBoxes DEF BoxInv
  <1>4. CASE Unregister(p)
    <2>1. freeList' = freeList
      BY <1>4 DEF Unregister
    <2>2. RepeatInv'
      BY <1>1, <2>1, RepeatKept DEF BoxInv
    <2> QED BY <1>3, <2>1, <2>2 DEF BoxInv
  <1>5. CASE Free(p)
    <2>1. freeList'[p] = [s \in Shards |-> << >>] /\ p \notin alive'
      BY <1>0, <1>5 DEF Free, TypeInv
    <2>2. RepeatInv'
      <3>1. ASSUME NEW q \in Ids, NEW s \in Shards
            PROVE  freeList'[q][s] = freeList[q][s] \/ NoRepeat(freeList'[q][s])
        BY <1>1, <2>1, EmptyFacts
      <3> QED BY <1>1, <3>1, RepeatKept DEF BoxInv
    <2>3. PoolOk(p)'
      <3>1. ~Usable(p)'
        BY <2>1 DEF Usable
      <3>2. ASSUME NEW d \in Boxes PROVE Box(p, d)' \subseteq Box(p, d)
        <4>1. CASE \E s \in Shards : d = <<"list", s>>
          <5>1. PICK s \in Shards : d = <<"list", s>>
            BY <4>1
          <5>2. freeList'[p][s] = << >>
            BY <2>1
          <5>3. Box(p, d)' = {}
            BY <5>1, <5>2, EmptyFacts, BoxNamesNext
          <5> QED BY <5>3
        <4>2. CASE \A s \in Shards : d # <<"list", s>>
          <5>1. PICK E : E = {<<"list", s>> : s \in Shards}
            OBVIOUS
          <5>2. \A s \in Shards : <<"list", s>> \notin E => freeList'[p][s] = freeList[p][s]
            BY <5>1
          <5>3. \A b \in Boxes \ E : Box(p, b)' = Box(p, b)
            BY <1>1, <1>2, <5>2, UnchangedBoxes
          <5>4. d \notin E
            BY <4>2, <5>1
          <5> QED BY <5>3, <5>4
        <4> QED BY <4>1, <4>2
      <3> QED BY <1>1, <3>1, <3>2, ShrunkBoxes DEF BoxInv
    <2>4. \A q \in Ids : PoolOk(q)'
      BY <1>1, <1>3, <2>3
    <2> QED BY <2>2, <2>4 DEF BoxInv
  <1> QED BY <1>4, <1>5

(* Every step keeps every pool in order. *)
LEMMA BoxStep ==
    ASSUME StepInv, BoxInv, [PoolNext]_allPoolVars
    PROVE  BoxInv'
  <1>1. CASE UNCHANGED allPoolVars
    <2>1. freeList' = freeList /\ cache' = cache /\ held' = held /\ capacity' = capacity
          /\ alive' = alive /\ registry' = registry /\ call' = call /\ cur' = cur /\ slot' = slot
      BY <1>1 DEF allPoolVars, poolVars, threadVars
    <2>2. RepeatInv'
      BY <2>1, RepeatKept DEF BoxInv
    <2>3. ASSUME NEW q \in Ids PROVE PoolOk(q)'
      <3>1. Usable(q)' => Usable(q)
        BY <2>1 DEF Usable, Batch
      <3>2. ASSUME NEW u \in Threads
            PROVE  CacheBox(q, u)' = CacheBox(q, u) /\ HandBox(q, u)' = HandBox(q, u)
        BY <2>1 DEF CacheBox, HandBox
      <3>3. \A d \in Boxes \ {} : Box(q, d)' = Box(q, d)
        BY <2>1, <3>2, UnchangedBoxes
      <3> QED BY <2>1, <3>1, <3>3, SameBoxes DEF BoxInv
    <2> QED BY <2>2, <2>3 DEF BoxInv
  <1>2. ASSUME NEW t \in Threads, ThreadStep(t) \/ ThreadCalls(t) PROVE BoxInv'
    BY <1>2, CallsMoveNothing, ReleaseMoves, TakeFreeSlotMoves, PushShardMoves, FlushLookupMoves,
       FlushShardMoves, PopCacheMoves, RefillMoves, PutCacheMoves, SpillMoves
    DEF ThreadStep, ThreadCalls
  <1>3. ASSUME NEW a \in Addresses, NEW c \in Capacities, Construct(a, c) PROVE BoxInv'
    BY <1>3, ConstructMoves
  <1>4. ASSUME NEW p \in Ids, Unregister(p) \/ Free(p) PROVE BoxInv'
    BY <1>4, PoolEndMoves
  <1> QED BY <1>1, <1>2, <1>3, <1>4 DEF PoolNext

-----------------------------------------------------------------------------
(* A search left alone *)

(* How far a search has come: it goes on from where it was, or one shard   *)
(* on if that one was empty.                                               *)
LEMMA SearchStep ==
    ASSUME StepInv, NEW t \in Threads, ThreadStep(t) \/ ThreadCalls(t), call'[t] = "acquire"
    PROVE  \/ offset'[t] = 0
           \/ /\ call[t] = "acquire" /\ cur'[t] = cur[t]
              /\ \/ offset'[t] = offset[t]
                 \/ offset'[t] = offset[t] + 1 /\ freeList[cur[t]][Shard(t)] = << >>
  <1>0. PlaceOk(t) /\ TypeInv
    BY DEF StepInv, PlaceInv
  <1>1. CASE CacheLookup(t) \/ FlushLookup(t) \/ FlushShard(t) \/ Spill(t)
    BY <1>1 DEF CacheLookup, FlushLookup, FlushShard, Spill, threadVars
  <1>2. ~Exhausted(t) /\ ~PushShard(t) /\ ~ThreadExit(t)
    BY <1>0 DEF Exhausted, PushShard, ThreadExit, Return, TypeInv
  <1>3. CASE TakeFreeSlot(t)
    <2>1. freeList[cur[t]][Shard(t)] = << >>
      BY <1>0, <1>3 DEF TakeFreeSlot, HandOut, Return, TypeInv
    <2> QED BY <1>0, <1>3, <2>1 DEF TakeFreeSlot, NextShard, PlaceOk, TypeInv
  <1>4. CASE PopCache(t)
    BY <1>0, <1>4 DEF PopCache, HandOut, Return, threadVars, TypeInv
  <1>5. CASE PutCache(t)
    BY <1>0, <1>5 DEF PutCache, Return, threadVars, TypeInv
  <1>6. CASE Refill(t)
    <2> DEFINE list == freeList[cur[t]][Shard(t)]
               n    == Min({Len(list), Batch(cur[t])})
    <2>1. call[t] = "acquire" /\ call' = call /\ cur' = cur /\ cur[t] \in Ids /\ Batch(cur[t]) # 0
      BY <1>0, <1>6, CallFacts DEF Refill, PlaceOk, Bound, StepInv
    <2>2. list \in Seq(Nat) /\ Batch(cur[t]) \in Nat
      BY <1>0, <2>1, ShardFacts, BatchFacts DEF TypeInv, Batch
    <2>3. CASE n = 0
      <3>1. list = << >>
        BY <2>1, <2>2, <2>3, RefillFacts
      <3>2. offset'[t] = offset[t] + 1
        BY <1>0, <1>6, <2>3 DEF Refill, NextShard, TypeInv
      <3> QED BY <2>1, <3>1, <3>2
    <2>4. CASE n # 0
      BY <1>6, <2>1, <2>4 DEF Refill
    <2> QED BY <2>3, <2>4
  <1>7. ASSUME NEW p \in Ids, NEW i, Acquire(t, p) \/ Release(t, p, i) PROVE offset'[t] = 0
    BY <1>0, <1>7 DEF Acquire, Release, Begin, TypeInv
  <1> QED BY <1>1, <1>2, <1>3, <1>4, <1>5, <1>6, <1>7 DEF ThreadStep, ThreadCalls

(* Every step keeps what is known of the shards a search has passed. *)
LEMMA QuietStep ==
    ASSUME StepInv, QuietInv, [PoolNext]_allPoolVars
    PROVE  QuietInv'
  <1> SUFFICES ASSUME NEW u \in Threads, call'[u] = "acquire", quiet'[u], NEW j \in 0 .. offset'[u] - 1
               PROVE  freeList'[cur'[u]][(Home(u) + j) % ShardCount] = << >>
    BY DEF QuietInv, Home
  <1>0. TypeInv /\ PlaceOk(u) /\ offset[u] \in Nat
    BY PoolAssumption, SMT DEF StepInv, PlaceInv, TypeInv
  <1>1. CASE UNCHANGED allPoolVars
    BY <1>1 DEF allPoolVars, threadVars, QuietInv, Home
  <1>2. ASSUME PoolNext
        PROVE  /\ call[u] = "acquire" => quiet[u] /\ freeList'[cur[u]] = freeList[cur[u]]
               /\ call[u] = "acquire" /\ cur'[u] = cur[u]
               /\ \/ offset'[u] = offset[u]
                  \/ offset'[u] = offset[u] + 1 /\ freeList[cur[u]][Shard(u)] = << >>
    <2>1. Observe
      <3>1. ASSUME NEW t \in Threads, ThreadStep(t) PROVE Observe
        BY <3>1 DEF ThreadStep, Exhausted, TakeFreeSlot, PushShard, CacheLookup, FlushLookup, FlushShard,
                    PopCache, Refill, PutCache, Spill
      <3>2. ASSUME NEW t \in Threads, ThreadCalls(t) PROVE Observe
        BY <3>2 DEF ThreadCalls, ThreadExit, Acquire, Release
      <3>3. ASSUME NEW a \in Addresses, NEW c \in Capacities, Construct(a, c) PROVE Observe
        BY <3>3 DEF Construct
      <3>4. ASSUME NEW p \in Ids, Unregister(p) \/ Free(p) PROVE Observe
        BY <3>4 DEF Unregister, Free
      <3> QED BY <1>2, <3>1, <3>2, <3>3, <3>4 DEF PoolNext
    <2>2. call[u] = "acquire" => quiet[u] /\ freeList'[cur[u]] = freeList[cur[u]]
      BY <1>0, <2>1 DEF Observe, PlaceOk
    <2>3. \/ offset'[u] = 0
          \/ /\ call[u] = "acquire" /\ cur'[u] = cur[u]
             /\ \/ offset'[u] = offset[u]
                \/ offset'[u] = offset[u] + 1 /\ freeList[cur[u]][Shard(u)] = << >>
      <3>1. ASSUME NEW t \in Threads, ThreadStep(t) \/ ThreadCalls(t), u # t
            PROVE  call'[u] = call[u] /\ cur'[u] = cur[u] /\ offset'[u] = offset[u]
        BY <1>0, <3>1, OthersLocals
      <3>2. ASSUME NEW a \in Addresses, NEW c \in Capacities, Construct(a, c)
            PROVE  call' = call /\ cur' = cur /\ offset' = offset
        BY <3>2 DEF Construct, threadVars
      <3>3. ASSUME NEW p \in Ids, Unregister(p) \/ Free(p)
            PROVE  call' = call /\ cur' = cur /\ offset' = offset
        BY <3>3 DEF Unregister, Free, threadVars
      <3> QED BY <1>2, <3>1, <3>2, <3>3, SearchStep DEF PoolNext
    <2>4. offset'[u] # 0
      <3>1. offset'[u] = 0 => j \in 0 .. -1
        OBVIOUS
      <3>2. ~(j \in 0 .. -1)
        BY SMT
      <3> QED BY <3>1, <3>2
    <2> QED BY <2>2, <2>3, <2>4
  <1>3. ASSUME PoolNext PROVE freeList'[cur'[u]][(Home(u) + j) % ShardCount] = << >>
    <2>1. freeList'[cur'[u]] = freeList[cur[u]] /\ call[u] = "acquire" /\ quiet[u]
      BY <1>2, <1>3
    <2>2. \A k \in 0 .. offset[u] - 1 : freeList[cur[u]][(Home(u) + k) % ShardCount] = << >>
      BY <2>1 DEF QuietInv
    <2>3. j \in 0 .. offset[u] - 1 \/ (j = offset[u] /\ freeList[cur[u]][Shard(u)] = << >>)
      BY <1>0, <1>2, <1>3, SMT
    <2> QED BY <2>1, <2>2, <2>3 DEF Shard
  <1> QED BY <1>1, <1>3

-----------------------------------------------------------------------------
(* The theorems *)

(* No pool, no slot: the invariant holds at the start. *)
LEMMA InitIInv == PoolInit => IInv
  <1> SUFFICES ASSUME PoolInit PROVE IInv
    OBVIOUS
  <1>1. MaxPools \in Nat /\ ShardCount \in Nat \ {0} /\ 0 \in 0 .. MaxPools /\ 0 \in 0 .. ShardCount
        /\ \A p \in Ids : p > 0
    BY PoolAssumption, SMT DEF Ids
  <1>2. NoCache \in CacheType /\ NoCache.id = 0 /\ NoCache.slots = << >>
    BY <1>1, EmptyFacts DEF NoCache, CacheType
  <1>3. TypeInv
    BY <1>1, <1>2, EmptyFacts DEF PoolInit, TypeInv, Places0
  <1>4. PlaceInv
    BY <1>1 DEF PoolInit, PlaceInv, PlaceOk, Bound
  <1>5. CacheInv
    <2> SUFFICES ASSUME NEW t \in Threads PROVE CacheOk(t)
      BY DEF CacheInv
    <2>1. cache[t] = NoCache /\ pc[t] = "idle" /\ created = 0
      BY DEF PoolInit
    <2> QED BY <1>2, <2>1 DEF CacheOk, Bound
  <1>6. FlushInv
    BY DEF PoolInit, FlushInv
  <1>7. BoxInv
    <2>1. RepeatInv
      BY <1>2, EmptyFacts DEF PoolInit, RepeatInv
    <2>2. ASSUME NEW p \in Ids PROVE PoolOk(p)
      <3>1. ASSUME NEW b \in Boxes PROVE Box(p, b) = {}
        <4>1. ASSUME NEW s \in Shards PROVE Box(p, <<"list", s>>) = {}
          BY EmptyFacts DEF PoolInit, Box
        <4>2. ASSUME NEW t \in Threads PROVE Box(p, <<"cache", t>>) = {} /\ Box(p, <<"hand", t>>) = {}
          BY <1>1, <1>2, EmptyFacts DEF PoolInit, Box, CacheBox, HandBox
        <4>3. Box(p, <<"held", 0>>) = {}
          BY DEF PoolInit, Box
        <4> QED BY <4>1, <4>2, <4>3, BoxFacts
      <3>2. ~Usable(p)
        BY DEF PoolInit, Usable
      <3> QED BY <3>1, <3>2 DEF PoolOk, Within, Apart
    <2> QED BY <2>1, <2>2 DEF BoxInv
  <1>8. QuietInv
    BY DEF PoolInit, QuietInv
  <1> QED BY <1>3, <1>4, <1>5, <1>6, <1>7, <1>8 DEF IInv, StepInv

(* The invariant holds of every behaviour. *)
LEMMA Invariance == PoolSpec => []IInv
  <1>1. IInv /\ [PoolNext]_allPoolVars => IInv'
    BY StepStep, BoxStep, QuietStep DEF IInv
  <1> QED BY <1>1, InitIInv, PTL DEF PoolSpec

(* PoolTypeOK: every variable stays in its range, the clients hold slots   *)
(* of the pool only, and a ThreadCache never outgrows its array, however   *)
(* releases, spills and rebindings follow each other.                      *)
THEOREM TypeCorrect == PoolSpec => []PoolTypeOK
  <1>1. IInv => PoolTypeOK
    <2> SUFFICES ASSUME IInv PROVE PoolTypeOK
      OBVIOUS
    <2>1. ASSUME NEW p \in Ids PROVE held[p] \subseteq Slots(p)
      BY BoxFacts, BoxNames DEF IInv, BoxInv, PoolOk, Within
    <2>2. ASSUME NEW t \in Threads
          PROVE  /\ cache[t].id \in 0 .. created
                 /\ cache[t].id # 0 => Len(cache[t].slots) <= 2 * Batch(cache[t].id)
                 /\ cur[t] \in 0 .. created
                 /\ offset[t] \in 0 .. ShardCount
      BY DEF IInv, StepInv, PlaceInv, PlaceOk, CacheInv, CacheOk, TypeInv
    <2> QED BY <2>1, <2>2 DEF PoolTypeOK, IInv, StepInv, TypeInv
  <1> QED BY <1>1, Invariance, PTL

(* A place of slot i in the box b of pool p. *)
PlaceIn(p, i, b, x) ==
    \/ \E s \in Shards : \E k \in DOMAIN freeList[p][s] :
          b = <<"list", s>> /\ freeList[p][s][k] = i /\ x = <<"list", s, k>>
    \/ \E t \in Threads : \E k \in DOMAIN cache[t].slots :
          b = <<"cache", t>> /\ cache[t].id = p /\ cache[t].slots[k] = i /\ x = <<"cache", t, k>>
    \/ \E t \in Threads :
          b = <<"hand", t>> /\ call[t] = "release" /\ cur[t] = p /\ slot[t] = i /\ x = <<"hand", t>>
    \/ b = <<"held", 0>> /\ i \in held[p] /\ x = <<"held", p>>

(* Places lists the places in the boxes. *)
LEMMA PlacesAreInBoxes ==
    ASSUME PlaceInv, NEW p \in Ids, NEW i \in Nat
    PROVE  /\ \A x : x \in Places(p, i) <=> \E b \in Boxes : PlaceIn(p, i, b, x)
           /\ \A b \in Boxes : i \in Box(p, b) <=> \E x : PlaceIn(p, i, b, x)
  <1> DEFINE L == UNION {{<<"list", s, k>> : k \in {j \in DOMAIN freeList[p][s] : freeList[p][s][j] = i}} :
                         s \in Shards}
             C == UNION {{<<"cache", t, k>> : k \in {j \in DOMAIN cache[t].slots : cache[t].slots[j] = i}} :
                         t \in {u \in Threads : cache[u].id = p}}
             H == {<<"hand", t>> : t \in {u \in Threads : /\ call[u] = "release" /\ cur[u] = p
                                                        /\ slot[u] = i /\ pc[u] # "idle"}}
             D == {<<"held", p>> : h \in held[p] \cap {i}}
  <1>1. Places(p, i) = L \cup C \cup H \cup D
    BY DEF Places
  <1>2. ASSUME NEW x PROVE x \in Places(p, i) <=> \E b \in Boxes : PlaceIn(p, i, b, x)
    <2>1. x \in L <=> \E s \in Shards : \E k \in DOMAIN freeList[p][s] : freeList[p][s][k] = i /\ x = <<"list", s, k>>
      OBVIOUS
    <2>2. x \in C <=> \E t \in Threads : \E k \in DOMAIN cache[t].slots :
                         cache[t].id = p /\ cache[t].slots[k] = i /\ x = <<"cache", t, k>>
      OBVIOUS
    <2>3. x \in H <=> \E t \in Threads : call[t] = "release" /\ cur[t] = p /\ slot[t] = i /\ x = <<"hand", t>>
      BY DEF PlaceInv, PlaceOk
    <2>4. x \in D <=> i \in held[p] /\ x = <<"held", p>>
      OBVIOUS
    <2> HIDE DEF L, C, H, D
    <2>5. (\E b \in Boxes : PlaceIn(p, i, b, x)) => x \in L \cup C \cup H \cup D
      BY <2>1, <2>2, <2>3, <2>4 DEF PlaceIn
    <2>6. x \in L \cup C \cup H \cup D => \E b \in Boxes : PlaceIn(p, i, b, x)
      BY <2>1, <2>2, <2>3, <2>4, BoxFacts DEF PlaceIn
    <2> QED BY <1>1, <2>5, <2>6
  <1>3. ASSUME NEW b \in Boxes PROVE i \in Box(p, b) <=> \E x : PlaceIn(p, i, b, x)
    <2>1. ASSUME NEW s \in Shards, b = <<"list", s>> PROVE i \in Box(p, b) <=> \E x : PlaceIn(p, i, b, x)
      <3>1. i \in Box(p, b) <=> \E k \in DOMAIN freeList[p][s] : freeList[p][s][k] = i
        <4>1. Box(p, b) = ToSet(freeList[p][s])
          BY <2>1, BoxNames
        <4>2. ToSet(freeList[p][s]) = {freeList[p][s][k] : k \in DOMAIN freeList[p][s]}
          BY DEF ToSet
        <4> QED BY ONLY <4>1, <4>2
      <3>2. \A x : PlaceIn(p, i, b, x) <=> \E k \in DOMAIN freeList[p][s] :
                                             freeList[p][s][k] = i /\ x = <<"list", s, k>>
        BY <2>1 DEF PlaceIn
      <3> QED BY <3>1, <3>2
    <2>2. ASSUME NEW t \in Threads, b = <<"cache", t>> PROVE i \in Box(p, b) <=> \E x : PlaceIn(p, i, b, x)
      <3>1. i \in Box(p, b) <=> cache[t].id = p /\ \E k \in DOMAIN cache[t].slots : cache[t].slots[k] = i
        <4>1. Box(p, b) = IF cache[t].id = p THEN ToSet(cache[t].slots) ELSE {}
          BY <2>2, BoxNames DEF CacheBox
        <4>2. ToSet(cache[t].slots) = {cache[t].slots[k] : k \in DOMAIN cache[t].slots}
          BY DEF ToSet
        <4> QED BY ONLY <4>1, <4>2
      <3>2. \A x : PlaceIn(p, i, b, x) <=> \E k \in DOMAIN cache[t].slots :
                     cache[t].id = p /\ cache[t].slots[k] = i /\ x = <<"cache", t, k>>
        BY <2>2 DEF PlaceIn
      <3> QED BY <3>1, <3>2
    <2>3. ASSUME NEW t \in Threads, b = <<"hand", t>> PROVE i \in Box(p, b) <=> \E x : PlaceIn(p, i, b, x)
      <3>1. i \in Box(p, b) <=> call[t] = "release" /\ cur[t] = p /\ slot[t] = i
        <4>1. Box(p, b) = IF call[t] = "release" /\ cur[t] = p THEN {slot[t]} ELSE {}
          BY <2>3, BoxNames DEF HandBox
        <4> QED BY <4>1
      <3>2. \A x : PlaceIn(p, i, b, x) <=> /\ call[t] = "release" /\ cur[t] = p /\ slot[t] = i
                                            /\ x = <<"hand", t>>
        BY <2>3 DEF PlaceIn
      <3> QED BY <3>1, <3>2
    <2>4. ASSUME b = <<"held", 0>> PROVE i \in Box(p, b) <=> \E x : PlaceIn(p, i, b, x)
      BY <2>4, BoxNames DEF PlaceIn
    <2> QED BY <2>1, <2>2, <2>3, <2>4, BoxFacts
  <1> QED BY <1>2, <1>3

(* A box without repetition has a slot in one place. *)
LEMMA OnePlacePerBox ==
    ASSUME TypeInv, RepeatInv, NEW p \in Ids, NEW i \in Nat, NEW b, NEW x, NEW y,
           PlaceIn(p, i, b, x), PlaceIn(p, i, b, y)
    PROVE  x = y
  <1>1. ASSUME NEW s \in Shards, NEW k \in DOMAIN freeList[p][s], NEW l \in DOMAIN freeList[p][s],
               freeList[p][s][k] = i, freeList[p][s][l] = i
        PROVE  k = l
    <2>1. DOMAIN freeList[p][s] = 1 .. Len(freeList[p][s])
      BY DEF TypeInv
    <2> QED BY <1>1, <2>1 DEF RepeatInv, NoRepeat
  <1>2. ASSUME NEW t \in Threads, NEW k \in DOMAIN cache[t].slots, NEW l \in DOMAIN cache[t].slots,
               cache[t].slots[k] = i, cache[t].slots[l] = i
        PROVE  k = l
    <2>1. DOMAIN cache[t].slots = 1 .. Len(cache[t].slots)
      BY DEF TypeInv, CacheType
    <2> QED BY <1>2, <2>1 DEF RepeatInv, NoRepeat
  <1>3. CASE \E s \in Shards : b = <<"list", s>>
    BY <1>1, <1>3 DEF PlaceIn
  <1>4. CASE \E t \in Threads : b = <<"cache", t>>
    BY <1>2, <1>4 DEF PlaceIn
  <1>5. CASE \E t \in Threads : b = <<"hand", t>>
    BY <1>5 DEF PlaceIn
  <1>6. CASE b = <<"held", 0>>
    BY <1>6 DEF PlaceIn
  <1> QED BY <1>3, <1>4, <1>5, <1>6 DEF PlaceIn

(* SlotConservation: whatever is refilled, spilled, flushed on rebinding   *)
(* or at a thread's end, and whichever pools died meanwhile at the same    *)
(* address, each slot of a pool that can be used is in exactly one place.  *)
THEOREM SlotsConserved == PoolSpec => []SlotConservation
  <1>1. IInv => SlotConservation
    <2> SUFFICES ASSUME IInv, NEW p \in Ids, Usable(p), NEW i \in Slots(p)
                 PROVE  Cardinality(Places(p, i)) = 1
      BY DEF SlotConservation
    <2>1. TypeInv /\ PlaceInv /\ RepeatInv /\ Apart(p) /\ Covers(p) /\ i \in Nat
      <3>1. capacity[p] \in Nat
        BY DEF IInv, StepInv, TypeInv
      <3> QED BY <3>1, SMT DEF IInv, StepInv, BoxInv, PoolOk, Slots
    <2>2. PICK b \in Boxes : i \in Box(p, b)
      BY <2>1 DEF Covers
    <2>3. PICK x : PlaceIn(p, i, b, x)
      BY <2>1, <2>2, PlacesAreInBoxes
    <2>4. ASSUME NEW y \in Places(p, i) PROVE y = x
      <3>1. PICK d \in Boxes : PlaceIn(p, i, d, y)
        BY <2>1, <2>4, PlacesAreInBoxes
      <3>2. i \in Box(p, d)
        BY <2>1, <3>1, PlacesAreInBoxes
      <3>3. d = b
        BY <2>1, <2>2, <3>2 DEF Apart
      <3> QED BY <2>1, <2>3, <3>1, <3>3, OnePlacePerBox
    <2>5. x \in Places(p, i)
      BY <2>1, <2>3, PlacesAreInBoxes
    <2>6. Places(p, i) = {x}
      BY <2>4, <2>5
    <2> QED BY <2>6, FS_Singleton
  <1> QED BY <1>1, Invariance, PTL

(* NoFlushIntoDeadPool: a pool cannot be destroyed between the lookup of   *)
(* the registry and the end of the flush.                                  *)
THEOREM FlushesReachLivePools == PoolSpec => []NoFlushIntoDeadPool
  <1>1. IInv => NoFlushIntoDeadPool
    BY DEF IInv, StepInv, FlushInv, TypeInv, NoFlushIntoDeadPool
  <1> QED BY <1>1, Invariance, PTL

(* QuietExhaustion: an acquire() that fails has found every shard empty,   *)
(* if none of them changed under it.                                       *)
THEOREM ExhaustionIsReal == PoolSpec => []QuietExhaustion
  <1>1. IInv => QuietExhaustion
    <2> SUFFICES ASSUME IInv, NEW t \in Threads, pc[t] = "none", quiet[t], NEW s \in Shards
                 PROVE  freeList[cur[t]][s] = << >>
      BY DEF QuietExhaustion, AllEmpty
    <2>1. /\ call[t] = "acquire" /\ offset[t] = ShardCount
          /\ \A j \in 0 .. offset[t] - 1 : freeList[cur[t]][(Home(t) + j) % ShardCount] = << >>
      BY DEF IInv, StepInv, PlaceInv, PlaceOk, QuietInv
    <2>2. Home(t) \in Shards
      BY ShardFacts DEF IInv, StepInv
    <2>3. PICK j \in 0 .. ShardCount - 1 : (Home(t) + j) % ShardCount = s
      BY <2>2, SearchSeesAll
    <2> QED BY <2>1, <2>3
  <1> QED BY <1>1, Invariance, PTL

=============================================================================
