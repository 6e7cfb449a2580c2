------------------------------- MODULE TaskPool -------------------------------
(***************************************************************************)
(* core/task/TaskPool.cpp: where the free slots of a pool are.  Sharded    *)
(* free lists, per-thread caches that follow the pool used last, the       *)
(* registry of live pools through which a cache is flushed, and pools that *)
(* are created and destroyed meanwhile, a new one where an old one was.    *)
(* A step is one critical section (of a shard or of the registry) or a     *)
(* piece of code that touches the thread's own cache only.                 *)
(*                                                                         *)
(* Abstracted: the task in a slot and the slot's generation                *)
(* (TaskLifecycle), and the contention counters.                           *)
(***************************************************************************)
EXTENDS Integers, SequencesExt, FiniteSets

CONSTANTS NumThreads,    \* threads, numbered in the order of their first use
          ShardCount,    \* kShardCount
          Capacities,    \* what a pool's capacity_ can be
          MinCapacityForCache,  \* kMinCapacityForCache: smaller pools have no caches
          CacheShare,    \* kShardCount * 4: the part of a pool that is a cache's batch
          MaxBatch,      \* kMaxBatch
          MaxPools,      \* bound: pools created in all
          MaxSlots,      \* bound: slots of the pools alive together
          Addresses,     \* where a pool can live
          Nobody,        \* registry_mutex() is free
          NoAddress      \* nullptr

ASSUME PoolAssumption ==
    /\ NumThreads \in Nat /\ ShardCount \in Nat \ {0}
    /\ Capacities # {} /\ Capacities \subseteq Nat
    /\ CacheShare \in Nat \ {0} /\ MinCapacityForCache \in Nat /\ MaxBatch \in Nat
    /\ MaxPools \in Nat /\ MaxSlots \in Nat
    /\ Nobody \notin 0 .. NumThreads - 1

Threads == 0 .. NumThreads - 1
Shards  == 0 .. ShardCount - 1
Ids     == 1 .. MaxPools            \* g_next_pool_id starts at 1; 0 is no pool

VARIABLES created,     \* pools constructed so far: the last id given out
          address,     \* id -> where that pool lives
          capacity,    \* id -> its capacity_
          alive,       \* pools whose memory is valid
          registry,    \* registry(): pools a flush may go to
          regMutex,    \* who holds registry_mutex()
          freeList,    \* id -> shard -> stack of slots
          held,        \* id -> slots the clients hold: acquired, not released
          cache,       \* thread -> its ThreadCache
          pc, call,    \* thread -> where it is; in acquire or release
          cur,         \* thread -> the pool it is called on
          slot,        \* thread -> the slot it hands out or gives back
          offset,      \* thread -> shards it has already searched
          quiet        \* history: no free list of cur changed since the call began

poolVars   == <<created, address, capacity, alive, registry>>
threadVars == <<call, cur, slot, offset>>
allPoolVars == <<created, address, capacity, alive, registry, regMutex, freeList, held, cache, pc, call,
          cur, slot, offset, quiet>>

Slots(p) == 0 .. capacity[p] - 1

(* cache_batch_; 0: the pool uses no caches *)
BatchOf(c) == IF c >= MinCapacityForCache THEN Min({MaxBatch, c \div CacheShare}) ELSE 0
Batch(p) == BatchOf(capacity[p])

NoCache == [id |-> 0, pool |-> NoAddress, slots |-> << >>]

PoolInit ==
    /\ created = 0
    /\ address = [p \in Ids |-> NoAddress]
    /\ capacity = [p \in Ids |-> 0]
    /\ alive = {}
    /\ registry = {}
    /\ regMutex = Nobody
    /\ freeList = [p \in Ids |-> [s \in Shards |-> << >>]]
    /\ held = [p \in Ids |-> {}]
    /\ cache = [t \in Threads |-> NoCache]
    /\ pc = [t \in Threads |-> "idle"]
    /\ call = [t \in Threads |-> "none"]
    /\ cur = [t \in Threads |-> 0]
    /\ slot = [t \in Threads |-> 0]
    /\ offset = [t \in Threads |-> 0]
    /\ quiet = [t \in Threads |-> TRUE]

Goto(t, l) == pc' = [pc EXCEPT ![t] = l]

(* The call returns; its locals are gone. *)
Return(t) ==
    /\ Goto(t, "idle")
    /\ call' = [call EXCEPT ![t] = "none"]
    /\ cur' = [cur EXCEPT ![t] = 0]
    /\ slot' = [slot EXCEPT ![t] = 0]
    /\ offset' = [offset EXCEPT ![t] = 0]

(* preferred_shard(), which is thread_slot() *)
Home(t) == t % ShardCount

AllEmpty(p, lists) == \A s \in Shards : lists[p][s] = << >>

(* History: does a call under way see the free lists change? *)
Observe ==
    quiet' = [t \in Threads |->
                 IF pc[t] \in {"idle", "exited"} \/ cur[t] = 0 THEN TRUE
                 ELSE quiet[t] /\ freeList'[cur[t]] = freeList[cur[t]]]

-----------------------------------------------------------------------------
(* A pool's life *)

(* Slots are dealt round-robin: shard s gets s, s + ShardCount, and so on, *)
(* the lowest on top.                                                      *)
Deal(c, s) ==
    LET n == (c + ShardCount - 1 - s) \div ShardCount
    IN  [k \in 1 .. n |-> s + (n - k) * ShardCount]

Construct(a, c) ==
    LET p == created + 1 IN
    /\ p \in Ids
    /\ \A q \in alive : address[q] # a
    /\ MapThenSumSet(LAMBDA q : capacity[q], alive) + c <= MaxSlots
    /\ BatchOf(c) # 0 => regMutex = Nobody
    /\ created' = p
    /\ address' = [address EXCEPT ![p] = a]
    /\ capacity' = [capacity EXCEPT ![p] = c]
    /\ alive' = alive \cup {p}
    /\ registry' = IF BatchOf(c) # 0 THEN registry \cup {p} ELSE registry
    /\ freeList' = [freeList EXCEPT ![p] = [s \in Shards |-> Deal(c, s)]]
    /\ UNCHANGED <<regMutex, held, cache, pc, threadVars>>
    /\ Observe

(* The pool's clients are done with it; caches may still name it. *)
Unused(p) == held[p] = {} /\ \A t \in Threads : pc[t] = "idle" \/ cur[t] # p

(* ~TaskPool(): off the registry first ... *)
Unregister(p) ==
    /\ p \in registry
    /\ Unused(p)
    /\ regMutex = Nobody
    /\ registry' = registry \ {p}
    /\ UNCHANGED <<created, address, capacity, alive, regMutex, freeList, held, cache, pc, threadVars>>
    /\ Observe

(* ... then the memory goes *)
Free(p) ==
    /\ p \in alive \ registry
    /\ Unused(p)
    /\ alive' = alive \ {p}
    /\ address' = [address EXCEPT ![p] = NoAddress]
    /\ freeList' = [freeList EXCEPT ![p] = [s \in Shards |-> << >>]]
    /\ UNCHANGED <<created, capacity, registry, regMutex, held, cache, pc, threadVars>>
    /\ Observe

-----------------------------------------------------------------------------
(* Calls *)

Usable(p) == p \in alive /\ (Batch(p) # 0 => p \in registry)

Begin(t, p, c) ==
    /\ pc[t] = "idle"
    /\ call[t] # "exit"
    /\ Usable(p)
    /\ call' = [call EXCEPT ![t] = c]
    /\ cur' = [cur EXCEPT ![t] = p]
    /\ offset' = [offset EXCEPT ![t] = 0]
    /\ Goto(t, IF Batch(p) # 0 THEN "cache" ELSE IF c = "release" THEN "push" ELSE "search")
    /\ UNCHANGED <<poolVars, regMutex, freeList, cache>>

(* acquire() and reserve() *)
Acquire(t, p) ==
    /\ Begin(t, p, "acquire")
    /\ UNCHANGED <<held, slot>>
    /\ Observe

Release(t, p, i) ==
    /\ i \in held[p]
    /\ Begin(t, p, "release")
    /\ slot' = [slot EXCEPT ![t] = i]
    /\ held' = [held EXCEPT ![p] = @ \ {i}]
    /\ Observe

(* The call returns the slot i, which is the caller's from now on. *)
HandOut(t, i) ==
    /\ held' = [held EXCEPT ![cur[t]] = @ \cup {i}]
    /\ Return(t)

(* Every shard was empty when it was searched: an invalid handle. *)
Exhausted(t) ==
    /\ pc[t] = "none"
    /\ Return(t)
    /\ UNCHANGED <<poolVars, regMutex, freeList, held, cache>>
    /\ Observe

-----------------------------------------------------------------------------
(* Without caches: the shards from the thread's own on, each under its     *)
(* own mutex                                                               *)

Shard(t) == (Home(t) + offset[t]) % ShardCount

(* Faulty variant: the last shard is never searched *)
NextShardOffByOne(t, l) ==
    /\ offset' = [offset EXCEPT ![t] = @ + 1]
    /\ Goto(t, IF offset[t] + 2 < ShardCount THEN l ELSE "none")

(* the shard is empty: the next one, unless all have been searched *)
NextShard(t, l) ==
    /\ offset' = [offset EXCEPT ![t] = @ + 1]
    /\ Goto(t, IF offset[t] + 1 < ShardCount THEN l ELSE "none")

TakeFreeSlot(t) ==
    LET list == freeList[cur[t]][Shard(t)] IN
    /\ pc[t] = "search"
    /\ IF list # << >>
       THEN /\ freeList' = [freeList EXCEPT ![cur[t]][Shard(t)] = Front(list)]
            /\ HandOut(t, Last(list))
       ELSE NextShard(t, "search") /\ UNCHANGED <<freeList, held, call, cur, slot>>
    /\ UNCHANGED <<poolVars, regMutex, cache>>
    /\ Observe

(* a released slot goes to the releasing thread's shard *)
PushShard(t) ==
    /\ pc[t] = "push"
    /\ freeList' = [freeList EXCEPT ![cur[t]][Home(t)] = Append(@, slot[t])]
    /\ Return(t)
    /\ UNCHANGED <<poolVars, regMutex, held, cache>>
    /\ Observe

-----------------------------------------------------------------------------
(* With caches *)

(* Faulty variant: a cache is recognised by the address of its pool *)
CacheLookupByAddress(t) ==
    /\ pc[t] = "cache"
    /\ Goto(t, IF cache[t].pool # address[cur[t]] THEN "flush"
               ELSE IF call[t] = "release" THEN "put" ELSE "pop")
    /\ UNCHANGED <<poolVars, regMutex, freeList, held, cache, threadVars>>
    /\ Observe

(* Is the cache bound to the pool called? *)
CacheLookup(t) ==
    /\ pc[t] = "cache"
    /\ Goto(t, IF cache[t].id # cur[t] THEN "flush"
               ELSE IF call[t] = "release" THEN "put" ELSE "pop")
    /\ UNCHANGED <<poolVars, regMutex, freeList, held, cache, threadVars>>
    /\ Observe

(* drain_cache(): reset, and in rebind_cache() bound to the pool called *)
Rebound(t) ==
    IF call[t] = "exit" THEN cache' = [cache EXCEPT ![t] = NoCache] /\ Goto(t, "exited")
    ELSE /\ cache' = [cache EXCEPT ![t] = [id |-> cur[t], pool |-> address[cur[t]],
                                           slots |-> << >>]]
         /\ Goto(t, "cache")

(* Faulty variant: registry_mutex() is released before the flush *)
FlushLookupUnlocked(t) ==
    /\ pc[t] = "flush"
    /\ IF cache[t].slots = << >> THEN Rebound(t) /\ UNCHANGED regMutex
       ELSE /\ regMutex = Nobody
            /\ UNCHANGED regMutex
            /\ IF cache[t].id \in registry THEN Goto(t, "flushShard") /\ UNCHANGED cache
               ELSE Rebound(t)
    /\ UNCHANGED <<poolVars, freeList, held, threadVars>>
    /\ Observe

(* Lock the registry and look the cache's pool up; of a pool that is gone  *)
(* the slots are dropped.                                                  *)
FlushLookup(t) ==
    /\ pc[t] = "flush"
    /\ IF cache[t].slots = << >> THEN Rebound(t) /\ UNCHANGED regMutex
       ELSE /\ regMutex = Nobody
            /\ IF cache[t].id \in registry
               THEN regMutex' = t /\ Goto(t, "flushShard") /\ UNCHANGED cache
               ELSE Rebound(t) /\ UNCHANGED regMutex
    /\ UNCHANGED <<poolVars, freeList, held, threadVars>>
    /\ Observe

(* still under the registry's mutex: the slots go to the thread's shard *)
FlushShard(t) ==
    /\ pc[t] = "flushShard"
    /\ freeList' = [freeList EXCEPT ![cache[t].id][Home(t)] = @ \o cache[t].slots]
    /\ regMutex' = Nobody
    /\ Rebound(t)
    /\ UNCHANGED <<poolVars, held, threadVars>>
    /\ Observe

PopCache(t) ==
    /\ pc[t] = "pop"
    /\ IF cache[t].slots # << >>
       THEN /\ cache' = [cache EXCEPT ![t].slots = Front(@)]
            /\ HandOut(t, Last(cache[t].slots))
       ELSE Goto(t, "refill") /\ UNCHANGED <<cache, held, threadVars>>
    /\ UNCHANGED <<poolVars, regMutex, freeList>>
    /\ Observe

(* refill_cache(): up to a batch from the top of the first shard that has any *)
Refill(t) ==
    LET list == freeList[cur[t]][Shard(t)]
        n    == Min({Len(list), Batch(cur[t])})
    IN  /\ pc[t] = "refill"
        /\ IF n # 0
           THEN /\ cache' = [cache EXCEPT
                                ![t].slots = @ \o Reverse(SubSeq(list, Len(list) - n + 1, Len(list)))]
                /\ freeList' = [freeList EXCEPT ![cur[t]][Shard(t)] = SubSeq(list, 1, Len(list) - n)]
                /\ Goto(t, "pop")
                /\ UNCHANGED offset
           ELSE NextShard(t, "refill") /\ UNCHANGED <<cache, freeList>>
        /\ UNCHANGED <<poolVars, regMutex, held, call, cur, slot>>
        /\ Observe

(* Faulty variant: the cache is spilled one slot too late *)
PutCacheLateSpill(t) ==
    /\ pc[t] = "put"
    /\ IF Len(cache[t].slots) > 2 * Batch(cur[t])
       THEN Goto(t, "spill") /\ UNCHANGED <<cache, threadVars>>
       ELSE cache' = [cache EXCEPT ![t].slots = Append(@, slot[t])] /\ Return(t)
    /\ UNCHANGED <<poolVars, regMutex, freeList, held>>
    /\ Observe

(* release() into the cache, which is first spilled when it is full *)
PutCache(t) ==
    /\ pc[t] = "put"
    /\ IF Len(cache[t].slots) = 2 * Batch(cur[t])
       THEN Goto(t, "spill") /\ UNCHANGED <<cache, threadVars>>
       ELSE cache' = [cache EXCEPT ![t].slots = Append(@, slot[t])] /\ Return(t)
    /\ UNCHANGED <<poolVars, regMutex, freeList, held>>
    /\ Observe

(* spill_cache(): the older half goes to the thread's shard *)
Spill(t) ==
    LET slots == cache[t].slots
        n == Batch(cur[t])
    IN
    /\ pc[t] = "spill"
    /\ freeList' = [freeList EXCEPT ![cur[t]][Home(t)] = @ \o SubSeq(slots, 1, n)]
    /\ cache' = [cache EXCEPT ![t].slots = SubSeq(slots, n + 1, Len(slots))]
    /\ Goto(t, "put")
    /\ UNCHANGED <<poolVars, regMutex, held, threadVars>>
    /\ Observe

(* ~ThreadCache() when the thread ends *)
ThreadExit(t) ==
    /\ pc[t] = "idle"
    /\ call' = [call EXCEPT ![t] = "exit"]
    /\ cur' = [cur EXCEPT ![t] = 0]
    /\ Goto(t, "flush")
    /\ UNCHANGED <<poolVars, regMutex, freeList, held, cache, slot, offset>>
    /\ Observe

-----------------------------------------------------------------------------
ThreadStep(t) ==
    \/ Exhausted(t) \/ TakeFreeSlot(t) \/ PushShard(t)
    \/ CacheLookup(t) \/ FlushLookup(t) \/ FlushShard(t) \/ PopCache(t) \/ Refill(t)
    \/ PutCache(t) \/ Spill(t)

ThreadCalls(t) ==
    \/ ThreadExit(t)
    \/ \E p \in Ids : Acquire(t, p) \/ \E i \in held[p] : Release(t, p, i)

PoolNext ==
    \/ \E t \in Threads : ThreadStep(t) \/ ThreadCalls(t)
    \/ \E a \in Addresses, c \in Capacities : Construct(a, c)
    \/ \E p \in Ids : Unregister(p) \/ Free(p)

PoolSpec == PoolInit /\ [][PoolNext]_allPoolVars

-----------------------------------------------------------------------------
(* Every variable stays in its range; a ThreadCache never holds more than  *)
(* the two batches its array has room for.                                 *)
PoolTypeOK ==
    /\ created \in 0 .. MaxPools
    /\ alive \subseteq 1 .. created /\ registry \subseteq alive
    /\ regMutex \in Threads \cup {Nobody}
    /\ \A p \in Ids : held[p] \subseteq Slots(p)
    /\ \A t \in Threads :
        /\ cache[t].id \in 0 .. created
        /\ cache[t].id # 0 => Len(cache[t].slots) <= 2 * Batch(cache[t].id)
        /\ cur[t] \in 0 .. created
        /\ offset[t] \in 0 .. ShardCount

(* Where slot i of pool p is: on a free list, in a cache that names the    *)
(* pool, in the hands of a thread that is releasing it, or held.           *)
Places(p, i) ==
    LET At(list) == {k \in DOMAIN list : list[k] = i} IN
    (UNION {{<<"list", s, k>> : k \in At(freeList[p][s])} : s \in Shards})
    \cup (UNION {{<<"cache", t, k>> : k \in At(cache[t].slots)} :
                 t \in {u \in Threads : cache[u].id = p}})
    \cup {<<"hand", t>> : t \in {u \in Threads : /\ call[u] = "release" /\ cur[u] = p
                                               /\ slot[u] = i /\ pc[u] # "idle"}}
    \cup {<<"held", p>> : h \in held[p] \cap {i}}

(* No slot is lost and none is handed out twice: each slot of a live pool  *)
(* is in exactly one place, whatever is refilled, spilled, flushed on      *)
(* rebinding or at a thread's end, and whichever pools died meanwhile at   *)
(* the same address.                                                       *)
SlotConservation ==
    \A p \in {q \in Ids : Usable(q)} : \A i \in Slots(p) : Cardinality(Places(p, i)) = 1

(* A flush never touches a pool whose memory is gone. *)
NoFlushIntoDeadPool == \A t \in Threads : pc[t] = "flushShard" => cache[t].id \in alive

(* acquire() fails only on a pool whose shards are all empty, as long as   *)
(* nobody else touches them during the search.                             *)
QuietExhaustion ==
    \A t \in Threads : pc[t] = "none" /\ quiet[t] => AllEmpty(cur[t], freeList)

=============================================================================
