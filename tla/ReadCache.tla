------------------------------ MODULE ReadCache ------------------------------
(***************************************************************************)
(* The counter read cache and the service around it: a read asks the cache,*)
(* on a miss reads PostgreSQL and then fills the cache; a mutation commits *)
(* and then deletes the entry.  These are separate steps of concurrent     *)
(* requests.  The cache is either a per-process LRU (one store for each    *)
(* replica) or Redis (one store for all, calls to which can fail).         *)
(*                                                                         *)
(* A counter's value is abstracted to its version, the number of mutations *)
(* committed to it.  Time is counted in ticks.                             *)
(***************************************************************************)
EXTENDS Integers, FiniteSets

CONSTANTS
    Procs, Replicas, Counters,
    Backends,   \* COUNTER_READ_CACHE_BACKEND of the deployments: "memory", "redis"
    Capacity,   \* COUNTER_READ_CACHE_MAX_ENTRIES
    TTL,        \* COUNTER_READ_CACHE_TTL_SECONDS
    Cooldown,   \* redisReadCacheCooldown
    MaxLag,     \* longest a request takes from its database statement to its
                \* cache call: the request deadline
    MaxVersion, MaxTime,
    NoEntry, NoReplica, NoCounter

VARIABLES
    backend,    \* the one that this deployment has
    now,
    version,    \* committed version of each counter
    bornAt,     \* when each version was committed
    store,      \* cache stores
    until,      \* unavailableTil of each replica's Redis client
    pc, at, want,
    got,        \* version a request has read or been given
    readAt      \* when its database statement ran, until its cache call

vars == <<backend, now, version, bornAt, store, until, pc, at, want, got, readAt>>

Redis     == backend = "redis"
Shared    == "redis"
Stores    == IF Redis THEN {Shared} ELSE Replicas
StoreOf(r) == IF Redis THEN Shared ELSE r
Times     == 0 .. MaxTime
Versions  == 0 .. MaxVersion
Entries   == [ver : Versions, expires : 0 .. (MaxTime + TTL)]
Stages    == {"idle", "get", "load", "fill", "commit", "invalidate", "done"}

ASSUME CacheAssumption ==
    /\ {Capacity, TTL, Cooldown, MaxLag} \subseteq Nat \ {0}
    /\ MaxVersion \in Nat /\ MaxTime \in Nat
    /\ Backends \subseteq {"memory", "redis"}
    /\ Shared \notin Replicas /\ NoReplica \notin Replicas /\ NoCounter \notin Counters

------------------------------------------------------------------------------
(* The data structures.  A store has the entries, the LRU list and, in     *)
(* Redis, the expiry index (0: not in the index).  The list is given by    *)
(* its prefixes: lru[c] has the keys from the newest down to c, and no key *)
(* when c is not in the list.                                              *)

EmptyStore == [entry  |-> [c \in Counters |-> NoEntry],
               lru    |-> [c \in Counters |-> {}],
               expiry |-> [c \in Counters |-> 0]]

Keys(lru) == {c \in Counters : lru[c] # {}}
Position(lru, c) == Cardinality(lru[c])

ToFront(lru, c) ==
    [d \in Counters |-> IF d = c THEN {c}
                        ELSE IF lru[d] = {} THEN {} ELSE lru[d] \cup {c}]

Drop(st, gone) ==
    [entry  |-> [c \in Counters |-> IF c \in gone THEN NoEntry ELSE st.entry[c]],
     lru    |-> [c \in Counters |-> IF c \in gone THEN {} ELSE st.lru[c] \ gone],
     expiry |-> [c \in Counters |-> IF c \in gone THEN 0 ELSE st.expiry[c]]]

\* Mutant of Servable: the lifetime of an entry is not looked at.
ServableAlways(st, c, t) == st.entry[c] # NoEntry

\* What Get returns: time.Now().Before(expiresAt); Redis expires keys itself.
Servable(st, c, t) == st.entry[c] # NoEntry /\ t < st.entry[c].expires

\* MemoryCounterReadCache.Get and the Redis get script: a hit makes the key the
\* newest, a miss removes what is left of it.
AfterGet(st, c, t) ==
    IF Servable(st, c, t) THEN [st EXCEPT !.lru = ToFront(st.lru, c)] ELSE Drop(st, {c})

\* Mutant of Put: the lifetime is added twice.
PutDoubleTTL(st, c, v, t) ==
    [entry  |-> [st.entry EXCEPT ![c] = [ver |-> v, expires |-> t + 2 * TTL]],
     lru    |-> ToFront(st.lru, c),
     expiry |-> IF Redis THEN [st.expiry EXCEPT ![c] = t + 2 * TTL] ELSE st.expiry]

Put(st, c, v, t) ==
    [entry  |-> [st.entry EXCEPT ![c] = [ver |-> v, expires |-> t + TTL]],
     lru    |-> ToFront(st.lru, c),
     expiry |-> IF Redis THEN [st.expiry EXCEPT ![c] = t + TTL] ELSE st.expiry]

Excess(lru) == {c \in Keys(lru) : Position(lru, c) > Capacity}

\* Mutant of Evict: the oldest key leaves the LRU, its value stays.
EvictKeyOnly(st) == [st EXCEPT !.lru = Drop(st, Excess(st.lru)).lru]

\* Keys beyond the capacity leave, oldest first.
Evict(st) == Drop(st, Excess(st.lru))

\* The Redis set script first deletes what the expiry index says has expired,
\* from the values and from the LRU; the index itself keeps the key.
Sweep(st, t) ==
    LET old == {c \in Counters : st.expiry[c] # 0 /\ st.expiry[c] <= t}
    IN  [Drop(st, old) EXCEPT !.expiry = st.expiry]

AfterSet(st, c, v, t) ==
    Evict(Put(IF Redis THEN Sweep(st, t) ELSE st, c, v, t))

AfterDelete(st, c) == Drop(st, {c})

------------------------------------------------------------------------------
(* Requests.                                                               *)

Mine(p) == StoreOf(at[p])
GoTo(p, st) == pc' = [pc EXCEPT ![p] = st]

\* A call to the cache.  The memory cache always answers.  Redis is skipped
\* during the cooldown, and a call can fail, before or after its script ran,
\* which starts the cooldown.
Available(p)  == ~Redis \/ until[at[p]] <= now
Call(p, st)   == Available(p) /\ store' = [store EXCEPT ![Mine(p)] = st]
Skipped(p)    == ~Available(p) /\ UNCHANGED <<store, until>>
Failed(p, st) ==
    /\ Redis /\ Available(p)
    /\ store' \in {store, [store EXCEPT ![Mine(p)] = st]}
    /\ until' = [until EXCEPT ![at[p]] = now + Cooldown]

Start(p, r, c, st) ==
    /\ pc[p] = "idle"
    /\ GoTo(p, st)
    /\ at' = [at EXCEPT ![p] = r]
    /\ want' = [want EXCEPT ![p] = c]
    /\ UNCHANGED <<backend, now, version, bornAt, store, until, got, readAt>>

StartRead(p, r, c)  == Start(p, r, c, "get")
StartWrite(p, r, c) == Start(p, r, c, "commit")

\* counterService.Get, the cache part.
GetHit(p) ==
    LET st == store[Mine(p)] IN
    /\ pc[p] = "get"
    /\ Servable(st, want[p], now)
    /\ Call(p, AfterGet(st, want[p], now))
    /\ got' = [got EXCEPT ![p] = st.entry[want[p]].ver]
    /\ GoTo(p, "done")
    /\ UNCHANGED <<backend, now, version, bornAt, until, at, want, readAt>>

GetMiss(p) ==
    LET st == store[Mine(p)] IN
    /\ pc[p] = "get"
    /\ \/ ~Servable(st, want[p], now) /\ Call(p, AfterGet(st, want[p], now)) /\ UNCHANGED until
       \/ Skipped(p)
       \/ Failed(p, AfterGet(st, want[p], now))
    /\ GoTo(p, "load")
    /\ UNCHANGED <<backend, now, version, bornAt, at, want, got, readAt>>

\* repository.GetCounter.
Load(p) ==
    /\ pc[p] = "load"
    /\ got' = [got EXCEPT ![p] = version[want[p]]]
    /\ readAt' = [readAt EXCEPT ![p] = now]
    /\ GoTo(p, "fill")
    /\ UNCHANGED <<backend, now, version, bornAt, store, until, at, want>>

\* readCache.Set, with what was read before, and the answer.
Fill(p) ==
    LET st == AfterSet(store[Mine(p)], want[p], got[p], now) IN
    /\ pc[p] = "fill"
    /\ \/ Call(p, st) /\ until' = [until EXCEPT ![at[p]] = 0]
       \/ Skipped(p)
       \/ Failed(p, st)
    /\ GoTo(p, "done")
    /\ readAt' = [readAt EXCEPT ![p] = 0]
    /\ UNCHANGED <<backend, now, version, bornAt, at, want, got>>

\* A mutation commits.
Commit(p) ==
    LET c == want[p] IN
    /\ pc[p] = "commit"
    /\ version[c] < MaxVersion
    /\ version' = [version EXCEPT ![c] = @ + 1]
    /\ bornAt' = [bornAt EXCEPT ![c][version[c] + 1] = now]
    /\ got' = [got EXCEPT ![p] = version[c] + 1]
    /\ \/ GoTo(p, "invalidate") /\ readAt' = [readAt EXCEPT ![p] = now]
       \/ GoTo(p, "done") /\ UNCHANGED readAt  \* not acknowledged: no invalidation
    /\ UNCHANGED <<backend, now, store, until, at, want>>

\* invalidateReadCache: best effort; the mutation is answered in any case.
Invalidate(p) ==
    LET st == AfterDelete(store[Mine(p)], want[p]) IN
    /\ pc[p] = "invalidate"
    /\ \/ Call(p, st) /\ until' = [until EXCEPT ![at[p]] = 0]
       \/ Skipped(p)
       \/ Failed(p, st)
    /\ GoTo(p, "done")
    /\ readAt' = [readAt EXCEPT ![p] = 0]
    /\ UNCHANGED <<backend, now, version, bornAt, at, want, got>>

Recycle(p) ==
    /\ pc[p] = "done"
    /\ GoTo(p, "idle")
    /\ at' = [at EXCEPT ![p] = NoReplica]
    /\ want' = [want EXCEPT ![p] = NoCounter]
    /\ got' = [got EXCEPT ![p] = 0]
    /\ UNCHANGED <<backend, now, version, bornAt, store, until, readAt>>

\* A replica stops and starts: its requests and its memory are gone.
Restart(r) ==
    /\ \E p \in Procs : at[p] = r
    /\ pc' = [p \in Procs |-> IF at[p] = r THEN "idle" ELSE pc[p]]
    /\ at' = [p \in Procs |-> IF at[p] = r THEN NoReplica ELSE at[p]]
    /\ want' = [p \in Procs |-> IF at[p] = r THEN NoCounter ELSE want[p]]
    /\ got' = [p \in Procs |-> IF at[p] = r THEN 0 ELSE got[p]]
    /\ readAt' = [p \in Procs |-> IF at[p] = r THEN 0 ELSE readAt[p]]
    /\ until' = [until EXCEPT ![r] = 0]
    /\ store' = IF Redis THEN store ELSE [store EXCEPT ![r] = EmptyStore]
    /\ UNCHANGED <<backend, now, version, bornAt>>

Tick ==
    /\ now < MaxTime
    /\ \A p \in Procs : pc[p] \in {"fill", "invalidate"} => now < readAt[p] + MaxLag
    /\ now' = now + 1
    /\ UNCHANGED <<backend, version, bornAt, store, until, pc, at, want, got, readAt>>

Init ==
    /\ backend \in Backends
    /\ now = 0
    /\ version = [c \in Counters |-> 0]
    /\ bornAt = [c \in Counters |-> [v \in Versions |-> 0]]
    /\ store = [s \in Stores |-> EmptyStore]
    /\ until = [r \in Replicas |-> 0]
    /\ pc = [p \in Procs |-> "idle"]
    /\ at = [p \in Procs |-> NoReplica]
    /\ want = [p \in Procs |-> NoCounter]
    /\ got = [p \in Procs |-> 0]
    /\ readAt = [p \in Procs |-> 0]

Next ==
    \/ \E p \in Procs :
          \/ \E r \in Replicas, c \in Counters : StartRead(p, r, c) \/ StartWrite(p, r, c)
          \/ GetHit(p) \/ GetMiss(p) \/ Load(p) \/ Fill(p)
          \/ Commit(p) \/ Invalidate(p) \/ Recycle(p)
    \/ \E r \in Replicas : Restart(r)
    \/ Tick

Spec == Init /\ [][Next]_vars

------------------------------------------------------------------------------
(* Properties.                                                             *)

\* Every variable keeps its type; in particular no entry is given a lifetime
\* beyond TTL from the moment it is put (readCacheEntry.expiresAt, PX).
TypeOK ==
    /\ now \in Times
    /\ version \in [Counters -> Versions]
    /\ bornAt \in [Counters -> [Versions -> Times]]
    /\ \A s \in Stores :
         /\ store[s].entry \in [Counters -> Entries \cup {NoEntry}]
         /\ store[s].lru \in [Counters -> SUBSET Counters]
         /\ store[s].expiry \in [Counters -> 0 .. (MaxTime + TTL)]
    /\ until \in [Replicas -> 0 .. (MaxTime + Cooldown)]
    /\ pc \in [Procs -> Stages]
    /\ at \in [Procs -> Replicas \cup {NoReplica}]
    /\ want \in [Procs -> Counters \cup {NoCounter}]
    /\ got \in [Procs -> Versions]
    /\ readAt \in [Procs -> Times]

\* Staleness is bounded whatever races, fails or restarts: a value served from
\* the cache was still the committed one less than TTL + MaxLag ago.
ServedRecent ==
    [][\A p \in Procs :
         pc[p] = "get" /\ pc'[p] = "done" =>
             \/ got'[p] = version[want[p]]
             \/ now < bornAt[want[p]][got'[p] + 1] + TTL + MaxLag]_vars

\* One list: every key has one place, and the prefixes are nested.
IsList(lru) ==
    /\ \A c \in Keys(lru) : c \in lru[c]
    /\ \A c \in Counters : \A d \in lru[c] : d \in Keys(lru) /\ lru[d] \subseteq lru[c]
    /\ \A c, d \in Keys(lru) : c # d => (c \in lru[d] <=> d \notin lru[c])

\* The structures of a store agree: a value that can be served is in the LRU,
\* the LRU has every key once and at most Capacity of them, and in Redis its
\* keys are in the expiry index, which is how expired ones are found.
StoreConsistent ==
    \A s \in Stores :
        LET st == store[s] IN
        /\ {c \in Counters : st.entry[c] # NoEntry} \subseteq Keys(st.lru)
        /\ IsList(st.lru)
        /\ Cardinality(Keys(st.lru)) <= Capacity
        /\ Redis => \A c \in Keys(st.lru) : st.expiry[c] # 0
==============================================================================
