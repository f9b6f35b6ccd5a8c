------------------------------ MODULE RateLimit ------------------------------
(***************************************************************************)
(* The request rate limiter: token buckets per client kept by each replica *)
(* under a mutex, and the optional Redis bucket the replicas share, with   *)
(* the local buckets as its fallback.  A request finds its bucket under    *)
(* the limiter's mutex and takes its token under the bucket's own mutex,   *)
(* so the cleanup goroutine can run in between: buckets live in a heap and *)
(* the request holds a pointer.                                            *)
(***************************************************************************)
EXTENDS Integers, FiniteSets, FiniteSetsExt

CONSTANTS
    Procs,          \* requests under way
    Replicas,       \* API processes
    Clients,        \* quota keys: client IPs and credential ids
    Pointers,       \* addresses of token buckets
    Deployments,    \* is RATE_LIMIT_REDIS_URL set, when does the ticker of main
                    \* fire, and which requests arrive
    MaxRequests,    \* RATE_LIMIT_REQUESTS
    GetMultiplier,  \* RATE_LIMIT_GET_MULTIPLIER
    Window,         \* RATE_LIMIT_WINDOW, in ticks
    Second,         \* ticks in a second
    CleanupAge,     \* RATE_LIMIT_CLEANUP, in ticks
    Cooldown,       \* redisFallbackCooldown, in ticks
    MaxStoreEntries,
    MaxTime,        \* bound of the clock
    NoBucket, NoReq, Redis

VARIABLES
    site,       \* the deployment
    now,
    store,      \* each replica's map: client -> pointer or NoBucket
    heap,       \* pointer -> bucket
    doomed,     \* ipsToDelete of a replica's running Cleanup
    cleaning,   \* Cleanup holds the limiter's mutex
    redis,      \* the shared buckets, by client and kind
    until,      \* unavailableUntil of each replica
    pc, req,
    held,       \* the bucket a request has found
    grants,     \* history: requests allowed, by limiter, client and kind, from
                \* each time on until now
    stray       \* history: those of them allowed by a bucket Cleanup had picked

vars == <<site, now, store, heap, doomed, cleaning, redis, until, pc, req, held,
          grants, stray>>

Kinds    == {"post", "get"}
Time     == 0 .. MaxTime
Limiters == Replicas \cup {Redis}
Requests == [replica : Replicas, client : Clients, kind : Kinds]
Buckets  == [tokens : [Kinds -> Nat], last : [Kinds -> Time]]
Rows     == [tokens : Nat, last : Time, used : Time]

ASSUME RateLimitAssumption ==
    /\ {MaxRequests, GetMultiplier, Window, Second, CleanupAge, MaxStoreEntries} \subseteq Nat \ {0}
    /\ {MaxTime, Cooldown} \subseteq Nat
    /\ \A d \in Deployments : /\ d.shared \in BOOLEAN
                              /\ d.cleanups \subseteq Time
                              /\ d.requests \subseteq Requests
    /\ Redis \notin Replicas
    /\ NoBucket \notin Pointers /\ NoBucket \notin Buckets /\ NoBucket \notin Rows

\* NewRateLimiter: reads have a larger quota.
Cap(k) == IF k = "get" THEN MaxRequests * GetMultiplier ELSE MaxRequests

\* refillInterval: one token per interval, at least one unit of the clock.
Interval(k) == Max({1, Window \div Cap(k)})

\* refillPost and refillGet: whole intervals only, the rest of the elapsed
\* time counts towards the next token.
Refilled(tokens, last, k) ==
    LET amount == (now - last) \div Interval(k)
    IN  [tokens |-> Min({Cap(k), tokens + amount}), last |-> last + amount * Interval(k)]

FreshBucket == [tokens |-> [k \in Kinds |-> Cap(k)], last |-> [k \in Kinds |-> now]]

Registered(r) == {c \in Clients : store[r][c] # NoBucket}

Keep(h) == heap' = [i \in Pointers |->
    IF (\E r \in Replicas, c \in Clients : store'[r][c] = i) \/ (\E p \in Procs : held'[p] = i)
    THEN h[i] ELSE NoBucket]

\* The request goes on to its handler or is answered 429; only what was
\* allowed is remembered.
Answered(p) ==
    /\ pc' = [pc EXCEPT ![p] = "idle"]
    /\ req' = [req EXCEPT ![p] = NoReq]

\* The stretches of time up to now that the history covers: a window.
Since == {s \in Time : s <= now /\ now <= s + Window}

Tally(h, l, q) == [h EXCEPT ![l][q.client][q.kind] =
    [s \in Time |-> IF s \in Since THEN @[s] + 1 ELSE @[s]]]

------------------------------------------------------------------------------
(* Requests.                                                               *)

\* RateLimitWithMetrics: the quota key and the kind of the request.
Start(p, q) ==
    /\ pc[p] = "idle"
    /\ req' = [req EXCEPT ![p] = q]
    /\ pc' = [pc EXCEPT ![p] = IF site.shared THEN "shared" ELSE "lookup"]
    /\ UNCHANGED <<site, now, store, heap, doomed, cleaning, redis, until, held, grants, stray>>

\* Mutant of HasRoom: the map may grow without bound.
HasRoomAlways(r) == TRUE

\* At MaxStoreEntries only clients that have a bucket are served.
HasRoom(r) == Cardinality(Registered(r)) < MaxStoreEntries

Lookup(p) ==
    LET r == req[p].replica  c == req[p].client IN
    /\ pc[p] = "lookup"
    /\ ~cleaning[r]
    /\ store[r][c] # NoBucket
    /\ held' = [held EXCEPT ![p] = store[r][c]]
    /\ pc' = [pc EXCEPT ![p] = "take"]
    /\ UNCHANGED <<site, now, store, heap, doomed, cleaning, redis, until, req, grants, stray>>

\* A new client: a full bucket.  Pointers bounds how many buckets there are.
Register(p) ==
    LET r == req[p].replica  c == req[p].client IN
    /\ pc[p] = "lookup"
    /\ ~cleaning[r]
    /\ store[r][c] = NoBucket
    /\ HasRoom(r)
    /\ LET i == CHOOSE j \in Pointers : heap[j] = NoBucket
       IN  /\ i \in Pointers /\ heap[i] = NoBucket
           /\ store' = [store EXCEPT ![r][c] = i]
           /\ held' = [held EXCEPT ![p] = i]
           /\ heap' = [heap EXCEPT ![i] = FreshBucket]
    /\ pc' = [pc EXCEPT ![p] = "take"]
    /\ UNCHANGED <<site, now, doomed, cleaning, redis, until, req, grants, stray>>

\* The map is full: a new client is refused, Retry-After: 60.
StoreFull(p) ==
    LET r == req[p].replica IN
    /\ pc[p] = "lookup"
    /\ ~cleaning[r]
    /\ store[r][req[p].client] = NoBucket
    /\ ~HasRoom(r)
    /\ Answered(p)
    /\ UNCHANGED <<site, now, store, heap, doomed, cleaning, redis, until, held, grants, stray>>

\* Mutant of RetryAfter: rounded down.
RetryAfterFloor(last, k) == (Interval(k) - (now - last)) \div Second

\* retryAfter: whole seconds until the next token, rounded up.
RetryAfter(last, k) == (Interval(k) - (now - last) + Second - 1) \div Second

\* The bucket is still the one its client's requests find.
Current(p) ==
    LET r == req[p].replica  c == req[p].client
    IN  store[r][c] = held[p] /\ c \notin doomed[r]

\* tokenBucket.allowRequest, under the bucket's mutex.
Take(p) ==
    LET q == req[p]
        b == heap[held[p]]
        f == Refilled(b.tokens[q.kind], b.last[q.kind], q.kind)
        ok == f.tokens > 0
    IN
    /\ pc[p] = "take"
    /\ held' = [held EXCEPT ![p] = NoBucket]
    /\ Answered(p)
    /\ grants' = IF ok /\ Current(p) THEN Tally(grants, q.replica, q) ELSE grants
    /\ stray' = IF ok /\ ~Current(p) THEN Tally(stray, q.replica, q) ELSE stray
    /\ UNCHANGED <<site, now, store, doomed, cleaning, redis, until>>
    /\ Keep([heap EXCEPT ![held[p]] =
                [tokens |-> [b.tokens EXCEPT ![q.kind] = IF ok THEN f.tokens - 1 ELSE 0],
                 last |-> [b.last EXCEPT ![q.kind] = f.last]]])

------------------------------------------------------------------------------
(* The shared backend.                                                     *)

\* PEXPIRE: an idle bucket is kept for two windows.
Alive(b) == b # NoBucket /\ now - b.used < 2 * Window

\* redisTokenBucketScript, one atomic step of Redis.
Script(q) ==
    LET b == redis[q.client][q.kind]
        f == IF Alive(b) THEN Refilled(b.tokens, b.last, q.kind)
             ELSE [tokens |-> Cap(q.kind), last |-> now]
    IN  [ok |-> f.tokens > 0,
         row |-> [tokens |-> Max({0, f.tokens - 1}), last |-> f.last, used |-> now]]

Stored(q) == redis' = [redis EXCEPT ![q.client][q.kind] = Script(q).row]

CallOk(p) ==
    LET q == req[p] IN
    /\ pc[p] = "shared"
    /\ until[q.replica] <= now
    /\ Stored(q)
    /\ until' = [until EXCEPT ![q.replica] = 0]
    /\ Answered(p)
    /\ grants' = IF Script(q).ok THEN Tally(grants, Redis, q) ELSE grants
    /\ UNCHANGED <<site, now, store, heap, doomed, cleaning, held, stray>>

\* Every failure starts the cooldown and leaves the request to the local
\* buckets; the script may have run (the 50 ms passed on the way back).
CallFailed(p) ==
    LET q == req[p] IN
    /\ pc[p] = "shared"
    /\ until[q.replica] <= now
    /\ Stored(q) \/ UNCHANGED redis
    /\ until' = [until EXCEPT ![q.replica] = now + Cooldown]
    /\ pc' = [pc EXCEPT ![p] = "lookup"]
    /\ UNCHANGED <<site, now, store, heap, doomed, cleaning, req, held, grants, stray>>

\* During the cooldown Redis is not asked.
Fallback(p) ==
    /\ pc[p] = "shared"
    /\ until[req[p].replica] > now
    /\ pc' = [pc EXCEPT ![p] = "lookup"]
    /\ UNCHANGED <<site, now, store, heap, doomed, cleaning, redis, until, req, held, grants, stray>>

------------------------------------------------------------------------------
(* Cleanup: buckets idle for CleanupAge are picked, then deleted.          *)

\* Mutant of LastActivity: reads are forgotten.
LastActivityPost(b) == b.last["post"]

LastActivity(b) == Max({b.last["post"], b.last["get"]})

\* The ticker goroutine of main.
TickerFires == now \in site.cleanups

CleanupScan(r) ==
    /\ TickerFires
    /\ ~cleaning[r]
    /\ cleaning' = [cleaning EXCEPT ![r] = TRUE]
    /\ doomed' = [doomed EXCEPT ![r] =
          {c \in Registered(r) : now - LastActivity(heap[store[r][c]]) > CleanupAge}]
    /\ UNCHANGED <<site, now, store, heap, redis, until, pc, req, held, grants, stray>>

CleanupDelete(r) ==
    /\ cleaning[r]
    /\ cleaning' = [cleaning EXCEPT ![r] = FALSE]
    /\ doomed' = [doomed EXCEPT ![r] = {}]
    /\ store' = [store EXCEPT ![r] = [c \in Clients |-> IF c \in doomed[r] THEN NoBucket ELSE @[c]]]
    /\ UNCHANGED <<site, now, redis, until, pc, req, held, grants, stray>>
    /\ Keep(heap)

Recent(h) == [l \in Limiters |-> [c \in Clients |-> [k \in Kinds |->
    [s \in Time |-> IF s + Window < now' THEN 0 ELSE h[l][c][k][s]]]]]

Tick ==
    /\ now < MaxTime
    /\ now' = now + 1
    /\ grants' = Recent(grants)
    /\ stray' = Recent(stray)
    /\ UNCHANGED <<site, store, heap, doomed, cleaning, redis, until, pc, req, held>>

------------------------------------------------------------------------------
NoGrants == [l \in Limiters |-> [c \in Clients |-> [k \in Kinds |-> [s \in Time |-> 0]]]]

Init ==
    /\ site \in Deployments
    /\ now = 0
    /\ store = [r \in Replicas |-> [c \in Clients |-> NoBucket]]
    /\ heap = [i \in Pointers |-> NoBucket]
    /\ doomed = [r \in Replicas |-> {}]
    /\ cleaning = [r \in Replicas |-> FALSE]
    /\ redis = [c \in Clients |-> [k \in Kinds |-> NoBucket]]
    /\ until = [r \in Replicas |-> 0]
    /\ pc = [p \in Procs |-> "idle"]
    /\ req = [p \in Procs |-> NoReq]
    /\ held = [p \in Procs |-> NoBucket]
    /\ grants = NoGrants
    /\ stray = NoGrants

Next ==
    \/ \E p \in Procs :
         \/ \E q \in site.requests : Start(p, q)
         \/ Lookup(p) \/ Register(p) \/ StoreFull(p) \/ Take(p)
         \/ CallOk(p) \/ CallFailed(p) \/ Fallback(p)
    \/ \E r \in Replicas : CleanupScan(r) \/ CleanupDelete(r)
    \/ Tick

Spec == Init /\ [][Next]_vars

------------------------------------------------------------------------------
(* Properties.                                                             *)

\* Every variable keeps its type; token counts stay within the quota, no two
\* clients share a bucket, a request that is about to take a token has a
\* bucket to take it from, and the map never outgrows MaxStoreEntries.
TypeOK ==
    /\ now \in Time
    /\ \A i \in Pointers : heap[i] # NoBucket =>
          \A k \in Kinds : heap[i].tokens[k] \in 0 .. Cap(k) /\ heap[i].last[k] \in 0 .. now
    /\ \A r \in Replicas :
          /\ Cardinality(Registered(r)) <= MaxStoreEntries
          /\ doomed[r] \subseteq Registered(r)
          /\ \A c \in Registered(r) : heap[store[r][c]] # NoBucket
          /\ \A c, d \in Registered(r) : store[r][c] = store[r][d] => c = d
    /\ \A p \in Procs :
          /\ pc[p] \in {"idle", "shared", "lookup", "take"}
          /\ pc[p] = "take" <=> held[p] # NoBucket
          /\ held[p] # NoBucket => heap[held[p]] # NoBucket

\* What the configured quota allows in a stretch of time: the burst, and the
\* tokens that fall due in it.
Quota(k, s) == Cap(k) + (((now - s) * Cap(k)) + Window - 1) \div Window

\* However requests interleave with each other, with cleanups that drop idle
\* buckets and with the expiry of Redis keys, no bucket owner ever gets more
\* than its quota in up to a window: each replica's local buckets keep to it
\* per replica, and the Redis buckets over all replicas, also when calls fail
\* half-way.
QuotaHeld ==
    \A l \in Limiters, c \in Clients, k \in Kinds : \A s \in Since :
        grants[l][c][k][s] <= Quota(k, s)

\* NGINX_DEPLOYMENT.md: with a quota of ten the eleventh request of a burst is
\* refused.  Counts the requests that took their token from a bucket Cleanup
\* had already picked too.
BurstBounded ==
    \A l \in Limiters, c \in Clients, k \in Kinds : \A s \in Since :
        grants[l][c][k][s] + stray[l][c][k][s] <= Quota(k, s)

\* A request that its local bucket refuses is told (tokenBucket.retryAfter) the
\* least number of whole seconds after which the bucket has a token again, also
\* when earlier refusals and grants have moved lastRefill.
RetryAfterExact ==
    \A p \in Procs : pc[p] = "take" =>
        LET k == req[p].kind
            b == heap[held[p]]
            f == Refilled(b.tokens[k], b.last[k], k)
            wait == RetryAfter(f.last, k)
            TokensAt(t) == b.tokens[k] + (t - b.last[k]) \div Interval(k)
        IN  f.tokens = 0 => /\ TokensAt(now + wait * Second) > 0
                            /\ TokensAt(now + (wait - 1) * Second) <= 0
==============================================================================
