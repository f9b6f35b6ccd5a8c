-------------------------- MODULE RateLimit_proofs --------------------------
(***************************************************************************)
(* Proofs about RateLimit, for any requests, replicas, clients and limits: *)
(* types, the exactness of Retry-After, and that every limiter keeps to    *)
(* its quota.                                                              *)
(*                                                                         *)
(* The quota is a matter of accounting.  What a bucket has granted since   *)
(* time s and the tokens it still has are together no more than its        *)
(* capacity and the refills that fell due after s (Backed).  A client that *)
(* has no bucket, or one that Cleanup has picked, is going to get a full   *)
(* one, so its grants must be no more than the refills alone (Spare); that *)
(* this is so when Cleanup picks a bucket is where its age limit is used.  *)
(***************************************************************************)
EXTENDS RateLimit, FiniteSetTheorems, TLAPS

Typed ==
    /\ site \in Deployments
    /\ now \in Time
    /\ store \in [Replicas -> [Clients -> Pointers \cup {NoBucket}]]
    /\ heap \in [Pointers -> Buckets \cup {NoBucket}]
    /\ doomed \in [Replicas -> SUBSET Clients]
    /\ cleaning \in [Replicas -> BOOLEAN]
    /\ redis \in [Clients -> [Kinds -> Rows \cup {NoBucket}]]
    /\ until \in [Replicas -> Nat]
    /\ pc \in [Procs -> {"idle", "shared", "lookup", "take"}]
    /\ req \in [Procs -> Requests \cup {NoReq}]
    /\ held \in [Procs -> Pointers \cup {NoBucket}]
    /\ grants \in [Limiters -> [Clients -> [Kinds -> [Time -> Nat]]]]
    /\ stray \in [Limiters -> [Clients -> [Kinds -> [Time -> Nat]]]]

\* The tokens and the refill time of a bucket are in range.
Filled(tokens, last, k) == tokens <= Cap(k) /\ last <= now

HeapFilled ==
    \A i \in Pointers : heap[i] # NoBucket =>
        \A k \in Kinds : Filled(heap[i].tokens[k], heap[i].last[k], k)

RedisFilled ==
    \A c \in Clients, k \in Kinds : redis[c][k] # NoBucket =>
        Filled(redis[c][k].tokens, redis[c][k].last, k) /\ redis[c][k].used <= now

\* A replica's map: within its limit, without dangling pointers.
Mapped(r) ==
    /\ IsFiniteSet(Registered(r)) /\ Cardinality(Registered(r)) <= MaxStoreEntries
    /\ doomed[r] \subseteq Registered(r)
    /\ \A c \in Registered(r) : heap[store[r][c]] # NoBucket

\* Bucket i, if it is in a map, is there for client c of replica r only.
OnlyFor(i, r, c) ==
    \A r2 \in Replicas, c2 \in Clients : store[r2][c2] = i => r2 = r /\ c2 = c

Apart == \A r \in Replicas : \A c \in Registered(r) : OnlyFor(store[r][c], r, c)

\* The bucket of a request is its client's, or nobody's any more.
Request(p) ==
    /\ pc[p] # "idle" => req[p] \in Requests
    /\ pc[p] = "take" <=> held[p] # NoBucket
    /\ held[p] # NoBucket => /\ heap[held[p]] # NoBucket
                             /\ OnlyFor(held[p], req[p].replica, req[p].client)

IInv ==
    /\ Typed /\ HeapFilled /\ RedisFilled /\ Apart
    /\ \A r \in Replicas : Mapped(r)
    /\ \A p \in Procs : Request(p)

\* What was granted since s, g[s], and what is left are covered by the capacity
\* and by the refills after s, up to the last one; nothing was granted an
\* interval or more after the last refill.
Backed(g, tokens, last, k) ==
    \A s \in Time :
        /\ s >= last => g[s] + tokens <= Cap(k)
        /\ s < last => Interval(k) * ((g[s] + tokens) - Cap(k)) <= (last - s) + (Interval(k) - 1)
        /\ s >= last + Interval(k) => g[s] = 0

\* What was granted since s is covered by the refills since s.
Spare(g, k) ==
    \A s \in Time : s <= now => Interval(k) * g[s] <= (now - s) + (Interval(k) - 1)

\* The history is about the last window.
Bounded(g) == \A s \in Time \ Since : g[s] = 0

LocalAccount(r, c, k) ==
    LET b == heap[store[r][c]] IN
    IF c \in Registered(r) \ doomed[r]
    THEN Backed(grants[r][c][k], b.tokens[k], b.last[k], k)
    ELSE Spare(grants[r][c][k], k)

SharedAccount(c, k) ==
    LET b == redis[c][k] IN
    IF b = NoBucket
    THEN \A s \in Time : grants[Redis][c][k][s] = 0
    ELSE /\ Backed(grants[Redis][c][k], b.tokens, b.last, k)
         /\ \A s \in Time : b.used < s => grants[Redis][c][k][s] = 0

\* Only a running Cleanup has picked buckets.
Picked == \A r \in Replicas : cleaning[r] \/ doomed[r] = {}

Accounts ==
    /\ \A l \in Limiters, c \in Clients, k \in Kinds : Bounded(grants[l][c][k])
    /\ \A r \in Replicas, c \in Clients, k \in Kinds : LocalAccount(r, c, k)
    /\ \A c \in Clients, k \in Kinds : SharedAccount(c, k)

\* What the quota needs of the configuration: a bucket that Cleanup may drop
\* has had a window to refill, and a window is a whole number of intervals.
Regular == /\ CleanupAge >= Window
           /\ \A k \in Kinds : Cap(k) * Interval(k) = Window

------------------------------------------------------------------------------
(* Arithmetic.                                                             *)

LEMMA DivFacts ==
    ASSUME NEW a \in Nat, NEW b \in Nat, b > 0
    PROVE  /\ a \div b \in Nat
           /\ (a \div b) * b <= a
           /\ a < (a \div b) * b + b
OBVIOUS

LEMMA Scale ==
    ASSUME NEW i \in Nat, NEW x \in Int, NEW y \in Int, x <= y
    PROVE  i * x <= i * y /\ i * x \in Int /\ i * y \in Int
OBVIOUS

LEMMA ScaleSum ==
    ASSUME NEW i \in Int, NEW x \in Int, NEW y \in Int
    PROVE  i * (x + y) = i * x + i * y
OBVIOUS

LEMMA MaxPair ==
    ASSUME NEW a \in Int, NEW b \in Int
    PROVE  Max({a, b}) = IF a >= b THEN a ELSE b
<1> DEFINE m == IF a >= b THEN a ELSE b
<1>1. m \in {a, b} /\ \A y \in {a, b} : m >= y
  OBVIOUS
<1>2. \A x \in {a, b} : (\A y \in {a, b} : x >= y) => x = m
  OBVIOUS
<1> QED BY <1>1, <1>2 DEF Max

LEMMA MinPair ==
    ASSUME NEW a \in Int, NEW b \in Int
    PROVE  Min({a, b}) = IF a <= b THEN a ELSE b
<1> DEFINE m == IF a <= b THEN a ELSE b
<1>1. m \in {a, b} /\ \A y \in {a, b} : m <= y
  OBVIOUS
<1>2. \A x \in {a, b} : (\A y \in {a, b} : x <= y) => x = m
  OBVIOUS
<1> QED BY <1>1, <1>2 DEF Min

LEMMA Numbers ==
    /\ MaxRequests \in Nat /\ GetMultiplier \in Nat /\ Window \in Nat /\ Second \in Nat
    /\ CleanupAge \in Nat /\ MaxStoreEntries \in Nat /\ MaxTime \in Nat /\ Cooldown \in Nat
    /\ MaxRequests > 0 /\ GetMultiplier > 0 /\ Window > 0 /\ Second > 0
    /\ CleanupAge > 0 /\ MaxStoreEntries > 0
BY RateLimitAssumption

LEMMA Rates ==
    ASSUME NEW k \in Kinds
    PROVE  Cap(k) \in Nat /\ Cap(k) > 0 /\ Interval(k) \in Nat /\ Interval(k) > 0
<1>1. Cap(k) \in Nat /\ Cap(k) > 0
  <2>1. MaxRequests * GetMultiplier \in Nat /\ MaxRequests * GetMultiplier > 0
    BY Numbers
  <2> QED BY <2>1, Numbers DEF Cap
<1>2. Window \div Cap(k) \in Nat
  BY <1>1, Numbers, DivFacts
<1>3. Interval(k) = IF 1 >= Window \div Cap(k) THEN 1 ELSE Window \div Cap(k)
  BY <1>2, MaxPair DEF Interval
<1> QED BY <1>1, <1>2, <1>3

\* A refill: whole intervals, up to the present one, and no more tokens than
\* intervals or than the capacity.
LEMMA RefillFacts ==
    ASSUME now \in Time, NEW k \in Kinds, NEW tokens \in Nat, NEW last \in Time,
           Filled(tokens, last, k),
           NEW f, f = Refilled(tokens, last, k),
           NEW a, a = (now - last) \div Interval(k)
    PROVE  /\ a \in Nat
           /\ f.tokens \in Nat /\ f.tokens <= Cap(k) /\ f.tokens <= tokens + a
           /\ f.tokens = 0 => tokens = 0 /\ a = 0
           /\ f.last = last + a * Interval(k)
           /\ f.last \in Time /\ last <= f.last /\ f.last <= now /\ now < f.last + Interval(k)
<1>1. now \in Nat /\ last \in Nat /\ now - last \in Nat /\ now <= MaxTime
  BY Numbers DEF Time, Filled
<1>2. Cap(k) \in Nat /\ Cap(k) > 0 /\ Interval(k) \in Nat /\ Interval(k) > 0 /\ tokens <= Cap(k)
  BY Rates DEF Filled
<1>3. a \in Nat /\ a * Interval(k) <= now - last /\ now - last < a * Interval(k) + Interval(k)
  BY <1>1, <1>2, DivFacts
<1>4. f = [tokens |-> Min({Cap(k), tokens + a}), last |-> last + a * Interval(k)]
  BY DEF Refilled
<1>5. f.tokens = (IF Cap(k) <= tokens + a THEN Cap(k) ELSE tokens + a)
  BY <1>2, <1>3, <1>4, MinPair
<1>6. f.tokens \in Nat /\ f.tokens <= Cap(k) /\ f.tokens <= tokens + a
      /\ (f.tokens = 0 => tokens = 0 /\ a = 0)
  BY <1>2, <1>3, <1>5
<1>7. f.last = last + a * Interval(k)
  BY <1>4
<1>8. a * Interval(k) \in Nat
  BY <1>2, <1>3
<1>9. f.last \in Nat /\ last <= f.last /\ f.last <= now /\ now < f.last + Interval(k)
  BY <1>1, <1>2, <1>3, <1>7, <1>8
<1>10. f.last \in Time
  BY <1>1, <1>9, Numbers DEF Time
<1> QED BY <1>3, <1>6, <1>7, <1>9, <1>10

\* A grant moves one token from what is left to what was granted; a refusal, or
\* a token that is taken and lost, leaves less.
LEMMA BackedTake ==
    ASSUME now \in Time, NEW k \in Kinds, NEW tokens \in Nat, NEW last \in Time,
           Filled(tokens, last, k),
           NEW g \in [Time -> Nat], Backed(g, tokens, last, k), Bounded(g),
           NEW f, f = Refilled(tokens, last, k),
           NEW g2 \in [Time -> Nat], NEW t2 \in Nat, t2 <= Cap(k),
           \A s \in Since : g2[s] + t2 <= g[s] + f.tokens,
           \A s \in Time \ Since : g2[s] = 0
    PROVE  Backed(g2, t2, f.last, k)
<1>1. PICK a, i, cap : a = (now - last) \div Interval(k) /\ i = Interval(k) /\ cap = Cap(k)
  OBVIOUS
<1>2. cap \in Nat /\ cap > 0 /\ i \in Nat /\ i > 0 /\ now \in Nat /\ last \in Nat
  BY <1>1, Rates, Numbers DEF Time
<1>3. /\ a \in Nat
      /\ f.tokens \in Nat /\ f.tokens <= cap /\ f.tokens <= tokens + a
      /\ f.last = last + a * i
      /\ f.last \in Nat /\ last <= f.last /\ f.last <= now /\ now < f.last + i
  <2>1. /\ f.last \in Time /\ a \in Nat
        /\ f.tokens \in Nat /\ f.tokens <= cap /\ f.tokens <= tokens + a
        /\ f.last = last + a * i
        /\ last <= f.last /\ f.last <= now /\ now < f.last + i
    BY <1>1, RefillFacts
  <2> QED BY <2>1, Numbers DEF Time
<1>4. a * i \in Nat /\ (a > 0 => a * i >= i) /\ (a = 0 => a * i = 0)
  BY <1>2, <1>3
<1> SUFFICES ASSUME NEW s \in Time
             PROVE  /\ s >= f.last => g2[s] + t2 <= cap
                    /\ s < f.last => i * ((g2[s] + t2) - cap) <= (f.last - s) + (i - 1)
                    /\ s >= f.last + i => g2[s] = 0
  BY <1>1 DEF Backed
<1>5. s \in Nat /\ g[s] \in Nat /\ g2[s] \in Nat
  BY Numbers DEF Time
<1>6. /\ s >= last => g[s] + tokens <= cap
      /\ s < last => i * ((g[s] + tokens) - cap) <= (last - s) + (i - 1)
      /\ s >= last + i => g[s] = 0
  BY <1>1 DEF Backed
<1>7. CASE s \notin Since
  <2>1. g2[s] = 0
    BY <1>7
  <2>2. t2 - cap <= 0 /\ t2 - cap \in Int
    BY <1>1, <1>2
  <2>3. i * (t2 - cap) <= 0
    BY <1>2, <2>2, Scale
  <2> QED BY <1>1, <1>2, <1>3, <1>5, <2>1, <2>2, <2>3
<1>8. CASE s \in Since
  <2>1. s <= now /\ g2[s] + t2 <= g[s] + f.tokens
    BY <1>8 DEF Since
  <2>2. ~(s >= f.last + i)
    BY <1>2, <1>3, <1>5, <2>1
  <2>3. ASSUME s >= f.last PROVE g2[s] + t2 <= cap
    <3>1. CASE a = 0
      BY <1>2, <1>3, <1>4, <1>5, <1>6, <2>1, <2>3, <3>1
    <3>2. CASE a > 0
      <4>1. g[s] = 0
        BY <1>2, <1>3, <1>4, <1>5, <1>6, <2>3, <3>2
      <4> QED BY <1>2, <1>3, <1>5, <2>1, <4>1
    <3> QED BY <1>3, <3>1, <3>2
  <2>4. ASSUME s < f.last PROVE i * ((g2[s] + t2) - cap) <= (f.last - s) + (i - 1)
    <3> DEFINE x == (g2[s] + t2) - cap
               y == (g[s] + tokens) - cap
    <3>1. x \in Int /\ y \in Int /\ x <= y + a
      BY <1>2, <1>3, <1>5, <2>1
    <3>2. i * x <= i * y + a * i
      <4> HIDE DEF x, y
      <4>1. i * x <= i * (y + a)
        BY <1>2, <1>3, <3>1, Scale
      <4>2. i * (y + a) = i * y + i * a
        BY <1>2, <1>3, <3>1, ScaleSum
      <4>3. i * a = a * i /\ i * x \in Int /\ i * y \in Int
        BY <1>2, <1>3, <3>1
      <4> QED BY <1>4, <4>1, <4>2, <4>3
    <3>3. i * x \in Int /\ i * y \in Int
      BY <1>2, <3>1
    <3>4. CASE s < last
      <4>1. i * y <= (last - s) + (i - 1)
        BY <1>6, <3>4
      <4> HIDE DEF x, y
      <4>2. i * x <= (f.last - s) + (i - 1)
        BY <1>2, <1>3, <1>4, <1>5, <3>2, <3>3, <4>1
      <4> QED BY <4>2 DEF x
    <3>5. CASE s >= last + i
      <4>1. x <= 0
        BY <1>2, <1>3, <1>5, <1>6, <2>1, <3>5
      <4>2. i * x <= 0
        BY <1>2, <3>1, <4>1, Scale
      <4> HIDE DEF x, y
      <4>3. i * x <= (f.last - s) + (i - 1)
        BY <1>2, <1>3, <1>5, <2>4, <3>3, <4>2
      <4> QED BY <4>3 DEF x
    <3>6. CASE s >= last /\ s < last + i
      <4>1. y <= 0
        BY <1>2, <1>5, <1>6, <3>6
      <4>2. i * y <= 0
        BY <1>2, <3>1, <4>1, Scale
      <4> HIDE DEF x, y
      <4>3. i * x <= (f.last - s) + (i - 1)
        BY <1>2, <1>3, <1>4, <1>5, <3>2, <3>3, <3>6, <4>2
      <4> QED BY <4>3 DEF x
    <3> QED BY <1>2, <1>5, <3>4, <3>5, <3>6
  <2> QED BY <2>2, <2>3, <2>4
<1> QED BY <1>7, <1>8

\* A new bucket is full and is covered when the grants so far are.
LEMMA BackedFresh ==
    ASSUME now \in Time, NEW k \in Kinds, NEW g \in [Time -> Nat], Bounded(g), Spare(g, k)
    PROVE  Backed(g, Cap(k), now, k)
<1>1. Cap(k) \in Nat /\ Interval(k) \in Nat /\ Interval(k) > 0 /\ now \in Nat
  BY Rates, Numbers DEF Time
<1> SUFFICES ASSUME NEW s \in Time
             PROVE  /\ s >= now => g[s] + Cap(k) <= Cap(k)
                    /\ s < now => Interval(k) * ((g[s] + Cap(k)) - Cap(k)) <= (now - s) + (Interval(k) - 1)
                    /\ s >= now + Interval(k) => g[s] = 0
  BY DEF Backed
<1>2. s \in Nat /\ g[s] \in Nat /\ (s > now => g[s] = 0)
  BY Numbers DEF Time, Bounded, Since
<1>3. s <= now => Interval(k) * g[s] <= (now - s) + (Interval(k) - 1)
  BY DEF Spare
<1>4. (g[s] + Cap(k)) - Cap(k) = g[s]
  BY <1>1, <1>2
<1>5. ASSUME s = now PROVE g[s] = 0
  <2>1. Interval(k) * g[s] <= Interval(k) - 1
    BY <1>1, <1>3, <1>5
  <2>2. g[s] > 0 => Interval(k) * g[s] >= Interval(k)
    BY <1>1, <1>2
  <2> QED BY <1>1, <1>2, <2>1, <2>2
<1>6. s >= now => g[s] = 0
  BY <1>1, <1>2, <1>5
<1> QED BY <1>1, <1>2, <1>3, <1>4, <1>6

\* An account that is backed by a bucket older than a window needs no bucket.
LEMMA SpareOld ==
    ASSUME Regular, now \in Time, NEW k \in Kinds, NEW tokens \in Nat, NEW last \in Time,
           now - last > CleanupAge,
           NEW g \in [Time -> Nat], Backed(g, tokens, last, k), Bounded(g)
    PROVE  Spare(g, k)
<1>1. PICK i, cap : i = Interval(k) /\ cap = Cap(k)
  OBVIOUS
<1>2. cap \in Nat /\ cap > 0 /\ i \in Nat /\ i > 0 /\ now \in Nat /\ last \in Nat
      /\ Window \in Nat /\ CleanupAge \in Nat /\ CleanupAge >= Window /\ cap * i = Window
  BY <1>1, Rates, Numbers DEF Time, Regular
<1> SUFFICES ASSUME NEW s \in Time, s <= now
             PROVE  i * g[s] <= (now - s) + (i - 1)
  BY <1>1 DEF Spare
<1>3. s \in Nat /\ g[s] \in Nat
  BY Numbers DEF Time
<1>4. CASE g[s] = 0
  BY <1>2, <1>3, <1>4
<1>5. CASE g[s] # 0
  <2>1. s \in Since
    BY <1>5 DEF Bounded
  <2>2. now <= s + Window
    BY <2>1 DEF Since
  <2>3. s >= last /\ s < last + i
    BY <1>1, <1>2, <1>3, <1>5, <2>2 DEF Backed
  <2>4. g[s] <= cap
    BY <1>1, <1>2, <1>3, <2>3 DEF Backed
  <2>5. i * g[s] <= i * cap /\ i * g[s] \in Int
    BY <1>2, <1>3, <2>4, Scale
  <2>6. i * cap = Window
    BY <1>2
  <2> QED BY <1>2, <1>3, <2>3, <2>5, <2>6
<1> QED BY <1>4, <1>5

\* What an account says of the quota.
LEMMA QuotaFacts ==
    ASSUME Regular, now \in Time, NEW k \in Kinds, NEW s \in Since, NEW n \in Nat,
           Interval(k) * (n - Cap(k)) <= (now - s) + (Interval(k) - 1)
    PROVE  n <= Quota(k, s)
<1>1. PICK i, cap, d : i = Interval(k) /\ cap = Cap(k) /\ d = now - s
  OBVIOUS
<1>2. cap \in Nat /\ cap > 0 /\ i \in Nat /\ i > 0 /\ d \in Nat
      /\ Window \in Nat /\ Window > 0 /\ cap * i = Window
  BY <1>1, Rates, Numbers DEF Time, Regular, Since
<1>3. PICK m : m = d * cap + (Window - 1)
  OBVIOUS
<1>4. d * cap \in Nat
  BY <1>2
<1>5. m \in Nat /\ m = d * cap + Window - 1
  BY <1>2, <1>3, <1>4
<1>6. PICK q : q = m \div Window
  OBVIOUS
<1>7. q \in Nat /\ m < q * Window + Window
  BY <1>2, <1>5, <1>6, DivFacts
<1>8. d * cap <= q * Window
  <2>1. q * Window \in Nat
    BY <1>2, <1>7
  <2> QED BY <1>2, <1>4, <1>5, <1>7, <2>1
<1>9. d <= q * i
  <2>1. q * Window = (q * i) * cap
    BY <1>2, <1>7
  <2>2. q * i \in Nat
    BY <1>2, <1>7
  <2>3. PICK z : z = q * i
    OBVIOUS
  <2>4. d * cap <= z * cap /\ z \in Nat
    BY <1>8, <2>1, <2>2, <2>3
  <2>5. d > z => d * cap > z * cap
    BY <1>2, <2>4
  <2> QED BY <1>2, <2>3, <2>4, <2>5
<1>10. n - cap <= q
  <2>1. i * (n - cap) <= d + (i - 1)
    BY <1>1
  <2>2. i * (n - cap) < q * i + i
    <3>1. q * i \in Nat /\ i * (n - cap) \in Int
      BY <1>2, <1>7
    <3> QED BY <1>2, <1>9, <2>1, <3>1
  <2>3. q * i + i = i * (q + 1)
    BY <1>2, <1>7
  <2>4. n - cap >= q + 1 => i * (n - cap) >= i * (q + 1)
    BY <1>2, <1>7, Scale
  <2>5. i * (n - cap) \in Int /\ i * (q + 1) \in Int
    BY <1>2, <1>7
  <2> QED BY <1>2, <1>7, <2>2, <2>3, <2>4, <2>5
<1>11. Quota(k, s) = cap + q
  BY <1>1, <1>5, <1>6 DEF Quota
<1> QED BY <1>2, <1>7, <1>10, <1>11

------------------------------------------------------------------------------
(* Steps: types and pointers.                                              *)

Same(q) == pc'[q] = pc[q] /\ req'[q] = req[q] /\ held'[q] = held[q]

\* A request that is not at its bucket moves on and no bucket changes.
LEMMA QuietStep ==
    ASSUME IInv, NEW p \in Procs, UNCHANGED <<now, store, heap, doomed, held>>,
           Typed', RedisFilled', \A q \in Procs : q # p => Same(q),
           pc[p] # "take", pc'[p] # "take", pc'[p] # "idle" => req'[p] \in Requests
    PROVE  IInv'
<1>1. HeapFilled' /\ Apart' /\ \A r \in Replicas : Mapped(r)'
  BY DEF IInv, HeapFilled, Filled, Apart, OnlyFor, Mapped, Registered
<1>2. ASSUME NEW q \in Procs PROVE Request(q)'
  <2>1. CASE q = p
    <3>1. held[p] = NoBucket
      BY DEF IInv, Request
    <3> QED BY <2>1, <3>1 DEF Request
  <2>2. CASE q # p
    BY <2>2 DEF IInv, Request, Same, OnlyFor
  <2> QED BY <2>1, <2>2
<1> QED BY <1>1, <1>2 DEF IInv

LEMMA StartInv ==
    ASSUME IInv, NEW p \in Procs, NEW q \in site.requests, Start(p, q)
    PROVE  IInv'
<1>1. q \in Requests
  BY RateLimitAssumption DEF IInv, Typed
<1>2. PICK z \in {"shared", "lookup"} : pc' = [pc EXCEPT ![p] = z]
  BY DEF Start
<1>3. Typed' /\ pc'[p] = z /\ req'[p] = q /\ pc[p] = "idle"
  BY <1>1, <1>2 DEF Start, IInv, Typed
<1>4. \A o \in Procs : o # p => Same(o)
  BY <1>2 DEF Start, IInv, Typed, Same
<1>5. RedisFilled'
  BY DEF Start, IInv, RedisFilled, Filled
<1>6. UNCHANGED <<now, store, heap, doomed, held>>
  BY DEF Start
<1> QED BY <1>1, <1>3, <1>4, <1>5, <1>6, QuietStep

LEMMA StoreFullInv ==
    ASSUME IInv, NEW p \in Procs, StoreFull(p)
    PROVE  IInv'
<1>1. Typed' /\ pc'[p] = "idle" /\ pc[p] = "lookup"
  BY DEF StoreFull, Answered, IInv, Typed
<1>2. \A o \in Procs : o # p => Same(o)
  BY DEF StoreFull, Answered, IInv, Typed, Same
<1>3. RedisFilled'
  BY DEF StoreFull, IInv, RedisFilled, Filled
<1>4. UNCHANGED <<now, store, heap, doomed, held>>
  BY DEF StoreFull
<1> QED BY <1>1, <1>2, <1>3, <1>4, QuietStep

LEMMA FallbackInv ==
    ASSUME IInv, NEW p \in Procs, Fallback(p)
    PROVE  IInv'
<1>1. Typed' /\ pc'[p] = "lookup" /\ pc[p] = "shared" /\ req'[p] = req[p] /\ req[p] \in Requests
  BY DEF Fallback, IInv, Typed, Request
<1>2. \A o \in Procs : o # p => Same(o)
  BY DEF Fallback, IInv, Typed, Same
<1>3. RedisFilled'
  BY DEF Fallback, IInv, RedisFilled, Filled
<1>4. UNCHANGED <<now, store, heap, doomed, held>>
  BY DEF Fallback
<1> QED BY <1>1, <1>2, <1>3, <1>4, QuietStep

\* The row that the script writes.
LEMMA ScriptRow ==
    ASSUME IInv, NEW q \in Requests, NEW row, row = Script(q).row
    PROVE  /\ row \in Rows /\ row.used = now
           /\ Filled(row.tokens, row.last, q.kind)
<1>1. PICK b, k : b = redis[q.client][q.kind] /\ k = q.kind
  OBVIOUS
<1>2. k \in Kinds /\ q.client \in Clients /\ now \in Time
  BY <1>1 DEF Requests, IInv, Typed
<1>3. PICK f : f = IF Alive(b) THEN Refilled(b.tokens, b.last, k) ELSE [tokens |-> Cap(k), last |-> now]
  OBVIOUS
<1>4. row = [tokens |-> Max({0, f.tokens - 1}), last |-> f.last, used |-> now]
  BY <1>1, <1>3 DEF Script
<1>5. f.tokens \in Nat /\ f.tokens <= Cap(k) /\ f.last \in Time /\ f.last <= now
  <2>1. CASE Alive(b)
    <3>1. /\ b \in Rows /\ Filled(b.tokens, b.last, k)
          /\ b.tokens \in Nat /\ b.last \in Time
      BY <1>1, <1>2, <2>1 DEF IInv, Typed, RedisFilled, Alive, Rows
    <3>2. f = Refilled(b.tokens, b.last, k)
      BY <1>3, <2>1
    <3> QED BY <1>2, <3>1, <3>2, RefillFacts
  <2>2. CASE ~Alive(b)
    <3>1. f.tokens = Cap(k) /\ f.last = now
      BY <1>3, <2>2
    <3> QED BY <1>2, <3>1, Rates, Numbers DEF Time
  <2> QED BY <2>1, <2>2
<1>6. Max({0, f.tokens - 1}) = IF 0 >= f.tokens - 1 THEN 0 ELSE f.tokens - 1
  BY <1>5, MaxPair
<1>7. Cap(k) \in Nat
  BY <1>2, Rates
<1>8. row.tokens \in Nat /\ row.tokens <= Cap(k) /\ row.last = f.last /\ row.used = now
  BY <1>4, <1>5, <1>6, <1>7
<1>9. row \in Rows
  BY <1>2, <1>4, <1>5, <1>8 DEF Rows
<1> QED BY <1>1, <1>5, <1>8, <1>9 DEF Filled

LEMMA StoredFilled ==
    ASSUME IInv, NEW q \in Requests, Stored(q), now' = now
    PROVE  redis' \in [Clients -> [Kinds -> Rows \cup {NoBucket}]] /\ RedisFilled'
<1>1. PICK row : row = Script(q).row
  OBVIOUS
<1>2. row \in Rows /\ row.used = now /\ Filled(row.tokens, row.last, q.kind) /\ now \in Nat
  <2>1. now \in Nat
    BY Numbers DEF IInv, Typed, Time
  <2> QED BY <1>1, <2>1, ScriptRow
<1>3. q.client \in Clients /\ q.kind \in Kinds
  BY DEF Requests
<1>4. redis' = [redis EXCEPT ![q.client][q.kind] = row]
  BY <1>1 DEF Stored
<1>5. redis' \in [Clients -> [Kinds -> Rows \cup {NoBucket}]]
  BY <1>2, <1>3, <1>4 DEF IInv, Typed
<1>6. ASSUME NEW c \in Clients, NEW k \in Kinds
      PROVE  redis'[c][k] = IF c = q.client /\ k = q.kind THEN row ELSE redis[c][k]
  BY <1>3, <1>4 DEF IInv, Typed
<1>7. ASSUME NEW c \in Clients, NEW k \in Kinds, redis'[c][k] # NoBucket
      PROVE  /\ redis'[c][k].tokens <= Cap(k) /\ redis'[c][k].last <= now
             /\ redis'[c][k].used <= now
  <2>1. CASE c = q.client /\ k = q.kind
    BY <1>2, <1>6, <2>1 DEF Filled
  <2>2. CASE ~(c = q.client /\ k = q.kind)
    <3>1. redis'[c][k] = redis[c][k]
      BY <1>6, <2>2
    <3> QED BY <1>7, <3>1 DEF IInv, RedisFilled, Filled
  <2> QED BY <2>1, <2>2
<1> QED BY <1>5, <1>7 DEF RedisFilled, Filled

LEMMA TallyType ==
    ASSUME NEW h \in [Limiters -> [Clients -> [Kinds -> [Time -> Nat]]]],
           NEW l \in Limiters, NEW q \in Requests
    PROVE  Tally(h, l, q) \in [Limiters -> [Clients -> [Kinds -> [Time -> Nat]]]]
<1>1. q.client \in Clients /\ q.kind \in Kinds
  BY DEF Requests
<1>2. PICK g : g = [s \in Time |-> IF s \in Since THEN h[l][q.client][q.kind][s] + 1
                                   ELSE h[l][q.client][q.kind][s]]
  OBVIOUS
<1>3. g \in [Time -> Nat]
  BY <1>1, <1>2
<1>4. Tally(h, l, q) = [h EXCEPT ![l][q.client][q.kind] = g]
  BY <1>2 DEF Tally
<1> QED BY <1>1, <1>3, <1>4

LEMMA CallOkInv ==
    ASSUME IInv, NEW p \in Procs, CallOk(p)
    PROVE  IInv'
<1>1. PICK q : q = req[p]
  OBVIOUS
<1>2. /\ pc[p] = "shared" /\ q \in Requests /\ Stored(q)
      /\ until' = [until EXCEPT ![q.replica] = 0]
      /\ pc' = [pc EXCEPT ![p] = "idle"] /\ req' = [req EXCEPT ![p] = NoReq]
      /\ grants' \in {Tally(grants, Redis, q), grants}
      /\ UNCHANGED <<site, now, store, heap, doomed, cleaning, held, stray>>
  BY <1>1 DEF CallOk, Answered, IInv, Request
<1>3. grants' \in [Limiters -> [Clients -> [Kinds -> [Time -> Nat]]]]
  <2>1. Redis \in Limiters
    BY DEF Limiters
  <2>2. grants \in [Limiters -> [Clients -> [Kinds -> [Time -> Nat]]]]
    BY DEF IInv, Typed
  <2>3. Tally(grants, Redis, q) \in [Limiters -> [Clients -> [Kinds -> [Time -> Nat]]]]
    BY <1>2, <2>1, <2>2, TallyType
  <2> QED BY <1>2, <2>2, <2>3
<1>4. redis' \in [Clients -> [Kinds -> Rows \cup {NoBucket}]] /\ RedisFilled'
  BY <1>2, StoredFilled
<1>5. Typed'
  BY <1>2, <1>3, <1>4 DEF IInv, Typed
<1>6. \A o \in Procs : o # p => Same(o)
  BY <1>2 DEF IInv, Typed, Same
<1>7. pc'[p] = "idle"
  BY <1>2 DEF IInv, Typed
<1> QED BY <1>2, <1>4, <1>5, <1>6, <1>7, QuietStep

LEMMA CallFailedInv ==
    ASSUME IInv, NEW p \in Procs, CallFailed(p)
    PROVE  IInv'
<1>1. PICK q : q = req[p]
  OBVIOUS
<1>2. /\ pc[p] = "shared" /\ q \in Requests /\ (Stored(q) \/ redis' = redis)
      /\ until' = [until EXCEPT ![q.replica] = now + Cooldown]
      /\ pc' = [pc EXCEPT ![p] = "lookup"]
      /\ UNCHANGED <<site, now, store, heap, doomed, cleaning, req, held, grants, stray>>
  BY <1>1 DEF CallFailed, IInv, Request
<1>3. redis' \in [Clients -> [Kinds -> Rows \cup {NoBucket}]] /\ RedisFilled'
  <2>1. CASE Stored(q)
    BY <1>2, <2>1, StoredFilled
  <2>2. CASE redis' = redis
    BY <1>2, <2>2 DEF IInv, Typed, RedisFilled, Filled
  <2> QED BY <1>2, <2>1, <2>2
<1>4. now + Cooldown \in Nat /\ q.replica \in Replicas
  BY <1>2, Numbers DEF IInv, Typed, Time, Requests
<1>5. Typed'
  BY <1>2, <1>3, <1>4 DEF IInv, Typed
<1>6. \A o \in Procs : o # p => Same(o)
  BY <1>2 DEF IInv, Typed, Same
<1>7. pc'[p] = "lookup" /\ req'[p] = q
  BY <1>1, <1>2 DEF IInv, Typed
<1> QED BY <1>2, <1>3, <1>5, <1>6, <1>7, QuietStep

LEMMA LookupInv ==
    ASSUME IInv, NEW p \in Procs, Lookup(p)
    PROVE  IInv'
<1>1. PICK r, c : r = req[p].replica /\ c = req[p].client
  OBVIOUS
<1>2. /\ pc[p] = "lookup" /\ store[r][c] # NoBucket
      /\ held' = [held EXCEPT ![p] = store[r][c]]
      /\ pc' = [pc EXCEPT ![p] = "take"]
      /\ UNCHANGED <<site, now, store, heap, doomed, cleaning, redis, until, req, grants, stray>>
  BY <1>1 DEF Lookup
<1>3. req[p] \in Requests /\ r \in Replicas /\ c \in Clients
  BY <1>1, <1>2 DEF IInv, Request, Requests
<1>4. c \in Registered(r) /\ store[r][c] \in Pointers
  BY <1>2, <1>3 DEF Registered, IInv, Typed
<1>5. Typed'
  BY <1>2, <1>3, <1>4 DEF IInv, Typed
<1>6. HeapFilled' /\ RedisFilled' /\ Apart' /\ \A z \in Replicas : Mapped(z)'
  BY <1>2 DEF IInv, HeapFilled, RedisFilled, Filled, Apart, OnlyFor, Mapped, Registered
<1>7. ASSUME NEW q \in Procs PROVE Request(q)'
  <2>1. CASE q = p
    <3>1. pc'[p] = "take" /\ held'[p] = store[r][c] /\ req'[p] = req[p]
      BY <1>2 DEF IInv, Typed
    <3>2. heap[store[r][c]] # NoBucket /\ OnlyFor(store[r][c], r, c)
      BY <1>3, <1>4 DEF IInv, Mapped, Apart
    <3>3. heap'[held'[p]] # NoBucket
      BY <1>2, <3>1, <3>2
    <3>4. OnlyFor(held[p], req[p].replica, req[p].client)'
      BY <1>1, <1>2, <3>1, <3>2 DEF OnlyFor
    <3> QED BY <1>2, <1>3, <2>1, <3>1, <3>3, <3>4 DEF Request
  <2>2. CASE q # p
    <3>1. Same(q)
      BY <1>2, <2>2 DEF Same, IInv, Typed
    <3> QED BY <1>2, <3>1 DEF IInv, Request, Same, OnlyFor
  <2> QED BY <2>1, <2>2
<1> QED BY <1>5, <1>6, <1>7 DEF IInv

\* The pointer of a new bucket is in no map and no request holds it.
LEMMA NewPointer ==
    ASSUME IInv, NEW i \in Pointers, heap[i] = NoBucket
    PROVE  /\ \A r \in Replicas, c \in Clients : store[r][c] # i
           /\ \A q \in Procs : held[q] # i
           /\ i # NoBucket
<1>1. i # NoBucket
  BY RateLimitAssumption
<1>2. ASSUME NEW r \in Replicas, NEW c \in Clients, store[r][c] = i PROVE FALSE
  <2>1. c \in Registered(r)
    BY <1>1, <1>2 DEF Registered
  <2> QED BY <1>2, <2>1 DEF IInv, Mapped
<1>3. ASSUME NEW q \in Procs, held[q] = i PROVE FALSE
  BY <1>1, <1>3 DEF IInv, Request
<1> QED BY <1>1, <1>2, <1>3

LEMMA FreshFilled ==
    ASSUME now \in Time
    PROVE  /\ FreshBucket \in Buckets /\ FreshBucket # NoBucket
           /\ \A k \in Kinds : FreshBucket.tokens[k] = Cap(k) /\ FreshBucket.last[k] = now
<1>1. [k \in Kinds |-> Cap(k)] \in [Kinds -> Nat]
  BY Rates
<1>2. [k \in Kinds |-> now] \in [Kinds -> Time]
  OBVIOUS
<1>3. FreshBucket \in Buckets
  BY <1>1, <1>2 DEF FreshBucket, Buckets
<1>4. \A k \in Kinds : FreshBucket.tokens[k] = Cap(k) /\ FreshBucket.last[k] = now
  BY DEF FreshBucket
<1> QED BY <1>3, <1>4, RateLimitAssumption

Free == CHOOSE j \in Pointers : heap[j] = NoBucket

LEMMA RegisterInv ==
    ASSUME IInv, NEW p \in Procs, Register(p)
    PROVE  IInv'
<1>1. PICK r, c : r = req[p].replica /\ c = req[p].client
  OBVIOUS
<1>2. /\ r \in Replicas /\ c \in Clients /\ req[p] \in Requests /\ pc[p] = "lookup"
      /\ store[r][c] = NoBucket /\ HasRoom(r)
      /\ pc' = [pc EXCEPT ![p] = "take"]
      /\ UNCHANGED <<site, now, doomed, cleaning, redis, until, req, grants, stray>>
  BY <1>1 DEF Register, IInv, Request, Requests
<1>0. PICK i : i = Free
  OBVIOUS
<1>3. /\ i \in Pointers /\ heap[i] = NoBucket
      /\ store' = [store EXCEPT ![r][c] = i]
      /\ held' = [held EXCEPT ![p] = i]
      /\ heap' = [heap EXCEPT ![i] = FreshBucket]
  BY <1>0, <1>1 DEF Register, Free
<1>4. /\ \A r2 \in Replicas, c2 \in Clients : store[r2][c2] # i
      /\ \A q \in Procs : held[q] # i
      /\ i # NoBucket
  BY <1>3, NewPointer
<1>5. now \in Time /\ now \in Nat
  BY Numbers DEF IInv, Typed, Time
<1>6. /\ FreshBucket \in Buckets /\ FreshBucket # NoBucket
      /\ \A k \in Kinds : FreshBucket.tokens[k] = Cap(k) /\ FreshBucket.last[k] = now
  BY <1>5, FreshFilled
<1>7. Typed'
  BY <1>2, <1>3, <1>6 DEF IInv, Typed
<1>8. /\ \A r2 \in Replicas, c2 \in Clients :
            store'[r2][c2] = IF r2 = r /\ c2 = c THEN i ELSE store[r2][c2]
      /\ \A j \in Pointers : heap'[j] = IF j = i THEN FreshBucket ELSE heap[j]
      /\ held'[p] = i /\ pc'[p] = "take" /\ req'[p] = req[p]
      /\ \A q \in Procs : q # p => Same(q)
  BY <1>2, <1>3 DEF IInv, Typed, Same
<1>9. HeapFilled'
  <2>1. \A k \in Kinds : Cap(k) \in Nat
    BY Rates
  <2>2. ASSUME NEW j \in Pointers, heap'[j] # NoBucket, NEW k \in Kinds
        PROVE  heap'[j].tokens[k] <= Cap(k) /\ heap'[j].last[k] <= now
    <3>1. CASE j = i
      BY <1>5, <1>6, <1>8, <2>1, <3>1
    <3>2. CASE j # i
      BY <1>8, <2>2, <3>2 DEF IInv, HeapFilled, Filled
    <3> QED BY <3>1, <3>2
  <2> QED BY <1>2, <2>2 DEF HeapFilled, Filled
<1>10. RedisFilled'
  BY <1>2 DEF IInv, RedisFilled, Filled
<1>11. ASSUME NEW z \in Replicas PROVE Mapped(z)'
  <2>1. Mapped(z)
    BY DEF IInv
  <2>2. CASE z = r
    <3>1. Registered(r)' = Registered(r) \cup {c}
      BY <1>2, <1>4, <1>8 DEF Registered
    <3>2. /\ IsFiniteSet(Registered(r)) /\ Cardinality(Registered(r)) \in Nat
          /\ Cardinality(Registered(r)) < MaxStoreEntries /\ c \notin Registered(r)
      BY <1>2, <2>1, <2>2, FS_CardinalityType DEF Mapped, HasRoom, Registered
    <3>3. /\ IsFiniteSet(Registered(r) \cup {c})
          /\ Cardinality(Registered(r) \cup {c}) = Cardinality(Registered(r)) + 1
      BY <3>2, FS_AddElement
    <3>4. Cardinality(Registered(r) \cup {c}) <= MaxStoreEntries
      BY <3>2, <3>3, Numbers
    <3>5. doomed'[r] \subseteq Registered(r)'
      BY <1>2, <2>1, <2>2, <3>1 DEF Mapped
    <3>6. ASSUME NEW d \in Registered(r)' PROVE heap'[store'[r][d]] # NoBucket
      <4>1. d \in Clients
        BY DEF Registered
      <4>2. CASE d = c
        BY <1>2, <1>3, <1>6, <1>8, <4>2
      <4>3. CASE d # c
        <5>1. d \in Registered(r) /\ store'[r][d] = store[r][d] /\ store[r][d] \in Pointers
          BY <1>2, <1>8, <3>1, <3>6, <4>1, <4>3 DEF Registered, IInv, Typed
        <5>2. heap[store[r][d]] # NoBucket
          BY <2>1, <2>2, <5>1 DEF Mapped
        <5> QED BY <1>3, <1>8, <5>1, <5>2
      <4> QED BY <4>2, <4>3
    <3> QED BY <2>2, <3>1, <3>3, <3>4, <3>5, <3>6 DEF Mapped
  <2>3. CASE z # r
    <3>1. store'[z] = store[z]
      BY <1>2, <1>3, <2>3 DEF IInv, Typed
    <3>2. Registered(z)' = Registered(z)
      BY <3>1 DEF Registered
    <3>3. ASSUME NEW d \in Registered(z) PROVE heap'[store'[z][d]] # NoBucket
      <4>1. store[z][d] \in Pointers /\ heap[store[z][d]] # NoBucket
        BY <2>1, <3>3 DEF Mapped, Registered, IInv, Typed
      <4> QED BY <1>3, <1>8, <3>1, <4>1
    <3> QED BY <1>2, <2>1, <3>1, <3>2, <3>3 DEF Mapped
  <2> QED BY <2>2, <2>3
<1>12. Apart'
  <2>1. ASSUME NEW z \in Replicas, NEW d \in Registered(z)',
               NEW z2 \in Replicas, NEW d2 \in Clients, store'[z2][d2] = store'[z][d]
        PROVE  z2 = z /\ d2 = d
    <3>1. d \in Clients /\ store'[z][d] # NoBucket
      BY <2>1 DEF Registered
    <3>2. CASE store'[z][d] = i
      BY <1>4, <1>8, <2>1, <3>1, <3>2
    <3>3. CASE store'[z][d] # i
      <4>1. store'[z][d] = store[z][d] /\ store'[z2][d2] = store[z2][d2] /\ d \in Registered(z)
        BY <1>8, <2>1, <3>1, <3>3 DEF Registered
      <4> QED BY <2>1, <4>1 DEF IInv, Apart, OnlyFor
    <3> QED BY <3>2, <3>3
  <2> QED BY <2>1 DEF Apart, OnlyFor
<1>13. ASSUME NEW q \in Procs PROVE Request(q)'
  <2>1. CASE q = p
    <3>1. heap'[i] # NoBucket
      BY <1>3, <1>6, <1>8
    <3>2. \A z \in Replicas, d \in Clients : store'[z][d] = i => z = r /\ d = c
      BY <1>4, <1>8
    <3> QED BY <1>1, <1>2, <1>4, <1>8, <2>1, <3>1, <3>2 DEF Request, OnlyFor
  <2>2. CASE q # p
    <3>1. Same(q) /\ Request(q) /\ held[q] # i
      BY <1>4, <1>8, <2>2 DEF IInv
    <3>2. ASSUME held[q] # NoBucket
          PROVE  /\ heap'[held[q]] # NoBucket
                 /\ \A z \in Replicas, d \in Clients : store'[z][d] = held[q] =>
                       z = req[q].replica /\ d = req[q].client
      <4>1. held[q] \in Pointers
        BY <3>2 DEF IInv, Typed
      <4>2. heap'[held[q]] # NoBucket
        BY <1>8, <3>1, <3>2, <4>1 DEF Request
      <4>3. ASSUME NEW z \in Replicas, NEW d \in Clients, store'[z][d] = held[q]
            PROVE  store[z][d] = held[q]
        BY <1>8, <3>1, <4>3
      <4> QED BY <3>1, <3>2, <4>2, <4>3 DEF Request, OnlyFor
    <3> QED BY <3>1, <3>2 DEF Request, OnlyFor, Same
  <2> QED BY <2>1, <2>2
<1> QED BY <1>7, <1>9, <1>10, <1>11, <1>12, <1>13 DEF IInv

\* What is still in use after a step.
InUse(i) == \/ \E r \in Replicas, c \in Clients : store[r][c] = i
            \/ \E p \in Procs : held[p] = i

\* The bucket after the request has asked for a token of kind k.
Taken(nb, b, f, k) ==
    /\ nb.tokens[k] = (IF f.tokens > 0 THEN f.tokens - 1 ELSE 0)
    /\ nb.last[k] = f.last
    /\ \A j \in Kinds : j # k => nb.tokens[j] = b.tokens[j] /\ nb.last[j] = b.last[j]

\* What Take changes: the bucket of the request, which is then given back.
LEMMA TakeFacts ==
    ASSUME IInv, NEW p \in Procs, Take(p), NEW q, q = req[p],
           NEW b, b = heap[held[p]],
           NEW f, f = Refilled(b.tokens[q.kind], b.last[q.kind], q.kind)
    PROVE  /\ q \in Requests /\ held[p] \in Pointers /\ b \in Buckets /\ pc[p] = "take"
           /\ Filled(b.tokens[q.kind], b.last[q.kind], q.kind)
           /\ b.tokens[q.kind] \in Nat /\ b.last[q.kind] \in Time
           /\ \E nb \in Buckets :
                 /\ Taken(nb, b, f, q.kind)
                 /\ \A k \in Kinds : Filled(nb.tokens[k], nb.last[k], k)
                 /\ heap' = [i \in Pointers |-> IF InUse(i)'
                                THEN IF i = held[p] THEN nb ELSE heap[i]
                                ELSE NoBucket]
<1>1. /\ pc[p] = "take" /\ held[p] # NoBucket /\ q \in Requests /\ b # NoBucket
      /\ held[p] \in Pointers
  BY DEF Take, IInv, Request, Typed
<1>2. b \in Buckets /\ \A k \in Kinds : Filled(b.tokens[k], b.last[k], k)
  BY <1>1 DEF IInv, Typed, HeapFilled
<1>3. b.tokens \in [Kinds -> Nat] /\ b.last \in [Kinds -> Time] /\ q.kind \in Kinds /\ now \in Time
  BY <1>1, <1>2 DEF Buckets, Requests, IInv, Typed
<1>4. b.tokens[q.kind] \in Nat /\ b.last[q.kind] \in Time
  BY <1>3
<1>5. /\ f.tokens \in Nat /\ f.tokens <= Cap(q.kind) /\ f.last \in Time /\ f.last <= now
      /\ Cap(q.kind) \in Nat
  BY <1>2, <1>3, <1>4, RefillFacts, Rates
<1>6. PICK n : n = IF f.tokens > 0 THEN f.tokens - 1 ELSE 0
  OBVIOUS
<1>7. n \in Nat /\ n <= Cap(q.kind)
  <2>1. PICK t, cap : t = f.tokens /\ cap = Cap(q.kind)
    OBVIOUS
  <2>2. t \in Nat /\ cap \in Nat /\ t <= cap
    BY <1>5, <2>1
  <2>3. n = IF t > 0 THEN t - 1 ELSE 0
    BY <1>6, <2>1
  <2>4. n \in Nat /\ n <= cap
    BY <2>2, <2>3
  <2> QED BY <2>1, <2>4
<1>8. PICK ts, ls : ts = [b.tokens EXCEPT ![q.kind] = n] /\ ls = [b.last EXCEPT ![q.kind] = f.last]
  OBVIOUS
<1>9. /\ ts \in [Kinds -> Nat] /\ ls \in [Kinds -> Time]
      /\ ts[q.kind] = n /\ ls[q.kind] = f.last
      /\ \A k \in Kinds : k # q.kind => ts[k] = b.tokens[k] /\ ls[k] = b.last[k]
  BY <1>3, <1>5, <1>7, <1>8
<1>10. PICK nb : nb = [tokens |-> ts, last |-> ls]
  OBVIOUS
<1>11. nb \in Buckets /\ nb.tokens = ts /\ nb.last = ls
  BY <1>9, <1>10 DEF Buckets
<1>12. \A k \in Kinds : Filled(nb.tokens[k], nb.last[k], k)
  BY <1>2, <1>5, <1>7, <1>9, <1>11 DEF Filled
<1>13. Keep([heap EXCEPT ![held[p]] = nb])
  BY <1>6, <1>8, <1>10 DEF Take
<1>14. \A i \in Pointers : [heap EXCEPT ![held[p]] = nb][i] = IF i = held[p] THEN nb ELSE heap[i]
  BY <1>1 DEF IInv, Typed
<1>15. heap' = [i \in Pointers |-> IF InUse(i)'
                   THEN IF i = held[p] THEN nb ELSE heap[i] ELSE NoBucket]
  BY <1>13, <1>14 DEF Keep, InUse
<1>16. Taken(nb, b, f, q.kind)
  BY <1>6, <1>9, <1>11 DEF Taken
<1> QED BY <1>1, <1>2, <1>3, <1>4, <1>11, <1>12, <1>15, <1>16

\* A step after which maps and requests have at most the pointers they had.
LEMMA KeptPointers ==
    ASSUME IInv, Typed',
           \A r \in Replicas, c \in Clients : store'[r][c] \in {store[r][c], NoBucket},
           \A i \in Pointers : InUse(i)' /\ heap[i] # NoBucket => heap'[i] # NoBucket,
           \A r \in Replicas : doomed'[r] \subseteq Registered(r)'
    PROVE  /\ Apart' /\ \A r \in Replicas : Mapped(r)'
           /\ \A q \in Procs : Same(q) => Request(q)'
<1>1. ASSUME NEW r \in Replicas, NEW c \in Registered(r)'
      PROVE  c \in Clients /\ c \in Registered(r) /\ store'[r][c] = store[r][c] /\ store[r][c] \in Pointers
  BY <1>1 DEF Registered, IInv, Typed
<1>2. ASSUME NEW r \in Replicas, NEW c \in Clients, NEW i \in Pointers, store'[r][c] = i
      PROVE  store[r][c] = i
  BY <1>2, RateLimitAssumption
<1>3. ASSUME NEW i \in Pointers, NEW r, NEW c, OnlyFor(i, r, c) PROVE OnlyFor(i, r, c)'
  BY <1>2, <1>3 DEF OnlyFor
<1>4. Apart'
  <2>1. ASSUME NEW r \in Replicas, NEW c \in Registered(r)'
        PROVE  OnlyFor(store[r][c], r, c)'
    <3>1. PICK i : i = store[r][c]
      OBVIOUS
    <3>2. i \in Pointers /\ i = store'[r][c] /\ OnlyFor(i, r, c)
      BY <1>1, <2>1, <3>1 DEF IInv, Apart
    <3>3. OnlyFor(i, r, c)'
      BY <1>3, <3>2
    <3> QED BY <3>2, <3>3 DEF OnlyFor
  <2> QED BY <2>1 DEF Apart
<1>5. ASSUME NEW r \in Replicas PROVE Mapped(r)'
  <2>1. Registered(r)' \in SUBSET Registered(r)
    BY <1>1
  <2>2. Mapped(r)
    BY DEF IInv
  <2>3. PICK old, new : old = Registered(r) /\ new = Registered(r)'
    OBVIOUS
  <2>4. IsFiniteSet(old) /\ Cardinality(old) <= MaxStoreEntries /\ new \in SUBSET old
    BY <2>1, <2>2, <2>3 DEF Mapped
  <2>5. IsFiniteSet(new) /\ Cardinality(new) <= Cardinality(old)
    BY <2>4, FS_Subset
  <2>6. Cardinality(old) \in Nat /\ Cardinality(new) \in Nat
    BY <2>4, <2>5, FS_CardinalityType
  <2>7. Cardinality(new) <= MaxStoreEntries
    BY <2>4, <2>5, <2>6, Numbers
  <2>8. ASSUME NEW c \in Registered(r)' PROVE heap'[store'[r][c]] # NoBucket
    <3>1. c \in Clients /\ c \in Registered(r) /\ store'[r][c] = store[r][c] /\ store[r][c] \in Pointers
      BY <1>1, <2>8
    <3>2. heap[store[r][c]] # NoBucket
      BY <2>2, <3>1 DEF Mapped
    <3>3. PICK i \in Pointers : i = store[r][c] /\ i = store'[r][c]
      BY <3>1
    <3>4. InUse(i)'
      BY <3>1, <3>3 DEF InUse
    <3> QED BY <3>2, <3>3, <3>4
  <2> QED BY <2>3, <2>5, <2>7, <2>8 DEF Mapped
<1>6. ASSUME NEW q \in Procs, Same(q) PROVE Request(q)'
  <2>1. Request(q)
    BY DEF IInv
  <2>2. CASE held[q] = NoBucket
    BY <1>6, <2>1, <2>2 DEF Request, Same
  <2>3. CASE held[q] # NoBucket
    <3>1. PICK i \in Pointers : i = held[q] /\ i = held'[q]
      BY <1>6, <2>3 DEF IInv, Typed, Same
    <3>2. heap[i] # NoBucket /\ OnlyFor(i, req[q].replica, req[q].client)
      BY <2>1, <2>3, <3>1 DEF Request
    <3>3. InUse(i)'
      BY <3>1 DEF InUse
    <3>4. heap'[i] # NoBucket
      BY <3>2, <3>3
    <3>5. PICK r, c : r = req[q].replica /\ c = req[q].client /\ r = req'[q].replica /\ c = req'[q].client
      BY <1>6 DEF Same
    <3>6. OnlyFor(i, r, c)'
      BY <1>3, <3>2, <3>5
    <3> QED BY <1>6, <2>1, <2>3, <3>1, <3>4, <3>5, <3>6 DEF Request, Same, OnlyFor
  <2> QED BY <2>2, <2>3
<1> QED BY <1>4, <1>5, <1>6

LEMMA TakeInv ==
    ASSUME IInv, NEW p \in Procs, Take(p)
    PROVE  IInv'
<1>1. PICK q, b : q = req[p] /\ b = heap[held[p]]
  OBVIOUS
<1>2. PICK f : f = Refilled(b.tokens[q.kind], b.last[q.kind], q.kind)
  OBVIOUS
<1>3. q \in Requests /\ held[p] \in Pointers /\ b \in Buckets
  BY <1>1, <1>2, TakeFacts
<1>4. PICK nb \in Buckets :
         /\ \A k \in Kinds : Filled(nb.tokens[k], nb.last[k], k)
         /\ heap' = [i \in Pointers |-> IF InUse(i)'
                        THEN IF i = held[p] THEN nb ELSE heap[i]
                        ELSE NoBucket]
  BY <1>1, <1>2, TakeFacts
<1>5. /\ held' = [held EXCEPT ![p] = NoBucket]
      /\ pc' = [pc EXCEPT ![p] = "idle"] /\ req' = [req EXCEPT ![p] = NoReq]
      /\ grants' \in {Tally(grants, q.replica, q), grants}
      /\ stray' \in {Tally(stray, q.replica, q), stray}
      /\ UNCHANGED <<site, now, store, doomed, cleaning, redis, until>>
  BY <1>1 DEF Take, Answered
<1>6. /\ grants' \in [Limiters -> [Clients -> [Kinds -> [Time -> Nat]]]]
      /\ stray' \in [Limiters -> [Clients -> [Kinds -> [Time -> Nat]]]]
  <2>1. q.replica \in Limiters
    BY <1>3 DEF Limiters, Requests
  <2>2. /\ grants \in [Limiters -> [Clients -> [Kinds -> [Time -> Nat]]]]
        /\ stray \in [Limiters -> [Clients -> [Kinds -> [Time -> Nat]]]]
    BY DEF IInv, Typed
  <2>3. /\ Tally(grants, q.replica, q) \in [Limiters -> [Clients -> [Kinds -> [Time -> Nat]]]]
        /\ Tally(stray, q.replica, q) \in [Limiters -> [Clients -> [Kinds -> [Time -> Nat]]]]
    BY <1>3, <2>1, <2>2, TallyType
  <2> QED BY <1>5, <2>2, <2>3
<1>7. heap' \in [Pointers -> Buckets \cup {NoBucket}]
  BY <1>4 DEF IInv, Typed
<1>8. Typed'
  BY <1>5, <1>6, <1>7 DEF IInv, Typed
<1>9. nb # NoBucket
  BY RateLimitAssumption
<1>10. \A i \in Pointers : InUse(i)' /\ heap[i] # NoBucket => heap'[i] # NoBucket
  BY <1>4, <1>9
<1>11. HeapFilled'
  <2>1. ASSUME NEW i \in Pointers, heap'[i] # NoBucket, NEW k \in Kinds
        PROVE  Filled(heap'[i].tokens[k], heap'[i].last[k], k)
    <3>1. heap'[i] = nb \/ heap'[i] = heap[i]
      BY <1>4, <2>1
    <3> QED BY <1>4, <2>1, <3>1 DEF IInv, HeapFilled
  <2> QED BY <1>5, <2>1 DEF HeapFilled, Filled
<1>12. RedisFilled'
  BY <1>5 DEF IInv, RedisFilled, Filled
<1>13. \A r \in Replicas : doomed'[r] \subseteq Registered(r)'
  BY <1>5 DEF IInv, Mapped, Registered
<1>14. /\ Apart' /\ \A r \in Replicas : Mapped(r)'
       /\ \A o \in Procs : Same(o) => Request(o)'
  BY <1>5, <1>8, <1>10, <1>13, KeptPointers
<1>15. ASSUME NEW o \in Procs PROVE Request(o)'
  <2>1. CASE o = p
    <3>1. pc'[p] = "idle" /\ held'[p] = NoBucket
      BY <1>5 DEF IInv, Typed
    <3> QED BY <2>1, <3>1 DEF Request
  <2>2. CASE o # p
    <3>1. Same(o)
      BY <1>5, <2>2 DEF Same, IInv, Typed
    <3> QED BY <1>14, <3>1
  <2> QED BY <2>1, <2>2
<1> QED BY <1>8, <1>11, <1>12, <1>14, <1>15 DEF IInv

LEMMA CleanupScanInv ==
    ASSUME IInv, NEW r \in Replicas, CleanupScan(r)
    PROVE  IInv'
<1>1. /\ \E D \in SUBSET Registered(r) : doomed' = [doomed EXCEPT ![r] = D]
      /\ cleaning' = [cleaning EXCEPT ![r] = TRUE]
      /\ UNCHANGED <<site, now, store, heap, redis, until, pc, req, held, grants, stray>>
  BY DEF CleanupScan
<1>2. PICK D \in SUBSET Registered(r) : doomed' = [doomed EXCEPT ![r] = D]
  BY <1>1
<1>3. D \subseteq Clients
  BY DEF Registered
<1>4. Typed'
  BY <1>1, <1>2, <1>3 DEF IInv, Typed
<1>5. HeapFilled' /\ RedisFilled'
  BY <1>1 DEF IInv, HeapFilled, RedisFilled, Filled
<1>6. \A z \in Replicas : Registered(z)' = Registered(z)
  BY <1>1 DEF Registered
<1>7. \A z \in Replicas : doomed'[z] \subseteq Registered(z)'
  BY <1>2, <1>6 DEF IInv, Typed, Mapped
<1>8. /\ Apart' /\ \A z \in Replicas : Mapped(z)'
      /\ \A q \in Procs : Same(q) => Request(q)'
  BY <1>1, <1>4, <1>7, KeptPointers
<1>9. \A q \in Procs : Same(q)
  BY <1>1 DEF Same
<1> QED BY <1>4, <1>5, <1>8, <1>9 DEF IInv

LEMMA CleanupDeleteInv ==
    ASSUME IInv, NEW r \in Replicas, CleanupDelete(r)
    PROVE  IInv'
<1>1. /\ cleaning' = [cleaning EXCEPT ![r] = FALSE]
      /\ doomed' = [doomed EXCEPT ![r] = {}]
      /\ store' = [store EXCEPT ![r] = [c \in Clients |-> IF c \in doomed[r] THEN NoBucket ELSE store[r][c]]]
      /\ UNCHANGED <<site, now, redis, until, pc, req, held, grants, stray>>
      /\ heap' = [i \in Pointers |-> IF InUse(i)' THEN heap[i] ELSE NoBucket]
  BY DEF CleanupDelete, Keep, InUse
<1>2. Typed'
  BY <1>1 DEF IInv, Typed
<1>3. \A z \in Replicas, c \in Clients : store'[z][c] \in {store[z][c], NoBucket}
  BY <1>1 DEF IInv, Typed
<1>4. \A i \in Pointers : InUse(i)' /\ heap[i] # NoBucket => heap'[i] # NoBucket
  BY <1>1
<1>5. ASSUME NEW z \in Replicas PROVE doomed'[z] \subseteq Registered(z)'
  <2>1. CASE z = r
    BY <1>1, <2>1 DEF IInv, Typed
  <2>2. CASE z # r
    BY <1>1, <2>2 DEF IInv, Typed, Mapped, Registered
  <2> QED BY <2>1, <2>2
<1>6. HeapFilled' /\ RedisFilled'
  BY <1>1 DEF IInv, HeapFilled, RedisFilled, Filled
<1>7. /\ Apart' /\ \A z \in Replicas : Mapped(z)'
      /\ \A q \in Procs : Same(q) => Request(q)'
  BY <1>2, <1>3, <1>4, <1>5, KeptPointers
<1>8. \A q \in Procs : Same(q)
  BY <1>1 DEF Same
<1> QED BY <1>2, <1>6, <1>7, <1>8 DEF IInv

LEMMA TickInv ==
    ASSUME IInv, Tick
    PROVE  IInv'
<1>1. /\ now < MaxTime /\ now' = now + 1 /\ now \in Nat
      /\ grants' = Recent(grants) /\ stray' = Recent(stray)
      /\ UNCHANGED <<site, store, heap, doomed, cleaning, redis, until, pc, req, held>>
  BY Numbers DEF Tick, IInv, Typed, Time
<1>2. now' \in Time
  BY <1>1, Numbers DEF Time
<1>3. ASSUME NEW h \in [Limiters -> [Clients -> [Kinds -> [Time -> Nat]]]]
      PROVE  Recent(h) \in [Limiters -> [Clients -> [Kinds -> [Time -> Nat]]]]
  BY DEF Recent
<1>4. /\ grants' \in [Limiters -> [Clients -> [Kinds -> [Time -> Nat]]]]
      /\ stray' \in [Limiters -> [Clients -> [Kinds -> [Time -> Nat]]]]
  BY <1>1, <1>3 DEF IInv, Typed
<1>5. Typed'
  BY <1>1, <1>2, <1>4 DEF IInv, Typed
<1>6. HeapFilled'
  <2>1. ASSUME NEW i \in Pointers, heap[i] # NoBucket, NEW k \in Kinds
        PROVE  heap[i].tokens[k] <= Cap(k) /\ heap[i].last[k] <= now + 1
    <3>1. heap[i].last[k] \in Nat
      BY <2>1, Numbers DEF IInv, Typed, Buckets, Time
    <3> QED BY <1>1, <2>1, <3>1 DEF IInv, HeapFilled, Filled
  <2> QED BY <1>1, <2>1 DEF HeapFilled, Filled
<1>7. RedisFilled'
  <2>1. ASSUME NEW c \in Clients, NEW k \in Kinds, redis[c][k] # NoBucket
        PROVE  /\ redis[c][k].tokens <= Cap(k) /\ redis[c][k].last <= now + 1
               /\ redis[c][k].used <= now + 1
    <3>1. redis[c][k].last \in Nat /\ redis[c][k].used \in Nat
      BY <2>1, Numbers DEF IInv, Typed, Rows, Time
    <3> QED BY <1>1, <2>1, <3>1 DEF IInv, RedisFilled, Filled
  <2> QED BY <1>1, <2>1 DEF RedisFilled, Filled
<1>8. \A z \in Replicas : doomed'[z] \subseteq Registered(z)'
  BY <1>1 DEF IInv, Mapped, Registered
<1>9. /\ Apart' /\ \A z \in Replicas : Mapped(z)'
      /\ \A q \in Procs : Same(q) => Request(q)'
  BY <1>1, <1>5, <1>8, KeptPointers
<1>10. \A q \in Procs : Same(q)
  BY <1>1 DEF Same
<1> QED BY <1>5, <1>6, <1>7, <1>9, <1>10 DEF IInv

LEMMA InitInv == Init => IInv
<1> SUFFICES ASSUME Init PROVE IInv
  OBVIOUS
<1>1. Typed
  BY Numbers DEF Init, Typed, Time, NoGrants
<1>2. \A r \in Replicas : Registered(r) = {}
  BY DEF Init, Registered
<1>3. HeapFilled /\ RedisFilled /\ Apart
  BY <1>2 DEF Init, HeapFilled, RedisFilled, Apart
<1>4. ASSUME NEW r \in Replicas PROVE Mapped(r)
  <2>1. IsFiniteSet({}) /\ Cardinality({}) = 0
    BY FS_EmptySet
  <2>2. Registered(r) = {} /\ doomed[r] = {}
    BY <1>2 DEF Init
  <2>3. 0 <= MaxStoreEntries
    BY Numbers
  <2> QED BY <2>1, <2>2, <2>3 DEF Mapped
<1>5. \A p \in Procs : Request(p)
  BY DEF Init, Request
<1> QED BY <1>1, <1>3, <1>4, <1>5 DEF IInv

LEMMA NextInv == IInv /\ [Next]_vars => IInv'
<1> SUFFICES ASSUME IInv, [Next]_vars PROVE IInv'
  OBVIOUS
<1>1. CASE UNCHANGED vars
  <2>1. Typed'
    BY <1>1 DEF vars, IInv, Typed
  <2>2. HeapFilled' /\ RedisFilled' /\ Apart'
    BY <1>1 DEF vars, IInv, HeapFilled, RedisFilled, Filled, Apart, OnlyFor, Registered
  <2>3. \A r \in Replicas : Mapped(r)'
    BY <1>1 DEF vars, IInv, Mapped, Registered
  <2>4. \A p \in Procs : Request(p)'
    BY <1>1 DEF vars, IInv, Request, OnlyFor
  <2> QED BY <2>1, <2>2, <2>3, <2>4 DEF IInv
<1>2. ASSUME NEW p \in Procs, NEW q \in site.requests, Start(p, q) PROVE IInv'
  BY <1>2, StartInv
<1>3. ASSUME NEW p \in Procs,
             \/ Lookup(p) \/ Register(p) \/ StoreFull(p) \/ Take(p)
             \/ CallOk(p) \/ CallFailed(p) \/ Fallback(p)
      PROVE  IInv'
  BY <1>3, LookupInv, RegisterInv, StoreFullInv, TakeInv, CallOkInv, CallFailedInv, FallbackInv
<1>4. ASSUME NEW r \in Replicas, CleanupScan(r) \/ CleanupDelete(r) PROVE IInv'
  BY <1>4, CleanupScanInv, CleanupDeleteInv
<1>5. CASE Tick
  BY <1>5, TickInv
<1> QED BY <1>1, <1>2, <1>3, <1>4, <1>5 DEF Next

LEMMA Invariance == Spec => []IInv
BY InitInv, NextInv, PTL DEF Spec

(* Types: every variable keeps its type, tokens and refill times stay in    *)
(* range, clients have buckets of their own, and a request that is about   *)
(* to take a token has a bucket to take it from.                           *)
THEOREM LimiterTypes == Spec => []TypeOK
<1>1. IInv => TypeOK
  <2> SUFFICES ASSUME IInv PROVE TypeOK
    OBVIOUS
  <2>1. now \in Time /\ now \in Nat
    BY Numbers DEF IInv, Typed, Time
  <2>2. ASSUME NEW i \in Pointers, heap[i] # NoBucket, NEW k \in Kinds
        PROVE  heap[i].tokens[k] \in 0 .. Cap(k) /\ heap[i].last[k] \in 0 .. now
    <3>1. heap[i].tokens[k] \in Nat /\ heap[i].last[k] \in Nat
      BY <2>2, Numbers DEF IInv, Typed, Buckets, Time
    <3>2. Cap(k) \in Nat
      BY Rates
    <3> QED BY <2>1, <2>2, <3>1, <3>2 DEF IInv, HeapFilled, Filled
  <2>3. ASSUME NEW r \in Replicas
        PROVE  /\ Cardinality(Registered(r)) <= MaxStoreEntries
               /\ doomed[r] \subseteq Registered(r)
               /\ \A c \in Registered(r) : heap[store[r][c]] # NoBucket
               /\ \A c, d \in Registered(r) : store[r][c] = store[r][d] => c = d
    <3>1. Registered(r) \subseteq Clients
      BY DEF Registered
    <3>2. \A c, d \in Registered(r) : store[r][c] = store[r][d] => c = d
      BY <3>1 DEF IInv, Apart, OnlyFor
    <3> QED BY <3>2 DEF IInv, Mapped
  <2>4. ASSUME NEW p \in Procs
        PROVE  /\ pc[p] \in {"idle", "shared", "lookup", "take"}
               /\ pc[p] = "take" <=> held[p] # NoBucket
               /\ held[p] # NoBucket => heap[held[p]] # NoBucket
    BY DEF IInv, Typed, Request
  <2> QED BY <2>1, <2>2, <2>3, <2>4 DEF TypeOK
<1> QED BY <1>1, Invariance, PTL

\* The wait that RetryAfter computes, rounded up to whole seconds, is enough
\* for one interval and one second less is not.
LEMMA WaitFacts ==
    ASSUME NEW i \in Nat, NEW e \in Nat, e < i, NEW s \in Nat, s > 0,
           NEW w, w = (i - e + s - 1) \div s
    PROVE  /\ w \in Nat
           /\ (e + w * s) \div i > 0
           /\ (e + (w - 1) * s) \div i = 0
<1>1. PICK n : n = i - e + s - 1
  OBVIOUS
<1>2. n \in Nat /\ n >= s /\ n = (i - e) + (s - 1) /\ w = n \div s
  BY <1>1
<1>3. w \in Nat /\ w * s <= n /\ n < w * s + s
  BY <1>2, DivFacts
<1>4. PICK x, y : x = w * s /\ y = (w - 1) * s
  OBVIOUS
<1>5. x \in Nat /\ y = x - s
  BY <1>3, <1>4
<1>6. w > 0
  BY <1>2, <1>3
<1>7. y \in Nat
  BY <1>3, <1>4, <1>6
<1>8. e + x >= i /\ e + y < i /\ e + x \in Nat /\ e + y \in Nat /\ i > 0
  BY <1>2, <1>3, <1>4, <1>5, <1>7
<1>9. (e + x) \div i > 0
  <2>1. PICK d : d = (e + x) \div i
    OBVIOUS
  <2>2. d \in Nat /\ e + x < d * i + i
    BY <1>8, <2>1, DivFacts
  <2> QED BY <1>8, <2>1, <2>2
<1>10. (e + y) \div i = 0
  <2>1. PICK d : d = (e + y) \div i
    OBVIOUS
  <2>2. d \in Nat /\ d * i <= e + y
    BY <1>8, <2>1, DivFacts
  <2>3. d > 0 => d * i >= i
    BY <1>8, <2>2
  <2> QED BY <1>8, <2>1, <2>2, <2>3
<1> QED BY <1>3, <1>4, <1>9, <1>10

\* The same of a bucket: it is empty and no refill is due.
LEMMA RetryFacts ==
    ASSUME now \in Time, NEW k \in Kinds, NEW last \in Time, last <= now,
           now < last + Interval(k), NEW w, w = RetryAfter(last, k)
    PROVE  /\ w \in Nat
           /\ 0 + ((now + w * Second) - last) \div Interval(k) > 0
           /\ 0 + ((now + (w - 1) * Second) - last) \div Interval(k) <= 0
<1>1. PICK e, i : e = now - last /\ i = Interval(k)
  OBVIOUS
<1>2. i \in Nat /\ i > 0 /\ now \in Nat /\ last \in Nat /\ Second \in Nat /\ Second > 0
  BY <1>1, Rates, Numbers DEF Time
<1>3. e \in Nat /\ e < i
  BY <1>1, <1>2
<1>4. w = (i - e + Second - 1) \div Second
  BY <1>1 DEF RetryAfter
<1>5. w \in Nat /\ (e + w * Second) \div i > 0 /\ (e + (w - 1) * Second) \div i = 0
  BY <1>2, <1>3, <1>4, WaitFacts
<1>6. PICK x, y : x = w * Second /\ y = (w - 1) * Second
  OBVIOUS
<1>7. x \in Nat /\ y \in Int
  BY <1>2, <1>5, <1>6
<1>8. (now + x) - last = e + x /\ (now + y) - last = e + y
  BY <1>1, <1>2, <1>7
<1>9. (e + x) \div i \in Nat
  BY <1>2, <1>3, <1>7, DivFacts
<1>10. 0 + ((now + x) - last) \div i > 0 /\ 0 + ((now + y) - last) \div i <= 0
  BY <1>5, <1>6, <1>8, <1>9
<1> QED BY <1>1, <1>5, <1>6, <1>10

LEMMA EmptyFacts ==
    ASSUME now \in Time, NEW k \in Kinds, NEW tokens \in Nat, NEW last \in Time,
           Filled(tokens, last, k), NEW f, f = Refilled(tokens, last, k)
    PROVE  f.tokens = 0 => tokens = 0 /\ f.last = last /\ last <= now /\ now < last + Interval(k)
<1>1. PICK a : a = (now - last) \div Interval(k)
  OBVIOUS
<1>2. /\ f.tokens = 0 => tokens = 0 /\ a = 0
      /\ f.last = last + a * Interval(k) /\ now < f.last + Interval(k)
  BY <1>1, RefillFacts
<1>3. last \in Nat /\ Interval(k) \in Nat
  BY Rates, Numbers DEF Time
<1>4. a = 0 => last + a * Interval(k) = last
  BY <1>3
<1> QED BY <1>2, <1>4 DEF Filled

(* Retry-After: a request that its bucket refuses is told the least number *)
(* of whole seconds after which the bucket has a token (retryAfter), at    *)
(* any rate, window and length of a second.                                *)
THEOREM LimiterRetryAfterExact == Spec => []RetryAfterExact
<1>1. IInv => RetryAfterExact
  <2> SUFFICES ASSUME IInv, NEW p \in Procs, pc[p] = "take",
                      NEW k, k = req[p].kind, NEW b, b = heap[held[p]],
                      NEW f, f = Refilled(b.tokens[k], b.last[k], k), f.tokens = 0,
                      NEW w, w = RetryAfter(f.last, k)
               PROVE  /\ b.tokens[k] + ((now + w * Second) - b.last[k]) \div Interval(k) > 0
                      /\ b.tokens[k] + ((now + (w - 1) * Second) - b.last[k]) \div Interval(k) <= 0
    BY DEF RetryAfterExact
  <2>1. held[p] \in Pointers /\ b # NoBucket /\ req[p] \in Requests
    BY DEF IInv, Typed, Request
  <2>2. k \in Kinds /\ b \in Buckets /\ now \in Time /\ Filled(b.tokens[k], b.last[k], k)
    BY <2>1 DEF IInv, Typed, HeapFilled, Requests
  <2>3. b.tokens[k] \in Nat /\ b.last[k] \in Time
    BY <2>2 DEF Buckets
  <2>4. PICK tokens \in Nat, last \in Time : tokens = b.tokens[k] /\ last = b.last[k]
    BY <2>3
  <2>5. f = Refilled(tokens, last, k) /\ Filled(tokens, last, k)
    BY <2>2, <2>4
  <2>6. tokens = 0 /\ f.last = last /\ last <= now /\ now < last + Interval(k)
    <3>1. f.tokens = 0 => tokens = 0 /\ f.last = last /\ last <= now /\ now < last + Interval(k)
      BY <2>2, <2>5, EmptyFacts
    <3> QED BY <3>1
  <2>7. w = RetryAfter(last, k)
    BY <2>6
  <2>8. /\ 0 + ((now + w * Second) - last) \div Interval(k) > 0
        /\ 0 + ((now + (w - 1) * Second) - last) \div Interval(k) <= 0
    BY <2>2, <2>6, <2>7, RetryFacts
  <2> QED BY <2>4, <2>6, <2>8
<1> QED BY <1>1, Invariance, PTL

------------------------------------------------------------------------------
(* Steps: the accounts.                                                    *)

LEMMA GrantType ==
    ASSUME IInv, NEW l \in Limiters, NEW c \in Clients, NEW k \in Kinds
    PROVE  grants[l][c][k] \in [Time -> Nat]
BY DEF IInv, Typed

\* An account whose bucket and grants a step leaves alone.
LEMMA LocalKept ==
    ASSUME NEW r \in Replicas, NEW c \in Clients, NEW k \in Kinds, LocalAccount(r, c, k),
           now' = now, grants'[r][c][k] = grants[r][c][k], store'[r][c] = store[r][c],
           c \in doomed'[r] <=> c \in doomed[r],
           store[r][c] # NoBucket => heap'[store[r][c]] = heap[store[r][c]]
    PROVE  LocalAccount(r, c, k)'
<1>1. c \in Registered(r)' <=> c \in Registered(r)
  BY DEF Registered
<1>2. CASE c \in Registered(r) \ doomed[r]
  <2>1. PICK b : b = heap[store[r][c]]
    OBVIOUS
  <2>2. b = heap'[store'[r][c]] /\ c \in Registered(r)' \ doomed'[r]
    BY <1>1, <1>2, <2>1 DEF Registered
  <2>3. Backed(grants[r][c][k], b.tokens[k], b.last[k], k)
    BY <1>2, <2>1 DEF LocalAccount
  <2>4. Backed(grants'[r][c][k], b.tokens[k], b.last[k], k)
    BY <2>3
  <2> QED BY <2>2, <2>4 DEF LocalAccount, Backed
<1>3. CASE c \notin Registered(r) \ doomed[r]
  <2>1. Spare(grants[r][c][k], k)
    BY <1>3 DEF LocalAccount
  <2>2. Spare(grants[r][c][k], k)'
    BY <2>1 DEF Spare
  <2>3. c \notin Registered(r)' \ doomed'[r]
    BY <1>1, <1>3
  <2> QED BY <2>2, <2>3 DEF LocalAccount
<1> QED BY <1>2, <1>3

\* A shared account that a step leaves alone.
LEMMA SharedKept ==
    ASSUME NEW c \in Clients, NEW k \in Kinds, SharedAccount(c, k),
           grants'[Redis][c][k] = grants[Redis][c][k], redis'[c][k] = redis[c][k]
    PROVE  SharedAccount(c, k)'
<1>1. PICK b, g : b = redis[c][k] /\ g = grants[Redis][c][k]
  OBVIOUS
<1>2. b = redis'[c][k] /\ g = grants'[Redis][c][k]
  BY <1>1
<1>3. IF b = NoBucket THEN \A s \in Time : g[s] = 0
      ELSE Backed(g, b.tokens, b.last, k) /\ \A s \in Time : b.used < s => g[s] = 0
  BY <1>1 DEF SharedAccount
<1> QED BY <1>2, <1>3 DEF SharedAccount, Backed

LEMMA BoundedKept ==
    ASSUME NEW l \in Limiters, NEW c \in Clients, NEW k \in Kinds, Bounded(grants[l][c][k]),
           now' = now, grants'[l][c][k] = grants[l][c][k]
    PROVE  Bounded(grants[l][c][k])'
BY DEF Bounded, Since

\* A step that leaves buckets and grants alone.
LEMMA QuietAccounts ==
    ASSUME Accounts, UNCHANGED <<now, store, heap, doomed, redis, grants>>
    PROVE  Accounts'
<1>1. \A l \in Limiters, c \in Clients, k \in Kinds : Bounded(grants[l][c][k])'
  BY BoundedKept DEF Accounts
<1>2. \A r \in Replicas, c \in Clients, k \in Kinds : LocalAccount(r, c, k)'
  BY LocalKept DEF Accounts
<1>3. \A c \in Clients, k \in Kinds : SharedAccount(c, k)'
  BY SharedKept DEF Accounts
<1> QED BY <1>1, <1>2, <1>3 DEF Accounts

\* A new client has a full bucket; its grants so far are covered without it.
LEMMA RegisterAccounts ==
    ASSUME IInv, Accounts, NEW p \in Procs, Register(p)
    PROVE  Accounts'
<1>1. PICK r, c : r = req[p].replica /\ c = req[p].client
  OBVIOUS
<1>2. /\ r \in Replicas /\ c \in Clients /\ store[r][c] = NoBucket
      /\ UNCHANGED <<now, doomed, redis, grants>>
  BY <1>1 DEF Register, IInv, Request, Requests
<1>3. PICK i : i = Free
  OBVIOUS
<1>4. /\ i \in Pointers /\ heap[i] = NoBucket
      /\ store' = [store EXCEPT ![r][c] = i]
      /\ heap' = [heap EXCEPT ![i] = FreshBucket]
  BY <1>1, <1>3 DEF Register, Free
<1>5. /\ \A z \in Replicas, d \in Clients : store[z][d] # i
      /\ i # NoBucket
  BY <1>4, NewPointer
<1>6. /\ \A z \in Replicas, d \in Clients :
            store'[z][d] = IF z = r /\ d = c THEN i ELSE store[z][d]
      /\ \A j \in Pointers : heap'[j] = IF j = i THEN FreshBucket ELSE heap[j]
  BY <1>2, <1>4 DEF IInv, Typed
<1>7. now \in Time
  BY DEF IInv, Typed
<1>8. \A k \in Kinds : FreshBucket.tokens[k] = Cap(k) /\ FreshBucket.last[k] = now
  BY <1>7, FreshFilled
<1>9. \A l \in Limiters, d \in Clients, k \in Kinds : Bounded(grants[l][d][k])'
  BY <1>2, BoundedKept DEF Accounts
<1>10. \A d \in Clients, k \in Kinds : SharedAccount(d, k)'
  BY <1>2, SharedKept DEF Accounts
<1>11. ASSUME NEW z \in Replicas, NEW d \in Clients, NEW k \in Kinds
       PROVE  LocalAccount(z, d, k)'
  <2>1. LocalAccount(z, d, k)
    BY DEF Accounts
  <2>2. CASE z = r /\ d = c
    <3>1. c \notin Registered(r)
      BY <1>2 DEF Registered
    <3>2. c \notin doomed[r]
      BY <1>2, <3>1 DEF IInv, Mapped
    <3>3. c \in Registered(r)' \ doomed'[r] /\ heap'[store'[r][c]] = FreshBucket
      BY <1>2, <1>4, <1>5, <1>6, <3>2 DEF Registered
    <3>4. PICK g : g = grants[r][c][k]
      OBVIOUS
    <3>5. r \in Limiters
      BY <1>2 DEF Limiters
    <3>6. g \in [Time -> Nat]
      BY <1>2, <3>4, <3>5, GrantType
    <3>7. Bounded(g) /\ Spare(g, k)
      BY <1>2, <2>1, <2>2, <3>1, <3>4, <3>5 DEF Accounts, LocalAccount
    <3>8. Backed(g, Cap(k), now, k)
      BY <1>7, <3>6, <3>7, BackedFresh
    <3>9. PICK b : b = FreshBucket
      OBVIOUS
    <3>10. Backed(g, b.tokens[k], b.last[k], k) /\ b = heap'[store'[r][c]] /\ g = grants'[r][c][k]
      BY <1>2, <1>8, <3>3, <3>4, <3>8, <3>9
    <3> QED BY <2>2, <3>3, <3>10 DEF LocalAccount, Backed
  <2>3. CASE ~(z = r /\ d = c)
    <3>1. store'[z][d] = store[z][d]
      BY <1>6, <2>3
    <3>2. ASSUME store[z][d] # NoBucket PROVE heap'[store[z][d]] = heap[store[z][d]]
      BY <1>5, <1>6, <3>2 DEF IInv, Typed
    <3> QED BY <1>2, <2>1, <3>1, <3>2, LocalKept
  <2> QED BY <2>2, <2>3
<1> QED BY <1>9, <1>10, <1>11 DEF Accounts

\* A history with at most one more grant, at the times that count.
Adds(z, g) ==
    /\ z \in [Time -> Nat]
    /\ \A s \in Since : z[s] \in {g[s], g[s] + 1}
    /\ \A s \in Time \ Since : z[s] = g[s]

\* A grant is added to the history of one bucket.
LEMMA TallyAt ==
    ASSUME NEW h \in [Limiters -> [Clients -> [Kinds -> [Time -> Nat]]]],
           NEW l \in Limiters, NEW q \in Requests, NEW z, z = Tally(h, l, q),
           NEW m \in Limiters, NEW c \in Clients, NEW k \in Kinds
    PROVE  /\ Adds(z[m][c][k], h[m][c][k])
           /\ ~(m = l /\ c = q.client /\ k = q.kind) => z[m][c][k] = h[m][c][k]
<1>1. q.client \in Clients /\ q.kind \in Kinds
  BY DEF Requests
<1>2. PICK g : g = [s \in Time |-> IF s \in Since THEN h[l][q.client][q.kind][s] + 1
                                   ELSE h[l][q.client][q.kind][s]]
  OBVIOUS
<1>3. z = [h EXCEPT ![l][q.client][q.kind] = g] /\ g \in [Time -> Nat]
  BY <1>1, <1>2 DEF Tally
<1>4. z[m][c][k] = IF m = l /\ c = q.client /\ k = q.kind THEN g ELSE h[m][c][k]
  BY <1>1, <1>3
<1>5. \A s \in Since : s \in Time
  BY DEF Since
<1>6. h[m][c][k] \in [Time -> Nat]
  OBVIOUS
<1>7. CASE m = l /\ c = q.client /\ k = q.kind
  <2>1. z[m][c][k] = g /\ h[m][c][k] = h[l][q.client][q.kind]
    BY <1>4, <1>7
  <2>2. Adds(g, h[m][c][k])
    BY <1>2, <1>3, <1>5, <1>6, <2>1 DEF Adds
  <2> QED BY <1>7, <2>1, <2>2
<1>8. CASE ~(m = l /\ c = q.client /\ k = q.kind)
  <2>1. z[m][c][k] = h[m][c][k]
    BY <1>4, <1>8
  <2>2. Adds(h[m][c][k], h[m][c][k])
    BY <1>6 DEF Adds
  <2> QED BY <2>1, <2>2
<1> QED BY <1>7, <1>8

LEMMA TallyBounded ==
    ASSUME IInv, NEW l \in Limiters, NEW q \in Requests,
           grants' \in {Tally(grants, l, q), grants}, now' = now,
           NEW m \in Limiters, NEW c \in Clients, NEW k \in Kinds, Bounded(grants[m][c][k])
    PROVE  Bounded(grants[m][c][k])'
<1>1. \A s \in Time \ Since : grants'[m][c][k][s] = grants[m][c][k][s]
  <2>1. grants \in [Limiters -> [Clients -> [Kinds -> [Time -> Nat]]]]
    BY DEF IInv, Typed
  <2>2. PICK z : z = Tally(grants, l, q)
    OBVIOUS
  <2>3. Adds(z[m][c][k], grants[m][c][k])
    BY <2>1, <2>2, TallyAt
  <2> QED BY <2>2, <2>3 DEF Adds
<1>2. Since' = Since
  BY DEF Since
<1> QED BY <1>1, <1>2 DEF Bounded

\* Take: the token of a grant comes out of the bucket that the account of its
\* client is about, or of one that no account is about any more.
LEMMA TakeAccounts ==
    ASSUME IInv, Accounts, NEW p \in Procs, Take(p)
    PROVE  Accounts'
<1>1. PICK q, b : q = req[p] /\ b = heap[held[p]]
  OBVIOUS
<1>2. PICK f : f = Refilled(b.tokens[q.kind], b.last[q.kind], q.kind)
  OBVIOUS
<1>3. /\ q \in Requests /\ held[p] \in Pointers /\ b \in Buckets /\ pc[p] = "take"
      /\ Filled(b.tokens[q.kind], b.last[q.kind], q.kind)
      /\ b.tokens[q.kind] \in Nat /\ b.last[q.kind] \in Time
  BY <1>1, <1>2, TakeFacts
<1>4. PICK nb \in Buckets :
         /\ Taken(nb, b, f, q.kind)
         /\ \A k \in Kinds : Filled(nb.tokens[k], nb.last[k], k)
         /\ heap' = [i \in Pointers |-> IF InUse(i)'
                        THEN IF i = held[p] THEN nb ELSE heap[i]
                        ELSE NoBucket]
  BY <1>1, <1>2, TakeFacts
<1>5. /\ grants' = IF f.tokens > 0 /\ Current(p) THEN Tally(grants, q.replica, q) ELSE grants
      /\ UNCHANGED <<now, store, doomed, redis>>
  BY <1>1, <1>2 DEF Take
<1>6. /\ q.replica \in Replicas /\ q.client \in Clients /\ q.kind \in Kinds
      /\ q.replica \in Limiters /\ q.replica # Redis /\ Redis \in Limiters /\ now \in Time
      /\ held[p] # NoBucket
  BY <1>3, RateLimitAssumption DEF Requests, Limiters, IInv, Typed
<1>7. grants \in [Limiters -> [Clients -> [Kinds -> [Time -> Nat]]]]
  BY DEF IInv, Typed
<1>0. PICK z : z = Tally(grants, q.replica, q)
  OBVIOUS
<1>8. ASSUME NEW m \in Limiters, NEW c \in Clients, NEW k \in Kinds
      PROVE  /\ Adds(z[m][c][k], grants[m][c][k])
             /\ ~(m = q.replica /\ c = q.client /\ k = q.kind) => z[m][c][k] = grants[m][c][k]
  <2>1. PICK l \in Limiters : l = q.replica
    BY <1>6
  <2>2. z = Tally(grants, l, q) /\ q \in Requests
    BY <1>0, <1>3, <2>1
  <2>3. Adds(z[m][c][k], grants[m][c][k])
    BY <1>7, <2>2, TallyAt
  <2>4. ~(m = l /\ c = q.client /\ k = q.kind) => z[m][c][k] = grants[m][c][k]
    BY <1>7, <2>2, TallyAt
  <2> QED BY <2>1, <2>3, <2>4
<1>9. \A m \in Limiters, c \in Clients, k \in Kinds : Bounded(grants[m][c][k])'
  <2>1. grants' \in {Tally(grants, q.replica, q), grants} /\ now' = now
    BY <1>5
  <2> QED BY <1>3, <1>6, <2>1, TallyBounded DEF Accounts
<1>10. ASSUME NEW c \in Clients, NEW k \in Kinds PROVE SharedAccount(c, k)'
  <2>1. grants'[Redis][c][k] = grants[Redis][c][k] /\ redis'[c][k] = redis[c][k]
    BY <1>0, <1>5, <1>6, <1>8
  <2> QED BY <2>1, SharedKept DEF Accounts
<1>11. ASSUME NEW r \in Replicas, NEW c \in Clients, NEW k \in Kinds
       PROVE  LocalAccount(r, c, k)'
  <2>1. LocalAccount(r, c, k) /\ r \in Limiters
    BY DEF Accounts, Limiters
  <2>2. ASSUME NEW i \in Pointers, store[r][c] = i, i # held[p] PROVE heap'[i] = heap[i]
    <3>1. InUse(i)'
      BY <1>5, <2>2 DEF InUse
    <3> QED BY <1>4, <2>2, <3>1
  <2>3. CASE store[r][c] # held[p] \/ c \in doomed[r]
    <3>1. ~(Current(p) /\ r = q.replica /\ c = q.client)
      BY <1>1, <2>3 DEF Current
    <3>2. grants'[r][c][k] = grants[r][c][k]
      BY <1>0, <1>5, <1>8, <2>1, <3>1
    <3>3. CASE store[r][c] # held[p]
      <4>1. store[r][c] # NoBucket => heap'[store[r][c]] = heap[store[r][c]]
        BY <2>2, <3>3 DEF IInv, Typed
      <4> QED BY <1>5, <2>1, <3>2, <4>1, LocalKept
    <3>4. CASE c \in doomed[r]
      <4>1. Spare(grants[r][c][k], k)
        BY <2>1, <3>4 DEF LocalAccount
      <4>2. Spare(grants[r][c][k], k)'
        BY <1>5, <3>2, <4>1 DEF Spare
      <4> QED BY <1>5, <3>4, <4>2 DEF LocalAccount
    <3> QED BY <2>3, <3>3, <3>4
  <2>4. CASE store[r][c] = held[p] /\ c \notin doomed[r]
    <3>1. r = q.replica /\ c = q.client
      BY <1>1, <1>6, <2>4 DEF IInv, Request, OnlyFor
    <3>2. c \in Registered(r) \ doomed[r] /\ c \in Registered(r)' \ doomed'[r]
      BY <1>5, <1>6, <2>4 DEF Registered
    <3>3. heap'[store'[r][c]] = nb
      <4>1. PICK i \in Pointers : i = held[p] /\ store[r][c] = i
        BY <1>3, <2>4
      <4>2. InUse(i)'
        BY <1>5, <4>1 DEF InUse
      <4> QED BY <1>4, <1>5, <4>1, <4>2
    <3>4. PICK g, g2 : g = grants[r][c][k] /\ g2 = grants'[r][c][k]
      OBVIOUS
    <3>5. g \in [Time -> Nat] /\ Bounded(g) /\ Backed(g, b.tokens[k], b.last[k], k)
      <4>1. g \in [Time -> Nat]
        BY <2>1, <3>4, GrantType
      <4> QED BY <1>1, <2>1, <2>4, <3>2, <3>4, <4>1 DEF Accounts, LocalAccount
    <3>6. Backed(g2, nb.tokens[k], nb.last[k], k)
      <4>1. CASE k # q.kind
        <5>1. g2 = g
          BY <1>0, <1>5, <1>8, <2>1, <3>4, <4>1
        <5> QED BY <1>4, <3>5, <4>1, <5>1 DEF Taken
      <4>2. CASE k = q.kind
        <5>1. \/ g2 = g
              \/ f.tokens > 0 /\ g2 = z[r][c][k]
          BY <1>0, <1>5, <3>4
        <5>2. g2 \in [Time -> Nat] /\ \A s \in Time \ Since : g2[s] = 0
          BY <1>8, <2>1, <3>4, <3>5, <5>1 DEF Bounded, Adds
        <5>3. PICK t, t2, n, l : t = f.tokens /\ t2 = nb.tokens[k] /\ n = b.tokens[k] /\ l = b.last[k]
          OBVIOUS
        <5>4. n \in Nat /\ l \in Time /\ Filled(n, l, k) /\ f = Refilled(n, l, k)
          BY <1>2, <1>3, <4>2, <5>3
        <5>5. t \in Nat /\ t <= Cap(k) /\ Cap(k) \in Nat
          BY <1>6, <5>3, <5>4, RefillFacts, Rates
        <5>6. t2 = IF t > 0 THEN t - 1 ELSE 0
          BY <1>4, <4>2, <5>3 DEF Taken
        <5>7. t2 \in Nat /\ t2 <= Cap(k)
          BY <5>5, <5>6
        <5>8. ASSUME NEW s \in Since PROVE g2[s] + t2 <= g[s] + t
          <6>1. s \in Time
            BY DEF Since
          <6>2. g[s] \in Nat /\ (g2[s] = g[s] \/ (t > 0 /\ g2[s] = g[s] + 1))
            BY <1>8, <2>1, <3>4, <3>5, <5>1, <5>3, <5>8, <6>1 DEF Adds
          <6> QED BY <5>5, <5>6, <6>2
        <5>9. \A s \in Since : g2[s] + t2 <= g[s] + f.tokens
          BY <5>3, <5>8
        <5>10. Backed(g, n, l, k)
          BY <3>5, <5>3
        <5>11. Backed(g2, t2, f.last, k)
          BY <1>6, <3>5, <5>2, <5>4, <5>7, <5>9, <5>10, BackedTake
        <5> QED BY <1>4, <4>2, <5>3, <5>11 DEF Taken
      <4> QED BY <4>1, <4>2
    <3> QED BY <3>2, <3>3, <3>4, <3>6 DEF LocalAccount, Backed
  <2> QED BY <2>3, <2>4
<1> QED BY <1>9, <1>10, <1>11 DEF Accounts

\* The script: a live row is taken from, a lost one is as good as new since
\* nothing was granted in the last window.
LEMMA ScriptAccount ==
    ASSUME IInv, NEW q \in Requests, NEW b, b = redis[q.client][q.kind],
           NEW g, g = grants[Redis][q.client][q.kind], Bounded(g),
           SharedAccount(q.client, q.kind),
           NEW row, row = Script(q).row, NEW g2, Adds(g2, g),
           g2 = g \/ Script(q).ok
    PROVE  /\ Backed(g2, row.tokens, row.last, q.kind)
           /\ \A s \in Time : row.used < s => g2[s] = 0
<1>1. PICK k, c : k = q.kind /\ c = q.client
  OBVIOUS
<1>2. k \in Kinds /\ c \in Clients /\ now \in Time /\ Redis \in Limiters
  BY <1>1 DEF Requests, IInv, Typed, Limiters
<1>3. g \in [Time -> Nat]
  BY <1>1, <1>2, GrantType
<1>4. PICK f : f = IF Alive(b) THEN Refilled(b.tokens, b.last, k) ELSE [tokens |-> Cap(k), last |-> now]
  OBVIOUS
<1>5. /\ row = [tokens |-> Max({0, f.tokens - 1}), last |-> f.last, used |-> now]
      /\ Script(q).ok <=> f.tokens > 0
  BY <1>1, <1>4 DEF Script
<1>6. Cap(k) \in Nat /\ Cap(k) > 0 /\ Interval(k) \in Nat /\ Interval(k) > 0
      /\ now \in Nat /\ Window \in Nat /\ Window > 0
  BY <1>2, Rates, Numbers DEF Time
<1>7. \A s \in Time : s \in Nat
  BY Numbers DEF Time
<1>8. g2 \in [Time -> Nat] /\ \A s \in Time \ Since : g2[s] = 0
  BY DEF Adds, Bounded
<1>9. \A s \in Time : row.used < s => g2[s] = 0
  <2>1. row.used = now
    BY <1>5
  <2>2. \A s \in Time : now < s => s \notin Since
    BY <1>6, <1>7 DEF Since
  <2> QED BY <1>8, <2>1, <2>2
<1>10. CASE Alive(b)
  <2>1. /\ b # NoBucket /\ b \in Rows /\ Filled(b.tokens, b.last, k)
        /\ b.tokens \in Nat /\ b.last \in Time
    BY <1>1, <1>2, <1>10 DEF IInv, Typed, RedisFilled, Alive, Rows
  <2>2. Backed(g, b.tokens, b.last, k)
    BY <1>1, <2>1 DEF SharedAccount
  <2>3. PICK t, t2, n, l : t = f.tokens /\ t2 = row.tokens /\ n = b.tokens /\ l = b.last
    OBVIOUS
  <2>4. n \in Nat /\ l \in Time /\ Filled(n, l, k) /\ Backed(g, n, l, k) /\ f = Refilled(n, l, k)
    BY <1>4, <1>10, <2>1, <2>2, <2>3
  <2>5. t \in Nat /\ t <= Cap(k)
    BY <1>2, <2>3, <2>4, RefillFacts
  <2>6. t2 = IF 0 >= t - 1 THEN 0 ELSE t - 1
    <3>1. Max({0, t - 1}) = IF 0 >= t - 1 THEN 0 ELSE t - 1
      BY <2>5, MaxPair
    <3>2. row.tokens = Max({0, t - 1})
      BY <1>5, <2>3
    <3> QED BY <2>3, <3>1, <3>2
  <2>7. t2 \in Nat /\ t2 <= Cap(k)
    BY <1>6, <2>5, <2>6
  <2>8. ASSUME NEW s \in Since PROVE g2[s] + t2 <= g[s] + t
    <3>1. s \in Time
      BY DEF Since
    <3>2. g[s] \in Nat /\ (g2[s] = g[s] \/ (t > 0 /\ g2[s] = g[s] + 1))
      BY <1>3, <1>5, <2>3, <2>8, <3>1 DEF Adds
    <3> QED BY <2>5, <2>6, <3>2
  <2>9. \A s \in Since : g2[s] + t2 <= g[s] + f.tokens
    BY <2>3, <2>8
  <2>10. Backed(g2, t2, f.last, k)
    BY <1>2, <1>3, <1>8, <2>4, <2>7, <2>9, BackedTake
  <2>11. row.last = f.last
    BY <1>5
  <2> QED BY <1>1, <1>9, <2>3, <2>10, <2>11
<1>11. CASE ~Alive(b)
  <2>1. ASSUME NEW s \in Since PROVE s \in Time /\ s <= now /\ g[s] = 0
    <3>1. s \in Time /\ s \in Nat /\ s <= now /\ now <= s + Window
      BY <1>7 DEF Since
    <3>2. CASE b = NoBucket
      BY <1>1, <3>1, <3>2 DEF SharedAccount
    <3>3. CASE b # NoBucket
      <4>1. b.used \in Time /\ (b.used < s => g[s] = 0)
        BY <1>1, <1>2, <3>1, <3>3 DEF SharedAccount, IInv, Typed, Rows
      <4>2. PICK u : u = b.used
        OBVIOUS
      <4>3. u \in Nat /\ ~(now - u < 2 * Window)
        BY <1>7, <1>11, <3>3, <4>1, <4>2 DEF Alive
      <4>4. u < s
        BY <1>6, <3>1, <4>3
      <4> QED BY <3>1, <4>1, <4>2, <4>4
    <3> QED BY <3>2, <3>3
  <2>2. PICK cap, i, t2 : cap = Cap(k) /\ i = Interval(k) /\ t2 = row.tokens
    OBVIOUS
  <2>3. t2 = cap - 1 /\ row.last = now
    <3>1. f.tokens = cap /\ f.last = now
      BY <1>4, <1>11, <2>2
    <3>2. Max({0, cap - 1}) = IF 0 >= cap - 1 THEN 0 ELSE cap - 1
      BY <1>6, <2>2, MaxPair
    <3>3. row.tokens = Max({0, cap - 1}) /\ row.last = now
      BY <1>5, <3>1
    <3> QED BY <1>6, <2>2, <3>2, <3>3
  <2>4. cap \in Nat /\ cap > 0 /\ i \in Nat /\ i > 0
    BY <1>6, <2>2
  <2>5. ASSUME NEW s \in Time
        PROVE  /\ s >= now => g2[s] + t2 <= cap
               /\ s < now => i * ((g2[s] + t2) - cap) <= (now - s) + (i - 1)
               /\ s >= now + i => g2[s] = 0
    <3>1. g2[s] \in {0, 1} /\ s \in Nat
      BY <1>7, <1>8, <2>1 DEF Adds
    <3>2. (g2[s] + t2) - cap \in {0 - 1, 0}
      BY <2>3, <2>4, <3>1
    <3>3. i * ((g2[s] + t2) - cap) <= 0 /\ i * ((g2[s] + t2) - cap) \in Int
      <4>1. PICK x : x = (g2[s] + t2) - cap
        OBVIOUS
      <4>2. x = 0 \/ x = 0 - 1
        BY <3>2, <4>1
      <4>3. i * x <= 0 /\ i * x \in Int
        BY <2>4, <4>2
      <4> QED BY <4>1, <4>3
    <3>4. s >= now + i => s \notin Since
      BY <1>6, <2>4, <3>1 DEF Since
    <3>5. s >= now + i => g2[s] = 0
      BY <1>8, <3>4
    <3> QED BY <1>6, <2>3, <2>4, <3>1, <3>3, <3>5
  <2>6. Backed(g2, t2, now, k)
    BY <2>2, <2>5 DEF Backed
  <2> QED BY <1>1, <1>9, <2>2, <2>3, <2>6
<1> QED BY <1>10, <1>11

\* A call of Redis changes the account of its client and kind only.
LEMMA CallAccounts ==
    ASSUME IInv, Accounts, NEW q \in Requests, Stored(q),
           UNCHANGED <<now, store, heap, doomed>>,
           grants' = grants \/ (grants' = Tally(grants, Redis, q) /\ Script(q).ok)
    PROVE  Accounts'
<1>1. q.client \in Clients /\ q.kind \in Kinds /\ Redis \in Limiters /\ Redis \notin Replicas
  BY RateLimitAssumption DEF Requests, Limiters
<1>2. PICK z : z = Tally(grants, Redis, q)
  OBVIOUS
<1>3. grants \in [Limiters -> [Clients -> [Kinds -> [Time -> Nat]]]]
  BY DEF IInv, Typed
<1>4. ASSUME NEW m \in Limiters, NEW c \in Clients, NEW k \in Kinds
      PROVE  Adds(z[m][c][k], grants[m][c][k])
  BY <1>1, <1>2, <1>3, TallyAt
<1>5. ASSUME NEW m \in Limiters, NEW c \in Clients, NEW k \in Kinds
      PROVE  ~(m = Redis /\ c = q.client /\ k = q.kind) => z[m][c][k] = grants[m][c][k]
  <2>1. PICK l \in Limiters : l = Redis /\ z = Tally(grants, l, q)
    BY <1>1, <1>2
  <2>2. ~(m = l /\ c = q.client /\ k = q.kind) => z[m][c][k] = grants[m][c][k]
    BY <1>3, <2>1, TallyAt
  <2> QED BY <2>1, <2>2
<1>6. \A m \in Limiters, c \in Clients, k \in Kinds : Bounded(grants[m][c][k])'
  <2>1. grants' \in {Tally(grants, Redis, q), grants} /\ now' = now
    OBVIOUS
  <2> QED BY <1>1, <2>1, TallyBounded DEF Accounts
<1>7. ASSUME NEW r \in Replicas, NEW c \in Clients, NEW k \in Kinds
      PROVE  LocalAccount(r, c, k)'
  <2>1. r \in Limiters /\ r # Redis
    BY <1>1 DEF Limiters
  <2>2. grants'[r][c][k] = grants[r][c][k]
    BY <1>2, <1>5, <2>1
  <2> QED BY <2>2, LocalKept DEF Accounts
<1>8. ASSUME NEW c \in Clients, NEW k \in Kinds PROVE SharedAccount(c, k)'
  <2>1. PICK row : row = Script(q).row
    OBVIOUS
  <2>2. redis' = [redis EXCEPT ![q.client][q.kind] = row]
    BY <2>1 DEF Stored
  <2>3. CASE c = q.client /\ k = q.kind
    <3>1. redis'[c][k] = row
      BY <1>1, <2>2, <2>3 DEF IInv, Typed
    <3>2. row # NoBucket
      BY <2>1, ScriptRow, RateLimitAssumption
    <3>3. PICK g, g2 : g = grants[Redis][c][k] /\ g2 = grants'[Redis][c][k]
      OBVIOUS
    <3>4. g \in [Time -> Nat]
      BY <1>1, <3>3, GrantType
    <3>5. Adds(g, g)
      BY <3>4 DEF Adds
    <3>6. (g2 = g \/ Script(q).ok) /\ Adds(g2, g)
      BY <1>1, <1>2, <1>4, <3>3, <3>5
    <3>7. Bounded(g) /\ SharedAccount(q.client, q.kind)
      BY <1>1, <3>3 DEF Accounts
    <3>8. g = grants[Redis][q.client][q.kind]
      BY <2>3, <3>3
    <3>9. Backed(g2, row.tokens, row.last, q.kind) /\ \A s \in Time : row.used < s => g2[s] = 0
      <4>1. PICK b : b = redis[q.client][q.kind]
        OBVIOUS
      <4>2. Backed(g2, row.tokens, row.last, q.kind)
        BY <2>1, <3>6, <3>7, <3>8, <4>1, ScriptAccount
      <4>3. \A s \in Time : row.used < s => g2[s] = 0
        BY <2>1, <3>6, <3>7, <3>8, <4>1, ScriptAccount
      <4> QED BY <4>2, <4>3
    <3> QED BY <2>3, <3>1, <3>2, <3>3, <3>9 DEF SharedAccount, Backed
  <2>4. CASE ~(c = q.client /\ k = q.kind)
    <3>1. redis'[c][k] = redis[c][k]
      BY <1>1, <2>2, <2>4 DEF IInv, Typed
    <3>2. grants'[Redis][c][k] = grants[Redis][c][k]
      BY <1>1, <1>2, <1>5, <2>4
    <3> QED BY <3>1, <3>2, SharedKept DEF Accounts
  <2> QED BY <2>3, <2>4
<1> QED BY <1>6, <1>7, <1>8 DEF Accounts

LEMMA CallOkAccounts ==
    ASSUME IInv, Accounts, NEW p \in Procs, CallOk(p)
    PROVE  Accounts'
<1>1. PICK q : q = req[p]
  OBVIOUS
<1>2. /\ q \in Requests /\ Stored(q) /\ UNCHANGED <<now, store, heap, doomed>>
      /\ grants' = grants \/ (grants' = Tally(grants, Redis, q) /\ Script(q).ok)
  BY <1>1 DEF CallOk, IInv, Request
<1> QED BY <1>2, CallAccounts

\* The script may have run: then a token is gone that nobody was granted.
LEMMA CallFailedAccounts ==
    ASSUME IInv, Accounts, NEW p \in Procs, CallFailed(p)
    PROVE  Accounts'
<1>1. PICK q : q = req[p]
  OBVIOUS
<1>2. /\ q \in Requests /\ (Stored(q) \/ redis' = redis)
      /\ UNCHANGED <<now, store, heap, doomed, grants>>
  BY <1>1 DEF CallFailed, IInv, Request
<1>3. CASE Stored(q)
  BY <1>2, <1>3, CallAccounts
<1>4. CASE redis' = redis
  BY <1>2, <1>4, QuietAccounts
<1> QED BY <1>2, <1>3, <1>4

\* Cleanup picks a bucket only when its account does without it.
LEMMA CleanupScanAccounts ==
    ASSUME Regular, IInv, Picked, Accounts, NEW r \in Replicas, CleanupScan(r)
    PROVE  Accounts'
<1>1. PICK D : D = {c \in Registered(r) : now - LastActivity(heap[store[r][c]]) > CleanupAge}
  OBVIOUS
<1>2. /\ ~cleaning[r] /\ doomed' = [doomed EXCEPT ![r] = D]
      /\ UNCHANGED <<now, store, heap, redis, grants>>
  BY <1>1 DEF CleanupScan
<1>3. doomed[r] = {}
  BY <1>2 DEF Picked
<1>4. \A l \in Limiters, c \in Clients, k \in Kinds : Bounded(grants[l][c][k])'
  BY <1>2, BoundedKept DEF Accounts
<1>5. \A c \in Clients, k \in Kinds : SharedAccount(c, k)'
  BY <1>2, SharedKept DEF Accounts
<1>6. ASSUME NEW z \in Replicas, NEW c \in Clients, NEW k \in Kinds
      PROVE  LocalAccount(z, c, k)'
  <2>1. LocalAccount(z, c, k)
    BY DEF Accounts
  <2>2. CASE z = r /\ c \in D
    <3>1. PICK b, g : b = heap[store[r][c]] /\ g = grants[r][c][k]
      OBVIOUS
    <3>2. c \in Registered(r) /\ now - LastActivity(b) > CleanupAge
      BY <1>1, <2>2, <3>1
    <3>3. b \in Buckets
      <4>1. store[r][c] \in Pointers
        BY <3>2 DEF Registered, IInv, Typed
      <4>2. b # NoBucket
        BY <3>1, <3>2 DEF IInv, Mapped
      <4> QED BY <3>1, <4>1, <4>2 DEF IInv, Typed
    <3>4. PICK x, y : x = b.last["post"] /\ y = b.last["get"]
      OBVIOUS
    <3>5. x \in Nat /\ y \in Nat /\ b.last[k] \in {x, y}
      BY <3>3, <3>4, Numbers DEF Buckets, Kinds, Time
    <3>6. LastActivity(b) = IF x >= y THEN x ELSE y
      BY <3>4, <3>5, MaxPair DEF LastActivity
    <3>7. PICK l, n : l = b.last[k] /\ n = b.tokens[k]
      OBVIOUS
    <3>8. now \in Time /\ now \in Nat /\ l \in Time /\ n \in Nat
      BY <3>3, <3>7, Numbers DEF IInv, Typed, Buckets, Time
    <3>9. now - l > CleanupAge
      <4>1. l \in {x, y}
        BY <3>5, <3>7
      <4>2. PICK m : m = LastActivity(b)
        OBVIOUS
      <4>3. m = (IF x >= y THEN x ELSE y) /\ now - m > CleanupAge
        BY <3>2, <3>6, <4>2
      <4>4. m \in Nat /\ l \in Nat /\ l <= m
        BY <3>5, <4>1, <4>3
      <4> QED BY <3>8, <4>3, <4>4, Numbers
    <3>10. r \in Limiters
      BY DEF Limiters
    <3>11. g \in [Time -> Nat]
      BY <3>1, <3>10, GrantType
    <3>12. Bounded(g) /\ Backed(g, n, l, k)
      BY <1>3, <2>1, <2>2, <3>1, <3>2, <3>7, <3>10 DEF Accounts, LocalAccount
    <3>13. Spare(g, k)
      BY <3>8, <3>9, <3>11, <3>12, SpareOld
    <3>14. Spare(grants[r][c][k], k)'
      BY <1>2, <3>1, <3>13 DEF Spare
    <3>15. c \in doomed'[r]
      BY <1>2, <2>2 DEF IInv, Typed
    <3> QED BY <2>2, <3>14, <3>15 DEF LocalAccount
  <2>3. CASE ~(z = r /\ c \in D)
    <3>1. c \in doomed'[z] <=> c \in doomed[z]
      BY <1>2, <1>3, <2>3 DEF IInv, Typed
    <3> QED BY <1>2, <2>1, <3>1, LocalKept
  <2> QED BY <2>2, <2>3
<1> QED BY <1>4, <1>5, <1>6 DEF Accounts

LEMMA CleanupDeleteAccounts ==
    ASSUME IInv, Accounts, NEW r \in Replicas, CleanupDelete(r)
    PROVE  Accounts'
<1>1. /\ doomed' = [doomed EXCEPT ![r] = {}]
      /\ store' = [store EXCEPT ![r] = [c \in Clients |-> IF c \in doomed[r] THEN NoBucket ELSE store[r][c]]]
      /\ UNCHANGED <<now, redis, grants>>
      /\ heap' = [i \in Pointers |-> IF InUse(i)' THEN heap[i] ELSE NoBucket]
  BY DEF CleanupDelete, Keep, InUse
<1>2. \A l \in Limiters, c \in Clients, k \in Kinds : Bounded(grants[l][c][k])'
  BY <1>1, BoundedKept DEF Accounts
<1>3. \A c \in Clients, k \in Kinds : SharedAccount(c, k)'
  BY <1>1, SharedKept DEF Accounts
<1>4. ASSUME NEW z \in Replicas, NEW c \in Clients, NEW k \in Kinds
      PROVE  LocalAccount(z, c, k)'
  <2>1. LocalAccount(z, c, k)
    BY DEF Accounts
  <2>2. /\ store'[z][c] = IF z = r /\ c \in doomed[r] THEN NoBucket ELSE store[z][c]
        /\ doomed'[z] = IF z = r THEN {} ELSE doomed[z]
    BY <1>1 DEF IInv, Typed
  <2>3. CASE z = r /\ c \in doomed[r]
    <3>1. Spare(grants[z][c][k], k)
      BY <2>1, <2>3 DEF LocalAccount
    <3>2. Spare(grants[z][c][k], k)'
      BY <1>1, <3>1 DEF Spare
    <3>3. c \notin Registered(z)'
      BY <2>2, <2>3 DEF Registered
    <3> QED BY <3>2, <3>3 DEF LocalAccount
  <2>4. CASE ~(z = r /\ c \in doomed[r])
    <3>1. store'[z][c] = store[z][c] /\ (c \in doomed'[z] <=> c \in doomed[z])
      BY <2>2, <2>4
    <3>2. ASSUME store[z][c] # NoBucket PROVE heap'[store[z][c]] = heap[store[z][c]]
      <4>1. PICK i \in Pointers : i = store[z][c] /\ i = store'[z][c]
        BY <3>1, <3>2 DEF IInv, Typed
      <4>2. InUse(i)'
        BY <4>1 DEF InUse
      <4> QED BY <1>1, <4>1, <4>2
    <3> QED BY <1>1, <2>1, <3>1, <3>2, LocalKept
  <2> QED BY <2>3, <2>4
<1> QED BY <1>2, <1>3, <1>4 DEF Accounts

\* Fewer grants are covered by what covers more.
LEMMA BackedLess ==
    ASSUME NEW k \in Kinds, NEW tokens \in Nat, NEW last \in Time,
           NEW g \in [Time -> Nat], Backed(g, tokens, last, k),
           NEW g2 \in [Time -> Nat], \A s \in Time : g2[s] <= g[s]
    PROVE  Backed(g2, tokens, last, k)
<1>1. PICK i, cap : i = Interval(k) /\ cap = Cap(k)
  OBVIOUS
<1>2. i \in Nat /\ cap \in Nat /\ last \in Nat
  BY <1>1, Rates, Numbers DEF Time
<1> SUFFICES ASSUME NEW s \in Time
             PROVE  /\ s >= last => g2[s] + tokens <= cap
                    /\ s < last => i * ((g2[s] + tokens) - cap) <= (last - s) + (i - 1)
                    /\ s >= last + i => g2[s] = 0
  BY <1>1 DEF Backed
<1>3. s \in Nat /\ g[s] \in Nat /\ g2[s] \in Nat /\ g2[s] <= g[s]
  BY Numbers DEF Time
<1>4. /\ s >= last => g[s] + tokens <= cap
      /\ s < last => i * ((g[s] + tokens) - cap) <= (last - s) + (i - 1)
      /\ s >= last + i => g[s] = 0
  BY <1>1 DEF Backed
<1>5. PICK x, y : x = (g2[s] + tokens) - cap /\ y = (g[s] + tokens) - cap
  OBVIOUS
<1>6. x \in Int /\ y \in Int /\ x <= y
  BY <1>2, <1>3, <1>5
<1>7. i * x <= i * y /\ i * x \in Int /\ i * y \in Int
  BY <1>2, <1>6, Scale
<1>8. s < last => i * x <= (last - s) + (i - 1)
  BY <1>2, <1>3, <1>4, <1>5, <1>7
<1> QED BY <1>2, <1>3, <1>4, <1>5, <1>8

\* Time passes: the history forgets what is older than a window.
LEMMA TickAccounts ==
    ASSUME IInv, Accounts, Tick
    PROVE  Accounts'
<1>1. /\ now' = now + 1 /\ now \in Nat /\ grants' = Recent(grants)
      /\ UNCHANGED <<store, heap, doomed, redis>>
  BY Numbers DEF Tick, IInv, Typed, Time
<1>2. \A s \in Time : s \in Nat
  BY Numbers DEF Time
<1>3. ASSUME NEW l \in Limiters, NEW c \in Clients, NEW k \in Kinds
      PROVE  /\ grants'[l][c][k] \in [Time -> Nat]
             /\ \A s \in Time : /\ grants'[l][c][k][s] \in {0, grants[l][c][k][s]}
                                /\ s + Window < now' => grants'[l][c][k][s] = 0
  <2>1. grants[l][c][k] \in [Time -> Nat]
    BY GrantType
  <2>2. grants'[l][c][k] = [s \in Time |-> IF s + Window < now' THEN 0 ELSE grants[l][c][k][s]]
    BY <1>1 DEF Recent
  <2> QED BY <2>1, <2>2
<1>4. ASSUME NEW l \in Limiters, NEW c \in Clients, NEW k \in Kinds
      PROVE  \A s \in Time : grants'[l][c][k][s] <= grants[l][c][k][s]
  <2>1. grants[l][c][k] \in [Time -> Nat]
    BY GrantType
  <2> QED BY <1>3, <2>1
<1>5. ASSUME NEW l \in Limiters, NEW c \in Clients, NEW k \in Kinds
      PROVE  Bounded(grants[l][c][k])'
  <2>1. ASSUME NEW s \in Time, s \notin Since' PROVE grants'[l][c][k][s] = 0
    <3>1. s \in Nat /\ ~(s <= now + 1 /\ now + 1 <= s + Window)
      BY <1>1, <1>2, <2>1 DEF Since
    <3>2. CASE s + Window < now + 1
      BY <1>1, <1>3, <3>2
    <3>3. CASE s > now + 1
      <4>1. s \notin Since
        BY <1>1, <3>1, <3>3 DEF Since
      <4>2. grants[l][c][k][s] = 0
        BY <4>1 DEF Accounts, Bounded
      <4> QED BY <1>3, <4>2
    <3> QED BY <1>1, <3>1, <3>2, <3>3, Numbers
  <2> QED BY <2>1 DEF Bounded
<1>6. ASSUME NEW r \in Replicas, NEW c \in Clients, NEW k \in Kinds
      PROVE  LocalAccount(r, c, k)'
  <2>1. LocalAccount(r, c, k) /\ r \in Limiters
    BY DEF Accounts, Limiters
  <2>2. Registered(r)' = Registered(r)
    BY <1>1 DEF Registered
  <2>3. PICK b, g, g2 : b = heap[store[r][c]] /\ g = grants[r][c][k] /\ g2 = grants'[r][c][k]
    OBVIOUS
  <2>4. /\ g \in [Time -> Nat] /\ g2 \in [Time -> Nat]
        /\ \A s \in Time : g2[s] <= g[s]
    BY <1>3, <1>4, <2>1, <2>3, GrantType
  <2>5. CASE c \in Registered(r) \ doomed[r]
    <3>1. b \in Buckets
      <4>1. store[r][c] \in Pointers
        BY <2>5 DEF Registered, IInv, Typed
      <4>2. b # NoBucket
        BY <2>3, <2>5 DEF IInv, Mapped
      <4> QED BY <2>3, <4>1, <4>2 DEF IInv, Typed
    <3>2. PICK n \in Nat, l \in Time : n = b.tokens[k] /\ l = b.last[k]
      BY <3>1 DEF Buckets
    <3>3. Backed(g, n, l, k)
      BY <2>1, <2>3, <2>5, <3>2 DEF LocalAccount
    <3>4. Backed(g2, n, l, k)
      BY <2>4, <3>3, BackedLess
    <3>5. Backed(g2, b.tokens[k], b.last[k], k) /\ b = heap'[store'[r][c]]
      BY <1>1, <2>3, <3>2, <3>4
    <3>6. c \in Registered(r)' \ doomed'[r]
      BY <1>1, <2>2, <2>5
    <3> QED BY <2>3, <3>5, <3>6 DEF LocalAccount, Backed
  <2>6. CASE c \notin Registered(r) \ doomed[r]
    <3>1. Spare(g, k)
      BY <2>1, <2>3, <2>6 DEF LocalAccount
    <3>2. PICK i : i = Interval(k)
      OBVIOUS
    <3>3. i \in Nat /\ i > 0
      BY <3>2, Rates
    <3>4. ASSUME NEW s \in Time, s <= now + 1
          PROVE  i * g2[s] <= ((now + 1) - s) + (i - 1)
      <4>1. s \in Nat /\ g[s] \in Nat /\ g2[s] \in Nat /\ g2[s] <= g[s]
        BY <1>2, <2>4
      <4>2. i * g2[s] <= i * g[s] /\ i * g2[s] \in Int /\ i * g[s] \in Int
        BY <3>3, <4>1, Scale
      <4>3. CASE s <= now
        <5>1. i * g[s] <= (now - s) + (i - 1)
          BY <3>1, <3>2, <4>3 DEF Spare
        <5> QED BY <1>1, <3>3, <4>1, <4>2, <5>1
      <4>4. CASE s = now + 1
        <5>1. s \notin Since
          BY <1>1, <4>1, <4>4 DEF Since
        <5>2. g[s] = 0
          BY <2>1, <2>3, <5>1 DEF Accounts, Bounded
        <5>3. g2[s] = 0
          BY <4>1, <5>2
        <5> QED BY <1>1, <3>3, <4>1, <4>4, <5>3
      <4> QED BY <1>1, <3>4, <4>1, <4>3, <4>4
    <3>5. Spare(grants[r][c][k], k)'
      BY <1>1, <2>3, <3>2, <3>4 DEF Spare
    <3>6. c \notin Registered(r)' \ doomed'[r]
      BY <1>1, <2>2, <2>6
    <3> QED BY <3>5, <3>6 DEF LocalAccount
  <2> QED BY <2>5, <2>6
<1>7. ASSUME NEW c \in Clients, NEW k \in Kinds PROVE SharedAccount(c, k)'
  <2>1. SharedAccount(c, k) /\ Redis \in Limiters
    BY DEF Accounts, Limiters
  <2>2. PICK b, g, g2 : b = redis[c][k] /\ g = grants[Redis][c][k] /\ g2 = grants'[Redis][c][k]
    OBVIOUS
  <2>3. /\ g \in [Time -> Nat] /\ g2 \in [Time -> Nat]
        /\ \A s \in Time : g2[s] <= g[s]
    BY <1>3, <1>4, <2>1, <2>2, GrantType
  <2>4. \A s \in Time : g[s] = 0 => g2[s] = 0
    BY <2>3
  <2>5. CASE b = NoBucket
    <3>1. \A s \in Time : g2[s] = 0
      BY <2>1, <2>2, <2>4, <2>5 DEF SharedAccount
    <3> QED BY <1>1, <2>2, <2>5, <3>1 DEF SharedAccount
  <2>6. CASE b # NoBucket
    <3>1. b \in Rows
      BY <2>2, <2>6 DEF IInv, Typed
    <3>2. PICK n \in Nat, l \in Time : n = b.tokens /\ l = b.last
      BY <3>1 DEF Rows
    <3>3. Backed(g, n, l, k) /\ \A s \in Time : b.used < s => g[s] = 0
      BY <2>1, <2>2, <2>6, <3>2 DEF SharedAccount
    <3>4. Backed(g2, n, l, k)
      BY <2>3, <3>3, BackedLess
    <3>5. \A s \in Time : b.used < s => g2[s] = 0
      BY <2>4, <3>3
    <3>6. Backed(g2, b.tokens, b.last, k)
      BY <3>2, <3>4
    <3> QED BY <1>1, <2>2, <2>6, <3>5, <3>6 DEF SharedAccount, Backed
  <2> QED BY <2>5, <2>6
<1> QED BY <1>5, <1>6, <1>7 DEF Accounts

------------------------------------------------------------------------------
(* The quota.                                                              *)

AInv == Regular /\ IInv /\ Picked /\ Accounts

LEMMA InitAccounts == Regular /\ Init => AInv
<1> SUFFICES ASSUME Regular, Init PROVE AInv
  OBVIOUS
<1>1. IInv
  BY InitInv
<1>2. Picked
  BY DEF Init, Picked
<1>3. ASSUME NEW l \in Limiters, NEW c \in Clients, NEW k \in Kinds, NEW s \in Time
      PROVE  grants[l][c][k][s] = 0
  BY DEF Init, NoGrants
<1>4. \A l \in Limiters, c \in Clients, k \in Kinds : Bounded(grants[l][c][k])
  BY <1>3 DEF Bounded
<1>5. ASSUME NEW r \in Replicas, NEW c \in Clients, NEW k \in Kinds
      PROVE  LocalAccount(r, c, k)
  <2>1. c \notin Registered(r) /\ r \in Limiters
    BY DEF Init, Registered, Limiters
  <2>2. PICK i : i = Interval(k)
    OBVIOUS
  <2>3. i \in Nat /\ i > 0 /\ now = 0
    BY <2>2, Rates DEF Init
  <2>4. ASSUME NEW s \in Time, s <= now
        PROVE  i * grants[r][c][k][s] <= (now - s) + (i - 1)
    <3>1. s \in Nat
      BY Numbers DEF Time
    <3>2. grants[r][c][k][s] = 0
      BY <1>3, <2>1
    <3>3. i * 0 <= (now - s) + (i - 1)
      BY <2>3, <2>4, <3>1
    <3> QED BY <3>2, <3>3
  <2> QED BY <2>1, <2>2, <2>4 DEF LocalAccount, Spare
<1>6. ASSUME NEW c \in Clients, NEW k \in Kinds PROVE SharedAccount(c, k)
  <2>1. redis[c][k] = NoBucket /\ Redis \in Limiters
    BY DEF Init, Limiters
  <2> QED BY <1>3, <2>1 DEF SharedAccount
<1>7. Accounts
  BY <1>4, <1>5, <1>6 DEF Accounts
<1> QED BY <1>1, <1>2, <1>7 DEF AInv

LEMMA PickedStep == IInv /\ Picked /\ [Next]_vars => Picked'
<1> SUFFICES ASSUME IInv, Picked, [Next]_vars PROVE Picked'
  OBVIOUS
<1>1. cleaning \in [Replicas -> BOOLEAN] /\ doomed \in [Replicas -> SUBSET Clients]
  BY DEF IInv, Typed
<1>2. ASSUME NEW r \in Replicas, CleanupScan(r) PROVE Picked'
  BY <1>1, <1>2 DEF CleanupScan, Picked
<1>3. ASSUME NEW r \in Replicas, CleanupDelete(r) PROVE Picked'
  BY <1>1, <1>3 DEF CleanupDelete, Picked
<1>4. CASE UNCHANGED <<cleaning, doomed>>
  BY <1>4 DEF Picked
<1>5. \/ \E r \in Replicas : CleanupScan(r) \/ CleanupDelete(r)
      \/ UNCHANGED <<cleaning, doomed>>
  BY DEF Next, vars, Start, Lookup, Register, StoreFull, Take, CallOk, CallFailed, Fallback, Tick
<1> QED BY <1>2, <1>3, <1>4, <1>5

LEMMA NextAccounts == AInv /\ [Next]_vars => AInv'
<1> SUFFICES ASSUME Regular, IInv, Picked, Accounts, [Next]_vars PROVE Accounts'
  BY NextInv, PickedStep DEF AInv, Regular
<1>1. CASE UNCHANGED vars
  BY <1>1, QuietAccounts DEF vars
<1>2. ASSUME NEW p \in Procs, NEW q \in site.requests, Start(p, q) PROVE Accounts'
  BY <1>2, QuietAccounts DEF Start
<1>3. ASSUME NEW p \in Procs, Lookup(p) \/ StoreFull(p) \/ Fallback(p) PROVE Accounts'
  BY <1>3, QuietAccounts DEF Lookup, StoreFull, Fallback
<1>4. ASSUME NEW p \in Procs, Register(p) \/ Take(p) \/ CallOk(p) \/ CallFailed(p)
      PROVE  Accounts'
  BY <1>4, RegisterAccounts, TakeAccounts, CallOkAccounts, CallFailedAccounts
<1>5. ASSUME NEW r \in Replicas, CleanupScan(r) \/ CleanupDelete(r) PROVE Accounts'
  BY <1>5, CleanupScanAccounts, CleanupDeleteAccounts
<1>6. CASE Tick
  BY <1>6, TickAccounts
<1> QED BY <1>1, <1>2, <1>3, <1>4, <1>5, <1>6 DEF Next

\* What an account allows since time s, in either case.
LEMMA AccountBound ==
    ASSUME now \in Time, NEW k \in Kinds, NEW tokens \in Nat, NEW last \in Time, last <= now,
           NEW g \in [Time -> Nat], NEW s \in Since,
           Backed(g, tokens, last, k) \/ Spare(g, k)
    PROVE  Interval(k) * (g[s] - Cap(k)) <= (now - s) + (Interval(k) - 1)
<1>1. PICK i, cap : i = Interval(k) /\ cap = Cap(k)
  OBVIOUS
<1>2. i \in Nat /\ i > 0 /\ cap \in Nat /\ now \in Nat /\ last \in Nat
  BY <1>1, Rates, Numbers DEF Time
<1>3. s \in Time /\ s \in Nat /\ s <= now /\ g[s] \in Nat
  BY Numbers DEF Since, Time
<1>4. PICK x, y : x = g[s] - cap /\ y = (g[s] + tokens) - cap
  OBVIOUS
<1>5. x \in Int /\ y \in Int /\ x <= y /\ x <= g[s]
  BY <1>2, <1>3, <1>4
<1>6. /\ i * x <= i * y /\ i * x \in Int /\ i * y \in Int
      /\ i * x <= i * g[s] /\ i * g[s] \in Int
  BY <1>2, <1>3, <1>5, Scale
<1>7. CASE Spare(g, k)
  <2>1. i * g[s] <= (now - s) + (i - 1)
    BY <1>1, <1>3, <1>7 DEF Spare
  <2>2. i * x <= (now - s) + (i - 1)
    BY <1>2, <1>3, <1>6, <2>1
  <2> QED BY <1>1, <1>4, <2>2
<1>8. CASE Backed(g, tokens, last, k)
  <2>1. CASE s < last
    <3>1. i * y <= (last - s) + (i - 1)
      BY <1>1, <1>3, <1>4, <1>8, <2>1 DEF Backed
    <3>2. i * x <= (now - s) + (i - 1)
      BY <1>2, <1>3, <1>6, <3>1
    <3> QED BY <1>1, <1>4, <3>2
  <2>2. CASE s >= last
    <3>1. g[s] + tokens <= cap
      BY <1>1, <1>3, <1>8, <2>2 DEF Backed
    <3>2. x <= 0
      BY <1>2, <1>3, <1>4, <3>1
    <3>3. i * x <= i * 0
      BY <1>2, <1>5, <3>2, Scale
    <3>4. i * x <= (now - s) + (i - 1)
      BY <1>2, <1>3, <1>6, <3>3
    <3> QED BY <1>1, <1>4, <3>4
  <2> QED BY <1>2, <1>3, <2>1, <2>2
<1> QED BY <1>7, <1>8

(* The quota: no client is ever granted more in any stretch of up to a     *)
(* window than the burst and the tokens that fall due in it, by a replica's *)
(* buckets or by Redis, whatever requests, cleanups, expiries, and failed  *)
(* calls do (tokenBucket.allowRequest, Cleanup, redisTokenBucketScript);   *)
(* for every configuration whose cleanup age is at least the window.       *)
THEOREM LimiterQuotaHeld == Regular /\ Spec => []QuotaHeld
<1>1. AInv => QuotaHeld
  <2> SUFFICES ASSUME AInv, NEW l \in Limiters, NEW c \in Clients, NEW k \in Kinds,
                      NEW s \in Since
               PROVE  grants[l][c][k][s] <= Quota(k, s)
    BY DEF QuotaHeld
  <2>1. Regular /\ IInv /\ Accounts /\ now \in Time /\ now \in Nat
    <3>1. Regular /\ IInv /\ Accounts
      BY DEF AInv
    <3>2. now \in Time
      BY <3>1 DEF IInv, Typed
    <3>3. now \in Nat
      BY <3>2, Numbers DEF Time
    <3> QED BY <3>1, <3>2, <3>3
  <2>2. PICK g : g = grants[l][c][k]
    OBVIOUS
  <2>3. g \in [Time -> Nat]
    BY <2>1, <2>2, GrantType
  <2>4. s \in Time /\ g[s] \in Nat
    BY <2>3 DEF Since
  <2>5. \/ Spare(g, k)
        \/ \E tokens \in Nat, last \in Time : last <= now /\ Backed(g, tokens, last, k)
    <3>1. CASE l = Redis
      <4>1. PICK b : b = redis[c][k]
        OBVIOUS
      <4>2. CASE b = NoBucket
        <5>1. \A t \in Time : g[t] = 0
          BY <2>1, <2>2, <3>1, <4>1, <4>2 DEF Accounts, SharedAccount
        <5>2. PICK i : i = Interval(k)
          OBVIOUS
        <5>3. i \in Nat /\ i > 0
          BY <5>2, Rates
        <5>4. ASSUME NEW t \in Time, t <= now PROVE i * g[t] <= (now - t) + (i - 1)
          <6>1. t \in Nat /\ g[t] = 0
            BY <5>1, Numbers DEF Time
          <6>2. i * 0 <= (now - t) + (i - 1)
            BY <2>1, <5>3, <5>4, <6>1
          <6> QED BY <6>1, <6>2
        <5> QED BY <5>2, <5>4 DEF Spare
      <4>3. CASE b # NoBucket
        <5>1. b \in Rows /\ Filled(b.tokens, b.last, k)
          BY <2>1, <4>1, <4>3 DEF IInv, Typed, RedisFilled
        <5>2. PICK n \in Nat, t \in Time : n = b.tokens /\ t = b.last
          BY <5>1 DEF Rows
        <5>3. Backed(g, n, t, k)
          BY <2>1, <2>2, <3>1, <4>1, <4>3, <5>2 DEF Accounts, SharedAccount
        <5>4. t <= now
          BY <5>1, <5>2 DEF Filled
        <5> QED BY <5>3, <5>4
      <4> QED BY <4>2, <4>3
    <3>2. CASE l # Redis
      <4>1. l \in Replicas
        BY <3>2 DEF Limiters
      <4>2. LocalAccount(l, c, k)
        BY <2>1, <4>1 DEF Accounts
      <4>3. CASE c \in Registered(l) \ doomed[l]
        <5>1. PICK b : b = heap[store[l][c]]
          OBVIOUS
        <5>2. store[l][c] \in Pointers
          BY <2>1, <4>1, <4>3 DEF Registered, IInv, Typed
        <5>3. b # NoBucket
          BY <2>1, <4>1, <4>3, <5>1 DEF IInv, Mapped
        <5>4. b \in Buckets /\ Filled(b.tokens[k], b.last[k], k)
          BY <2>1, <5>1, <5>2, <5>3 DEF IInv, Typed, HeapFilled
        <5>5. PICK n \in Nat, t \in Time : n = b.tokens[k] /\ t = b.last[k]
          BY <5>4 DEF Buckets
        <5>6. Backed(g, n, t, k)
          BY <2>2, <4>2, <4>3, <5>1, <5>5 DEF LocalAccount
        <5>7. t <= now
          BY <5>4, <5>5 DEF Filled
        <5> QED BY <5>6, <5>7
      <4>4. CASE c \notin Registered(l) \ doomed[l]
        BY <2>2, <4>2, <4>4 DEF LocalAccount
      <4> QED BY <4>3, <4>4
    <3> QED BY <3>1, <3>2
  <2>6. Interval(k) * (g[s] - Cap(k)) <= (now - s) + (Interval(k) - 1)
    <3>1. CASE Spare(g, k)
      <4>1. 0 \in Nat /\ now <= now
        BY <2>1
      <4> QED BY <2>1, <2>3, <3>1, <4>1, AccountBound
    <3>2. ASSUME NEW n \in Nat, NEW t \in Time, t <= now, Backed(g, n, t, k)
          PROVE  Interval(k) * (g[s] - Cap(k)) <= (now - s) + (Interval(k) - 1)
      BY <2>1, <2>3, <3>2, AccountBound
    <3> QED BY <2>5, <3>1, <3>2
  <2>7. g[s] <= Quota(k, s)
    BY <2>1, <2>4, <2>6, QuotaFacts
  <2> QED BY <2>2, <2>7
<1> QED BY <1>1, InitAccounts, NextAccounts, PTL DEF Spec
==============================================================================
