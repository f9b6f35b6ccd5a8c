-------------------------- MODULE ReadCache_proofs --------------------------
(***************************************************************************)
(* Proofs about ReadCache, for any requests, replicas, counters, capacity  *)
(* and lifetimes: types, that the structures of a store agree and keep to  *)
(* the capacity, and that staleness is bounded.                            *)
(*                                                                         *)
(* The bound rests on one fact about every entry, whoever put it there and *)
(* whatever was lost on the way: an entry whose version has been succeeded *)
(* expires at most TTL + MaxLag after its successor was committed.  A fill *)
(* establishes it, because what it puts was current when its request read  *)
(* it, less than MaxLag ago; a commit establishes it for the entries that  *)
(* were current until then, because an entry never lives longer than TTL.  *)
(* Invalidation is not needed for it.                                      *)
(***************************************************************************)
EXTENDS ReadCache, FiniteSetTheorems, TLAPS

StoreType == [entry  : [Counters -> Entries \cup {NoEntry}],
              lru    : [Counters -> SUBSET Counters],
              expiry : [Counters -> 0 .. (MaxTime + TTL)]]

\* The parts of StoreConsistent, for a store with at most n keys.
Tidy(st, n) ==
    /\ \A c \in Counters : st.entry[c] # NoEntry => c \in Keys(st.lru)
    /\ IsList(st.lru)
    /\ IsFiniteSet(Keys(st.lru))
    /\ Cardinality(Keys(st.lru)) <= n

Indexed(st) == \A c \in Keys(st.lru) : st.expiry[c] # 0

\* An entry is of a committed version, lives no longer than TTL from now, and
\* ends in time when the version has a successor.
Timely(c, e) ==
    e # NoEntry =>
        /\ e.ver <= version[c]
        /\ e.expires <= now + TTL
        /\ e.ver < version[c] => e.expires <= bornAt[c][e.ver + 1] + MaxLag + TTL

Good(st) ==
    /\ st \in StoreType
    /\ Tidy(st, Capacity)
    /\ Redis => Indexed(st)
    /\ \A c \in Counters : Timely(c, st.entry[c])

StoresGood == /\ store \in [Stores -> StoreType]
              /\ \A s \in Stores : Good(store[s])

\* Version v of counter c was current at time t, or later.
CurrentAt(c, v, t) ==
    /\ v <= version[c]
    /\ v < version[c] => t <= bornAt[c][v + 1]

\* A request knows where it runs and what it asks for; between its database
\* statement and its cache call MaxLag has not passed, and what it is going to
\* put was current when it was read.
Request(p) ==
    /\ pc[p] # "idle" => at[p] \in Replicas /\ want[p] \in Counters
    /\ pc[p] \in {"fill", "invalidate"} => readAt[p] <= now /\ now <= readAt[p] + MaxLag
    /\ pc[p] = "fill" => CurrentAt(want[p], got[p], readAt[p])

\* The scalars of TypeOK: everything but the stores.
Typed ==
    /\ backend \in {"memory", "redis"}
    /\ now \in Times
    /\ version \in [Counters -> Versions]
    /\ bornAt \in [Counters -> [Versions -> Times]]
    /\ until \in [Replicas -> 0 .. (MaxTime + Cooldown)]
    /\ pc \in [Procs -> Stages]
    /\ at \in [Procs -> Replicas \cup {NoReplica}]
    /\ want \in [Procs -> Counters \cup {NoCounter}]
    /\ got \in [Procs -> Versions]
    /\ readAt \in [Procs -> Times]

IInv == Typed /\ StoresGood /\ \A p \in Procs : Request(p)

------------------------------------------------------------------------------
(* The list.                                                               *)

LEMMA ToFrontList ==
    ASSUME NEW lru \in [Counters -> SUBSET Counters], IsList(lru), NEW c \in Counters
    PROVE  /\ ToFront(lru, c) \in [Counters -> SUBSET Counters]
           /\ IsList(ToFront(lru, c))
           /\ Keys(ToFront(lru, c)) = Keys(lru) \cup {c}
<1> DEFINE new == ToFront(lru, c)
<1>1. new \in [Counters -> SUBSET Counters]
  BY DEF ToFront
<1>2. new[c] = {c}
  BY DEF ToFront
<1>3. \A d \in Counters : d # c => new[d] = IF lru[d] = {} THEN {} ELSE lru[d] \cup {c}
  BY DEF ToFront
<1> HIDE DEF new
<1>4. Keys(new) = Keys(lru) \cup {c}
  BY <1>2, <1>3 DEF Keys
<1>5. \A d \in Keys(new) : d \in new[d]
  <2>1. ASSUME NEW d \in Counters, new[d] # {} PROVE d \in new[d]
    <3>1. CASE d = c
      BY <1>2, <3>1
    <3>2. CASE d # c
      <4>1. lru[d] # {} /\ new[d] = lru[d] \cup {c}
        BY <1>3, <2>1, <3>2
      <4>2. d \in lru[d]
        BY <4>1 DEF IsList, Keys
      <4> QED BY <4>1, <4>2
    <3> QED BY <3>1, <3>2
  <2> QED BY <2>1 DEF Keys
<1>6. ASSUME NEW d \in Counters, NEW e \in new[d]
      PROVE  e \in Keys(new) /\ new[e] \subseteq new[d]
  <2>1. CASE d = c
    BY <1>2, <1>4, <1>6, <2>1
  <2>2. CASE d # c /\ e = c
    BY <1>1, <1>2, <1>3, <1>4, <1>6, <2>2
  <2>3. CASE d # c /\ e # c
    <3>1. lru[d] # {} /\ new[d] = lru[d] \cup {c} /\ e \in lru[d]
      BY <1>3, <1>6, <2>3
    <3>2. e \in Keys(lru) /\ lru[e] \subseteq lru[d]
      BY <3>1 DEF IsList
    <3>3. new[e] = lru[e] \cup {c}
      BY <1>3, <2>3, <3>2 DEF Keys
    <3> QED BY <1>4, <3>1, <3>2, <3>3
  <2> QED BY <2>1, <2>2, <2>3
<1>7. ASSUME NEW d \in Keys(new), NEW e \in Keys(new), d # e
      PROVE  d \in new[e] <=> e \notin new[d]
  <2>1. CASE d = c
    BY <1>2, <1>3, <1>7, <2>1 DEF Keys
  <2>2. CASE e = c
    BY <1>2, <1>3, <1>7, <2>2 DEF Keys
  <2>3. CASE d # c /\ e # c
    <3>1. d \in Keys(lru) /\ e \in Keys(lru)
      BY <1>4, <2>3
    <3>2. new[d] = lru[d] \cup {c} /\ new[e] = lru[e] \cup {c}
      BY <1>3, <2>3, <3>1 DEF Keys
    <3>3. d \in lru[e] <=> e \notin lru[d]
      BY <1>7, <3>1 DEF IsList
    <3> QED BY <2>3, <3>2, <3>3
  <2> QED BY <2>1, <2>2, <2>3
<1>8. IsList(new)
  BY <1>5, <1>6, <1>7 DEF IsList
<1> QED BY <1>1, <1>4, <1>8 DEF new

LEMMA DropList ==
    ASSUME NEW st \in StoreType, IsList(st.lru), NEW gone
    PROVE  /\ Drop(st, gone) \in StoreType
           /\ IsList(Drop(st, gone).lru)
           /\ Keys(Drop(st, gone).lru) = Keys(st.lru) \ gone
           /\ \A c \in Counters \ gone : /\ Drop(st, gone).entry[c] = st.entry[c]
                                         /\ Drop(st, gone).expiry[c] = st.expiry[c]
           /\ \A c \in Counters \cap gone : Drop(st, gone).entry[c] = NoEntry
<1> DEFINE e == [c \in Counters |-> IF c \in gone THEN NoEntry ELSE st.entry[c]]
           l == [c \in Counters |-> IF c \in gone THEN {} ELSE st.lru[c] \ gone]
           x == [c \in Counters |-> IF c \in gone THEN 0 ELSE st.expiry[c]]
<1>1. Drop(st, gone) = [entry |-> e, lru |-> l, expiry |-> x]
  BY DEF Drop
<1>2. /\ st.entry \in [Counters -> Entries \cup {NoEntry}]
      /\ st.lru \in [Counters -> SUBSET Counters]
      /\ st.expiry \in [Counters -> 0 .. (MaxTime + TTL)]
  BY DEF StoreType
<1>3. e \in [Counters -> Entries \cup {NoEntry}]
  BY <1>2
<1>4. l \in [Counters -> SUBSET Counters]
  BY <1>2
<1>5. x \in [Counters -> 0 .. (MaxTime + TTL)]
  BY <1>2, CacheAssumption
<1>6. Drop(st, gone) \in StoreType /\ Drop(st, gone).lru = l
  BY <1>1, <1>3, <1>4, <1>5 DEF StoreType
<1>7. \A c \in Counters : l[c] = IF c \in gone THEN {} ELSE st.lru[c] \ gone
  OBVIOUS
<1>8. /\ \A c \in Counters \ gone : e[c] = st.entry[c] /\ x[c] = st.expiry[c]
      /\ \A c \in Counters \cap gone : e[c] = NoEntry
  OBVIOUS
<1>9. Drop(st, gone).entry = e /\ Drop(st, gone).expiry = x
  BY <1>1
<1> HIDE DEF l, e, x
<1>10. Keys(l) = Keys(st.lru) \ gone
  <2>1. \A c \in Counters : st.lru[c] # {} => c \in st.lru[c]
    BY DEF Keys, IsList
  <2> QED BY <1>7, <2>1 DEF Keys
<1>11. IsList(l)
  <2>1. ASSUME NEW c \in Keys(l) PROVE c \in l[c]
    <3>1. c \in Counters /\ c \in Keys(st.lru) /\ c \notin gone
      BY <1>10, <2>1 DEF Keys
    <3>2. c \in st.lru[c]
      BY <3>1 DEF IsList
    <3> QED BY <1>7, <3>1, <3>2
  <2>2. ASSUME NEW c \in Counters, NEW d \in l[c]
        PROVE  d \in Keys(l) /\ l[d] \subseteq l[c]
    <3>1. c \notin gone /\ d \in st.lru[c] /\ d \notin gone
      BY <1>7, <2>2
    <3>2. d \in Keys(st.lru) /\ st.lru[d] \subseteq st.lru[c]
      BY <3>1 DEF IsList
    <3> QED BY <1>7, <1>10, <3>1, <3>2 DEF Keys
  <2>3. ASSUME NEW c \in Keys(l), NEW d \in Keys(l), c # d
        PROVE  c \in l[d] <=> d \notin l[c]
    <3>1. c \in Keys(st.lru) /\ d \in Keys(st.lru) /\ c \notin gone /\ d \notin gone
      BY <1>10
    <3>2. c \in st.lru[d] <=> d \notin st.lru[c]
      BY <2>3, <3>1 DEF IsList
    <3> QED BY <1>7, <3>1, <3>2 DEF Keys
  <2> QED BY <2>1, <2>2, <2>3 DEF IsList
<1> QED BY <1>6, <1>8, <1>9, <1>10, <1>11

\* One key too many: by the pigeonhole principle some key is at a position
\* beyond the capacity.
LEMMA ExcessFound ==
    ASSUME NEW lru \in [Counters -> SUBSET Counters], IsList(lru), IsFiniteSet(Keys(lru)),
           Cardinality(Keys(lru)) > Capacity
    PROVE  Excess(lru) # {}
<1> DEFINE K == Keys(lru)
           f == [c \in K |-> Cardinality(lru[c])]
<1>1. Capacity \in Nat
  BY CacheAssumption
<1>2. \A c \in K : lru[c] \in SUBSET K /\ lru[c] # {}
  BY DEF Keys, IsList
<1>3. ASSUME NEW c \in K
      PROVE  IsFiniteSet(lru[c]) /\ Cardinality(lru[c]) \in Nat /\ Cardinality(lru[c]) > 0
  BY <1>2, FS_Subset, FS_CardinalityType, FS_EmptySet
<1>4. SUFFICES ASSUME Excess(lru) = {} PROVE FALSE
  OBVIOUS
<1>5. \A c \in K : Cardinality(lru[c]) <= Capacity
  BY <1>1, <1>3, <1>4 DEF Excess, Position
<1>6. f \in [K -> 1 .. Capacity]
  BY <1>1, <1>3, <1>5
<1>7. IsFiniteSet(1 .. Capacity) /\ Cardinality(1 .. Capacity) = Capacity
  BY <1>1, FS_Interval, CacheAssumption
<1>8. PICK c \in K, d \in K : c # d /\ f[c] = f[d]
  <2> HIDE DEF f, K
  <2>1. IsFiniteSet(K) /\ Cardinality(1 .. Capacity) < Cardinality(K)
    BY <1>7 DEF K
  <2> QED BY <1>6, <1>7, <2>1, FS_PigeonHole
<1>9. Cardinality(lru[c]) = Cardinality(lru[d])
  BY <1>8
<1>10. c \in Keys(lru) /\ d \in Keys(lru) /\ c \in lru[c] /\ d \in lru[d]
  BY DEF IsList
<1>11. c \in lru[d] <=> d \notin lru[c]
  BY <1>8, <1>10 DEF IsList
<1>12. \A a, b \in K : a \in lru[b] => lru[a] \subseteq lru[b]
  BY DEF IsList, Keys
<1>13. lru[c] \subseteq lru[d] \/ lru[d] \subseteq lru[c]
  BY <1>11, <1>12
<1>14. lru[c] = lru[d]
  <2>1. CASE lru[c] \subseteq lru[d]
    BY <1>3, <1>9, <2>1, FS_Subset
  <2>2. CASE lru[d] \subseteq lru[c]
    BY <1>3, <1>9, <2>2, FS_Subset
  <2> QED BY <1>13, <2>1, <2>2
<1> QED BY <1>10, <1>11, <1>14

------------------------------------------------------------------------------
(* What the cache operations keep.                                         *)

LEMMA Numbers ==
    /\ Capacity \in Nat /\ TTL \in Nat /\ Cooldown \in Nat /\ MaxLag \in Nat
    /\ Capacity > 0 /\ TTL > 0 /\ Cooldown > 0 /\ MaxLag > 0
    /\ MaxVersion \in Nat /\ MaxTime \in Nat
BY CacheAssumption

LEMMA DropTidy ==
    ASSUME NEW st \in StoreType, NEW n \in Nat, Tidy(st, n), NEW gone
    PROVE  Tidy(Drop(st, gone), n)
<1> DEFINE new == Drop(st, gone)
<1>1. /\ IsList(new.lru)
      /\ Keys(new.lru) = Keys(st.lru) \ gone
      /\ \A c \in Counters \ gone : new.entry[c] = st.entry[c]
      /\ \A c \in Counters \cap gone : new.entry[c] = NoEntry
  BY DropList DEF Tidy
<1> HIDE DEF new
<1>2. IsFiniteSet(Keys(new.lru)) /\ Cardinality(Keys(new.lru)) <= n
  <2>1. Keys(new.lru) \in SUBSET Keys(st.lru)
    BY <1>1
  <2>2. /\ IsFiniteSet(Keys(new.lru))
        /\ Cardinality(Keys(new.lru)) <= Cardinality(Keys(st.lru))
    BY <2>1, FS_Subset DEF Tidy
  <2>3. Cardinality(Keys(new.lru)) \in Nat /\ Cardinality(Keys(st.lru)) \in Nat
    BY <2>2, FS_CardinalityType DEF Tidy
  <2> QED BY <2>2, <2>3 DEF Tidy
<1>3. \A c \in Counters : new.entry[c] # NoEntry => c \in Keys(new.lru)
  BY <1>1 DEF Tidy
<1>4. Tidy(new, n)
  BY <1>1, <1>2, <1>3 DEF Tidy
<1> QED BY <1>4 DEF new

LEMMA DropGood ==
    ASSUME NEW st, Good(st), NEW gone
    PROVE  Good(Drop(st, gone))
<1> DEFINE new == Drop(st, gone)
<1>1. st \in StoreType /\ IsList(st.lru) /\ Tidy(st, Capacity)
  BY DEF Good, Tidy
<1>2. /\ new \in StoreType
      /\ Keys(new.lru) = Keys(st.lru) \ gone
      /\ \A c \in Counters \ gone : new.entry[c] = st.entry[c] /\ new.expiry[c] = st.expiry[c]
      /\ \A c \in Counters \cap gone : new.entry[c] = NoEntry
  BY <1>1, DropList
<1>3. Tidy(new, Capacity)
  BY <1>1, DropTidy, Numbers
<1> HIDE DEF new
<1>4. Redis => Indexed(new)
  BY <1>2 DEF Good, Indexed, Keys
<1>5. ASSUME NEW c \in Counters PROVE Timely(c, new.entry[c])
  BY <1>2 DEF Good, Timely
<1>6. Good(new)
  BY <1>2, <1>3, <1>4, <1>5 DEF Good
<1> QED BY <1>6 DEF new

\* Get: a hit only moves the key, a miss drops it.
LEMMA GetGood ==
    ASSUME NEW st, Good(st), NEW c \in Counters, NEW t
    PROVE  Good(AfterGet(st, c, t))
<1>1. CASE ~Servable(st, c, t)
  BY <1>1, DropGood DEF AfterGet
<1>2. CASE Servable(st, c, t)
  <2> DEFINE l == ToFront(st.lru, c)
  <2>1. /\ st \in StoreType /\ Tidy(st, Capacity) /\ st.lru \in [Counters -> SUBSET Counters]
        /\ st = [entry |-> st.entry, lru |-> st.lru, expiry |-> st.expiry]
    BY DEF Good, StoreType
  <2>2. /\ l \in [Counters -> SUBSET Counters] /\ IsList(l)
        /\ Keys(l) = Keys(st.lru) \cup {c}
    BY <2>1, ToFrontList DEF Tidy
  <2>3. c \in Keys(st.lru)
    BY <1>2, <2>1 DEF Tidy, Servable
  <2>4. AfterGet(st, c, t) = [entry |-> st.entry, lru |-> l, expiry |-> st.expiry]
    BY <1>2, <2>1 DEF AfterGet
  <2> HIDE DEF l
  <2>5. PICK new : new = AfterGet(st, c, t)
    OBVIOUS
  <2>6. new.entry = st.entry /\ new.lru = l /\ new.expiry = st.expiry
    BY <2>4, <2>5
  <2>7. Keys(new.lru) = Keys(st.lru)
    BY <2>2, <2>3, <2>6
  <2>8. new \in StoreType
    BY <2>1, <2>2, <2>4, <2>5 DEF StoreType
  <2>9. Tidy(new, Capacity)
    BY <2>1, <2>2, <2>6, <2>7 DEF Tidy
  <2>10. Redis => Indexed(new)
    BY <2>6, <2>7 DEF Good, Indexed
  <2>11. \A d \in Counters : Timely(d, new.entry[d])
    BY <2>6 DEF Good
  <2>12. Good(new)
    BY <2>8, <2>9, <2>10, <2>11 DEF Good
  <2> QED BY <2>5, <2>12
<1> QED BY <1>1, <1>2

LEMMA SweepGood ==
    ASSUME NEW st, Good(st), NEW t
    PROVE  Good(Sweep(st, t))
<1>1. PICK old : old = {c \in Counters : st.expiry[c] # 0 /\ st.expiry[c] <= t}
  OBVIOUS
<1>2. PICK mid : mid = Drop(st, old)
  OBVIOUS
<1>3. PICK new : new = Sweep(st, t)
  OBVIOUS
<1>4. /\ Good(mid) /\ mid \in StoreType
      /\ mid = [entry |-> mid.entry, lru |-> mid.lru, expiry |-> mid.expiry]
  BY <1>2, DropGood DEF Good, StoreType
<1>5. Keys(mid.lru) = Keys(st.lru) \ old
  BY <1>2, DropList DEF Good, Tidy
<1>6. new = [entry |-> mid.entry, lru |-> mid.lru, expiry |-> st.expiry]
  BY <1>1, <1>2, <1>3, <1>4 DEF Sweep
<1>7. new.entry = mid.entry /\ new.lru = mid.lru /\ new.expiry = st.expiry
  BY <1>6
<1>8. new \in StoreType
  BY <1>4, <1>6 DEF StoreType, Good
<1>9. Tidy(new, Capacity)
  BY <1>4, <1>7 DEF Good, Tidy
<1>10. Redis => Indexed(new)
  BY <1>5, <1>7 DEF Good, Indexed
<1>11. \A c \in Counters : Timely(c, new.entry[c])
  BY <1>4, <1>7 DEF Good
<1> QED BY <1>3, <1>8, <1>9, <1>10, <1>11 DEF Good

\* One key too many at most, so one eviction is enough.
LEMMA EvictGood ==
    ASSUME NEW st \in StoreType, Tidy(st, Capacity + 1), Redis => Indexed(st),
           \A c \in Counters : Timely(c, st.entry[c])
    PROVE  Good(Evict(st))
<1>1. PICK gone : gone = Excess(st.lru)
  OBVIOUS
<1>2. PICK new : new = Evict(st)
  OBVIOUS
<1>3. new = Drop(st, gone)
  BY <1>1, <1>2 DEF Evict
<1>4. /\ new \in StoreType
      /\ Keys(new.lru) = Keys(st.lru) \ gone
      /\ \A c \in Counters \ gone : new.entry[c] = st.entry[c] /\ new.expiry[c] = st.expiry[c]
      /\ \A c \in Counters \cap gone : new.entry[c] = NoEntry
  BY <1>3, DropList DEF Tidy
<1>5. Tidy(new, Capacity + 1)
  BY <1>3, DropTidy, Numbers
<1>6. Cardinality(Keys(new.lru)) <= Capacity
  <2>1. /\ IsFiniteSet(Keys(st.lru)) /\ Cardinality(Keys(st.lru)) \in Nat
        /\ Cardinality(Keys(st.lru)) <= Capacity + 1
    BY FS_CardinalityType DEF Tidy
  <2>2. CASE Cardinality(Keys(st.lru)) <= Capacity
    <3>1. Keys(new.lru) \in SUBSET Keys(st.lru)
      BY <1>4
    <3>2. IsFiniteSet(Keys(new.lru)) /\ Cardinality(Keys(new.lru)) <= Cardinality(Keys(st.lru))
      BY <2>1, <3>1, FS_Subset
    <3>3. Cardinality(Keys(new.lru)) \in Nat
      BY <3>2, FS_CardinalityType
    <3> QED BY <2>1, <2>2, <3>2, <3>3, Numbers
  <2>3. CASE Cardinality(Keys(st.lru)) > Capacity
    <3>1. PICK c : c \in gone
      BY <1>1, <2>1, <2>3, ExcessFound DEF StoreType, Tidy
    <3>2. c \in Keys(st.lru)
      BY <1>1, <3>1 DEF Excess
    <3>3. /\ IsFiniteSet(Keys(st.lru) \ {c})
          /\ Cardinality(Keys(st.lru) \ {c}) = Cardinality(Keys(st.lru)) - 1
      BY <2>1, <3>2, FS_RemoveElement
    <3>4. Keys(new.lru) \in SUBSET (Keys(st.lru) \ {c})
      BY <1>4, <3>1
    <3>5. /\ IsFiniteSet(Keys(new.lru))
          /\ Cardinality(Keys(new.lru)) <= Cardinality(Keys(st.lru) \ {c})
      BY <3>3, <3>4, FS_Subset
    <3>6. Cardinality(Keys(new.lru)) \in Nat
      BY <3>5, FS_CardinalityType
    <3> QED BY <2>1, <3>3, <3>5, <3>6, Numbers
  <2> QED BY <2>1, <2>2, <2>3, Numbers
<1>7. Tidy(new, Capacity)
  BY <1>5, <1>6 DEF Tidy
<1>8. Redis => Indexed(new)
  BY <1>4 DEF Indexed, Keys
<1>9. ASSUME NEW c \in Counters PROVE Timely(c, new.entry[c])
  BY <1>4 DEF Timely
<1> QED BY <1>2, <1>4, <1>7, <1>8, <1>9 DEF Good

\* Set: what is put was current less than MaxLag ago.
LEMMA SetGood ==
    ASSUME Typed, NEW st, Good(st), NEW c \in Counters, NEW v \in Versions, NEW t \in Times,
           CurrentAt(c, v, t), now <= t + MaxLag
    PROVE  Good(AfterSet(st, c, v, now))
<1>1. PICK old : old = IF Redis THEN Sweep(st, now) ELSE st
  OBVIOUS
<1>2. Good(old)
  BY <1>1, SweepGood
<1>3. PICK mid : mid = Put(old, c, v, now)
  OBVIOUS
<1>4. PICK row : row = [ver |-> v, expires |-> now + TTL]
  OBVIOUS
<1>5. now \in 0 .. MaxTime /\ version[c] \in 0 .. MaxVersion
  BY DEF Typed, Times, Versions
<1>6. row \in Entries /\ row.ver = v /\ row.expires = now + TTL
  BY <1>4, <1>5, Numbers DEF Entries
<1>7. Timely(c, row)
  <2>1. ASSUME v < version[c] PROVE now + TTL <= bornAt[c][v + 1] + MaxLag + TTL
    <3>1. bornAt[c][v + 1] \in Nat
      BY <1>5, <2>1, Numbers DEF Typed, Versions, Times
    <3>2. t <= bornAt[c][v + 1]
      BY <2>1 DEF CurrentAt
    <3> QED BY <1>5, <3>1, <3>2, Numbers DEF Times
  <2>2. v <= version[c]
    BY DEF CurrentAt
  <2> QED BY <1>5, <1>6, <2>1, <2>2, Numbers DEF Timely
<1>8. /\ old \in StoreType /\ Tidy(old, Capacity)
      /\ old.entry \in [Counters -> Entries \cup {NoEntry}]
      /\ old.lru \in [Counters -> SUBSET Counters]
      /\ old.expiry \in [Counters -> 0 .. (MaxTime + TTL)]
  BY <1>2 DEF Good, StoreType
<1>9. PICK l : l = ToFront(old.lru, c)
  OBVIOUS
<1>10. /\ l \in [Counters -> SUBSET Counters] /\ IsList(l)
       /\ Keys(l) = Keys(old.lru) \cup {c}
  BY <1>8, <1>9, ToFrontList DEF Tidy
<1>11. PICK e : e = [old.entry EXCEPT ![c] = row]
  OBVIOUS
<1>12. PICK x : x = IF Redis THEN [old.expiry EXCEPT ![c] = now + TTL] ELSE old.expiry
  OBVIOUS
<1>13. e \in [Counters -> Entries \cup {NoEntry}] /\ e[c] = row
       /\ \A d \in Counters : d # c => e[d] = old.entry[d]
  BY <1>6, <1>8, <1>11
<1>14. /\ x \in [Counters -> 0 .. (MaxTime + TTL)]
       /\ Redis => x[c] = now + TTL /\ \A d \in Counters : d # c => x[d] = old.expiry[d]
  BY <1>5, <1>8, <1>12, Numbers
<1>15. mid = [entry |-> e, lru |-> l, expiry |-> x]
  BY <1>3, <1>4, <1>9, <1>11, <1>12 DEF Put
<1>16. mid.entry = e /\ mid.lru = l /\ mid.expiry = x /\ mid \in StoreType
  BY <1>10, <1>13, <1>14, <1>15 DEF StoreType
<1>17. Tidy(mid, Capacity + 1)
  <2>1. /\ IsFiniteSet(Keys(old.lru)) /\ Cardinality(Keys(old.lru)) <= Capacity
        /\ Cardinality(Keys(old.lru)) \in Nat
    BY <1>8, FS_CardinalityType DEF Tidy
  <2>2. /\ IsFiniteSet(Keys(old.lru) \cup {c})
        /\ Cardinality(Keys(old.lru) \cup {c}) <= Capacity + 1
    <3>1. /\ IsFiniteSet(Keys(old.lru) \cup {c})
          /\ \/ Cardinality(Keys(old.lru) \cup {c}) = Cardinality(Keys(old.lru))
             \/ Cardinality(Keys(old.lru) \cup {c}) = Cardinality(Keys(old.lru)) + 1
      BY <2>1, FS_AddElement
    <3> QED BY <2>1, <3>1, Numbers
  <2>3. \A d \in Counters : e[d] # NoEntry => d \in Keys(l)
    BY <1>8, <1>10, <1>13 DEF Tidy
  <2> QED BY <1>10, <1>16, <2>2, <2>3 DEF Tidy
<1>18. Redis => Indexed(mid)
  <2>1. now + TTL # 0
    BY <1>5, Numbers
  <2> QED BY <1>2, <1>10, <1>14, <1>16, <2>1 DEF Good, Indexed, Keys
<1>19. ASSUME NEW d \in Counters PROVE Timely(d, mid.entry[d])
  <2>1. CASE d = c
    BY <1>7, <1>13, <1>16, <2>1
  <2>2. CASE d # c
    BY <1>2, <1>13, <1>16, <2>2 DEF Good
  <2> QED BY <2>1, <2>2
<1>20. Good(Evict(mid))
  BY <1>16, <1>17, <1>18, <1>19, EvictGood
<1>21. AfterSet(st, c, v, now) = Evict(mid)
  BY <1>1, <1>3 DEF AfterSet
<1> QED BY <1>20, <1>21

------------------------------------------------------------------------------
(* Steps.                                                                  *)

\* What no request changes.
Backdrop == UNCHANGED <<backend, now, version, bornAt>>

\* The request of q is left alone.
Same(q) == /\ pc'[q] = pc[q] /\ at'[q] = at[q] /\ want'[q] = want[q]
           /\ got'[q] = got[q] /\ readAt'[q] = readAt[q]

LEMMA GoodKept ==
    ASSUME Backdrop, NEW st, Good(st)
    PROVE  Good(st)'
<1>1. /\ st \in StoreType /\ Tidy(st, Capacity)
      /\ backend = "redis" => Indexed(st)
  BY DEF Good, Redis
<1>2. ASSUME NEW c \in Counters PROVE Timely(c, st.entry[c])'
  BY DEF Good, Timely, Backdrop
<1> QED BY <1>1, <1>2 DEF Good, Redis, Backdrop

LEMMA EmptyGood ==
    ASSUME Typed
    PROVE  Good(EmptyStore)
<1> DEFINE st == EmptyStore
<1>1. /\ st.entry = [c \in Counters |-> NoEntry] /\ st.lru = [c \in Counters |-> {}]
      /\ st.expiry = [c \in Counters |-> 0] /\ st \in StoreType
  BY Numbers DEF EmptyStore, StoreType
<1> HIDE DEF st
<1>2. Keys(st.lru) = {}
  BY <1>1 DEF Keys
<1>3. IsList(st.lru)
  BY <1>1, <1>2 DEF IsList
<1>4. Tidy(st, Capacity)
  BY <1>1, <1>2, <1>3, FS_EmptySet, Numbers DEF Tidy
<1>5. Indexed(st)
  BY <1>2 DEF Indexed
<1>6. \A c \in Counters : Timely(c, st.entry[c])
  BY <1>1 DEF Timely
<1>7. Good(st)
  BY <1>1, <1>4, <1>5, <1>6 DEF Good
<1> QED BY <1>7 DEF st

LEMMA StoresKept ==
    ASSUME StoresGood, Backdrop, NEW s \in Stores, NEW st, Good(st),
           store' \in {store, [store EXCEPT ![s] = st]}
    PROVE  StoresGood'
<1>1. Stores' = Stores /\ st \in StoreType
  BY DEF Stores, Redis, Backdrop, Good
<1>2. store' \in [Stores -> StoreType]
  BY <1>1 DEF StoresGood
<1>3. ASSUME NEW z \in Stores PROVE Good(store[z])'
  <2>1. PICK o : o = store'[z]
    OBVIOUS
  <2>2. o \in {store[z], st}
    BY <2>1, <1>3 DEF StoresGood
  <2>3. Good(o)
    <3>1. CASE o = store[z] BY <3>1 DEF StoresGood
    <3>2. CASE o = st BY <3>2
    <3> QED BY <2>2, <3>1, <3>2
  <2>4. Good(o)'
    BY <2>3, GoodKept
  <2> QED BY <2>1, <2>4
<1> QED BY <1>1, <1>2, <1>3 DEF StoresGood

LEMMA OtherKept ==
    ASSUME NEW q \in Procs, Request(q), Same(q), Backdrop
    PROVE  Request(q)'
BY DEF Request, Same, Backdrop, CurrentAt

\* A step of one request.
LEMMA LocalStep ==
    ASSUME IInv, NEW p \in Procs, Backdrop, Typed', StoresGood', Request(p)',
           \A q \in Procs : q # p => Same(q)
    PROVE  IInv'
<1>1. ASSUME NEW q \in Procs PROVE Request(q)'
  <2>1. CASE q = p BY <2>1
  <2>2. CASE q # p BY <2>2, OtherKept DEF IInv
  <2> QED BY <2>1, <2>2
<1> QED BY <1>1 DEF IInv

LEMMA StoresStill ==
    ASSUME StoresGood, Backdrop, store' = store
    PROVE  StoresGood'
<1>1. Stores' = Stores
  BY DEF Stores, Redis, Backdrop
<1>2. ASSUME NEW z \in Stores PROVE Good(store[z])'
  <2>1. PICK o : o = store'[z] /\ o = store[z]
    OBVIOUS
  <2>2. Good(o)'
    BY <2>1, GoodKept DEF StoresGood
  <2> QED BY <2>1, <2>2
<1> QED BY <1>1, <1>2 DEF StoresGood

LEMMA MineStore ==
    ASSUME IInv, NEW p \in Procs, pc[p] # "idle"
    PROVE  /\ Mine(p) \in Stores /\ Good(store[Mine(p)])
           /\ at[p] \in Replicas /\ want[p] \in Counters
BY DEF IInv, Request, Mine, StoreOf, Stores, StoresGood

\* What a cache call leaves: the store or its result, and a new or an old mark
\* of the client.
LEMMA CallTypes ==
    ASSUME IInv, NEW p \in Procs, pc[p] # "idle", NEW st,
           \/ Call(p, st) /\ until' = until
           \/ Call(p, st) /\ until' = [until EXCEPT ![at[p]] = 0]
           \/ Skipped(p)
           \/ Failed(p, st)
    PROVE  /\ store' \in {store, [store EXCEPT ![Mine(p)] = st]}
           /\ until' \in [Replicas -> 0 .. (MaxTime + Cooldown)]
<1>1. at[p] \in Replicas /\ until \in [Replicas -> 0 .. (MaxTime + Cooldown)] /\ now \in 0 .. MaxTime
  BY MineStore DEF IInv, Typed, Times
<1>2. now + Cooldown \in 0 .. (MaxTime + Cooldown) /\ 0 \in 0 .. (MaxTime + Cooldown)
  BY <1>1, Numbers
<1>3. store' \in {store, [store EXCEPT ![Mine(p)] = st]}
  BY DEF Call, Skipped, Failed
<1>4. \/ until' = until
      \/ until' = [until EXCEPT ![at[p]] = 0]
      \/ until' = [until EXCEPT ![at[p]] = now + Cooldown]
  BY DEF Skipped, Failed
<1>5. until' \in [Replicas -> 0 .. (MaxTime + Cooldown)]
  BY <1>1, <1>2, <1>4
<1> QED BY <1>3, <1>5

LEMMA StartInv ==
    ASSUME IInv, NEW p \in Procs, NEW r \in Replicas, NEW c \in Counters,
           NEW st \in {"get", "commit"}, Start(p, r, c, st)
    PROVE  IInv'
<1>1. Backdrop /\ store' = store /\ \A q \in Procs : q # p => Same(q)
  BY DEF Start, GoTo, Backdrop, Same, IInv, Typed
<1>2. Typed'
  BY DEF Start, GoTo, IInv, Typed, Stages
<1>3. pc'[p] = st /\ at'[p] = r /\ want'[p] = c
  BY DEF Start, GoTo, IInv, Typed
<1>4. Request(p)'
  BY <1>3 DEF Request
<1> QED BY <1>1, <1>2, <1>4, StoresStill, LocalStep DEF IInv

LEMMA GetHitInv ==
    ASSUME IInv, NEW p \in Procs, GetHit(p)
    PROVE  IInv'
<1> DEFINE st == store[Mine(p)]
           new == AfterGet(st, want[p], now)
<1>1. pc[p] = "get" /\ Backdrop /\ Call(p, new) /\ until' = until /\ Servable(st, want[p], now)
  BY DEF GetHit, Backdrop
<1>2. Mine(p) \in Stores /\ Good(st) /\ at[p] \in Replicas /\ want[p] \in Counters
  BY <1>1, MineStore
<1>3. Good(new)
  BY <1>2, GetGood
<1>4. store' \in {store, [store EXCEPT ![Mine(p)] = new]}
  BY <1>1 DEF Call
<1> HIDE DEF new
<1>5. StoresGood'
  BY <1>1, <1>2, <1>3, <1>4, StoresKept DEF IInv
<1>6. st.entry[want[p]].ver \in Versions
  BY <1>1, <1>2 DEF Good, StoreType, Servable, Entries
<1>7. /\ pc' = [pc EXCEPT ![p] = "done"] /\ got' = [got EXCEPT ![p] = st.entry[want[p]].ver]
      /\ UNCHANGED <<backend, now, version, bornAt, until, at, want, readAt>>
  BY DEF GetHit, GoTo
<1> HIDE DEF st
<1>8. Typed'
  BY <1>6, <1>7 DEF IInv, Typed, Stages
<1>9. \A q \in Procs : q # p => Same(q)
  BY <1>7 DEF Same, IInv, Typed
<1>10. pc'[p] = "done" /\ at'[p] = at[p] /\ want'[p] = want[p]
  BY <1>7 DEF IInv, Typed
<1>11. Request(p)'
  BY <1>2, <1>10 DEF Request
<1> QED BY <1>1, <1>5, <1>8, <1>9, <1>11, LocalStep

LEMMA GetMissInv ==
    ASSUME IInv, NEW p \in Procs, GetMiss(p)
    PROVE  IInv'
<1>1. PICK new : new = AfterGet(store[Mine(p)], want[p], now)
  OBVIOUS
<1>2. pc[p] = "get" /\ Backdrop
  BY DEF GetMiss, Backdrop
<1>3. Mine(p) \in Stores /\ at[p] \in Replicas /\ want[p] \in Counters /\ Good(new)
  BY <1>1, <1>2, MineStore, GetGood
<1>4. (Call(p, new) /\ until' = until) \/ Skipped(p) \/ Failed(p, new)
  BY <1>1 DEF GetMiss
<1>5. /\ store' \in {store, [store EXCEPT ![Mine(p)] = new]}
      /\ until' \in [Replicas -> 0 .. (MaxTime + Cooldown)]
  BY <1>2, <1>4, CallTypes
<1>6. StoresGood'
  BY <1>2, <1>3, <1>5, StoresKept DEF IInv
<1>7. /\ pc' = [pc EXCEPT ![p] = "load"]
      /\ UNCHANGED <<backend, now, version, bornAt, at, want, got, readAt>>
  BY DEF GetMiss, GoTo
<1>8. Typed'
  BY <1>5, <1>7 DEF IInv, Typed, Stages
<1>9. \A q \in Procs : q # p => Same(q)
  BY <1>7 DEF Same, IInv, Typed
<1>10. pc'[p] = "load" /\ at'[p] = at[p] /\ want'[p] = want[p]
  BY <1>7 DEF IInv, Typed
<1>11. Request(p)'
  BY <1>3, <1>10 DEF Request
<1> QED BY <1>2, <1>6, <1>8, <1>9, <1>11, LocalStep

\* What is read is current.
LEMMA LoadInv ==
    ASSUME IInv, NEW p \in Procs, Load(p)
    PROVE  IInv'
<1>1. /\ pc[p] = "load" /\ Backdrop /\ store' = store
      /\ pc' = [pc EXCEPT ![p] = "fill"] /\ got' = [got EXCEPT ![p] = version[want[p]]]
      /\ readAt' = [readAt EXCEPT ![p] = now]
      /\ UNCHANGED <<backend, now, version, bornAt, until, at, want>>
  BY DEF Load, Backdrop, GoTo
<1>2. at[p] \in Replicas /\ want[p] \in Counters
  BY <1>1, MineStore
<1>3. Typed'
  BY <1>1, <1>2 DEF IInv, Typed, Stages
<1>4. \A q \in Procs : q # p => Same(q)
  BY <1>1 DEF Same, IInv, Typed
<1>5. /\ pc'[p] = "fill" /\ at'[p] = at[p] /\ want'[p] = want[p]
      /\ got'[p] = version[want[p]] /\ readAt'[p] = now
  BY <1>1 DEF IInv, Typed
<1>6. version[want[p]] \in Nat /\ now \in Nat
  BY <1>2, Numbers DEF IInv, Typed, Versions, Times
<1>7. Request(p)'
  BY <1>1, <1>2, <1>5, <1>6, Numbers DEF Request, CurrentAt
<1> QED BY <1>1, <1>3, <1>4, <1>7, StoresStill, LocalStep DEF IInv

\* The two cache calls that end a request.
LEMMA FillInv ==
    ASSUME IInv, NEW p \in Procs, Fill(p)
    PROVE  IInv'
<1>1. PICK new : new = AfterSet(store[Mine(p)], want[p], got[p], now)
  OBVIOUS
<1>2. pc[p] = "fill" /\ Backdrop
  BY DEF Fill, Backdrop
<1>3. Mine(p) \in Stores /\ at[p] \in Replicas /\ want[p] \in Counters /\ Good(store[Mine(p)])
  BY <1>2, MineStore
<1>4. Good(new)
  <2>1. /\ got[p] \in Versions /\ readAt[p] \in Times /\ CurrentAt(want[p], got[p], readAt[p])
        /\ now <= readAt[p] + MaxLag /\ Typed
    BY <1>2 DEF IInv, Typed, Request
  <2> QED BY <1>1, <1>3, <2>1, SetGood
<1>5. \/ Call(p, new) /\ until' = [until EXCEPT ![at[p]] = 0]
      \/ Skipped(p)
      \/ Failed(p, new)
  BY <1>1 DEF Fill
<1>6. /\ store' \in {store, [store EXCEPT ![Mine(p)] = new]}
      /\ until' \in [Replicas -> 0 .. (MaxTime + Cooldown)]
  BY <1>2, <1>5, CallTypes
<1>7. StoresGood'
  BY <1>2, <1>3, <1>4, <1>6, StoresKept DEF IInv
<1>8. /\ pc' = [pc EXCEPT ![p] = "done"] /\ readAt' = [readAt EXCEPT ![p] = 0]
      /\ UNCHANGED <<backend, now, version, bornAt, at, want, got>>
  BY DEF Fill, GoTo
<1>9. Typed'
  BY <1>6, <1>8, Numbers DEF IInv, Typed, Stages, Times
<1>10. \A q \in Procs : q # p => Same(q)
  BY <1>8 DEF Same, IInv, Typed
<1>11. pc'[p] = "done" /\ at'[p] = at[p] /\ want'[p] = want[p]
  BY <1>8 DEF IInv, Typed
<1>12. Request(p)'
  BY <1>3, <1>11 DEF Request
<1> QED BY <1>2, <1>7, <1>9, <1>10, <1>12, LocalStep

LEMMA InvalidateInv ==
    ASSUME IInv, NEW p \in Procs, Invalidate(p)
    PROVE  IInv'
<1>1. PICK new : new = AfterDelete(store[Mine(p)], want[p])
  OBVIOUS
<1>2. pc[p] = "invalidate" /\ Backdrop
  BY DEF Invalidate, Backdrop
<1>3. Mine(p) \in Stores /\ at[p] \in Replicas /\ want[p] \in Counters /\ Good(new)
  BY <1>1, <1>2, MineStore, DropGood DEF AfterDelete
<1>4. \/ Call(p, new) /\ until' = [until EXCEPT ![at[p]] = 0]
      \/ Skipped(p)
      \/ Failed(p, new)
  BY <1>1 DEF Invalidate
<1>5. /\ store' \in {store, [store EXCEPT ![Mine(p)] = new]}
      /\ until' \in [Replicas -> 0 .. (MaxTime + Cooldown)]
  BY <1>2, <1>4, CallTypes
<1>6. StoresGood'
  BY <1>2, <1>3, <1>5, StoresKept DEF IInv
<1>7. /\ pc' = [pc EXCEPT ![p] = "done"] /\ readAt' = [readAt EXCEPT ![p] = 0]
      /\ UNCHANGED <<backend, now, version, bornAt, at, want, got>>
  BY DEF Invalidate, GoTo
<1>8. Typed'
  BY <1>5, <1>7, Numbers DEF IInv, Typed, Stages, Times
<1>9. \A q \in Procs : q # p => Same(q)
  BY <1>7 DEF Same, IInv, Typed
<1>10. pc'[p] = "done" /\ at'[p] = at[p] /\ want'[p] = want[p]
  BY <1>7 DEF IInv, Typed
<1>11. Request(p)'
  BY <1>3, <1>10 DEF Request
<1> QED BY <1>2, <1>6, <1>8, <1>9, <1>11, LocalStep

LEMMA RecycleInv ==
    ASSUME IInv, NEW p \in Procs, Recycle(p)
    PROVE  IInv'
<1>1. /\ Backdrop /\ store' = store
      /\ pc' = [pc EXCEPT ![p] = "idle"] /\ at' = [at EXCEPT ![p] = NoReplica]
      /\ want' = [want EXCEPT ![p] = NoCounter] /\ got' = [got EXCEPT ![p] = 0]
      /\ UNCHANGED <<backend, now, version, bornAt, until, readAt>>
  BY DEF Recycle, Backdrop, GoTo
<1>2. Typed'
  BY <1>1, Numbers DEF IInv, Typed, Stages, Versions
<1>3. \A q \in Procs : q # p => Same(q)
  BY <1>1 DEF Same, IInv, Typed
<1>4. pc'[p] = "idle"
  BY <1>1 DEF IInv, Typed
<1>5. Request(p)'
  BY <1>4 DEF Request
<1> QED BY <1>1, <1>2, <1>3, <1>5, StoresStill, LocalStep DEF IInv

\* A commit makes the entries and the readings of its counter outdated, from
\* now on and not before.
LEMMA CommitInv ==
    ASSUME IInv, NEW p \in Procs, Commit(p)
    PROVE  IInv'
<1>1. PICK c : c = want[p]
  OBVIOUS
<1>2. /\ pc[p] = "commit" /\ version[c] < MaxVersion
      /\ version' = [version EXCEPT ![c] = version[c] + 1]
      /\ bornAt' = [bornAt EXCEPT ![c][version[c] + 1] = now]
      /\ got' = [got EXCEPT ![p] = version[c] + 1]
      /\ \/ pc' = [pc EXCEPT ![p] = "invalidate"] /\ readAt' = [readAt EXCEPT ![p] = now]
         \/ pc' = [pc EXCEPT ![p] = "done"] /\ readAt' = readAt
      /\ UNCHANGED <<backend, now, store, until, at, want>>
  BY <1>1 DEF Commit, GoTo
<1>3. at[p] \in Replicas /\ c \in Counters
  BY <1>1, <1>2, MineStore
<1>4. version[c] \in Nat /\ version[c] + 1 \in Versions /\ now \in Nat
  BY <1>2, <1>3, Numbers DEF IInv, Typed, Versions, Times
<1>5. Typed'
  <2>1. version' \in [Counters -> Versions] /\ bornAt' \in [Counters -> [Versions -> Times]]
    BY <1>2, <1>3, <1>4 DEF IInv, Typed
  <2>2. got' \in [Procs -> Versions] /\ pc' \in [Procs -> Stages] /\ readAt' \in [Procs -> Times]
    BY <1>2, <1>4 DEF IInv, Typed, Stages
  <2> QED BY <1>2, <2>1, <2>2 DEF IInv, Typed
<1>6. /\ version'[c] = version[c] + 1
      /\ bornAt'[c][version[c] + 1] = now
      /\ \A v \in Versions : v # version[c] + 1 => bornAt'[c][v] = bornAt[c][v]
      /\ \A d \in Counters : d # c => version'[d] = version[d] /\ bornAt'[d] = bornAt[d]
  BY <1>2, <1>3, <1>4 DEF IInv, Typed
<1>7. ASSUME NEW d \in Counters, NEW v \in Versions, v < version'[d]
      PROVE  \/ v < version[d] /\ bornAt'[d][v + 1] = bornAt[d][v + 1]
             \/ v = version[d] /\ bornAt'[d][v + 1] = now
  <2>1. CASE d # c
    BY <1>6, <1>7, <2>1
  <2>2. CASE d = c /\ v = version[c]
    BY <1>6, <2>2
  <2>3. CASE d = c /\ v # version[c]
    <3>1. v \in Nat /\ v < version[c] /\ v + 1 \in Versions /\ v + 1 # version[c] + 1
      BY <1>4, <1>6, <1>7, <2>3, Numbers DEF Versions
    <3> QED BY <1>6, <2>3, <3>1
  <2> QED BY <2>1, <2>2, <2>3
<1>8. \A d \in Counters : /\ version[d] \in Nat /\ version'[d] \in Nat
                          /\ version[d] <= version'[d]
  <2>1. \A d \in Counters : version[d] \in Nat
    BY Numbers DEF IInv, Typed, Versions
  <2> QED BY <1>4, <1>6, <2>1
<1>9. ASSUME NEW st, Good(st) PROVE Good(st)'
  <2>1. /\ st \in StoreType /\ Tidy(st, Capacity)
        /\ backend = "redis" => Indexed(st)
    BY <1>9 DEF Good, Redis
  <2>2. ASSUME NEW d \in Counters PROVE Timely(d, st.entry[d])'
    <3>1. PICK e : e = st.entry[d]
      OBVIOUS
    <3>2. SUFFICES ASSUME e # NoEntry
                   PROVE  /\ e.ver <= version'[d]
                          /\ e.expires <= now + TTL
                          /\ e.ver < version'[d] => e.expires <= bornAt'[d][e.ver + 1] + MaxLag + TTL
      BY <1>2, <3>1 DEF Timely
    <3>3. e.ver \in Versions /\ e.ver \in Nat /\ e.expires \in Nat
      BY <2>1, <3>1, <3>2, Numbers DEF StoreType, Entries, Versions
    <3>4. /\ e.ver <= version[d] /\ e.expires <= now + TTL
          /\ e.ver < version[d] => e.expires <= bornAt[d][e.ver + 1] + MaxLag + TTL
      BY <1>9, <3>1, <3>2 DEF Good, Timely
    <3>5. e.ver <= version'[d]
      BY <1>8, <3>3, <3>4
    <3>6. ASSUME e.ver < version'[d]
          PROVE  e.expires <= bornAt'[d][e.ver + 1] + MaxLag + TTL
      <4>1. CASE e.ver < version[d] /\ bornAt'[d][e.ver + 1] = bornAt[d][e.ver + 1]
        BY <3>4, <4>1
      <4>2. CASE bornAt'[d][e.ver + 1] = now
        BY <1>4, <3>3, <3>4, <4>2, Numbers
      <4> QED BY <1>7, <3>3, <3>6, <4>1, <4>2
    <3> QED BY <3>4, <3>5, <3>6
  <2> QED BY <1>2, <2>1, <2>2 DEF Good, Redis
<1>10. StoresGood'
  <2>1. Stores' = Stores
    BY <1>2 DEF Stores, Redis
  <2>2. ASSUME NEW z \in Stores PROVE Good(store[z])'
    <3>1. PICK o : o = store'[z] /\ o = store[z]
      BY <1>2
    <3>2. Good(o)'
      BY <1>9, <3>1 DEF IInv, StoresGood
    <3> QED BY <3>1, <3>2
  <2> QED BY <1>2, <2>1, <2>2 DEF IInv, StoresGood
<1>11. ASSUME NEW q \in Procs PROVE Request(q)'
  <2>1. CASE q = p
    <3>1. \/ pc'[p] = "invalidate" /\ readAt'[p] = now
          \/ pc'[p] = "done"
      BY <1>2 DEF IInv, Typed
    <3>2. at'[p] = at[p] /\ want'[p] = c /\ now' = now
      BY <1>1, <1>2
    <3> QED BY <1>3, <1>4, <2>1, <3>1, <3>2, Numbers DEF Request
  <2>2. CASE q # p
    <3>1. /\ pc'[q] = pc[q] /\ at'[q] = at[q] /\ want'[q] = want[q] /\ got'[q] = got[q]
          /\ readAt'[q] = readAt[q] /\ now' = now
      BY <1>2, <2>2 DEF IInv, Typed
    <3>2. Request(q)
      BY DEF IInv
    <3>3. ASSUME pc[q] = "fill" PROVE CurrentAt(want[q], got[q], readAt[q])'
      <4>1. PICK d, v, t : d = want[q] /\ v = got[q] /\ t = readAt[q]
        OBVIOUS
      <4>2. d \in Counters /\ v \in Versions /\ v \in Nat /\ t \in Nat /\ t <= now
        BY <3>2, <3>3, <4>1, Numbers DEF IInv, Typed, Request, Versions, Times
      <4>3. v <= version[d] /\ (v < version[d] => t <= bornAt[d][v + 1])
        BY <3>2, <3>3, <4>1 DEF Request, CurrentAt
      <4>4. v <= version'[d]
        BY <1>8, <4>2, <4>3
      <4>5. ASSUME v < version'[d] PROVE t <= bornAt'[d][v + 1]
        BY <1>7, <4>2, <4>3, <4>5
      <4> QED BY <3>1, <4>1, <4>4, <4>5 DEF CurrentAt
    <3> QED BY <3>1, <3>2, <3>3 DEF Request
  <2> QED BY <2>1, <2>2
<1> QED BY <1>5, <1>10, <1>11 DEF IInv

LEMMA RestartInv ==
    ASSUME IInv, NEW r \in Replicas, Restart(r)
    PROVE  IInv'
<1>1. Backdrop
  BY DEF Restart, Backdrop
<1>2. /\ pc' = [p \in Procs |-> IF at[p] = r THEN "idle" ELSE pc[p]]
      /\ at' = [p \in Procs |-> IF at[p] = r THEN NoReplica ELSE at[p]]
      /\ want' = [p \in Procs |-> IF at[p] = r THEN NoCounter ELSE want[p]]
      /\ got' = [p \in Procs |-> IF at[p] = r THEN 0 ELSE got[p]]
      /\ readAt' = [p \in Procs |-> IF at[p] = r THEN 0 ELSE readAt[p]]
      /\ until' = [until EXCEPT ![r] = 0]
      /\ UNCHANGED <<backend, now, version, bornAt>>
  BY DEF Restart
<1>3. Typed'
  BY <1>2, Numbers DEF IInv, Typed, Stages, Versions, Times
<1>4. StoresGood'
  <2>1. CASE Redis
    BY <1>1, <2>1, StoresStill DEF Restart, IInv
  <2>2. CASE ~Redis
    <3>1. r \in Stores /\ store' = [store EXCEPT ![r] = EmptyStore]
      BY <2>2 DEF Restart, Stores
    <3>2. Good(EmptyStore)
      BY EmptyGood DEF IInv
    <3>3. StoresGood
      BY DEF IInv
    <3> QED BY <1>1, <3>1, <3>2, <3>3, StoresKept
  <2> QED BY <2>1, <2>2
<1>5. ASSUME NEW q \in Procs PROVE Request(q)'
  <2>1. CASE at[q] = r
    BY <1>2, <2>1 DEF Request
  <2>2. CASE at[q] # r
    <3>1. Same(q)
      BY <1>2, <2>2 DEF Same
    <3> QED BY <1>1, <3>1, OtherKept DEF IInv
  <2> QED BY <2>1, <2>2
<1> QED BY <1>3, <1>4, <1>5 DEF IInv

\* Time does not pass a request that has MaxLag behind it.
LEMMA TickInv ==
    ASSUME IInv, Tick
    PROVE  IInv'
<1>1. /\ now < MaxTime /\ now' = now + 1 /\ now \in Nat
      /\ \A p \in Procs : pc[p] \in {"fill", "invalidate"} => now < readAt[p] + MaxLag
      /\ UNCHANGED <<backend, version, bornAt, store, until, pc, at, want, got, readAt>>
  BY Numbers DEF Tick, IInv, Typed, Times
<1>2. Typed'
  <2>1. now' \in Times
    BY <1>1, Numbers DEF Times
  <2> QED BY <1>1, <2>1 DEF IInv, Typed
<1>3. ASSUME NEW st, Good(st) PROVE Good(st)'
  <2>1. /\ st \in StoreType /\ Tidy(st, Capacity)
        /\ backend = "redis" => Indexed(st)
    BY <1>3 DEF Good, Redis
  <2>2. ASSUME NEW c \in Counters PROVE Timely(c, st.entry[c])'
    <3>1. PICK e : e = st.entry[c]
      OBVIOUS
    <3>2. CASE e = NoEntry
      BY <3>1, <3>2 DEF Timely
    <3>3. CASE e # NoEntry
      <4>1. e.expires \in Nat
        BY <2>1, <3>1, <3>3, Numbers DEF StoreType, Entries
      <4>2. Timely(c, e)
        BY <1>3, <3>1 DEF Good
      <4>3. e.expires <= now' + TTL
        BY <1>1, <3>3, <4>1, <4>2, Numbers DEF Timely
      <4> QED BY <1>1, <3>1, <4>2, <4>3 DEF Timely
    <3> QED BY <3>2, <3>3
  <2> QED BY <1>1, <2>1, <2>2 DEF Good, Redis
<1>4. StoresGood'
  <2>1. Stores' = Stores
    BY <1>1 DEF Stores, Redis
  <2>2. ASSUME NEW z \in Stores PROVE Good(store[z])'
    <3>1. PICK o : o = store'[z] /\ o = store[z]
      BY <1>1
    <3>2. Good(o)'
      BY <1>3, <3>1 DEF IInv, StoresGood
    <3> QED BY <3>1, <3>2
  <2> QED BY <1>1, <2>1, <2>2 DEF IInv, StoresGood
<1>5. ASSUME NEW q \in Procs PROVE Request(q)'
  <2>1. Request(q) /\ readAt[q] \in Nat
    BY Numbers DEF IInv, Typed, Times
  <2>2. pc[q] \in {"fill", "invalidate"} => readAt[q] <= now' /\ now' <= readAt[q] + MaxLag
    BY <1>1, <2>1, Numbers DEF Request
  <2> QED BY <1>1, <2>1, <2>2 DEF Request, CurrentAt
<1> QED BY <1>2, <1>4, <1>5 DEF IInv

LEMMA InitInv == Init => IInv
<1> SUFFICES ASSUME Init PROVE IInv
  OBVIOUS
<1>1. Typed
  BY CacheAssumption, Numbers DEF Init, Typed, Times, Versions, Stages
<1>2. StoresGood
  <2>1. Good(EmptyStore)
    BY <1>1, EmptyGood
  <2>2. EmptyStore \in StoreType
    BY <2>1 DEF Good
  <2> QED BY <2>1, <2>2 DEF Init, StoresGood
<1>3. ASSUME NEW p \in Procs PROVE Request(p)
  BY DEF Init, Request
<1> QED BY <1>1, <1>2, <1>3 DEF IInv

LEMMA NextInv == IInv /\ [Next]_vars => IInv'
<1> SUFFICES ASSUME IInv, [Next]_vars PROVE IInv'
  OBVIOUS
<1>1. CASE UNCHANGED vars
  <2>1. Backdrop /\ Typed' /\ store' = store /\ \A q \in Procs : Same(q)
    BY <1>1 DEF vars, Backdrop, IInv, Typed, Same
  <2>2. \A q \in Procs : Request(q)'
    BY <2>1, OtherKept DEF IInv
  <2> QED BY <2>1, <2>2, StoresStill DEF IInv
<1>2. ASSUME NEW p \in Procs, NEW r \in Replicas, NEW c \in Counters,
             StartRead(p, r, c) \/ StartWrite(p, r, c)
      PROVE  IInv'
  BY <1>2, StartInv DEF StartRead, StartWrite
<1>3. ASSUME NEW p \in Procs,
             \/ GetHit(p) \/ GetMiss(p) \/ Load(p) \/ Fill(p)
             \/ Commit(p) \/ Invalidate(p) \/ Recycle(p)
      PROVE  IInv'
  BY <1>3, GetHitInv, GetMissInv, LoadInv, FillInv, CommitInv, InvalidateInv, RecycleInv
<1>4. ASSUME NEW r \in Replicas, Restart(r) PROVE IInv'
  BY <1>4, RestartInv
<1>5. CASE Tick
  BY <1>5, TickInv
<1> QED BY <1>1, <1>2, <1>3, <1>4, <1>5 DEF Next

LEMMA Invariance == Spec => []IInv
BY InitInv, NextInv, PTL DEF Spec

------------------------------------------------------------------------------
(* Theorems.                                                               *)

\* Every variable of the cache and of its requests keeps its type; in
\* particular no entry outlives the clock by more than TTL.
THEOREM CacheTypes == Spec => []TypeOK
<1>1. IInv => TypeOK
  BY DEF IInv, Typed, StoresGood, StoreType, TypeOK
<1> QED BY <1>1, Invariance, PTL

\* The structures of every store agree and keep to the capacity, for both
\* backends: a value is in the LRU, the LRU is one list without repetitions of
\* at most Capacity keys, and in Redis its keys are in the expiry index.
THEOREM CacheStructures == Spec => []StoreConsistent
<1>1. IInv => StoreConsistent
  BY DEF IInv, StoresGood, Good, Tidy, Indexed, StoreConsistent
<1> QED BY <1>1, Invariance, PTL

\* Only a hit answers a read without the database.
LEMMA OnlyHitAnswers ==
    ASSUME IInv, [Next]_vars, NEW p \in Procs, pc[p] = "get", pc'[p] = "done"
    PROVE  GetHit(p)
<1>1. CASE UNCHANGED vars
  BY <1>1 DEF vars
<1>2. ASSUME NEW q \in Procs, NEW r \in Replicas, NEW c \in Counters,
             StartRead(q, r, c) \/ StartWrite(q, r, c)
      PROVE  FALSE
  BY <1>2 DEF StartRead, StartWrite, Start, GoTo, IInv, Typed
<1>3. ASSUME NEW q \in Procs,
             \/ GetMiss(q) \/ Load(q) \/ Fill(q)
             \/ Commit(q) \/ Invalidate(q) \/ Recycle(q)
      PROVE  FALSE
  <2>1. /\ pc' \in {[pc EXCEPT ![q] = z] : z \in Stages}
        /\ pc'[q] = "done" => pc[q] # "get"
    BY <1>3 DEF GetMiss, Load, Fill, Commit, Invalidate, Recycle, GoTo, IInv, Typed, Stages
  <2> QED BY <2>1 DEF IInv, Typed
<1>4. ASSUME NEW q \in Procs, GetHit(q) PROVE GetHit(p)
  <2>1. pc' = [pc EXCEPT ![q] = "done"]
    BY <1>4 DEF GetHit, GoTo
  <2>2. q = p
    BY <2>1 DEF IInv, Typed
  <2> QED BY <1>4, <2>2
<1>5. ASSUME NEW r \in Replicas, Restart(r) PROVE FALSE
  BY <1>5 DEF Restart, IInv, Typed
<1>6. CASE Tick
  BY <1>6 DEF Tick
<1> QED BY <1>1, <1>2, <1>3, <1>4, <1>5, <1>6 DEF Next

\* Staleness is bounded for every number of replicas and requests and whatever
\* calls are lost: what counterService.Get serves from a cache was current, or
\* its successor was committed less than TTL + MaxLag ago.
THEOREM CacheStaleness == Spec => ServedRecent
<1> DEFINE Recent(p) ==
       pc[p] = "get" /\ pc'[p] = "done" =>
           \/ got'[p] = version[want[p]]
           \/ now < bornAt[want[p]][got'[p] + 1] + TTL + MaxLag
<1>1. ASSUME IInv, [Next]_vars, NEW p \in Procs PROVE Recent(p)
  <2>1. SUFFICES ASSUME pc[p] = "get", pc'[p] = "done" PROVE Recent(p)!2
    OBVIOUS
  <2>2. GetHit(p)
    BY <1>1, <2>1, OnlyHitAnswers
  <2>3. Good(store[Mine(p)]) /\ want[p] \in Counters
    BY <1>1, <2>1, MineStore
  <2>4. PICK e : e = store[Mine(p)].entry[want[p]]
    OBVIOUS
  <2>5. e # NoEntry /\ now < e.expires /\ got'[p] = e.ver
    BY <1>1, <2>2, <2>4 DEF GetHit, Servable, IInv, Typed
  <2>6. e.ver \in Nat /\ e.expires \in Nat /\ e.ver \in Versions
    BY <2>3, <2>4, <2>5, Numbers DEF Good, StoreType, Entries, Versions
  <2>7. Timely(want[p], e)
    BY <2>3, <2>4 DEF Good
  <2>8. CASE e.ver < version[want[p]]
    <3>1. bornAt[want[p]][e.ver + 1] \in Nat
      BY <1>1, <2>3, <2>6, <2>8, Numbers DEF IInv, Typed, Versions, Times
    <3>2. e.expires <= bornAt[want[p]][e.ver + 1] + MaxLag + TTL
      BY <2>5, <2>7, <2>8 DEF Timely
    <3>3. now \in Nat
      BY <1>1, Numbers DEF IInv, Typed, Times
    <3>4. now < bornAt[want[p]][e.ver + 1] + TTL + MaxLag
      BY <2>5, <2>6, <3>1, <3>2, <3>3, Numbers
    <3> QED BY <2>5, <3>4
  <2>9. CASE e.ver = version[want[p]]
    BY <2>5, <2>9
  <2>10. version[want[p]] \in Nat /\ e.ver <= version[want[p]]
    BY <1>1, <2>3, <2>5, <2>7, Numbers DEF IInv, Typed, Versions, Timely
  <2> QED BY <2>6, <2>8, <2>9, <2>10
<1>2. IInv /\ [Next]_vars => [\A p \in Procs : Recent(p)]_vars
  BY <1>1
<1> QED BY <1>2, Invariance, PTL DEF Spec, ServedRecent
==============================================================================
