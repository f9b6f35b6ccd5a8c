---------------------------- MODULE Serving_proofs ----------------------------
(***************************************************************************)
(* Proofs about Serving, for any number of connections, any limits and any *)
(* number of statements: types and bounds, the return of semaphore slots   *)
(* and pool connections, the answers of the probes, and that the process   *)
(* implements GracefulShutdown.                                            *)
(***************************************************************************)
EXTENDS Serving, FiniteSetTheorems, TLAPS

\* What a request holds at each stage of the chain.
Staged(c) ==
    /\ pc[c] \notin {"auth", "begin", "work", "save"} => db[c] = "none" /\ c \notin tx
    /\ pc[c] = "auth" => db[c] \in {"want", "own"} /\ c \notin tx
    /\ pc[c] = "begin" => \/ db[c] = "want" /\ c \notin tx
                          \/ db[c] = "joined" /\ c \in tx
    /\ pc[c] = "work" => IF c \in tx THEN db[c] \in {"none", "joined"} ELSE db[c] # "joined"
    /\ pc[c] = "save" => db[c] = "joined" /\ c \in tx

\* What is known of the request: routes are taken by kind, a readiness check
\* that pings began before the signal, a handler under a key runs inside the
\* transaction, and the response has no final status.
Routed(c) ==
    /\ pc[c] \in {"begin", "save"} => kind[c] = "keyed"
    /\ pc[c] = "work" /\ kind[c] = "ready" => since[c] = "up"
    /\ pc[c] = "work" /\ kind[c] = "keyed" => c \in tx
    /\ pc[c] # "reply" => status[c] \in {"unset", "created"}

\* How health follows main, and when there are connections.
MainSound ==
    /\ main \in {"up", "draining", "closing"} => health.alive
    /\ main \notin {"off", "up"} => ~ health.started \/ health.draining
    /\ main \in {"off", "stopped"} => Open = {}
    /\ main = "up" => \A c \in Conns : pc[c] \notin {"closed", "idle"} => since[c] = "up"

IInv ==
    /\ TypeOK
    /\ ResourcesReturned
    /\ \A c \in Conns : Staged(c)
    /\ \A c \in Conns : Routed(c)
    /\ MainSound
    /\ ProbesTruthful

\* A final status that ProbesTruthful allows request c.
Fit(c, s) ==
    /\ s \in Statuses
    /\ kind[c] = "ready" /\ s = "ok" => since[c] = "up"
    /\ s = "not_live" => main = "failed"

----------------------------------------------------------------------------
(* Counting.                                                                *)

LEMMA Counts ==
    ASSUME NEW S \in SUBSET Conns, NEW c \in Conns
    PROVE  /\ IsFiniteSet(S)
           /\ Cardinality(S) \in Nat
           /\ Cardinality(S \cup {c}) = IF c \in S THEN Cardinality(S) ELSE Cardinality(S) + 1
           /\ Cardinality(S \ {c}) = IF c \in S THEN Cardinality(S) - 1 ELSE Cardinality(S)
           /\ c \in S => Cardinality(S) > 0
  <1>1. IsFiniteSet(S)
    BY ServingAssumption, FS_Subset
  <1>2. Cardinality(S) \in Nat
    BY <1>1, FS_CardinalityType
  <1>3. Cardinality(S \cup {c}) = IF c \in S THEN Cardinality(S) ELSE Cardinality(S) + 1
    BY <1>1, FS_AddElement
  <1>4. Cardinality(S \ {c}) = IF c \in S THEN Cardinality(S) - 1 ELSE Cardinality(S)
    BY <1>1, FS_RemoveElement
  <1>5. c \in S => Cardinality(S) > 0
    BY <1>1, <1>2, FS_EmptySet
  <1> QED  BY <1>1, <1>2, <1>3, <1>4, <1>5

LEMMA SiteType ==
    ASSUME TypeOK
    PROVE  site.server \in Nat /\ site.max \in Nat /\ site.pool \in Nat
  BY ServingAssumption DEF TypeOK

----------------------------------------------------------------------------
(* The forms that steps of a request have.                                  *)

\* Returning from the chain gives back what the request held.
LEMMA LeaveStep ==
    ASSUME IInv, NEW c \in Conns, pc[c] \in Inside, NEW s, Fit(c, s), Leave(c, s)
    PROVE  IInv'
  <1>1. Below' = Below \ {c} /\ c \in Below /\ Below \in SUBSET Conns
    BY DEF IInv, TypeOK, Leave, Below, Inside
  <1>2. Owning' = Owning \ {c} /\ Owning \in SUBSET Conns
    BY DEF IInv, TypeOK, Leave, Owning
  <1>3. tx' = tx \ {c} /\ tx \in SUBSET Conns
    BY DEF IInv, TypeOK, Leave
  <1>4. /\ Cardinality(Below') = Cardinality(Below) - 1
        /\ Cardinality(Below) \in Nat /\ Cardinality(Below) > 0
    BY <1>1, Counts
  <1>5. /\ Cardinality(tx') + Cardinality(Owning') = Cardinality(tx) + Cardinality(Owning) - Held(c)
        /\ Cardinality(tx) \in Nat /\ Cardinality(Owning) \in Nat
        /\ Cardinality(tx') \in Nat /\ Cardinality(Owning') \in Nat
        /\ Held(c) \in Nat
    <2>1. c \in Owning <=> db[c] = "own"
      BY DEF Owning
    <2>2. Cardinality(tx) \in Nat /\ Cardinality(Owning) \in Nat
      BY <1>2, <1>3, Counts
    <2>3. /\ Cardinality(tx') = IF c \in tx THEN Cardinality(tx) - 1 ELSE Cardinality(tx)
          /\ c \in tx => Cardinality(tx) > 0
      BY <1>3, Counts
    <2>4. /\ Cardinality(Owning') = IF c \in Owning THEN Cardinality(Owning) - 1 ELSE Cardinality(Owning)
          /\ c \in Owning => Cardinality(Owning) > 0
      BY <1>2, Counts
    <2> QED  BY <2>1, <2>2, <2>3, <2>4 DEF Held
  <1>12. /\ used \in Nat /\ site.pool \in Nat /\ used <= site.pool
         /\ used = Cardinality(tx) + Cardinality(Owning)
         /\ used' = used - Held(c)
    BY SiteType DEF IInv, TypeOK, ResourcesReturned, Leave
  <1>6. TypeOK'
    <2>1. sem' \in 0 .. site.max
      <3>1. sem \in 0 .. site.max /\ sem = Cardinality(Below) /\ sem' = sem - 1
        BY DEF IInv, TypeOK, ResourcesReturned, Leave
      <3> QED  BY <1>4, <3>1, SiteType DEF IInv
    <2>2. used' \in 0 .. site.pool
      BY <1>5, <1>12
    <2> QED  BY <2>1, <2>2, ServingAssumption DEF IInv, TypeOK, Leave, Fit, process, Inside
  <1>7. ResourcesReturned'
    <2>1. sem' = Cardinality(Below')
      BY <1>4 DEF IInv, ResourcesReturned, Leave
    <2>2. used' = Cardinality(tx') + Cardinality(Owning')
      BY <1>5, <1>12
    <2>3. (tx \cup Owning \subseteq Below)'
      BY <1>1, <1>2, <1>3 DEF IInv, ResourcesReturned
    <2>4. ASSUME NEW d \in Conns, db'[d] = "want" PROVE Held(d)' = 0
      BY <2>4 DEF IInv, TypeOK, ResourcesReturned, Leave, Held
    <2> QED  BY <2>1, <2>2, <2>3, <2>4 DEF ResourcesReturned
  <1>8. \A d \in Conns : Staged(d)'
    BY DEF IInv, TypeOK, Leave, Staged
  <1>9. \A d \in Conns : Routed(d)'
    BY DEF IInv, TypeOK, Leave, Routed
  <1>10. MainSound'
    BY DEF IInv, TypeOK, Leave, MainSound, Open, Inside, process
  <1>11. ProbesTruthful'
    BY DEF IInv, TypeOK, Leave, ProbesTruthful, Fit, process
  <1> QED  BY <1>6, <1>7, <1>8, <1>9, <1>10, <1>11 DEF IInv

\* A step that borrows nothing, outside the chain or between its first stages.
LEMMA GoToStep ==
    ASSUME IInv, NEW c \in Conns, NEW l, GoTo(c, l),
           \/ {pc[c], l} \subseteq {"closed", "idle"} /\ (main \in {"off", "stopped"} => l = "closed")
           \/ {pc[c], l} \subseteq {"cors", "limit", "route"}
    PROVE  IInv'
  <1>1. TypeOK'
    BY ServingAssumption DEF IInv, TypeOK, GoTo, process, request, Inside, Mains, Statuses, Kinds
  <1>2. Below' = Below /\ Owning' = Owning
    BY DEF IInv, TypeOK, Below, Owning, Staged, GoTo, Inside
  <1>3. ResourcesReturned'
    BY <1>2 DEF IInv, TypeOK, ResourcesReturned, Held, Staged, GoTo
  <1>4. \A d \in Conns : Staged(d)'
    BY DEF IInv, TypeOK, Staged, GoTo
  <1>5. \A d \in Conns : Routed(d)'
    BY DEF IInv, TypeOK, Routed, Staged, GoTo, request
  <1>6. MainSound'
    BY DEF IInv, TypeOK, MainSound, Open, GoTo, process, request, Inside
  <1>7. ProbesTruthful'
    BY DEF IInv, TypeOK, ProbesTruthful, GoTo, process, request
  <1> QED  BY <1>1, <1>3, <1>4, <1>5, <1>6, <1>7 DEF IInv

\* A request starts to wait for a connection.
LEMMA GoToDatabaseStep ==
    ASSUME IInv, NEW c \in Conns, NEW l, GoToDatabase(c, l),
           \/ pc[c] = "cors" /\ l = "auth"
           \/ pc[c] = "route" /\ l = "begin" /\ kind[c] = "keyed"
           \/ pc[c] = "route" /\ l = "work" /\ kind[c] = "ready" /\ since[c] = "up"
    PROVE  IInv'
  <1>1. TypeOK'
    BY ServingAssumption DEF IInv, TypeOK, GoToDatabase, process, request, Inside, Mains, Statuses, Kinds
  <1>2. Below' = Below /\ Owning' = Owning
    BY DEF IInv, TypeOK, Below, Owning, Staged, GoToDatabase, Inside
  <1>3. ResourcesReturned'
    BY <1>2 DEF IInv, TypeOK, ResourcesReturned, Held, Staged, GoToDatabase
  <1>4. \A d \in Conns : Staged(d)'
    BY DEF IInv, TypeOK, Staged, GoToDatabase
  <1>5. \A d \in Conns : Routed(d)'
    BY DEF IInv, TypeOK, Routed, Staged, GoToDatabase, request
  <1>6. MainSound'
    BY DEF IInv, TypeOK, MainSound, Open, GoToDatabase, process, request, Inside
  <1>7. ProbesTruthful'
    BY DEF IInv, TypeOK, ProbesTruthful, GoToDatabase, process, request
  <1> QED  BY <1>1, <1>3, <1>4, <1>5, <1>6, <1>7 DEF IInv

\* The handler starts, on its own or inside IdempotentMutation.
LEMMA StartHandlerStep ==
    ASSUME IInv, NEW c \in Conns, StartHandler(c),
           \/ pc[c] = "route" /\ kind[c] = "data"
           \/ pc[c] = "begin" /\ db[c] = "joined"
    PROVE  IInv'
  <1>1. TypeOK'
    BY ServingAssumption DEF IInv, TypeOK, StartHandler, process, request, Inside, Mains, Statuses, Kinds
  <1>2. Below' = Below /\ Owning' = Owning
    BY DEF IInv, TypeOK, Below, Owning, Staged, StartHandler, Inside
  <1>3. ResourcesReturned'
    BY <1>2 DEF IInv, TypeOK, ResourcesReturned, Held, Staged, StartHandler
  <1>4. \A d \in Conns : Staged(d)'
    BY DEF IInv, TypeOK, Staged, StartHandler
  <1>5. \A d \in Conns : Routed(d)'
    BY DEF IInv, TypeOK, Routed, Staged, StartHandler, request
  <1>6. MainSound'
    BY DEF IInv, TypeOK, MainSound, Open, StartHandler, process, request, Inside
  <1>7. ProbesTruthful'
    BY DEF IInv, TypeOK, ProbesTruthful, StartHandler, process, request
  <1> QED  BY <1>1, <1>3, <1>4, <1>5, <1>6, <1>7 DEF IInv

\* A request arrives; its response has no status yet.
LEMMA ArriveStep ==
    ASSUME IInv, NEW c \in Conns, NEW k \in Kinds, Arrive(c, k)
    PROVE  IInv'
  <1>1. TypeOK'
    BY ServingAssumption DEF IInv, TypeOK, Arrive, process, request, Inside, Mains, Statuses, Kinds
  <1>2. Below' = Below /\ Owning' = Owning
    BY DEF IInv, TypeOK, Below, Owning, Staged, Arrive, Inside
  <1>3. ResourcesReturned'
    BY <1>2 DEF IInv, TypeOK, ResourcesReturned, Held, Staged, Arrive
  <1>4. \A d \in Conns : Staged(d)'
    BY DEF IInv, TypeOK, Staged, Arrive
  <1>5. \A d \in Conns : Routed(d)'
    BY DEF IInv, TypeOK, Routed, Staged, Arrive, request
  <1>6. MainSound'
    BY DEF IInv, TypeOK, MainSound, Open, Arrive, process, request, Inside
  <1>7. ProbesTruthful'
    BY DEF IInv, TypeOK, ProbesTruthful, Arrive, process, request
  <1> QED  BY <1>1, <1>3, <1>4, <1>5, <1>6, <1>7 DEF IInv

\* The response leaves.
LEMMA ReplyStep ==
    ASSUME IInv, NEW c \in Conns, Reply(c)
    PROVE  IInv'
  <1>1. TypeOK'
    BY ServingAssumption DEF IInv, TypeOK, Reply, process, request, Inside, Mains, Statuses, Kinds
  <1>2. Below' = Below /\ Owning' = Owning
    BY DEF IInv, TypeOK, Below, Owning, Staged, Reply, Inside
  <1>3. ResourcesReturned'
    BY <1>2 DEF IInv, TypeOK, ResourcesReturned, Held, Staged, Reply
  <1>4. \A d \in Conns : Staged(d)'
    BY DEF IInv, TypeOK, Staged, Reply
  <1>5. \A d \in Conns : Routed(d)'
    BY DEF IInv, TypeOK, Routed, Staged, Reply, request
  <1>6. MainSound'
    BY DEF IInv, TypeOK, MainSound, Open, Reply, process, request, Inside
  <1>7. ProbesTruthful'
    BY DEF IInv, TypeOK, ProbesTruthful, Reply, process, request
  <1> QED  BY <1>1, <1>3, <1>4, <1>5, <1>6, <1>7 DEF IInv

\* A request is refused by the semaphore and has taken nothing.
LEMMA RefuseStep ==
    ASSUME IInv, NEW c \in Conns, Refuse(c)
    PROVE  IInv'
  <1>1. TypeOK'
    BY ServingAssumption DEF IInv, TypeOK, Refuse, process, request, Inside, Mains, Statuses, Kinds
  <1>2. Below' = Below /\ Owning' = Owning
    BY DEF IInv, TypeOK, Below, Owning, Staged, Refuse, Inside
  <1>3. ResourcesReturned'
    BY <1>2 DEF IInv, TypeOK, ResourcesReturned, Held, Staged, Refuse
  <1>4. \A d \in Conns : Staged(d)'
    BY DEF IInv, TypeOK, Staged, Refuse
  <1>5. \A d \in Conns : Routed(d)'
    BY DEF IInv, TypeOK, Routed, Staged, Refuse, request
  <1>6. MainSound'
    BY DEF IInv, TypeOK, MainSound, Open, Refuse, process, request, Inside
  <1>7. ProbesTruthful'
    BY DEF IInv, TypeOK, ProbesTruthful, Refuse, process, request
  <1> QED  BY <1>1, <1>3, <1>4, <1>5, <1>6, <1>7 DEF IInv

\* A statement joins the transaction of its request or waits for a connection.
LEMMA AskStep ==
    ASSUME IInv, NEW c \in Conns, Ask(c)
    PROVE  IInv'
  <1>1. TypeOK'
    BY ServingAssumption DEF IInv, TypeOK, Ask, process, request, Inside, Mains, Statuses, Kinds
  <1>2. Below' = Below /\ Owning' = Owning
    BY DEF IInv, TypeOK, Below, Owning, Staged, Ask, Inside
  <1>3. ResourcesReturned'
    BY <1>2 DEF IInv, TypeOK, ResourcesReturned, Held, Staged, Ask
  <1>4. \A d \in Conns : Staged(d)'
    BY DEF IInv, TypeOK, Staged, Ask
  <1>5. \A d \in Conns : Routed(d)'
    BY DEF IInv, TypeOK, Routed, Staged, Ask, request
  <1>6. MainSound'
    BY DEF IInv, TypeOK, MainSound, Open, Ask, process, request, Inside
  <1>7. ProbesTruthful'
    BY DEF IInv, TypeOK, ProbesTruthful, Ask, process, request
  <1> QED  BY <1>1, <1>3, <1>4, <1>5, <1>6, <1>7 DEF IInv

\* The handler has succeeded under a key: the replay record is written in the
\* transaction of the request.
LEMMA SaveStep ==
    ASSUME IInv, NEW c \in Conns, pc[c] = "work", kind[c] = "keyed", db[c] = "none",
           pc' = [pc EXCEPT ![c] = "save"],
           NEW s \in {"unset", "created"}, status' = [status EXCEPT ![c] = s],
           db' = [db EXCEPT ![c] = "joined"],
           UNCHANGED <<process, used, sem, kind, since, left, tx>>
    PROVE  IInv'
  <1>1. Below' = Below /\ Owning' = Owning
    BY DEF IInv, TypeOK, Below, Owning, Inside
  <1>2. TypeOK'
    BY DEF IInv, TypeOK, process, Inside, Statuses
  <1>3. ResourcesReturned'
    BY <1>1 DEF IInv, TypeOK, ResourcesReturned, Held
  <1>4. \A d \in Conns : Staged(d)'
    BY DEF IInv, TypeOK, Staged, Routed
  <1>5. \A d \in Conns : Routed(d)'
    BY DEF IInv, TypeOK, Routed
  <1>6. MainSound'
    BY DEF IInv, TypeOK, MainSound, Open, process
  <1>7. ProbesTruthful'
    BY DEF IInv, TypeOK, ProbesTruthful, process
  <1> QED  BY <1>2, <1>3, <1>4, <1>5, <1>6, <1>7 DEF IInv

\* Admission counts the request, within the limit.
LEMMA AdmitStep ==
    ASSUME IInv, NEW c \in Conns, Admit(c)
    PROVE  IInv'
  <1>1. /\ Below' = Below \cup {c} /\ c \notin Below /\ Below \in SUBSET Conns
        /\ Owning' = Owning /\ tx' = tx
    BY DEF IInv, TypeOK, Admit, Below, Owning, Inside
  <1>2. Cardinality(Below) \in Nat /\ Cardinality(Below') = Cardinality(Below) + 1
    BY <1>1, Counts
  <1>3. /\ sem \in Nat /\ site.max \in Nat /\ sem < site.max
        /\ sem = Cardinality(Below) /\ sem' = sem + 1
    BY SiteType DEF IInv, TypeOK, ResourcesReturned, Admit
  <1>4. TypeOK'
    BY <1>3 DEF IInv, TypeOK, Admit, process, request, Inside
  <1>5. ResourcesReturned'
    BY <1>1, <1>2, <1>3 DEF IInv, TypeOK, ResourcesReturned, Held, Admit
  <1>6. \A d \in Conns : Staged(d)'
    BY DEF IInv, TypeOK, Staged, Admit
  <1>7. \A d \in Conns : Routed(d)'
    BY DEF IInv, TypeOK, Routed, Staged, Admit, request
  <1>8. MainSound'
    BY DEF IInv, TypeOK, MainSound, Open, Admit, process, request, Inside
  <1>9. ProbesTruthful'
    BY DEF IInv, TypeOK, ProbesTruthful, Admit, process, request
  <1> QED  BY <1>4, <1>5, <1>6, <1>7, <1>8, <1>9 DEF IInv

\* A connection of the pool is lent once, within the pool.
LEMMA AcquireStep ==
    ASSUME IInv, NEW c \in Conns, Acquire(c)
    PROVE  IInv'
  <1>1. /\ Below' = Below /\ Below \in SUBSET Conns /\ c \in Below
        /\ tx \in SUBSET Conns /\ Owning \in SUBSET Conns
        /\ c \notin tx /\ c \notin Owning
        /\ \/ tx' = tx \cup {c} /\ Owning' = Owning
           \/ tx' = tx /\ Owning' = Owning \cup {c}
    BY DEF IInv, TypeOK, Staged, Acquire, Below, Owning, Inside
  <1>2. /\ Cardinality(tx) \in Nat /\ Cardinality(Owning) \in Nat
        /\ Cardinality(tx \cup {c}) = Cardinality(tx) + 1
        /\ Cardinality(Owning \cup {c}) = Cardinality(Owning) + 1
    BY <1>1, Counts
  <1>3. /\ used \in Nat /\ site.pool \in Nat /\ used < site.pool
        /\ used = Cardinality(tx) + Cardinality(Owning) /\ used' = used + 1
    BY SiteType DEF IInv, TypeOK, ResourcesReturned, Acquire
  <1>4. TypeOK'
    BY <1>3 DEF IInv, TypeOK, Acquire, process, request
  <1>5. ResourcesReturned'
    <2>1. used' = Cardinality(tx') + Cardinality(Owning')
      <3>1. CASE tx' = tx \cup {c} /\ Owning' = Owning
        BY <1>2, <1>3, <3>1
      <3>2. CASE tx' = tx /\ Owning' = Owning \cup {c}
        BY <1>2, <1>3, <3>2
      <3> QED  BY <1>1, <3>1, <3>2
    <2>2. (tx \cup Owning \subseteq Below)'
      BY <1>1 DEF IInv, ResourcesReturned
    <2>3. \A d \in Conns : (db[d] = "want" => Held(d) = 0)'
      BY DEF IInv, TypeOK, ResourcesReturned, Held, Acquire
    <2> QED  BY <1>1, <2>1, <2>2, <2>3 DEF IInv, ResourcesReturned, Acquire
  <1>6. \A d \in Conns : Staged(d)'
    BY DEF IInv, TypeOK, Staged, Acquire
  <1>7. \A d \in Conns : Routed(d)'
    BY DEF IInv, TypeOK, Routed, Staged, Acquire, request
  <1>8. MainSound'
    BY DEF IInv, TypeOK, MainSound, Open, Acquire, process, request, Inside
  <1>9. ProbesTruthful'
    BY DEF IInv, TypeOK, ProbesTruthful, Acquire, process, request
  <1> QED  BY <1>4, <1>5, <1>6, <1>7, <1>8, <1>9 DEF IInv

\* A statement outside the transaction of its request gives its connection back.
LEMMA ReturnStep ==
    ASSUME IInv, NEW c \in Conns, NEW l, Return(c, l), Running(c),
           \/ pc[c] = "auth" /\ l = "limit"
           \/ pc[c] = "work" /\ l = "work"
    PROVE  IInv'
  <1>1. /\ Below' = Below /\ tx' = tx /\ tx \in SUBSET Conns
        /\ Owning' = Owning \ {c} /\ Owning \in SUBSET Conns
    BY DEF IInv, TypeOK, Return, Below, Owning, Inside
  <1>2. c \in Owning <=> db[c] = "own"
    BY DEF Owning
  <1>3. /\ Cardinality(tx) \in Nat /\ Cardinality(Owning) \in Nat
        /\ Cardinality(Owning') = IF c \in Owning THEN Cardinality(Owning) - 1 ELSE Cardinality(Owning)
        /\ c \in Owning => Cardinality(Owning) > 0
    BY <1>1, Counts
  <1>4. /\ used \in Nat /\ site.pool \in Nat /\ used <= site.pool
        /\ used = Cardinality(tx) + Cardinality(Owning)
        /\ used' = IF c \in Owning THEN used - 1 ELSE used
    BY <1>2, SiteType DEF IInv, TypeOK, ResourcesReturned, Return
  <1>5. used' \in 0 .. site.pool /\ used' = Cardinality(tx') + Cardinality(Owning')
    BY <1>1, <1>3, <1>4
  <1>6. TypeOK'
    BY <1>5 DEF IInv, TypeOK, Return, process, request, Inside
  <1>7. ResourcesReturned'
    BY <1>1, <1>5 DEF IInv, TypeOK, ResourcesReturned, Held, Return
  <1>8. \A d \in Conns : Staged(d)'
    BY DEF IInv, TypeOK, Staged, Return, Running
  <1>9. \A d \in Conns : Routed(d)'
    BY DEF IInv, TypeOK, Routed, Staged, Return, Running, request
  <1>10. MainSound'
    BY DEF IInv, TypeOK, MainSound, Open, Return, process, request, Inside
  <1>11. ProbesTruthful'
    BY DEF IInv, TypeOK, ProbesTruthful, Return, process, request
  <1> QED  BY <1>6, <1>7, <1>8, <1>9, <1>10, <1>11 DEF IInv

----------------------------------------------------------------------------
(* The steps of main.                                                       *)

\* Start-up, with no connection yet.
LEMMA BootStep ==
    ASSUME IInv, Boot
    PROVE  IInv'
  <1>1. /\ UNCHANGED <<site, used, sem, pc, kind, since, left, status, db, tx>>
        /\ Below' = Below /\ Owning' = Owning /\ Open' = Open
    BY DEF Boot, requests, request, Below, Owning, Open
  <1>2. TypeOK'
    BY <1>1 DEF IInv, TypeOK, Boot, Mains
  <1>3. ResourcesReturned'
    BY <1>1 DEF IInv, ResourcesReturned, Held
  <1>4. (\A c \in Conns : Staged(c))' /\ (\A c \in Conns : Routed(c))'
    BY <1>1 DEF IInv, Staged, Routed
  <1>5. MainSound'
    BY <1>1 DEF IInv, TypeOK, MainSound, Open, Boot
  <1>6. ProbesTruthful'
    BY <1>1 DEF IInv, TypeOK, ProbesTruthful, MainSound, Open, Boot
  <1> QED  BY <1>2, <1>3, <1>4, <1>5, <1>6 DEF IInv

\* The signal withdraws readiness.
LEMMA SignalStep ==
    ASSUME IInv, Signal
    PROVE  IInv'
  <1>1. /\ UNCHANGED <<site, used, sem, pc, kind, since, left, status, db, tx>>
        /\ Below' = Below /\ Owning' = Owning /\ Open' = Open
    BY DEF Signal, requests, request, Below, Owning, Open
  <1>2. TypeOK'
    BY <1>1 DEF IInv, TypeOK, Signal, Mains
  <1>3. ResourcesReturned'
    BY <1>1 DEF IInv, ResourcesReturned, Held
  <1>4. (\A c \in Conns : Staged(c))' /\ (\A c \in Conns : Routed(c))'
    BY <1>1 DEF IInv, Staged, Routed
  <1>5. MainSound'
    BY <1>1 DEF IInv, TypeOK, MainSound, Open, Signal
  <1>6. ProbesTruthful'
    BY <1>1 DEF IInv, TypeOK, ProbesTruthful, MainSound, Open, Signal
  <1> QED  BY <1>2, <1>3, <1>4, <1>5, <1>6 DEF IInv

\* The listener closes.
LEMMA ShutdownStep ==
    ASSUME IInv, Shutdown
    PROVE  IInv'
  <1>1. /\ UNCHANGED <<site, used, sem, pc, kind, since, left, status, db, tx>>
        /\ Below' = Below /\ Owning' = Owning /\ Open' = Open
    BY DEF Shutdown, requests, request, Below, Owning, Open
  <1>2. TypeOK'
    BY <1>1 DEF IInv, TypeOK, Shutdown, Mains
  <1>3. ResourcesReturned'
    BY <1>1 DEF IInv, ResourcesReturned, Held
  <1>4. (\A c \in Conns : Staged(c))' /\ (\A c \in Conns : Routed(c))'
    BY <1>1 DEF IInv, Staged, Routed
  <1>5. MainSound'
    BY <1>1 DEF IInv, TypeOK, MainSound, Open, Shutdown
  <1>6. ProbesTruthful'
    BY <1>1 DEF IInv, TypeOK, ProbesTruthful, MainSound, Open, Shutdown
  <1> QED  BY <1>2, <1>3, <1>4, <1>5, <1>6 DEF IInv

\* The wait ends, with no connection open.
LEMMA DrainedStep ==
    ASSUME IInv, Drained
    PROVE  IInv'
  <1>1. /\ UNCHANGED <<site, used, sem, pc, kind, since, left, status, db, tx>>
        /\ Below' = Below /\ Owning' = Owning /\ Open' = Open
    BY DEF Drained, requests, request, Below, Owning, Open
  <1>2. TypeOK'
    BY <1>1 DEF IInv, TypeOK, Drained, MarkStopped, Mains
  <1>3. ResourcesReturned'
    BY <1>1 DEF IInv, ResourcesReturned, Held
  <1>4. (\A c \in Conns : Staged(c))' /\ (\A c \in Conns : Routed(c))'
    BY <1>1 DEF IInv, Staged, Routed
  <1>5. MainSound'
    BY <1>1 DEF IInv, TypeOK, MainSound, Open, Drained, MarkStopped
  <1>6. ProbesTruthful'
    BY <1>1 DEF IInv, TypeOK, ProbesTruthful, MainSound, Open, Drained, MarkStopped
  <1> QED  BY <1>2, <1>3, <1>4, <1>5, <1>6 DEF IInv

\* Serve fails under its requests.
LEMMA ServeFailsStep ==
    ASSUME IInv, ServeFails
    PROVE  IInv'
  <1>1. /\ UNCHANGED <<site, used, sem, pc, kind, since, left, status, db, tx>>
        /\ Below' = Below /\ Owning' = Owning /\ Open' = Open
    BY DEF ServeFails, requests, request, Below, Owning, Open
  <1>2. TypeOK'
    BY <1>1 DEF IInv, TypeOK, ServeFails, MarkStopped, Mains
  <1>3. ResourcesReturned'
    BY <1>1 DEF IInv, ResourcesReturned, Held
  <1>4. (\A c \in Conns : Staged(c))' /\ (\A c \in Conns : Routed(c))'
    BY <1>1 DEF IInv, Staged, Routed
  <1>5. MainSound'
    BY <1>1 DEF IInv, TypeOK, MainSound, Open, ServeFails, MarkStopped
  <1>6. ProbesTruthful'
    BY <1>1 DEF IInv, TypeOK, ProbesTruthful, MainSound, Open, ServeFails, MarkStopped
  <1> QED  BY <1>2, <1>3, <1>4, <1>5, <1>6 DEF IInv

\* The pool is closed.
LEMMA ClosePoolStep ==
    ASSUME IInv, ClosePool
    PROVE  IInv'
  <1>1. /\ UNCHANGED <<site, used, sem, pc, kind, since, left, status, db, tx>>
        /\ Below' = Below /\ Owning' = Owning /\ Open' = Open
    BY DEF ClosePool, requests, request, Below, Owning, Open
  <1>2. TypeOK'
    BY <1>1 DEF IInv, TypeOK, ClosePool, Mains
  <1>3. ResourcesReturned'
    BY <1>1 DEF IInv, ResourcesReturned, Held
  <1>4. (\A c \in Conns : Staged(c))' /\ (\A c \in Conns : Routed(c))'
    BY <1>1 DEF IInv, Staged, Routed
  <1>5. MainSound'
    BY <1>1 DEF IInv, TypeOK, MainSound, Open, ClosePool
  <1>6. ProbesTruthful'
    BY <1>1 DEF IInv, TypeOK, ProbesTruthful, MainSound, Open, ClosePool
  <1> QED  BY <1>2, <1>3, <1>4, <1>5, <1>6 DEF IInv

\* The process ends, and with it everything it held.
LEMMA EndStep ==
    ASSUME IInv, Exit \/ Kill
    PROVE  IInv'
  <1>1. /\ main' = "off" /\ pool' = "closed" /\ UNCHANGED <<site, health>> /\ AllClosed
    BY DEF Exit, Kill
  <1>2. Below' = {} /\ Owning' = {} /\ Open' = {} /\ tx' = {}
    BY <1>1 DEF AllClosed, Below, Owning, Open, Inside
  <1>3. TypeOK'
    BY <1>1, SiteType, ServingAssumption DEF IInv, TypeOK, AllClosed, Mains, Kinds, Statuses
  <1>4. ResourcesReturned'
    <2>1. Cardinality({}) = 0
      BY FS_EmptySet
    <2>2. sem' = Cardinality(Below') /\ used' = Cardinality(tx') + Cardinality(Owning')
      BY <1>1, <1>2, <2>1 DEF AllClosed
    <2> QED  BY <1>1, <1>2, <2>2 DEF ResourcesReturned, AllClosed
  <1>5. (\A c \in Conns : Staged(c))' /\ (\A c \in Conns : Routed(c))'
    BY <1>1 DEF AllClosed, Staged, Routed
  <1>6. MainSound' /\ ProbesTruthful'
    BY <1>1, <1>2 DEF MainSound, ProbesTruthful, AllClosed
  <1> QED  BY <1>3, <1>4, <1>5, <1>6 DEF IInv

----------------------------------------------------------------------------
(* The invariant.                                                           *)

LEMMA InitInv ==
    ASSUME Init
    PROVE  IInv
  <1>1. Below = {} /\ Owning = {} /\ Open = {} /\ tx = {}
    BY DEF Init, Below, Owning, Open, Inside
  <1>2. TypeOK
    <2>1. site.server \in Nat /\ site.max \in Nat /\ site.pool \in Nat
      BY ServingAssumption DEF Init
    <2> QED  BY <2>1, ServingAssumption DEF Init, TypeOK, Mains, Kinds, Statuses
  <1>3. ResourcesReturned
    <2>1. Cardinality({}) = 0
      BY FS_EmptySet
    <2>2. sem = Cardinality(Below) /\ used = Cardinality(tx) + Cardinality(Owning)
      BY <1>1, <2>1 DEF Init
    <2> QED  BY <1>1, <2>2 DEF ResourcesReturned, Init
  <1>4. (\A c \in Conns : Staged(c)) /\ (\A c \in Conns : Routed(c))
    BY DEF Init, Staged, Routed
  <1>5. MainSound /\ ProbesTruthful
    BY <1>1 DEF Init, MainSound, ProbesTruthful
  <1> QED  BY <1>2, <1>3, <1>4, <1>5 DEF IInv

\* Steps of a request, up to what the database answers.
LEMMA AdvanceStep ==
    ASSUME IInv, NEW c \in Conns, Advance(c)
    PROVE  IInv'
  <1>1. CASE Admit(c)  BY <1>1, AdmitStep
  <1>2. CASE Refuse(c)  BY <1>2, RefuseStep
  <1>3. CASE Preflight(c)
    BY <1>3, LeaveStep DEF Preflight, Fit, Statuses, Inside
  <1>4. CASE Authenticate(c)
    <2>1. CASE GoTo(c, "limit")
      BY <1>4, <2>1, GoToStep DEF Authenticate
    <2>2. CASE GoToDatabase(c, "auth")
      BY <1>4, <2>2, GoToDatabaseStep DEF Authenticate
    <2>3. CASE Leave(c, "client")
      BY <1>4, <2>3, LeaveStep DEF Authenticate, Fit, Statuses, Inside
    <2> QED  BY <1>4, <2>1, <2>2, <2>3 DEF Authenticate
  <1>5. CASE Limit(c)
    <2>1. CASE GoTo(c, "route")
      BY <1>5, <2>1, GoToStep DEF Limit
    <2>2. CASE Leave(c, "client")
      BY <1>5, <2>2, LeaveStep DEF Limit, Fit, Statuses, Inside
    <2> QED  BY <1>5, <2>1, <2>2 DEF Limit
  <1>6. CASE RouteLive(c)
    <2>1. ~ health.alive => main = "failed"
      BY <1>6 DEF RouteLive, IInv, TypeOK, MainSound, Open, Mains
    <2>2. CASE health.alive
      BY <1>6, <2>2, LeaveStep DEF RouteLive, Fit, Statuses, Inside
    <2>3. CASE ~ health.alive
      BY <1>6, <2>1, <2>3, LeaveStep DEF RouteLive, Fit, Statuses, Inside
    <2> QED  BY <2>2, <2>3
  <1>7. CASE RouteReady(c)
    <2>1. CASE health.started /\ ~ health.draining
      <3>1. since[c] = "up"
        BY <1>7, <2>1 DEF RouteReady, IInv, MainSound, Open
      <3> QED  BY <1>7, <2>1, <3>1, GoToDatabaseStep DEF RouteReady
    <2>2. CASE ~ (health.started /\ ~ health.draining)
      BY <1>7, <2>2, LeaveStep DEF RouteReady, Fit, Statuses, Inside
    <2> QED  BY <2>1, <2>2
  <1>8. CASE RouteData(c)
    <2>1. CASE Leave(c, "client")
      BY <1>8, <2>1, LeaveStep DEF RouteData, Fit, Statuses, Inside
    <2>2. CASE kind[c] = "data" /\ StartHandler(c)
      BY <1>8, <2>2, StartHandlerStep DEF RouteData
    <2>3. CASE kind[c] = "keyed" /\ GoToDatabase(c, "begin")
      BY <1>8, <2>3, GoToDatabaseStep DEF RouteData
    <2> QED  BY <1>8, <2>1, <2>2, <2>3 DEF RouteData
  <1>9. CASE Ask(c)  BY <1>9, AskStep
  <1>10. CASE Handled(c)
    <2>1. CASE Leave(c, "client")
      BY <1>10, <2>1, LeaveStep DEF Handled, Fit, Statuses, Inside
    <2>2. CASE kind[c] = "data" /\ Leave(c, "ok")
      BY <1>10, <2>2, LeaveStep DEF Handled, Fit, Statuses, Inside
    <2>3. CASE ~ Leave(c, "client") /\ ~ (kind[c] = "data" /\ Leave(c, "ok"))
      <3>1. PICK s \in {"unset", "created"} : status' = [status EXCEPT ![c] = s]
        BY <1>10, <2>3 DEF Handled
      <3> QED  BY <1>10, <2>3, <3>1, SaveStep DEF Handled
    <2> QED  BY <2>1, <2>2, <2>3
  <1>11. CASE Reply(c)  BY <1>11, ReplyStep
  <1>12. CASE CloseIdle(c)
    BY <1>12, GoToStep DEF CloseIdle
  <1> QED
    BY <1>1, <1>2, <1>3, <1>4, <1>5, <1>6, <1>7, <1>8, <1>9, <1>10, <1>11, <1>12 DEF Advance

\* Answers of the database.
LEMMA AnswerStep ==
    ASSUME IInv, NEW c \in Conns, Answer(c)
    PROVE  IInv'
  <1>1. CASE Acquire(c)  BY <1>1, AcquireStep
  <1>2. CASE Authenticated(c)
    <2>1. CASE Return(c, "limit")
      BY <1>2, <2>1, ReturnStep DEF Authenticated
    <2>2. CASE Leave(c, "client")
      BY <1>2, <2>2, LeaveStep DEF Authenticated, Fit, Statuses, Inside
    <2> QED  BY <1>2, <2>1, <2>2 DEF Authenticated
  <1>3. CASE Begun(c)
    <2>1. kind[c] = "keyed" /\ db[c] = "joined"
      BY <1>3 DEF Begun, Running, IInv, Staged, Routed
    <2>2. ASSUME NEW s \in {"ok", "client"}, Leave(c, s) PROVE IInv'
      BY <1>3, <2>1, <2>2, LeaveStep DEF Begun, Fit, Statuses, Inside
    <2>3. CASE StartHandler(c)
      BY <1>3, <2>1, <2>3, StartHandlerStep DEF Begun
    <2> QED  BY <1>3, <2>2, <2>3 DEF Begun
  <1>4. CASE Pinged(c)
    BY <1>4, LeaveStep DEF Pinged, Fit, Statuses, Inside, IInv, Routed
  <1>5. CASE StatementDone(c)
    BY <1>5, ReturnStep DEF StatementDone
  <1>6. CASE Saved(c)
    <2>1. kind[c] = "keyed" /\ status[c] \in {"unset", "created"} /\ pc[c] = "save"
      BY <1>6 DEF Saved, IInv, Routed
    <2> QED  BY <1>6, <2>1, LeaveStep DEF Saved, Fit, Statuses, Inside
  <1> QED  BY <1>1, <1>2, <1>3, <1>4, <1>5, <1>6 DEF Answer

LEMMA NextInv ==
    ASSUME IInv, [Next]_vars
    PROVE  IInv'
  <1>1. CASE UNCHANGED vars
    BY <1>1 DEF vars, process, request, IInv, TypeOK, ResourcesReturned, Held, Below, Owning,
        Staged, Routed, MainSound, Open, ProbesTruthful
  <1>2. CASE Boot \/ Signal \/ Shutdown \/ Drained \/ ServeFails \/ ClosePool \/ Exit \/ Kill
    BY <1>2, BootStep, SignalStep, ShutdownStep, DrainedStep, ServeFailsStep, ClosePoolStep, EndStep
  <1>3. ASSUME NEW c \in Conns, Connect(c) PROVE IInv'
    BY <1>3, GoToStep DEF Connect
  <1>4. ASSUME NEW c \in Conns, HangUp(c) PROVE IInv'
    BY <1>4, GoToStep DEF HangUp
  <1>5. ASSUME NEW c \in Conns, Expire(c) PROVE IInv'
    <2>1. pc[c] \in Inside
      BY <1>5 DEF Expire, IInv, TypeOK, Staged, Inside
    <2> QED  BY <1>5, <2>1, LeaveStep DEF Expire, Fit, Statuses
  <1>6. ASSUME NEW c \in Conns, Panic(c) PROVE IInv'
    <2>1. status[c] \in {"unset", "created"}
      BY <1>6 DEF Panic, IInv, Routed, Inside
    <2> QED  BY <1>6, <2>1, LeaveStep DEF Panic, Fit, Statuses
  <1> QED
    BY <1>1, <1>2, <1>3, <1>4, <1>5, <1>6, AdvanceStep, AnswerStep, ArriveStep DEF Next

LEMMA Invariance == Spec => []IInv
  BY InitInv, NextInv, PTL DEF Spec

----------------------------------------------------------------------------
(* Theorems.                                                                *)

\* Every variable of a server process keeps its type; the semaphore never
\* counts more than the router's limit, and no more connections are lent out
\* than the pool has.
THEOREM TypeCorrect == Spec => []TypeOK
  <1>1. IInv => TypeOK
    BY DEF IInv
  <1> QED  BY <1>1, Invariance, PTL

\* Semaphore slots and pool connections come back on every way out of the
\* chain, and no request waits for a connection while it holds one.
THEOREM NothingLeaks == Spec => []ResourcesReturned
  <1>1. IInv => ResourcesReturned
    BY DEF IInv
  <1> QED  BY <1>1, Invariance, PTL

\* No probe that arrives after the signal is answered ready, and liveness
\* holds until the process fails.
THEOREM ProbesHonest == Spec => []ProbesTruthful
  <1>1. IInv => ProbesTruthful
    BY DEF IInv
  <1> QED  BY <1>1, Invariance, PTL

----------------------------------------------------------------------------
(* Refinement.                                                              *)

\* What a request does between its arrival and its reply does not show.
LEMMA Hidden ==
    ASSUME TypeOK, NEW c \in Conns, NEW l, pc[c] # "closed", l # "closed",
           pc' = [pc EXCEPT ![c] = l] \/ pc' = pc, UNCHANGED process
    PROVE  UNCHANGED Graceful!gvars
  BY DEF TypeOK, process, Open, Graceful!gvars

\* The end of a connection is the end of the client's.
LEMMA Closes ==
    ASSUME TypeOK, NEW c \in Conns, pc[c] # "closed", pc' = [pc EXCEPT ![c] = "closed"],
           UNCHANGED process
    PROVE  Graceful!HangUp(c)
  BY DEF TypeOK, process, Open, Graceful!HangUp

LEMMA RequestRefines ==
    ASSUME TypeOK, \A c \in Conns : Staged(c), NEW c \in Conns,
           \/ Advance(c) \/ Answer(c) \/ Expire(c) \/ Panic(c)
           \/ \E k \in Kinds : Arrive(c, k)
    PROVE  UNCHANGED Graceful!gvars \/ Graceful!HangUp(c)
  <1>1. CASE \E s : Leave(c, s) /\ pc[c] # "closed"
    BY <1>1, Hidden DEF Leave
  <1>2. CASE \E l : (GoTo(c, l) \/ GoToDatabase(c, l) \/ Return(c, l)) /\ l # "closed" /\ pc[c] # "closed"
    BY <1>2, Hidden DEF GoTo, GoToDatabase, Return
  <1>3. CASE Admit(c) \/ Refuse(c) \/ Ask(c) \/ Acquire(c) \/ (pc[c] # "closed" /\ StartHandler(c))
    <2>1. pc[c] # "closed"
      BY <1>3 DEF Admit, Refuse, Ask, Acquire, Staged
    <2> QED  BY <1>3, <2>1, Hidden DEF Admit, Refuse, Ask, Acquire, StartHandler
  <1>4. CASE \E k \in Kinds : Arrive(c, k)
    BY <1>4, Hidden DEF Arrive
  <1>5. CASE Reply(c)
    <2>1. CASE pc' = [pc EXCEPT ![c] = "idle"]
      BY <1>5, <2>1, Hidden DEF Reply
    <2>2. CASE pc' = [pc EXCEPT ![c] = "closed"]
      BY <1>5, <2>2, Closes DEF Reply
    <2> QED  BY <1>5, <2>1, <2>2 DEF Reply
  <1>6. CASE CloseIdle(c)
    BY <1>6, Closes DEF CloseIdle, GoTo
  <1>7. CASE Handled(c)
    BY <1>1, <1>7, Hidden DEF Handled
  <1>8. CASE Preflight(c) \/ RouteLive(c) \/ Pinged(c) \/ Saved(c)
    BY <1>1, <1>8 DEF Preflight, RouteLive, Pinged, Saved
  <1>9. CASE Authenticate(c) \/ Limit(c)
    BY <1>1, <1>2, <1>9 DEF Authenticate, Limit
  <1>10. CASE RouteReady(c) \/ RouteData(c)
    BY <1>1, <1>2, <1>3, <1>10 DEF RouteReady, RouteData
  <1>11. CASE Authenticated(c) \/ Begun(c) \/ StatementDone(c)
    BY <1>1, <1>2, <1>3, <1>11 DEF Authenticated, Begun, StatementDone
  <1>12. CASE Expire(c) \/ Panic(c)
    <2>1. pc[c] # "closed"
      BY <1>12 DEF Expire, Panic, Staged, Inside
    <2> QED  BY <1>1, <1>12, <2>1 DEF Expire, Panic
  <1> QED
    BY <1>3, <1>4, <1>5, <1>6, <1>7, <1>8, <1>9, <1>10, <1>11, <1>12 DEF Advance, Answer

LEMMA MainRefines ==
    ASSUME TypeOK, \/ Boot \/ Signal \/ Shutdown \/ Drained \/ ServeFails
                   \/ ClosePool \/ Exit \/ Kill
    PROVE  Graceful!Next
  <1>1. CASE Boot
    BY <1>1 DEF Boot, requests, Open, StageOf, Graceful!Next, Graceful!Boot
  <1>2. CASE Signal
    BY <1>2 DEF Signal, requests, Open, StageOf, Graceful!Next, Graceful!Withdraw
  <1>3. CASE Shutdown
    BY <1>3 DEF Shutdown, requests, Open, StageOf, Graceful!Next, Graceful!CloseListener
  <1>4. CASE Drained
    BY <1>4 DEF Drained, requests, Open, StageOf, Graceful!Next, Graceful!Drained
  <1>5. CASE ServeFails
    BY <1>5 DEF ServeFails, requests, Open, StageOf, Graceful!Next, Graceful!Fail
  <1>6. CASE ClosePool
    BY <1>6 DEF ClosePool, requests, Open, StageOf, Graceful!Next, Graceful!ReleasePool
  <1>7. CASE Exit
    BY <1>7 DEF Exit, AllClosed, Open, StageOf, Graceful!Next, Graceful!Exit
  <1>8. CASE Kill
    BY <1>8 DEF Kill, TypeOK, Mains, AllClosed, Open, StageOf, Graceful!Next, Graceful!Kill
  <1> QED  BY <1>1, <1>2, <1>3, <1>4, <1>5, <1>6, <1>7, <1>8

\* A server process implements GracefulShutdown: on a signal it is withdrawn
\* from traffic, closes its listener, waits for every connection and closes the
\* pool under nobody, in this order.
THEOREM Refinement == Spec => RefinesGraceful
  <1>1. Init => Graceful!Init
    BY DEF Init, Graceful!Init, StageOf, Open
  <1>2. IInv /\ [Next]_vars => [Graceful!Next]_Graceful!gvars
    <2> SUFFICES ASSUME IInv, [Next]_vars PROVE [Graceful!Next]_Graceful!gvars
      OBVIOUS
    <2>1. CASE UNCHANGED vars
      BY <2>1 DEF vars, process, Open, Graceful!gvars
    <2>2. CASE Boot \/ Signal \/ Shutdown \/ Drained \/ ServeFails \/ ClosePool \/ Exit \/ Kill
      BY <2>2, MainRefines DEF IInv
    <2>3. ASSUME NEW c \in Conns, Connect(c) PROVE Graceful!Accept(c)
      BY <2>3 DEF Connect, GoTo, Open, StageOf, process, IInv, TypeOK, Graceful!Accept
    <2>4. ASSUME NEW c \in Conns, HangUp(c) PROVE Graceful!HangUp(c)
      BY <2>4, Closes DEF HangUp, GoTo, IInv
    <2>5. ASSUME NEW c \in Conns,
                 \/ Advance(c) \/ Answer(c) \/ Expire(c) \/ Panic(c)
                 \/ \E k \in Kinds : Arrive(c, k)
          PROVE  UNCHANGED Graceful!gvars \/ Graceful!HangUp(c)
      BY <2>5, RequestRefines DEF IInv
    <2> QED  BY <2>1, <2>2, <2>3, <2>4, <2>5 DEF Next, Graceful!Next
  <1> QED  BY <1>1, <1>2, Invariance, PTL DEF Spec, RefinesGraceful, Graceful!Spec
===============================================================================
