---------------------- MODULE IdempotentMutation_proofs ----------------------
(***************************************************************************)
(* Proofs about IdempotentMutation, for any requests, slots, lifetimes and *)
(* numbers of processes: types, one effect per key and lifetime, effect    *)
(* and record together, secrets shown once, and that a replay is honoured. *)
(*                                                                         *)
(* The argument is the advisory lock.  From the lock to the end of its     *)
(* transaction a request is the only one under its key, so what the purge  *)
(* and the lookup found out about the record still holds when the handler  *)
(* runs and when the commit replaces the record.                           *)
(***************************************************************************)
EXTENDS IdempotentMutation, TLAPS

\* A request in a transaction under a key, from its advisory lock to the end.
Holding(p) ==
    /\ pc[p] \in {"purge", "lookup", "handler", "record", "commit"}
    /\ req[p].slot # NoSlot

\* The requests at the stages of the wrapper carry a key.
Carried(p) ==
    /\ pc[p] # "idle" => req[p] \in Requests
    /\ pc[p] \in {"lock", "purge", "lookup", "record"} => req[p].slot # NoSlot

\* The handler's uncommitted row and its answer speak of the same new thing.
PendingRow(p) ==
    IF pc[p] \in {"record", "commit"}
    THEN /\ txRow[p] \in Rows
         /\ txRow[p].slot = req[p].slot /\ txRow[p].body = req[p].body
         /\ txRow[p].at = start[p] /\ txRow[p].id = resp[p].id
         /\ resp[p].secret => req[p].kind = "credential"
    ELSE txRow[p] = NoRow

\* Under a key the uncommitted replay record is that of the uncommitted row.
PendingRec(p) ==
    IF pc[p] = "commit" /\ req[p].slot # NoSlot
    THEN /\ txRec[p] \in Recs
         /\ txRec[p].hash = txRow[p].body /\ txRec[p].at = txRow[p].at
         /\ txRec[p].id = txRow[p].id /\ ~ txRec[p].secret
    ELSE txRec[p] = NoRec

\* Nobody else works under the key.
Locking(p) == Holding(p) => lock[req[p].slot] = p

\* The record of the key has run out by the time transaction p began.
Lapsed(p) ==
    \/ records[req[p].slot] = NoRec
    \/ Expired(records[req[p].slot], start[p])

\* What the wrapper has found out about the key still holds: the purge took
\* the record exactly if it had run out, and the handler runs only without one.
Looked(p) ==
    Holding(p) =>
        /\ pc[p] = "lookup" => (purged[p] <=> records[req[p].slot] # NoRec /\ Lapsed(p))
        /\ pc[p] \in {"handler", "record", "commit"} => Lapsed(p)

\* An answer with a secret is one handler's, and once it is final the row is
\* committed.
Secretive(p) ==
    resp[p].secret =>
        /\ pc[p] \in {"record", "commit", "done"}
        /\ resp[p].id \in 1 .. drawn
        /\ pc[p] = "done" => \E e \in created : e.id = resp[p].id
        /\ \A q \in Procs \ {p} : resp[q].secret => resp[q].id # resp[p].id

\* An advisory lock is held by a request under its key and in its transaction.
LockOwned ==
    \A s \in Slots, q \in Procs : lock[s] = q => Holding(q) /\ req[q].slot = s

Request(p) ==
    Carried(p) /\ PendingRow(p) /\ PendingRec(p) /\ Locking(p) /\ Looked(p)

\* The committed tables.
Tables == OncePerWindow /\ RecordMatchesEffect
Redactions == \A s \in Slots : records[s] # NoRec => ~ records[s].secret

IInv ==
    /\ TypeOK
    /\ \A p \in Procs : Request(p)
    /\ \A p \in Procs : Secretive(p)
    /\ LockOwned
    /\ Tables
    /\ Redactions

\* Nothing of request q changes.
Same(q) ==
    /\ pc'[q] = pc[q] /\ req'[q] = req[q] /\ start'[q] = start[q] /\ purged'[q] = purged[q]
    /\ txRow'[q] = txRow[q] /\ txRec'[q] = txRec[q] /\ resp'[q] = resp[q]

------------------------------------------------------------------------------
(* Facts that every step uses.                                             *)

LEMMA RequestFields ==
    ASSUME NEW r \in Requests
    PROVE  r.slot \in Slots \cup {NoSlot} /\ r.kind \in Kinds /\ r.body \in Bodies
  BY IdempotencyAssumption DEF RequestShape

LEMMA SlotOf ==
    ASSUME NEW p \in Procs, Request(p), pc[p] # "idle", req[p].slot # NoSlot
    PROVE  req[p].slot \in Slots
  BY RequestFields DEF Request, Carried

LEMMA HoldingSlot ==
    ASSUME NEW p \in Procs, Request(p), Holding(p)
    PROVE  req[p].slot \in Slots /\ lock[req[p].slot] = p
  BY SlotOf DEF Request, Locking, Holding

\* Two requests in their transactions have different keys.
LEMMA Exclusion ==
    ASSUME NEW p \in Procs, NEW q \in Procs, q # p,
           Request(p), Request(q), Holding(p), Holding(q)
    PROVE  req[q].slot # req[p].slot
  BY HoldingSlot

\* A request that a step leaves alone keeps what is known of it.
LEMMA OtherKept ==
    ASSUME NEW q \in Procs, Request(q), Same(q),
           Holding(q) => /\ lock'[req[q].slot] = lock[req[q].slot]
                         /\ records'[req[q].slot] = records[req[q].slot]
    PROVE  Request(q)'
  <1>1. Carried(q)' /\ PendingRow(q)' /\ PendingRec(q)'
    BY DEF Request, Same, Carried, PendingRow, PendingRec
  <1>2. Locking(q)'
    BY DEF Request, Same, Locking, Holding
  <1>3. Looked(q)'
    BY DEF Request, Same, Looked, Holding, Lapsed
  <1> QED  BY <1>1, <1>2, <1>3 DEF Request

\* A step that shows no new secret.
LEMMA SecretsKept ==
    ASSUME \A q \in Procs : Secretive(q), drawn \in Nat, drawn' \in Nat, drawn <= drawn',
           created \subseteq created',
           \A q \in Procs : resp'[q].secret =>
               /\ resp[q].secret /\ resp'[q].id = resp[q].id
               /\ pc'[q] \in {"record", "commit", "done"}
               /\ pc'[q] = "done" => pc[q] = "done" \/ \E e \in created' : e.id = resp'[q].id
    PROVE  \A q \in Procs : Secretive(q)'
  <1> SUFFICES ASSUME NEW q \in Procs, resp'[q].secret PROVE Secretive(q)'
    BY DEF Secretive
  <1>1. resp[q].id \in 1 .. drawn /\ resp'[q].id = resp[q].id
    BY DEF Secretive
  <1>2. resp'[q].id \in 1 .. drawn'
    BY <1>1
  <1>3. pc'[q] = "done" => \E e \in created' : e.id = resp'[q].id
    BY DEF Secretive
  <1>4. ASSUME NEW o \in Procs \ {q}, resp'[o].secret PROVE resp'[o].id # resp'[q].id
    BY <1>4 DEF Secretive
  <1> QED  BY <1>2, <1>3, <1>4 DEF Secretive

\* A step of one request that leaves the committed tables alone.
LEMMA LocalStep ==
    ASSUME IInv, TypeOK', NEW p \in Procs, UNCHANGED db,
           \A q \in Procs \ {p} : Same(q),
           \A s \in Slots : lock[s] \notin {p, NoProc} => lock'[s] = lock[s],
           \A s \in Slots : lock'[s] \in {lock[s], NoProc, p},
           \A s \in Slots : lock'[s] = p => Holding(p)' /\ req'[p].slot = s,
           Request(p)',
           \A q \in Procs : Secretive(q)'
    PROVE  IInv'
  <1>1. ASSUME NEW q \in Procs PROVE Request(q)'
    <2>1. CASE q # p
      <3>1. Holding(q) => /\ lock'[req[q].slot] = lock[req[q].slot]
                          /\ records'[req[q].slot] = records[req[q].slot]
        BY <2>1, HoldingSlot, IdempotencyAssumption DEF IInv, db
      <3> QED  BY <2>1, <3>1, OtherKept DEF IInv
    <2> QED  BY <2>1
  <1>2. LockOwned'
    <2> SUFFICES ASSUME NEW s \in Slots, NEW q \in Procs, lock'[s] = q
                 PROVE  Holding(q)' /\ req'[q].slot = s
      BY DEF LockOwned
    <2>1. CASE q # p
      <3>1. lock[s] = q /\ Same(q)
        BY <2>1, IdempotencyAssumption
      <3>2. Holding(q) /\ req[q].slot = s
        BY <3>1 DEF IInv, LockOwned
      <3> QED  BY <3>1, <3>2 DEF Same, Holding
    <2> QED  BY <2>1
  <1>3. Tables' /\ Redactions'
    BY DEF IInv, Tables, OncePerWindow, RecordMatchesEffect, Redactions, db
  <1> QED  BY <1>1, <1>2, <1>3 DEF IInv

------------------------------------------------------------------------------
(* One lemma per action.                                                   *)

LEMMA BeginStep ==
    ASSUME IInv, NEW p \in Procs, NEW r \in Requests, Begin(p, r)
    PROVE  IInv'
  <1>1. /\ pc[p] = "idle"
        /\ pc' = [pc EXCEPT ![p] = IF r.slot = NoSlot THEN "handler" ELSE "lock"]
        /\ req' = [req EXCEPT ![p] = r]
        /\ start' = [start EXCEPT ![p] = now]
        /\ UNCHANGED <<now, drawn, created, records, lock, purged, txRow, txRec, resp>>
    BY DEF Begin, GoTo, db
  <1>2. TypeOK'
    BY <1>1 DEF IInv, TypeOK, Stages
  <1>3. /\ pc'[p] = IF r.slot = NoSlot THEN "handler" ELSE "lock"
        /\ req'[p] = r
    BY <1>1 DEF IInv, TypeOK
  <1>4. \A q \in Procs \ {p} : Same(q)
    BY <1>1 DEF IInv, TypeOK, Same
  <1>5. ~ Holding(p)'
    BY <1>3 DEF Holding
  <1>6. Request(p)'
    BY <1>1, <1>3, <1>5 DEF IInv, Request, Carried, PendingRow, PendingRec, Locking, Looked
  <1>7. \A q \in Procs : Secretive(q)'
    <2>1. ~ resp[p].secret
      BY <1>1 DEF IInv, Secretive
    <2> QED  BY <1>1, <1>4, <2>1 DEF IInv, Secretive, Same
  <1>8. \A s \in Slots : lock[s] # p
    BY <1>1, IdempotencyAssumption DEF IInv, LockOwned, Holding
  <1> QED  BY <1>1, <1>2, <1>4, <1>6, <1>7, <1>8, LocalStep DEF db

LEMMA AcquireStep ==
    ASSUME IInv, NEW p \in Procs, Acquire(p)
    PROVE  IInv'
  <1>1. /\ pc[p] = "lock" /\ lock[req[p].slot] = NoProc
        /\ lock' = [lock EXCEPT ![req[p].slot] = p]
        /\ pc' = [pc EXCEPT ![p] = "purge"]
        /\ UNCHANGED <<now, drawn, created, records, req, start, purged, txRow, txRec, resp>>
    BY DEF Acquire, GoTo, db
  <1>2. req[p].slot \in Slots /\ req[p].slot # NoSlot
    BY <1>1, SlotOf DEF IInv, Request, Carried
  <1>3. TypeOK'
    BY <1>1, <1>2 DEF IInv, TypeOK, Stages
  <1>4. pc'[p] = "purge"
    BY <1>1 DEF IInv, TypeOK
  <1>5. \A q \in Procs \ {p} : Same(q)
    BY <1>1 DEF IInv, TypeOK, Same
  <1>6. /\ lock'[req[p].slot] = p
        /\ \A s \in Slots : s # req[p].slot => lock'[s] = lock[s]
    BY <1>1, <1>2 DEF IInv, TypeOK
  <1>7. Request(p)'
    BY <1>1, <1>2, <1>4, <1>6
       DEF IInv, Request, Carried, PendingRow, PendingRec, Locking, Looked, Holding
  <1>8. \A q \in Procs : Secretive(q)'
    <2>1. ~ resp[p].secret
      BY <1>1 DEF IInv, Secretive
    <2> QED  BY <1>1, <1>5, <2>1 DEF IInv, Secretive, Same
  <1>9. \A s \in Slots : lock[s] # p
    BY <1>1, IdempotencyAssumption DEF IInv, LockOwned, Holding
  <1>10. Holding(p)'
    BY <1>1, <1>2, <1>4 DEF Holding
  <1> QED  BY <1>1, <1>3, <1>5, <1>6, <1>7, <1>8, <1>9, <1>10, LocalStep DEF db

LEMMA PurgeStep ==
    ASSUME IInv, NEW p \in Procs, Purge(p)
    PROVE  IInv'
  <1> DEFINE rec == records[req[p].slot]
  <1>1. /\ pc[p] = "purge"
        /\ purged' = [purged EXCEPT ![p] = rec # NoRec /\ Expired(rec, start[p])]
        /\ pc' = [pc EXCEPT ![p] = "lookup"]
        /\ UNCHANGED <<now, drawn, created, records, lock, req, start, txRow, txRec, resp>>
    BY DEF Purge, GoTo, db
  <1>2. (rec # NoRec /\ Expired(rec, start[p])) \in BOOLEAN
    OBVIOUS
  <1>3. TypeOK'
    BY <1>1, <1>2 DEF IInv, TypeOK, Stages
  <1>4. pc'[p] = "lookup"
    BY <1>1 DEF IInv, TypeOK
  <1>5. purged'[p] <=> rec # NoRec /\ Expired(rec, start[p])
    BY <1>1 DEF IInv, TypeOK
  <1>6. \A q \in Procs \ {p} : Same(q)
    BY <1>1 DEF IInv, TypeOK, Same
  <1>7. Holding(p) /\ Holding(p)' /\ req[p].slot # NoSlot
    BY <1>1, <1>4 DEF IInv, Request, Carried, Holding
  <1>8. Request(p)'
    <2>1. Carried(p)' /\ PendingRow(p)' /\ PendingRec(p)' /\ Locking(p)'
      BY <1>1, <1>4, <1>7 DEF IInv, Request, Carried, PendingRow, PendingRec, Locking, Holding
    <2>2. Looked(p)'
      BY <1>1, <1>4, <1>5 DEF Looked, Lapsed
    <2> QED  BY <2>1, <2>2 DEF Request
  <1>9. \A q \in Procs : Secretive(q)'
    <2>1. ~ resp[p].secret
      BY <1>1 DEF IInv, Secretive
    <2> QED  BY <1>1, <1>6, <2>1 DEF IInv, Secretive, Same
  <1>10. \A s \in Slots : lock[s] = p => req[p].slot = s
    BY IdempotencyAssumption DEF IInv, LockOwned
  <1> QED  BY <1>1, <1>3, <1>6, <1>7, <1>8, <1>9, <1>10, LocalStep DEF db

LEMMA LookupMissStep ==
    ASSUME IInv, NEW p \in Procs, LookupMiss(p)
    PROVE  IInv'
  <1>1. /\ pc[p] = "lookup" /\ Saved(p) = NoRec
        /\ pc' = [pc EXCEPT ![p] = "handler"]
        /\ UNCHANGED <<now, drawn, created, records, lock, req, start, purged, txRow, txRec, resp>>
    BY DEF LookupMiss, GoTo, db
  <1>2. TypeOK'
    BY <1>1 DEF IInv, TypeOK, Stages
  <1>3. pc'[p] = "handler"
    BY <1>1 DEF IInv, TypeOK
  <1>4. \A q \in Procs \ {p} : Same(q)
    BY <1>1 DEF IInv, TypeOK, Same
  <1>5. Holding(p) /\ Holding(p)' /\ req[p].slot # NoSlot
    BY <1>1, <1>3 DEF IInv, Request, Carried, Holding
  <1>6. Lapsed(p)
    BY <1>1, <1>5 DEF IInv, Request, Looked, Saved, Lapsed
  <1>7. Request(p)'
    <2>1. Carried(p)' /\ PendingRow(p)' /\ PendingRec(p)' /\ Locking(p)'
      BY <1>1, <1>3, <1>5 DEF IInv, Request, Carried, PendingRow, PendingRec, Locking, Holding
    <2>2. Looked(p)'
      BY <1>1, <1>3, <1>6 DEF Looked, Lapsed
    <2> QED  BY <2>1, <2>2 DEF Request
  <1>8. \A q \in Procs : Secretive(q)'
    <2>1. ~ resp[p].secret
      BY <1>1 DEF IInv, Secretive
    <2> QED  BY <1>1, <1>4, <2>1 DEF IInv, Secretive, Same
  <1>9. \A s \in Slots : lock[s] = p => req[p].slot = s
    BY DEF IInv, LockOwned
  <1> QED  BY <1>1, <1>2, <1>4, <1>5, <1>7, <1>8, <1>9, LocalStep DEF db

LEMMA DrawnType == TypeOK => drawn \in Nat /\ MaxIds \in Nat
  BY IdempotencyAssumption DEF TypeOK

\* Every end without a commit, with an answer that holds no secret.
LEMMA RollBackStep ==
    ASSUME IInv, NEW p \in Procs, pc[p] \in InTx,
           NEW a \in Resps, ~ a.secret, RollBack(p, a)
    PROVE  IInv'
  <1>1. /\ lock' = [s \in Slots |-> IF lock[s] = p THEN NoProc ELSE lock[s]]
        /\ txRow' = [txRow EXCEPT ![p] = NoRow]
        /\ txRec' = [txRec EXCEPT ![p] = NoRec]
        /\ purged' = [purged EXCEPT ![p] = FALSE]
        /\ pc' = [pc EXCEPT ![p] = "done"]
        /\ resp' = [resp EXCEPT ![p] = a]
        /\ UNCHANGED <<now, drawn, created, records, req, start>>
    BY DEF RollBack, Close, GoTo, db
  <1>2. TypeOK'
    <2>1. lock' \in [Slots -> Procs \cup {NoProc}]
      BY <1>1 DEF IInv, TypeOK
    <2>2. purged' \in [Procs -> BOOLEAN]
      BY <1>1 DEF IInv, TypeOK
    <2> QED  BY <1>1, <2>1, <2>2 DEF IInv, TypeOK, Stages
  <1>3. pc'[p] = "done" /\ txRow'[p] = NoRow /\ txRec'[p] = NoRec /\ resp'[p] = a
    BY <1>1 DEF IInv, TypeOK
  <1>4. \A q \in Procs \ {p} : Same(q)
    BY <1>1 DEF IInv, TypeOK, Same
  <1>5. ~ Holding(p)' /\ pc[p] # "idle"
    BY <1>3 DEF Holding, InTx
  <1>6. Request(p)'
    BY <1>1, <1>3, <1>5 DEF IInv, Request, Carried, PendingRow, PendingRec, Locking, Looked
  <1>7. \A q \in Procs : Secretive(q)'
    <2>1. ASSUME NEW q \in Procs, resp'[q].secret
          PROVE  /\ resp[q].secret /\ resp'[q].id = resp[q].id
                 /\ pc'[q] \in {"record", "commit", "done"}
                 /\ pc'[q] = "done" => pc[q] = "done"
      BY <1>3, <1>4, <2>1 DEF IInv, Same, Secretive
    <2> QED  BY <1>1, <2>1, SecretsKept, DrawnType DEF IInv
  <1>8. \A s \in Slots : lock'[s] = IF lock[s] = p THEN NoProc ELSE lock[s]
    BY <1>1
  <1> QED  BY <1>1, <1>2, <1>4, <1>6, <1>7, <1>8, LocalStep, IdempotencyAssumption DEF db

LEMMA AnswerType ==
    ASSUME NEW s \in {"none", "reused", "refused", "unavailable"}
    PROVE  /\ Answer(s) \in Resps /\ ~ Answer(s).secret
           /\ Answer(s).status = s
  BY IdempotencyAssumption DEF Answer, Resps

\* The record that a lookup finds is the committed one, unless it was purged.
LEMMA SavedRecord ==
    ASSUME IInv, NEW p \in Procs, pc[p] = "lookup", Saved(p) # NoRec
    PROVE  /\ req[p].slot \in Slots /\ Saved(p) = records[req[p].slot]
           /\ Saved(p) \in Recs /\ ~ Saved(p).secret
  <1>1. req[p].slot \in Slots
    BY SlotOf DEF IInv, Request, Carried
  <1>2. Saved(p) = records[req[p].slot]
    BY DEF Saved
  <1> QED  BY <1>1, <1>2 DEF IInv, TypeOK, Redactions

LEMMA LookupReplayStep ==
    ASSUME IInv, NEW p \in Procs, LookupReplay(p)
    PROVE  IInv'
  <1> DEFINE a == [status |-> "ok", id |-> Saved(p).id, secret |-> Saved(p).secret, replayed |-> TRUE]
  <1>1. pc[p] = "lookup" /\ Saved(p) # NoRec /\ RollBack(p, a)
    BY DEF LookupReplay
  <1>2. Saved(p) \in Recs /\ ~ Saved(p).secret
    BY <1>1, SavedRecord
  <1>3. a \in Resps
    BY <1>2, IdempotencyAssumption DEF Recs, Resps, Ids
  <1>4. ~ a.secret
    BY <1>2
  <1>5. pc[p] \in InTx
    BY <1>1 DEF InTx, Stages
  <1> HIDE DEF a
  <1> QED  BY <1>1, <1>3, <1>4, <1>5, RollBackStep

LEMMA EndedStep ==
    ASSUME IInv, NEW p \in Procs,
           LookupReused(p) \/ HandlerRefused(p) \/ CommitFailed(p) \/ Fail(p)
    PROVE  IInv'
  <1>1. PICK s \in {"reused", "refused", "unavailable"} : pc[p] \in InTx /\ RollBack(p, Answer(s))
    BY DEF LookupReused, HandlerRefused, CommitFailed, Fail, InTx, Stages
  <1> QED  BY <1>1, AnswerType, RollBackStep

\* The handler's answer is the first to speak of its id.
LEMMA HandlerOkStep ==
    ASSUME IInv, NEW p \in Procs, HandlerOk(p)
    PROVE  IInv'
  <1> DEFINE r == req[p]
             row == [id |-> drawn + 1, slot |-> r.slot, kind |-> r.kind, body |-> r.body, at |-> start[p]]
             a == [status |-> "ok", id |-> drawn + 1, secret |-> r.kind = "credential", replayed |-> FALSE]
  <1>1. /\ pc[p] = "handler" /\ drawn < MaxIds /\ drawn' = drawn + 1
        /\ txRow' = [txRow EXCEPT ![p] = row]
        /\ resp' = [resp EXCEPT ![p] = a]
        /\ pc' = [pc EXCEPT ![p] = IF r.slot = NoSlot THEN "commit" ELSE "record"]
        /\ UNCHANGED <<now, created, records, lock, req, start, purged, txRec>>
    BY DEF HandlerOk, GoTo, db
  <1>2. r \in Requests /\ r.slot \in Slots \cup {NoSlot} /\ r.kind \in Kinds /\ r.body \in Bodies
    BY <1>1, RequestFields DEF IInv, Request, Carried
  <1>3. drawn \in Nat /\ MaxIds \in Nat /\ drawn + 1 \in Ids /\ drawn' \in 0 .. MaxIds
    BY <1>1, DrawnType DEF IInv, Ids
  <1>4. row \in Rows /\ a \in Resps
    <2>1. start[p] \in Times
      BY DEF IInv, TypeOK
    <2>2. (r.kind = "credential") \in BOOLEAN
      OBVIOUS
    <2>3. drawn + 1 \in 0 .. MaxIds
      BY <1>3 DEF Ids
    <2> QED  BY <1>2, <1>3, <2>1, <2>2, <2>3 DEF Rows, Resps
  <1>5. TypeOK'
    <2> HIDE DEF row, a
    <2> QED  BY <1>1, <1>3, <1>4 DEF IInv, TypeOK, Stages
  <1>6. /\ pc'[p] = IF r.slot = NoSlot THEN "commit" ELSE "record"
        /\ txRow'[p] = row /\ resp'[p] = a
    <2> HIDE DEF row, a
    <2> QED  BY <1>1 DEF IInv, TypeOK
  <1>7. \A q \in Procs \ {p} : Same(q)
    <2> HIDE DEF row, a
    <2> QED  BY <1>1 DEF IInv, TypeOK, Same
  <1>8. Request(p)'
    <2>1. Carried(p)'
      BY <1>1, <1>2, <1>6 DEF Carried
    <2>2. PendingRow(p)'
      <3>1. /\ row.slot = r.slot /\ row.body = r.body /\ row.at = start[p] /\ row.id = a.id
            /\ a.secret => r.kind = "credential"
        OBVIOUS
      <3>2. req'[p] = r /\ start'[p] = start[p]
        BY <1>1
      <3> HIDE DEF row, a, r
      <3> QED  BY <1>4, <1>6, <3>1, <3>2 DEF PendingRow
    <2>3. PendingRec(p)'
      BY <1>1, <1>6 DEF IInv, Request, PendingRec
    <2>4. Locking(p)' /\ Looked(p)'
      BY <1>1, <1>6 DEF IInv, Request, Locking, Looked, Holding, Lapsed
    <2> QED  BY <2>1, <2>2, <2>3, <2>4 DEF Request
  <1>9. ASSUME NEW q \in Procs, resp'[q].secret PROVE Secretive(q)'
    <2>1. CASE q = p
      <3>1. resp'[p].id = drawn + 1 /\ pc'[p] \in {"record", "commit"}
        BY <1>6
      <3>2. resp'[p].id \in 1 .. drawn'
        BY <1>1, <1>3, <3>1
      <3>3. ASSUME NEW o \in Procs \ {p}, resp'[o].secret PROVE resp'[o].id # resp'[p].id
        <4>1. resp'[o] = resp[o] /\ resp[o].id \in 1 .. drawn
          BY <1>7, <3>3 DEF IInv, Secretive, Same
        <4> QED  BY <1>3, <3>1, <4>1
      <3> QED  BY <2>1, <3>1, <3>2, <3>3 DEF Secretive
    <2>2. CASE q # p
      <3>1. /\ resp'[q] = resp[q] /\ pc'[q] = pc[q] /\ created' = created
            /\ resp[q].secret /\ resp[q].id \in 1 .. drawn
        BY <1>1, <1>7, <1>9, <2>2 DEF IInv, Secretive, Same
      <3>2. resp'[q].id \in 1 .. drawn' /\ resp'[q].id # drawn + 1
        BY <1>1, <1>3, <3>1
      <3>3. ASSUME NEW o \in Procs \ {q}, resp'[o].secret PROVE resp'[o].id # resp'[q].id
        <4>1. CASE o = p
          BY <1>6, <3>2, <4>1
        <4>2. CASE o # p
          BY <1>7, <3>1, <3>3, <4>2 DEF IInv, Secretive, Same
        <4> QED  BY <4>1, <4>2
      <3> QED  BY <3>1, <3>2, <3>3 DEF IInv, Secretive
    <2> QED  BY <2>1, <2>2
  <1>10. \A q \in Procs : Secretive(q)'
    BY <1>9 DEF Secretive
  <1>11. \A s \in Slots : lock[s] = p => Holding(p)' /\ req'[p].slot = s
    BY <1>1, <1>6 DEF IInv, LockOwned, Holding
  <1> QED  BY <1>1, <1>5, <1>7, <1>8, <1>10, <1>11, LocalStep DEF db

\* The saved response has lost its secret: only credentials have one.
LEMMA RecordStep ==
    ASSUME IInv, NEW p \in Procs, Record(p)
    PROVE  IInv'
  <1> DEFINE r == req[p]
             rec == [hash |-> RequestHash(r), id |-> resp[p].id,
                     secret |-> Redacted(r, resp[p]), at |-> start[p]]
  <1>1. /\ pc[p] = "record"
        /\ txRec' = [txRec EXCEPT ![p] = rec]
        /\ pc' = [pc EXCEPT ![p] = "commit"]
        /\ UNCHANGED <<now, drawn, created, records, lock, req, start, purged, txRow, resp>>
    BY DEF Record, GoTo, db
  <1>2. r \in Requests /\ r.slot # NoSlot /\ r.body \in Bodies
    BY <1>1, RequestFields DEF IInv, Request, Carried
  <1>3. /\ txRow[p] \in Rows /\ txRow[p].body = r.body
        /\ txRow[p].at = start[p] /\ txRow[p].id = resp[p].id
        /\ resp[p].secret => r.kind = "credential"
    BY <1>1 DEF IInv, Request, PendingRow
  <1>4. Redacted(r, resp[p]) = FALSE
    BY <1>3 DEF Redacted
  <1>5. rec \in Recs /\ rec.hash = r.body /\ rec.id = resp[p].id /\ rec.at = start[p] /\ ~ rec.secret
    BY <1>2, <1>3, <1>4 DEF Rows, Recs, RequestHash
  <1> HIDE DEF rec
  <1>6. TypeOK'
    BY <1>1, <1>5 DEF IInv, TypeOK, Stages
  <1>7. pc'[p] = "commit" /\ txRec'[p] = rec
    BY <1>1 DEF IInv, TypeOK
  <1>8. \A q \in Procs \ {p} : Same(q)
    BY <1>1 DEF IInv, TypeOK, Same
  <1>9. Holding(p) /\ Holding(p)'
    BY <1>1, <1>2, <1>7 DEF Holding
  <1>10. Request(p)'
    <2>1. Carried(p)' /\ PendingRow(p)'
      BY <1>1, <1>7 DEF IInv, Request, Carried, PendingRow
    <2>2. PendingRec(p)'
      BY <1>1, <1>2, <1>3, <1>5, <1>7 DEF PendingRec
    <2>3. Locking(p)' /\ Looked(p)'
      BY <1>1, <1>7, <1>9 DEF IInv, Request, Locking, Looked, Lapsed
    <2> QED  BY <2>1, <2>2, <2>3 DEF Request
  <1>11. \A q \in Procs : Secretive(q)'
    <2>1. ASSUME NEW q \in Procs, resp'[q].secret
          PROVE  /\ resp[q].secret /\ resp'[q].id = resp[q].id
                 /\ pc'[q] \in {"record", "commit", "done"}
                 /\ pc'[q] = "done" => pc[q] = "done"
      BY <1>1, <1>7, <1>8, <2>1 DEF IInv, Same, Secretive
    <2> QED  BY <1>1, <2>1, SecretsKept, DrawnType DEF IInv
  <1>12. \A s \in Slots : lock[s] = p => req'[p].slot = s
    BY <1>1 DEF IInv, LockOwned
  <1> QED  BY <1>1, <1>6, <1>8, <1>9, <1>10, <1>11, <1>12, LocalStep DEF db

LEMMA RecycleStep ==
    ASSUME IInv, NEW p \in Procs, Recycle(p)
    PROVE  IInv'
  <1>1. /\ pc[p] = "done"
        /\ pc' = [pc EXCEPT ![p] = "idle"]
        /\ req' = [req EXCEPT ![p] = NoReq]
        /\ start' = [start EXCEPT ![p] = 0]
        /\ resp' = [resp EXCEPT ![p] = Answer("none")]
        /\ UNCHANGED <<now, drawn, created, records, lock, purged, txRow, txRec>>
    BY DEF Recycle, GoTo, db
  <1>2. TypeOK'
    <2>1. 0 \in Times
      BY IdempotencyAssumption DEF Times
    <2> QED  BY <1>1, <2>1, AnswerType DEF IInv, TypeOK, Stages
  <1>3. pc'[p] = "idle" /\ resp'[p] = Answer("none")
    BY <1>1 DEF IInv, TypeOK
  <1>4. \A q \in Procs \ {p} : Same(q)
    BY <1>1 DEF IInv, TypeOK, Same
  <1>5. Request(p)'
    BY <1>1, <1>3
       DEF IInv, Request, Carried, PendingRow, PendingRec, Locking, Looked, Holding
  <1>6. \A q \in Procs : Secretive(q)'
    <2>1. ASSUME NEW q \in Procs, resp'[q].secret
          PROVE  /\ resp[q].secret /\ resp'[q].id = resp[q].id
                 /\ pc'[q] \in {"record", "commit", "done"}
                 /\ pc'[q] = "done" => pc[q] = "done"
      BY <1>3, <1>4, <2>1, AnswerType DEF IInv, Same, Secretive
    <2> QED  BY <1>1, <2>1, SecretsKept, DrawnType DEF IInv
  <1>7. \A s \in Slots : lock[s] # p
    BY <1>1 DEF IInv, LockOwned, Holding
  <1> QED  BY <1>1, <1>2, <1>4, <1>5, <1>6, <1>7, LocalStep DEF db

\* The commit.  The record of the key had run out when the transaction began,
\* so every earlier row under the key is a lifetime older.
LEMMA PublishStep ==
    ASSUME IInv, NEW p \in Procs, pc[p] = "commit", Publish(p), Close(p),
           pc' = [pc EXCEPT ![p] = "done"],
           NEW a \in Resps, a = resp[p] \/ ~ a.secret,
           resp' = [resp EXCEPT ![p] = a],
           UNCHANGED <<now, drawn, req, start>>
    PROVE  IInv'
  <1> DEFINE row == txRow[p]
             s == req[p].slot
  <1>1. /\ lock' = [t \in Slots |-> IF lock[t] = p THEN NoProc ELSE lock[t]]
        /\ txRow' = [txRow EXCEPT ![p] = NoRow]
        /\ txRec' = [txRec EXCEPT ![p] = NoRec]
        /\ purged' = [purged EXCEPT ![p] = FALSE]
        /\ created' = created \cup {row}
        /\ records' = IF txRec[p] = NoRec THEN records ELSE [records EXCEPT ![s] = txRec[p]]
    BY DEF Close, Publish
  <1>2. row \in Rows /\ row.slot = s /\ row.at = start[p] /\ row.id = resp[p].id
    BY DEF IInv, Request, PendingRow
  <1>3. s # NoSlot => /\ s \in Slots /\ Holding(p) /\ Lapsed(p)
                      /\ txRec[p] \in Recs /\ txRec[p] # NoRec
                      /\ txRec[p].hash = row.body /\ txRec[p].at = row.at
                      /\ txRec[p].id = row.id /\ ~ txRec[p].secret
    <2>1. s # NoSlot => Holding(p) /\ s \in Slots
      BY SlotOf DEF IInv, Holding
    <2> QED  BY <2>1, IdempotencyAssumption DEF IInv, Request, Looked, PendingRec
  <1>4. s = NoSlot => txRec[p] = NoRec
    BY DEF IInv, Request, PendingRec
  <1>5. \A t \in Slots : records'[t] = IF t = s THEN txRec[p] ELSE records[t]
    BY <1>1, <1>3, <1>4, IdempotencyAssumption DEF IInv, TypeOK
  <1>6. TypeOK'
    <2>1. records' \in [Slots -> Recs \cup {NoRec}]
      BY <1>1, <1>3, <1>4 DEF IInv, TypeOK
    <2>2. lock' \in [Slots -> Procs \cup {NoProc}]
      BY <1>1 DEF IInv, TypeOK
    <2>3. purged' \in [Procs -> BOOLEAN]
      BY <1>1 DEF IInv, TypeOK
    <2>4. created' \subseteq Rows
      BY <1>1, <1>2 DEF IInv, TypeOK
    <2> QED  BY <1>1, <2>1, <2>2, <2>3, <2>4 DEF IInv, TypeOK, Stages
  <1>7. pc'[p] = "done" /\ txRow'[p] = NoRow /\ txRec'[p] = NoRec /\ resp'[p] = a
    BY <1>1 DEF IInv, TypeOK
  <1>8. \A q \in Procs \ {p} : Same(q)
    BY <1>1 DEF IInv, TypeOK, Same
  <1>9. \A t \in Slots : lock'[t] = IF lock[t] = p THEN NoProc ELSE lock[t]
    BY <1>1
  <1>10. ASSUME NEW q \in Procs PROVE Request(q)'
    <2>1. CASE q = p
      <3>1. ~ Holding(p)'
        BY <1>7 DEF Holding
      <3> QED  BY <1>7, <2>1, <3>1
               DEF IInv, Request, Carried, PendingRow, PendingRec, Locking, Looked
    <2>2. CASE q # p
      <3>1. ASSUME Holding(q) PROVE /\ lock'[req[q].slot] = lock[req[q].slot]
                                    /\ records'[req[q].slot] = records[req[q].slot]
        <4>1. req[q].slot \in Slots /\ lock[req[q].slot] = q
          BY <3>1, HoldingSlot DEF IInv
        <4>2. req[q].slot # s
          <5>1. CASE s = NoSlot
            BY <4>1, <5>1, IdempotencyAssumption
          <5>2. CASE s # NoSlot
            BY <1>3, <2>2, <3>1, <5>2, Exclusion DEF IInv
          <5> QED  BY <5>1, <5>2
        <4> QED  BY <1>5, <1>9, <2>2, <4>1, <4>2
      <3> QED  BY <1>8, <2>2, <3>1, OtherKept DEF IInv
    <2> QED  BY <2>1, <2>2
  <1>11. \A q \in Procs : Secretive(q)'
    <2>1. created \subseteq created' /\ row \in created'
      BY <1>1
    <2>2. ASSUME NEW q \in Procs, resp'[q].secret
          PROVE  /\ resp[q].secret /\ resp'[q].id = resp[q].id
                 /\ pc'[q] \in {"record", "commit", "done"}
                 /\ pc'[q] = "done" => pc[q] = "done" \/ \E e \in created' : e.id = resp'[q].id
      <3>1. CASE q = p
        BY <1>2, <1>7, <2>1, <2>2, <3>1
      <3>2. CASE q # p
        BY <1>8, <2>2, <3>2 DEF IInv, Same, Secretive
      <3> QED  BY <3>1, <3>2
    <2> QED  BY <2>1, <2>2, SecretsKept, DrawnType DEF IInv
  <1>12. LockOwned'
    <2> SUFFICES ASSUME NEW t \in Slots, NEW q \in Procs, lock'[t] = q
                 PROVE  Holding(q)' /\ req'[q].slot = t
      BY DEF LockOwned
    <2>1. lock[t] = q /\ q # p
      BY <1>9, IdempotencyAssumption
    <2> QED  BY <1>8, <2>1 DEF IInv, LockOwned, Same, Holding
  \* Rows committed under the key are a lifetime older than the new one.
  <1>13. ASSUME NEW e \in created, e.slot = s, s # NoSlot
         PROVE  e.at + TTL <= row.at /\ e.at \in Nat /\ row.at \in Nat
    <2>1. e \in Rows /\ records[s] # NoRec /\ records[s].at >= e.at
      BY <1>13 DEF IInv, TypeOK, Tables, RecordMatchesEffect
    <2>2. records[s] \in Recs
      BY <1>3, <1>13, <2>1 DEF IInv, TypeOK
    <2>3. records[s].at + TTL <= row.at
      BY <1>2, <1>3, <1>13, <2>1 DEF Lapsed, Expired
    <2>4. e.at \in Nat /\ row.at \in Nat /\ records[s].at \in Nat /\ TTL \in Nat
      BY <1>2, <2>1, <2>2, IdempotencyAssumption DEF Rows, Recs, Times
    <2> QED  BY <2>1, <2>3, <2>4
  <1>14. OncePerWindow'
    <2> SUFFICES ASSUME NEW e \in created', NEW f \in created',
                        e # f, e.slot = f.slot, e.slot # NoSlot
                 PROVE  e.at >= f.at + TTL \/ f.at >= e.at + TTL
      BY DEF OncePerWindow
    <2>1. TTL \in Nat
      BY IdempotencyAssumption
    <2>2. CASE e \in created /\ f \in created
      BY <2>2 DEF IInv, Tables, OncePerWindow
    <2>3. CASE e \in created /\ f = row
      BY <1>2, <1>13, <2>1, <2>3
    <2>4. CASE e = row /\ f \in created
      BY <1>2, <1>13, <2>1, <2>4
    <2> QED  BY <1>1, <2>2, <2>3, <2>4
  <1>15. RecordMatchesEffect'
    <2>1. ASSUME NEW t \in Slots, records'[t] # NoRec
          PROVE  \E e \in created' : /\ e.slot = t /\ e.id = records'[t].id
                                     /\ e.body = records'[t].hash /\ e.at = records'[t].at
      <3>1. CASE t = s
        <4>1. records'[t] = txRec[p] /\ s # NoSlot /\ row \in created'
          BY <1>1, <1>5, <3>1, IdempotencyAssumption
        <4> QED  BY <1>2, <1>3, <3>1, <4>1
      <3>2. CASE t # s
        <4>1. records'[t] = records[t]
          BY <1>5, <3>2
        <4> QED  BY <1>1, <2>1, <4>1 DEF IInv, Tables, RecordMatchesEffect
      <3> QED  BY <3>1, <3>2
    <2>2. ASSUME NEW e \in created', e.slot # NoSlot
          PROVE  records'[e.slot] # NoRec /\ records'[e.slot].at >= e.at
      <3>1. e \in Rows /\ e.slot \in Slots
        BY <1>6, <2>2 DEF TypeOK, Rows
      <3>2. CASE e = row
        <4>1. records'[s] = txRec[p] /\ row.at \in Nat
          BY <1>2, <1>5, <3>1, <3>2 DEF Rows, Times
        <4> QED  BY <1>2, <1>3, <2>2, <3>2, <4>1
      <3>3. CASE e # row /\ e.slot = s
        <4>1. records'[s] = txRec[p] /\ e \in created
          BY <1>1, <1>5, <3>1, <3>3
        <4>2. e.at + TTL <= row.at /\ e.at \in Nat /\ row.at \in Nat /\ TTL \in Nat
          BY <1>13, <2>2, <3>3, <4>1, IdempotencyAssumption
        <4>3. row.at >= e.at
          BY <4>2
        <4> QED  BY <1>3, <2>2, <3>3, <4>1, <4>3
      <3>4. CASE e # row /\ e.slot # s
        <4>1. records'[e.slot] = records[e.slot] /\ e \in created
          BY <1>1, <1>5, <3>1, <3>4
        <4> QED  BY <2>2, <4>1 DEF IInv, Tables, RecordMatchesEffect
      <3> QED  BY <3>2, <3>3, <3>4
    <2> QED  BY <2>1, <2>2 DEF RecordMatchesEffect
  <1>16. Redactions'
    BY <1>3, <1>5, IdempotencyAssumption DEF IInv, Redactions
  <1> QED  BY <1>6, <1>10, <1>11, <1>12, <1>14, <1>15, <1>16 DEF IInv, Tables

LEMMA TickStep ==
    ASSUME IInv, Tick
    PROVE  IInv'
  <1>1. /\ now < MaxTime /\ now' = now + 1
        /\ UNCHANGED <<drawn, created, records, lock, pc, req, start, purged, txRow, txRec, resp>>
    BY DEF Tick, db
  <1>2. TypeOK'
    BY <1>1, IdempotencyAssumption DEF IInv, TypeOK, Times
  <1>3. ASSUME NEW q \in Procs PROVE Request(q)' /\ Secretive(q)'
    BY <1>1 DEF IInv, Request, Carried, PendingRow, PendingRec, Locking, Looked, Lapsed, Holding, Secretive
  <1>4. LockOwned' /\ Tables' /\ Redactions'
    BY <1>1 DEF IInv, LockOwned, Holding, Tables, OncePerWindow, RecordMatchesEffect, Redactions
  <1> QED  BY <1>2, <1>3, <1>4 DEF IInv

------------------------------------------------------------------------------
(* The theorems.                                                           *)

LEMMA InitInv == Init => IInv
  <1> SUFFICES ASSUME Init PROVE IInv
    OBVIOUS
  <1>1. TypeOK
    BY IdempotencyAssumption, AnswerType DEF Init, TypeOK, Stages, Times
  <1>2. ASSUME NEW p \in Procs PROVE Request(p)
    BY DEF Init, Request, Carried, PendingRow, PendingRec, Locking, Looked, Holding
  <1>3. ASSUME NEW p \in Procs PROVE Secretive(p)
    BY AnswerType DEF Init, Secretive
  <1>4. LockOwned /\ Tables /\ Redactions
    BY IdempotencyAssumption DEF Init, LockOwned, Tables, OncePerWindow, RecordMatchesEffect, Redactions
  <1> QED  BY <1>1, <1>2, <1>3, <1>4 DEF IInv

LEMMA NextInv == IInv /\ [Next]_vars => IInv'
  <1> SUFFICES ASSUME IInv, [Next]_vars PROVE IInv'
    OBVIOUS
  <1>1. CASE UNCHANGED vars
    <2>1. UNCHANGED <<now, drawn, created, records, lock, pc, req, start, purged, txRow, txRec, resp>>
      BY <1>1 DEF vars
    <2>2. TypeOK' /\ LockOwned' /\ Tables' /\ Redactions'
      BY <2>1 DEF IInv, TypeOK, LockOwned, Holding, Tables, OncePerWindow, RecordMatchesEffect, Redactions
    <2>3. ASSUME NEW q \in Procs PROVE Request(q)' /\ Secretive(q)'
      BY <2>1
         DEF IInv, Request, Carried, PendingRow, PendingRec, Locking, Looked, Lapsed, Holding, Secretive
    <2> QED  BY <2>2, <2>3 DEF IInv
  <1>2. ASSUME NEW p \in Procs, NEW r \in Requests, Begin(p, r) PROVE IInv'
    BY <1>2, BeginStep
  <1>3. ASSUME NEW p \in Procs, Advance(p) PROVE IInv'
    <2>1. CASE Acquire(p) \/ Purge(p) \/ LookupMiss(p)
      BY <2>1, AcquireStep, PurgeStep, LookupMissStep
    <2>2. CASE LookupReused(p) \/ HandlerRefused(p)
      BY <2>2, EndedStep
    <2>3. CASE LookupReplay(p)
      BY <2>3, LookupReplayStep
    <2>4. CASE HandlerOk(p) \/ Record(p)
      BY <2>4, HandlerOkStep, RecordStep
    <2>5. CASE Commit(p)
      <3>1. /\ pc[p] = "commit" /\ Publish(p) /\ Close(p) /\ pc' = [pc EXCEPT ![p] = "done"]
            /\ UNCHANGED <<now, drawn, req, start, resp>>
        BY <2>5 DEF Commit, GoTo
      <3>2. resp[p] \in Resps /\ resp' = [resp EXCEPT ![p] = resp[p]]
        BY <3>1 DEF IInv, TypeOK
      <3> QED  BY <3>1, <3>2, PublishStep
    <2> QED  BY <1>3, <2>1, <2>2, <2>3, <2>4, <2>5 DEF Advance
  <1>4. ASSUME NEW p \in Procs, CommitFailed(p) \/ Fail(p) PROVE IInv'
    BY <1>4, EndedStep
  <1>5. ASSUME NEW p \in Procs, CommitUnacknowledged(p) PROVE IInv'
    BY <1>5, PublishStep, AnswerType DEF CommitUnacknowledged, GoTo
  <1>6. ASSUME NEW p \in Procs, Recycle(p) PROVE IInv'
    BY <1>6, RecycleStep
  <1>7. CASE Tick
    BY <1>7, TickStep
  <1> QED  BY <1>1, <1>2, <1>3, <1>4, <1>5, <1>6, <1>7 DEF Next

LEMMA Invariance == Spec => []IInv
  BY InitInv, NextInv, PTL DEF Spec

\* Types hold in every reachable state: the hash of a saved request is always
\* its canonical form.
THEOREM IdempotencyTypes == Spec => []TypeOK
  <1>1. IInv => TypeOK
    BY DEF IInv
  <1> QED  BY <1>1, Invariance, PTL

\* Two rows created under one Idempotency-Key were begun at least TTL apart,
\* however requests overlap, fail between statements or are repeated.
THEOREM IdempotencyOncePerWindow == Spec => []OncePerWindow
  <1>1. IInv => OncePerWindow
    BY DEF IInv, Tables
  <1> QED  BY <1>1, Invariance, PTL

\* The handler's row and the replay record commit together: neither is ever
\* found without the other.
THEOREM IdempotencyRecordMatchesEffect == Spec => []RecordMatchesEffect
  <1>1. IInv => RecordMatchesEffect
    BY DEF IInv, Tables
  <1> QED  BY <1>1, Invariance, PTL

\* A credential's secret is in one final answer at most, that answer speaks of
\* a committed credential, and no replay record holds a secret.
THEOREM IdempotencySecretShownOnce == Spec => []SecretShownOnce
  <1>1. IInv => SecretShownOnce
    BY DEF IInv, Secretive, Redactions, SecretShownOnce
  <1> QED  BY <1>1, Invariance, PTL

\* An advisory lock belongs to a request that is in its transaction under that
\* key: no return path of the wrapper leaves one behind.
THEOREM IdempotencyLockOwned == Spec => []LockOwned
  <1>1. IInv => LockOwned
    BY DEF IInv
  <1> QED  BY <1>1, Invariance, PTL

\* The steps that answer a request inside its transaction.
LEMMA Answering ==
    ASSUME IInv, [Next]_vars, NEW p \in Procs, pc[p] \in InTx, pc'[p] = "done"
    PROVE  \/ LookupReused(p) \/ LookupReplay(p) \/ HandlerRefused(p)
           \/ Commit(p) \/ CommitUnacknowledged(p)
           \/ RollBack(p, Answer("unavailable"))
  <1>1. pc[p] # "done" /\ pc'[p] # pc[p]
    BY DEF InTx
  <1>2. ASSUME NEW q \in Procs, NEW st, GoTo(q, st) PROVE q = p /\ st = "done"
    BY <1>1, <1>2 DEF GoTo, IInv, TypeOK
  <1>3. CASE UNCHANGED vars
    BY <1>1, <1>3 DEF vars
  <1>4. CASE Tick
    BY <1>1, <1>4 DEF Tick
  <1>5. ASSUME NEW q \in Procs, NEW r \in Requests, Begin(q, r) PROVE FALSE
    BY <1>2, <1>5 DEF Begin
  <1>6. ASSUME NEW q \in Procs, Acquire(q) \/ Purge(q) \/ LookupMiss(q) \/ HandlerOk(q)
                                \/ Record(q) \/ Recycle(q)
        PROVE  FALSE
    BY <1>2, <1>6 DEF Acquire, Purge, LookupMiss, HandlerOk, Record, Recycle
  <1>7. ASSUME NEW q \in Procs, LookupReused(q) \/ LookupReplay(q) \/ HandlerRefused(q)
                                \/ Commit(q) \/ CommitUnacknowledged(q) \/ CommitFailed(q) \/ Fail(q)
        PROVE  q = p
    BY <1>2, <1>7 DEF LookupReused, LookupReplay, HandlerRefused, Commit, CommitUnacknowledged,
                      CommitFailed, Fail, RollBack
  <1> QED  BY <1>3, <1>4, <1>5, <1>6, <1>7 DEF Next, Advance, CommitFailed, Fail

\* A request that finds a live record of the same request is answered with the
\* row of that record or with a 503, never with a refusal, a conflict or a
\* second row.
THEOREM IdempotencyReplayHonoured == Spec => ReplayHonoured
  <1> DEFINE rec(p) == records[req[p].slot]
             Honoured(p) ==
                 /\ pc[p] \in InTx /\ pc'[p] = "done" /\ req[p].slot # NoSlot
                 /\ rec(p) # NoRec /\ rec(p).hash = req[p].body /\ start[p] < rec(p).at + TTL
                 => \/ resp'[p].status = "unavailable"
                    \/ resp'[p].status = "ok" /\ resp'[p].id = rec(p).id
  <1>1. ASSUME IInv, [Next]_vars, NEW p \in Procs PROVE Honoured(p)
    <2> SUFFICES ASSUME pc[p] \in InTx, pc'[p] = "done", req[p].slot # NoSlot,
                        rec(p) # NoRec, rec(p).hash = req[p].body, start[p] < rec(p).at + TTL
                 PROVE  \/ resp'[p].status = "unavailable"
                        \/ resp'[p].status = "ok" /\ resp'[p].id = rec(p).id
      OBVIOUS
    <2>1. req[p].slot \in Slots /\ pc[p] # "idle"
      BY <1>1, SlotOf DEF IInv, InTx
    <2>2. ~ Lapsed(p)
      <3>1. start[p] \in Nat /\ rec(p).at \in Nat /\ TTL \in Nat
        BY <1>1, <2>1, IdempotencyAssumption DEF IInv, TypeOK, Recs, Times
      <3> QED  BY <3>1 DEF Lapsed, Expired
    <2>3. pc[p] \notin {"handler", "commit"}
      BY <1>1, <2>2 DEF IInv, Request, Looked, Holding
    <2>4. pc[p] = "lookup" => Saved(p) = rec(p)
      BY <1>1, <2>2 DEF IInv, Request, Looked, Holding, Saved
    <2>5. CASE LookupReused(p)
      BY <2>4, <2>5 DEF LookupReused, RequestHash
    <2>6. CASE LookupReplay(p)
      BY <1>1, <2>4, <2>6 DEF LookupReplay, RollBack, IInv, TypeOK
    <2>7. CASE HandlerRefused(p) \/ Commit(p) \/ CommitUnacknowledged(p)
      BY <2>3, <2>7 DEF HandlerRefused, Commit, CommitUnacknowledged
    <2>8. CASE RollBack(p, Answer("unavailable"))
      BY <1>1, <2>8 DEF RollBack, Answer, IInv, TypeOK
    <2> QED  BY <1>1, <2>5, <2>6, <2>7, <2>8, Answering
  <1>2. IInv /\ [Next]_vars => [\A p \in Procs : Honoured(p)]_vars
    BY <1>1
  <1>3. Spec => [][\A p \in Procs : Honoured(p)]_vars
    BY <1>2, Invariance, PTL DEF Spec
  <1> QED  BY <1>3 DEF ReplayHonoured
==============================================================================
