------------------------- MODULE IdempotentMutation -------------------------
(***************************************************************************)
(* The replay wrapper around every mutation that is not a counter          *)
(* increment or set (handlers.IdempotentMutation), with the two kinds of   *)
(* handler it wraps: one that can be refused because its label is taken    *)
(* (tenant creation) and one that always issues something new with a       *)
(* secret in its answer (credential creation).                             *)
(*                                                                         *)
(* With a key, the wrapper owns the transaction: the handler's writes and  *)
(* the replay record commit together.  Without a key the handler runs in a *)
(* transaction of its own.  A slot is a scope (caller, method, path) with  *)
(* a key.  Time is counted in ticks; a record lives TTL ticks.             *)
(***************************************************************************)
EXTENDS Integers

CONSTANTS
    Procs,      \* request slots of the server, over all replicas
    Slots,      \* <<scope, key>> pairs
    NoSlot,     \* a request without Idempotency-Key
    Kinds,      \* a subset of {"tenant", "credential"}
    Bodies,     \* request bodies up to spelling; a tenant's body is its label
    Requests,   \* the requests clients send
    TTL,        \* lifetime of a replay record: 24 hours
    MaxTime,    \* bound of the clock
    MaxIds,     \* bound of the ids ever drawn
    NoProc, NoReq, NoRow, NoRec

VARIABLES
    now,        \* the clock of PostgreSQL
    drawn,      \* ids drawn so far (uuid.NewString)
    created,    \* committed rows: tenants and credentials
    records,    \* committed idempotency_requests, by slot
    lock,       \* pg_advisory_xact_lock: slot -> process
    pc, req,
    start,      \* NOW() of the transaction: the time it began
    purged,     \* the transaction has deleted the expired record of its slot
    txRow,      \* the uncommitted row of the handler
    txRec,      \* the uncommitted replay record
    resp        \* the response as written so far

vars == <<now, drawn, created, records, lock, pc, req, start, purged, txRow, txRec, resp>>
db   == <<created, records>>

Spellings    == {"plain", "respelled"}  \* white space, property order
RequestShape == [slot : Slots \cup {NoSlot}, kind : Kinds, body : Bodies,
                 spelling : Spellings]
Ids    == 1 .. MaxIds
Times  == 0 .. MaxTime
Rows   == [id : Ids, slot : Slots \cup {NoSlot}, kind : Kinds, body : Bodies, at : Times]
Recs   == [hash : Bodies, id : Ids, secret : BOOLEAN, at : Times]
Stages == {"idle", "lock", "purge", "lookup", "handler", "record", "commit", "done"}
InTx   == Stages \ {"idle", "done"}
Resps  == [status : {"none", "ok", "reused", "refused", "unavailable"},
           id : 0 .. MaxIds, secret : BOOLEAN, replayed : BOOLEAN]

ASSUME IdempotencyAssumption ==
    /\ TTL \in Nat \ {0} /\ MaxTime \in Nat /\ MaxIds \in Nat \ {0}
    /\ Kinds \subseteq {"tenant", "credential"}
    /\ Requests \subseteq RequestShape
    /\ NoSlot \notin Slots /\ NoProc \notin Procs /\ NoReq \notin Requests
    /\ NoRow \notin Rows /\ NoRec \notin Recs

Answer(s)   == [status |-> s, id |-> 0, secret |-> FALSE, replayed |-> FALSE]
GoTo(p, st) == pc' = [pc EXCEPT ![p] = st]

\* Mutant of RequestHash: the raw body.
RequestHashRaw(r) == <<r.body, r.spelling>>

\* idempotencyRequestHash: JSON is reduced to a canonical form, so white space
\* and property order do not count.
RequestHash(r) == r.body

\* Mutant of Expired: the record is kept one tick short of its lifetime.
ExpiredEarly(rec, t) == rec.at + TTL - 1 <= t

\* expires_at <= NOW(), with expires_at = NOW() + 24 hours at insertion.
Expired(rec, t) == rec.at + TTL <= t

------------------------------------------------------------------------------
\* Mutant of Close: a return without the deferred finish(false).
CloseLeaky(p) ==
    /\ txRow' = [txRow EXCEPT ![p] = NoRow]
    /\ txRec' = [txRec EXCEPT ![p] = NoRec]
    /\ purged' = [purged EXCEPT ![p] = FALSE]
    /\ UNCHANGED lock

\* The transaction ends and with it its advisory lock.
Close(p) ==
    /\ lock' = [s \in Slots |-> IF lock[s] = p THEN NoProc ELSE lock[s]]
    /\ txRow' = [txRow EXCEPT ![p] = NoRow]
    /\ txRec' = [txRec EXCEPT ![p] = NoRec]
    /\ purged' = [purged EXCEPT ![p] = FALSE]

\* Deferred finish(false): nothing the handler wrote survives.
RollBack(p, answer) ==
    /\ Close(p)
    /\ GoTo(p, "done")
    /\ resp' = [resp EXCEPT ![p] = answer]
    /\ UNCHANGED <<now, drawn, db, req, start>>

\* BeginWrite.  Without a key the handler runs at once.
Begin(p, r) ==
    /\ pc[p] = "idle"
    /\ req' = [req EXCEPT ![p] = r]
    /\ start' = [start EXCEPT ![p] = now]
    /\ GoTo(p, IF r.slot = NoSlot THEN "handler" ELSE "lock")
    /\ UNCHANGED <<now, drawn, db, lock, purged, txRow, txRec, resp>>

\* Mutant of Acquire: no lock is taken.
AcquireNothing(p) ==
    /\ pc[p] = "lock"
    /\ GoTo(p, "purge")
    /\ UNCHANGED <<now, drawn, db, lock, req, start, purged, txRow, txRec, resp>>

\* pg_advisory_xact_lock: one request per slot at a time, over all replicas.
Acquire(p) ==
    /\ pc[p] = "lock"
    /\ lock[req[p].slot] = NoProc
    /\ lock' = [lock EXCEPT ![req[p].slot] = p]
    /\ GoTo(p, "purge")
    /\ UNCHANGED <<now, drawn, db, req, start, purged, txRow, txRec, resp>>

\* DELETE ... WHERE expires_at <= NOW(): NOW() is when the transaction began,
\* not when it got the lock.
Purge(p) ==
    LET rec == records[req[p].slot] IN
    /\ pc[p] = "purge"
    /\ purged' = [purged EXCEPT ![p] = rec # NoRec /\ Expired(rec, start[p])]
    /\ GoTo(p, "lookup")
    /\ UNCHANGED <<now, drawn, db, lock, req, start, txRow, txRec, resp>>

Saved(p) == IF purged[p] THEN NoRec ELSE records[req[p].slot]

LookupMiss(p) ==
    /\ pc[p] = "lookup"
    /\ Saved(p) = NoRec
    /\ GoTo(p, "handler")
    /\ UNCHANGED <<now, drawn, db, lock, req, start, purged, txRow, txRec, resp>>

LookupReused(p) ==
    /\ pc[p] = "lookup"
    /\ Saved(p) # NoRec
    /\ Saved(p).hash # RequestHash(req[p])
    /\ RollBack(p, Answer("reused"))

LookupReplay(p) ==
    /\ pc[p] = "lookup"
    /\ Saved(p) # NoRec
    /\ Saved(p).hash = RequestHash(req[p])
    /\ RollBack(p, [status |-> "ok", id |-> Saved(p).id, secret |-> Saved(p).secret,
                    replayed |-> TRUE])

------------------------------------------------------------------------------
(* The handlers, inside the wrapper's transaction or their own.            *)

LabelTaken(r) ==
    r.kind = "tenant" /\ \E e \in created : e.kind = "tenant" /\ e.body = r.body

\* The unique index on tenants.label makes an insert wait for an uncommitted
\* row with the same label.
LabelPending(p) ==
    /\ req[p].kind = "tenant"
    /\ \E q \in Procs \ {p} : txRow[q] # NoRow /\ txRow[q].kind = "tenant"
                              /\ txRow[q].body = req[p].body

HandlerOk(p) ==
    LET r == req[p] IN
    /\ pc[p] = "handler"
    /\ ~LabelPending(p)
    /\ ~LabelTaken(r)
    /\ drawn < MaxIds
    /\ drawn' = drawn + 1
    /\ txRow' = [txRow EXCEPT ![p] = [id |-> drawn + 1, slot |-> r.slot, kind |-> r.kind,
                                      body |-> r.body, at |-> start[p]]]
    /\ resp' = [resp EXCEPT ![p] = [status |-> "ok", id |-> drawn + 1,
                                    secret |-> r.kind = "credential", replayed |-> FALSE]]
    /\ GoTo(p, IF r.slot = NoSlot THEN "commit" ELSE "record")
    /\ UNCHANGED <<now, db, lock, req, start, purged, txRec>>

\* TENANT_LABEL_EXISTS: not a 2xx, so the key is not reserved.
HandlerRefused(p) ==
    /\ pc[p] = "handler"
    /\ ~LabelPending(p)
    /\ LabelTaken(req[p])
    /\ RollBack(p, Answer("refused"))

\* Mutant of Redacted: the response is saved as it was sent.
RedactedNot(r, answer) == answer.secret

\* What is left of the secret in the body that is saved: api_key is deleted
\* from a credential response, and other responses have none.
Redacted(r, answer) == answer.secret /\ r.kind # "credential"

\* INSERT INTO idempotency_requests.
Record(p) ==
    LET r == req[p] IN
    /\ pc[p] = "record"
    /\ txRec' = [txRec EXCEPT ![p] = [hash |-> RequestHash(r), id |-> resp[p].id,
                                      secret |-> Redacted(r, resp[p]), at |-> start[p]]]
    /\ GoTo(p, "commit")
    /\ UNCHANGED <<now, drawn, db, lock, req, start, purged, txRow, resp>>

------------------------------------------------------------------------------
\* Mutant of Publish: the handler's row commits, the record does not.
PublishRowOnly(p) == created' = created \cup {txRow[p]} /\ UNCHANGED records

Publish(p) ==
    /\ created' = created \cup {txRow[p]}
    /\ records' = IF txRec[p] = NoRec THEN records
                  ELSE [records EXCEPT ![req[p].slot] = txRec[p]]

Commit(p) ==
    /\ pc[p] = "commit"
    /\ Publish(p)
    /\ Close(p)
    /\ GoTo(p, "done")
    /\ UNCHANGED <<now, drawn, req, start, resp>>

\* finish(true) reports an error and the transaction is gone: the response,
\* which may hold a secret, is replaced.
CommitFailed(p) ==
    /\ pc[p] = "commit"
    /\ RollBack(p, Answer("unavailable"))

\* finish(true) reports an error although COMMIT took effect.
CommitUnacknowledged(p) ==
    /\ pc[p] = "commit"
    /\ Publish(p)
    /\ Close(p)
    /\ GoTo(p, "done")
    /\ resp' = [resp EXCEPT ![p] = Answer("unavailable")]
    /\ UNCHANGED <<now, drawn, req, start>>

\* A statement fails, times out or is cut off by a crash before COMMIT.
Fail(p) ==
    /\ pc[p] \in InTx \ {"commit"}
    /\ RollBack(p, Answer("unavailable"))

\* The client has its answer.
Recycle(p) ==
    /\ pc[p] = "done"
    /\ GoTo(p, "idle")
    /\ req' = [req EXCEPT ![p] = NoReq]
    /\ start' = [start EXCEPT ![p] = 0]
    /\ resp' = [resp EXCEPT ![p] = Answer("none")]
    /\ UNCHANGED <<now, drawn, db, lock, purged, txRow, txRec>>

Tick ==
    /\ now < MaxTime
    /\ now' = now + 1
    /\ UNCHANGED <<drawn, db, lock, pc, req, start, purged, txRow, txRec, resp>>

Init ==
    /\ now = 0
    /\ drawn = 0
    /\ created = {}
    /\ records = [s \in Slots |-> NoRec]
    /\ lock = [s \in Slots |-> NoProc]
    /\ pc = [p \in Procs |-> "idle"]
    /\ req = [p \in Procs |-> NoReq]
    /\ start = [p \in Procs |-> 0]
    /\ purged = [p \in Procs |-> FALSE]
    /\ txRow = [p \in Procs |-> NoRow]
    /\ txRec = [p \in Procs |-> NoRec]
    /\ resp = [p \in Procs |-> Answer("none")]

Advance(p) ==
    \/ Acquire(p) \/ Purge(p)
    \/ LookupMiss(p) \/ LookupReused(p) \/ LookupReplay(p)
    \/ HandlerOk(p) \/ HandlerRefused(p) \/ Record(p) \/ Commit(p)

Next ==
    \/ \E p \in Procs :
          \/ \E r \in Requests : Begin(p, r)
          \/ Advance(p)
          \/ CommitFailed(p) \/ CommitUnacknowledged(p) \/ Fail(p)
          \/ Recycle(p)
    \/ Tick

Spec == Init /\ [][Next]_vars

\* Advisory locks are granted in the order they are asked for, and a running
\* handler keeps running.
FairSpec == Spec /\ \A p \in Procs : SF_vars(Advance(p))

------------------------------------------------------------------------------
(* Properties.                                                             *)

\* Every variable keeps its type; in particular what is compared as the hash of
\* a request is its canonical form (idempotencyRequestHash).
TypeOK ==
    /\ now \in Times
    /\ drawn \in 0 .. MaxIds
    /\ created \subseteq Rows
    /\ records \in [Slots -> Recs \cup {NoRec}]
    /\ lock \in [Slots -> Procs \cup {NoProc}]
    /\ pc \in [Procs -> Stages]
    /\ req \in [Procs -> Requests \cup {NoReq}]
    /\ start \in [Procs -> Times]
    /\ purged \in [Procs -> BOOLEAN]
    /\ txRow \in [Procs -> Rows \cup {NoRow}]
    /\ txRec \in [Procs -> Recs \cup {NoRec}]
    /\ resp \in [Procs -> Resps]

\* A key has one effect per lifetime of its record, however the requests that
\* carry it overlap, fail or are repeated: two rows created under one key were
\* begun at least TTL apart.
OncePerWindow ==
    \A e, f \in created :
        e # f /\ e.slot = f.slot /\ e.slot # NoSlot =>
            e.at >= f.at + TTL \/ f.at >= e.at + TTL

\* Effect and record commit together: every record names the row created with
\* it, and every row created under a key has the record of its slot, or a later
\* one has replaced it.
RecordMatchesEffect ==
    /\ \A s \in Slots : records[s] # NoRec =>
         \E e \in created : /\ e.slot = s /\ e.id = records[s].id
                            /\ e.body = records[s].hash /\ e.at = records[s].at
    /\ \A e \in created : e.slot # NoSlot =>
         /\ records[e.slot] # NoRec
         /\ records[e.slot].at >= e.at

\* A secret leaves the server in one answer only, that answer speaks of a
\* committed credential, and no stored record holds it.
SecretShownOnce ==
    /\ \A p \in Procs : pc[p] = "done" /\ resp[p].secret =>
         /\ \E e \in created : e.id = resp[p].id
         /\ \A q \in Procs \ {p} : resp[q].secret => resp[q].id # resp[p].id
    /\ \A s \in Slots : records[s] # NoRec => ~records[s].secret

\* A request that finds the record of the same request, not expired when the
\* transaction began, is answered with the original row (or with a 503), also
\* when the handler would now refuse it.
ReplayHonoured ==
    [][\A p \in Procs :
         LET rec == records[req[p].slot] IN
         /\ pc[p] \in InTx /\ pc'[p] = "done" /\ req[p].slot # NoSlot
         /\ rec # NoRec /\ rec.hash = req[p].body /\ start[p] < rec.at + TTL
         => \/ resp'[p].status = "unavailable"
            \/ resp'[p].status = "ok" /\ resp'[p].id = rec.id]_vars

\* Every request is answered, as long as there are ids to draw: nobody keeps
\* the advisory lock of a slot.
Answered == \A p \in Procs : pc[p] \in InTx ~> pc[p] = "done" \/ drawn = MaxIds
==============================================================================
