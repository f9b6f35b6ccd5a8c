------------------------------ MODULE CounterOps ------------------------------
(***************************************************************************)
(* Counter creation, increment and set as the store runs them: every       *)
(* request is a PostgreSQL transaction (READ COMMITTED) that takes its     *)
(* locks and writes its rows statement by statement, on any replica, next  *)
(* to every other request.  A process is one request slot of one replica.  *)
(*                                                                         *)
(* The committed tables are live, value, label, ops and audit.  What a     *)
(* transaction has written but not committed stays in txOp, txVal and      *)
(* writes of its process, invisible to the others except through the locks *)
(* it holds; Commit moves it to the tables in one step.                    *)
(***************************************************************************)
EXTENDS CounterTables

CONSTANTS
    Procs,      \* request slots, over all replicas
    NoProc,     \* nobody holds the row lock
    NoReq       \* an idle slot

VARIABLES
    rowLock,    \* counters rows locked FOR UPDATE: counter -> process
    pc,         \* the next statement of each process
    req,        \* the request a process serves
    target,     \* the counter it works on
    cur,        \* the value it read under the row lock
    txVal,      \* the uncommitted counters.value
    txOp,       \* the uncommitted counter_operations row
    writes,     \* which other tables it has written: "row", "value", "audit"
    resp        \* the result it has, or the answer it gave

txvars == <<rowLock, cur, txVal, txOp, writes>>
vars   == <<live, value, label, ops, audit, rowLock, pc, req, target, cur,
            txVal, txOp, writes, resp>>

ASSUME ProcAssumption ==
    /\ NoProc \notin Procs
    /\ NoReq \notin Requests

Mutating == {"lock", "reserve", "resolve", "update", "complete", "audit", "commit"}
Creating == {"insert", "initial"}
InTx     == Mutating \cup Creating
Stages   == InTx \cup {"idle", "committed", "done"}
Statuses == {"none", "ok", "not_found", "reused", "in_progress",
             "delta_exceeds", "overflow", "conflict", "audit_clash", "unavailable"}

Result(s, d, v, b) == [status |-> s, delta |-> d, value |-> v, replayed |-> b]
Failure(s) == Result(s, 0, 0, FALSE)
Responses  == [status : Statuses, delta : Int64, value : Int64, replayed : BOOLEAN]

------------------------------------------------------------------------------
(* Locks.  A transaction keeps every lock until it ends.                   *)

\* The id of the operation row the transaction of p inserts.
TxId(p) == IF req[p].kind = "create" THEN InitialKey(target[p]) ELSE req[p].key

\* FOR UPDATE conflicts with FOR UPDATE, and with the key-share lock that the
\* foreign key of an inserted operation row takes on its counter.
HoldsCounter(q, c) == rowLock[c] = q \/ (txOp[q] # NoOp /\ target[q] = c)

\* Inserting a key that another transaction has inserted and not committed
\* waits for that transaction: primary key of counter_operations, primary key
\* of auth_audit_events, unique (tenant_id, label) of counters.
HoldsKey(q, t, k) == txOp[q] # NoOp /\ req[q].tenant = t /\ TxId(q) = k
HoldsAudit(q, k)  == "audit" \in writes[q] /\ req[q].key = k
HoldsLabel(q, t, l) == "row" \in writes[q] /\ req[q].tenant = t /\ req[q].label = l

Visible(p) == target[p] \in live /\ Owner[target[p]] = req[p].tenant

WaitsFor(p, q) ==
    /\ p # q
    /\ \/ pc[p] = "lock" /\ Visible(p) /\ HoldsCounter(q, target[p])
       \/ pc[p] = "reserve" /\ HoldsKey(q, req[p].tenant, req[p].key)
       \/ pc[p] = "audit" /\ HoldsAudit(q, req[p].key)
       \/ pc[p] = "insert" /\ HoldsLabel(q, req[p].tenant, req[p].label)

Granted(p) == \A q \in Procs : ~WaitsFor(p, q)

------------------------------------------------------------------------------
(* Transactions.                                                           *)

GoTo(p, stage) == pc' = [pc EXCEPT ![p] = stage]

\* The end of a transaction: its locks and its private state are gone.
Release(p) ==
    /\ rowLock' = [c \in Counters |-> IF rowLock[c] = p THEN NoProc ELSE rowLock[c]]
    /\ cur'    = [cur EXCEPT ![p] = 0]
    /\ txVal'  = [txVal EXCEPT ![p] = 0]
    /\ txOp'   = [txOp EXCEPT ![p] = NoOp]
    /\ writes' = [writes EXCEPT ![p] = {}]

\* finish(false), deferred by every store method: nothing written survives,
\* and the request is answered with an error.
Abort(p, s) ==
    /\ Release(p)
    /\ GoTo(p, "done")
    /\ resp' = [resp EXCEPT ![p] = Failure(s)]
    /\ UNCHANGED <<live, value, label, ops, audit, req, target>>

\* finish(true): everything the transaction wrote becomes visible at once.
Publish(p) ==
    /\ live'  = IF "row" \in writes[p] THEN live \cup {target[p]} ELSE live
    /\ label' = IF "row" \in writes[p]
                THEN [label EXCEPT ![target[p]] = req[p].label] ELSE label
    /\ value' = IF "value" \in writes[p]
                THEN [value EXCEPT ![target[p]] = txVal[p]] ELSE value
    /\ ops'   = IF txOp[p] # NoOp
                THEN [ops EXCEPT ![req[p].tenant][TxId(p)] = txOp[p]] ELSE ops
    /\ audit' = IF "audit" \in writes[p]
                THEN [audit EXCEPT ![req[p].key] = req[p].tenant] ELSE audit
    /\ Release(p)

------------------------------------------------------------------------------
(* Increment and set.                                                      *)

\* Mutant of Order: the key is reserved before the counter is locked.
OrderReserveFirst == [begin |-> "reserve", reserve |-> "lock", lock |-> "update"]

\* Each mutation locks its counter before it inserts its operation row.
Order == [begin |-> "lock", lock |-> "reserve", reserve |-> "update"]

StartMutation(p, r) ==
    /\ pc[p] = "idle"
    /\ r.kind # "create"
    /\ req' = [req EXCEPT ![p] = r]
    /\ target' = [target EXCEPT ![p] = r.counter]
    /\ GoTo(p, Order.begin)
    /\ UNCHANGED <<tables, txvars, resp>>

\* SELECT ... FOR UPDATE finds no row of this tenant.
LockMissing(p) ==
    /\ pc[p] = "lock"
    /\ ~Visible(p)
    /\ Abort(p, "not_found")

\* Mutant of LockCounter: a plain SELECT, without FOR UPDATE.
LockCounterShared(p) ==
    /\ pc[p] = "lock"
    /\ Visible(p)
    /\ DeltaOf(req[p], value[target[p]]) \in Int64
    /\ cur' = [cur EXCEPT ![p] = value[target[p]]]
    /\ GoTo(p, Order.lock)
    /\ UNCHANGED <<tables, rowLock, req, target, txVal, txOp, writes, resp>>

\* SELECT ... FOR UPDATE: the value is read once the lock is granted.
LockCounter(p) ==
    /\ pc[p] = "lock"
    /\ Visible(p)
    /\ Granted(p)
    /\ DeltaOf(req[p], value[target[p]]) \in Int64
    /\ rowLock' = [rowLock EXCEPT ![target[p]] = p]
    /\ cur' = [cur EXCEPT ![p] = value[target[p]]]
    /\ GoTo(p, Order.lock)
    /\ UNCHANGED <<tables, req, target, txVal, txOp, writes, resp>>

\* A set whose distance from the current value is not an int64 is refused
\* here, before its key is looked up.
SetOutOfRange(p) ==
    /\ pc[p] = "lock"
    /\ Visible(p)
    /\ Granted(p)
    /\ DeltaOf(req[p], value[target[p]]) \notin Int64
    /\ Abort(p, "overflow")

\* INSERT ... ON CONFLICT DO NOTHING RETURNING: a pending row, or no row when
\* the key is taken by a committed operation.
Reserve(p) ==
    LET r == req[p] IN
    /\ pc[p] = "reserve"
    /\ Granted(p)
    /\ IF ops[r.tenant][r.key] = NoOp
       THEN /\ txOp' = [txOp EXCEPT ![p] = PendingRow(r, cur[p])]
            /\ GoTo(p, Order.reserve)
       ELSE /\ GoTo(p, "resolve")
            /\ UNCHANGED txOp
    /\ UNCHANGED <<tables, rowLock, req, target, cur, txVal, writes, resp>>

\* Mutant of ResolveStatus: the stored delta is compared for a set too, whose
\* argument is a target value.
ResolveStatusDelta(r, row) ==
    IF \/ row.kind # r.kind
       \/ row.counter # r.counter
       \/ r.spelling # "canonical"
       \/ row.delta # r.arg
       \/ row.hash # RequestHash(r)
    THEN "reused"
    ELSE IF row.state # "completed" THEN "in_progress" ELSE "ok"

\* resolveExistingOperation: what the row under the key says to this request.
\* counter_id comes back from PostgreSQL in its canonical spelling.
ResolveStatus(r, row) ==
    IF \/ row.kind # r.kind
       \/ row.counter # r.counter
       \/ r.spelling # "canonical"
       \/ r.kind = "increment" /\ row.delta # r.arg
       \/ row.hash # RequestHash(r)
    THEN "reused"
    ELSE IF row.state # "completed" THEN "in_progress" ELSE "ok"

\* The key belongs to other request data (or is not completed).
ResolveRefuse(p) ==
    LET s == ResolveStatus(req[p], ops[req[p].tenant][req[p].key]) IN
    /\ pc[p] = "resolve"
    /\ s # "ok"
    /\ Abort(p, s)

\* Mutant of ResolveReplay: the answer is the value the counter has now.
ResolveReplayCurrent(p) ==
    LET row == ops[req[p].tenant][req[p].key] IN
    /\ pc[p] = "resolve"
    /\ ResolveStatus(req[p], row) = "ok"
    /\ resp' = [resp EXCEPT ![p] = Result("ok", row.delta, cur[p], TRUE)]
    /\ GoTo(p, "commit")
    /\ UNCHANGED <<tables, txvars, req, target>>

\* A retry: the original result, and nothing to write.
ResolveReplay(p) ==
    LET row == ops[req[p].tenant][req[p].key] IN
    /\ pc[p] = "resolve"
    /\ ResolveStatus(req[p], row) = "ok"
    /\ resp' = [resp EXCEPT ![p] = Result("ok", row.delta, row.after, TRUE)]
    /\ GoTo(p, "commit")
    /\ UNCHANGED <<tables, txvars, req, target>>

\* Mutant of IncrementFault: no overflow check.
IncrementFaultDelta(r, v) ==
    IF r.kind = "increment" /\ r.arg > MaxDelta[r.counter] THEN "delta_exceeds" ELSE "none"

\* The limits of an increment, checked against the value under the lock.
IncrementFault(r, v) ==
    IF r.kind # "increment" THEN "none"
    ELSE IF r.arg > MaxDelta[r.counter] THEN "delta_exceeds"
    ELSE IF v > MaxInt - r.arg THEN "overflow"
    ELSE "none"

\* The refusal rolls the reservation back too: the key stays unused.
IncrementRefused(p) ==
    LET s == IncrementFault(req[p], cur[p]) IN
    /\ pc[p] = "update"
    /\ s # "none"
    /\ Abort(p, s)

\* UPDATE counters SET value.
UpdateCounter(p) ==
    /\ pc[p] = "update"
    /\ IncrementFault(req[p], cur[p]) = "none"
    /\ txVal' = [txVal EXCEPT ![p] = cur[p] + DeltaOf(req[p], cur[p])]
    /\ writes' = [writes EXCEPT ![p] = @ \cup {"value"}]
    /\ GoTo(p, "complete")
    /\ UNCHANGED <<tables, rowLock, req, target, cur, txOp, resp>>

\* Mutant of CompleteOperation: no audit event for anybody.
CompleteUnaudited(p) ==
    /\ pc[p] = "complete"
    /\ txOp' = [txOp EXCEPT ![p] = CompleteRow(txOp[p], cur[p], txVal[p])]
    /\ resp' = [resp EXCEPT ![p] = Result("ok", DeltaOf(req[p], cur[p]), txVal[p], FALSE)]
    /\ GoTo(p, "commit")
    /\ UNCHANGED <<tables, rowLock, req, target, cur, txVal, writes>>

\* UPDATE counter_operations SET value_before, value_after, state.  Only a set
\* by a known actor is audited.
CompleteOperation(p) ==
    /\ pc[p] = "complete"
    /\ txOp' = [txOp EXCEPT ![p] = CompleteRow(txOp[p], cur[p], txVal[p])]
    /\ resp' = [resp EXCEPT ![p] = Result("ok", DeltaOf(req[p], cur[p]), txVal[p], FALSE)]
    /\ GoTo(p, IF req[p].kind = "set_adjustment" /\ req[p].actor # "anonymous"
               THEN "audit" ELSE "commit")
    /\ UNCHANGED <<tables, rowLock, req, target, cur, txVal, writes>>

\* INSERT INTO auth_audit_events with the operation id as its primary key,
\* which is not scoped to the tenant.
AuditSet(p) ==
    /\ pc[p] = "audit"
    /\ Granted(p)
    /\ audit[req[p].key] = NoTenant
    /\ writes' = [writes EXCEPT ![p] = @ \cup {"audit"}]
    /\ GoTo(p, "commit")
    /\ UNCHANGED <<tables, rowLock, req, target, cur, txVal, txOp, resp>>

\* The id is taken: a unique violation, answered like any database error.
AuditClash(p) ==
    /\ pc[p] = "audit"
    /\ Granted(p)
    /\ audit[req[p].key] # NoTenant
    /\ Abort(p, "audit_clash")

------------------------------------------------------------------------------
(* Creation.                                                               *)

\* The id is fresh: no counter has it and no other request has drawn it.
StartCreate(p, r) ==
    /\ pc[p] = "idle"
    /\ r.kind = "create"
    /\ \E c \in Counters \ live :
          /\ Owner[c] = r.tenant
          /\ \A q \in Procs : target[q] # c
          /\ target' = [target EXCEPT ![p] = c]
    /\ req' = [req EXCEPT ![p] = r]
    /\ GoTo(p, "insert")
    /\ UNCHANGED <<tables, txvars, resp>>

LabelTaken(p) ==
    \E d \in live : Owner[d] = req[p].tenant /\ label[d] = req[p].label

\* INSERT INTO counters.
InsertCounter(p) ==
    /\ pc[p] = "insert"
    /\ Granted(p)
    /\ ~LabelTaken(p)
    /\ writes' = [writes EXCEPT ![p] = {"row", "value"}]
    /\ txVal' = [txVal EXCEPT ![p] = req[p].arg]
    /\ GoTo(p, "initial")
    /\ UNCHANGED <<tables, rowLock, req, target, cur, txOp, resp>>

\* Unique violation on (tenant_id, label): COUNTER_LABEL_EXISTS.
InsertConflict(p) ==
    /\ pc[p] = "insert"
    /\ Granted(p)
    /\ LabelTaken(p)
    /\ Abort(p, "conflict")

\* INSERT INTO counter_operations: the row that opens the history.
RecordInitial(p) ==
    /\ pc[p] = "initial"
    /\ txOp' = [txOp EXCEPT ![p] = InitialRow(target[p], txVal[p])]
    /\ resp' = [resp EXCEPT ![p] = Result("ok", 0, txVal[p], FALSE)]
    /\ GoTo(p, "commit")
    /\ UNCHANGED <<tables, rowLock, req, target, cur, txVal, writes>>

------------------------------------------------------------------------------
(* The end of a request.                                                   *)

Commit(p) ==
    /\ pc[p] = "commit"
    /\ Publish(p)
    /\ GoTo(p, "committed")
    /\ UNCHANGED <<req, target, resp>>

\* COMMIT took effect but its acknowledgement did not arrive (connection lost,
\* deadline passed, replica killed): the caller sees an error.
CommitUnacknowledged(p) ==
    /\ pc[p] = "commit"
    /\ Publish(p)
    /\ GoTo(p, "done")
    /\ resp' = [resp EXCEPT ![p] = Failure("unavailable")]
    /\ UNCHANGED <<req, target>>

\* A statement fails before COMMIT takes effect: request deadline, lock or
\* statement timeout, lost connection, crashed replica.
Fail(p) ==
    /\ pc[p] \in InTx
    /\ Abort(p, "unavailable")

\* The service invalidates the read cache and the handler answers.
Respond(p) ==
    /\ pc[p] = "committed"
    /\ GoTo(p, "done")
    /\ UNCHANGED <<tables, txvars, req, target, resp>>

\* The client has its answer; the slot serves another request.
Recycle(p) ==
    /\ pc[p] = "done"
    /\ GoTo(p, "idle")
    /\ req' = [req EXCEPT ![p] = NoReq]
    /\ target' = [target EXCEPT ![p] = NoCounter]
    /\ resp' = [resp EXCEPT ![p] = Failure("none")]
    /\ UNCHANGED <<tables, txvars>>

------------------------------------------------------------------------------
Init ==
    /\ live = Seeded
    /\ value = SeedValue
    /\ label = SeedLabel
    /\ ops = SeedOps
    /\ audit = [k \in Keys |-> NoTenant]
    /\ rowLock = [c \in Counters |-> NoProc]
    /\ pc = [p \in Procs |-> "idle"]
    /\ req = [p \in Procs |-> NoReq]
    /\ target = [p \in Procs |-> NoCounter]
    /\ cur = [p \in Procs |-> 0]
    /\ txVal = [p \in Procs |-> 0]
    /\ txOp = [p \in Procs |-> NoOp]
    /\ writes = [p \in Procs |-> {}]
    /\ resp = [p \in Procs |-> Failure("none")]

\* The statements of a request when nothing fails.
Advance(p) ==
    \/ LockMissing(p) \/ LockCounter(p) \/ SetOutOfRange(p)
    \/ Reserve(p) \/ ResolveRefuse(p) \/ ResolveReplay(p)
    \/ IncrementRefused(p) \/ UpdateCounter(p) \/ CompleteOperation(p)
    \/ AuditSet(p) \/ AuditClash(p)
    \/ InsertCounter(p) \/ InsertConflict(p) \/ RecordInitial(p)
    \/ Commit(p) \/ Respond(p)

Next ==
    \E p \in Procs :
        \/ \E r \in Requests : StartMutation(p, r) \/ StartCreate(p, r)
        \/ Advance(p)
        \/ Fail(p) \/ CommitUnacknowledged(p)
        \/ Recycle(p)

Spec == Init /\ [][Next]_vars

\* PostgreSQL queues lock waiters in order, so a request that is granted its
\* lock again and again moves on; a running handler keeps running.  Nothing is
\* assumed of failures, clients or retries.
FairSpec == Spec /\ \A p \in Procs : SF_vars(Advance(p))

------------------------------------------------------------------------------
(* Properties.                                                             *)

\* Every variable keeps its type; in particular no committed or uncommitted
\* counter value, delta or response leaves the int64 range.
TypeOK ==
    /\ live \subseteq Counters
    /\ value \in [Counters -> Int64]
    /\ label \in [Counters -> Labels]
    /\ ops \in [Tenants -> [OpIds -> OpRows \cup {NoOp}]]
    /\ audit \in [Keys -> Tenants \cup {NoTenant}]
    /\ rowLock \in [Counters -> Procs \cup {NoProc}]
    /\ pc \in [Procs -> Stages]
    /\ req \in [Procs -> Requests \cup {NoReq}]
    /\ target \in [Procs -> Counters \cup {NoCounter}]
    /\ cur \in [Procs -> Int64]
    /\ txVal \in [Procs -> Int64]
    /\ txOp \in [Procs -> OpRows \cup {NoOp}]
    /\ writes \in [Procs -> SUBSET {"row", "value", "audit"}]
    /\ resp \in [Procs -> Responses]

\* The concurrent store implements the atomic ledger: whatever interleaves and
\* whatever fails, the tables only ever change by opening a counter or by
\* posting one whole mutation, under a key its tenant has not used, to the
\* value the counter has at that moment (no lost update, no double effect, no
\* pending or half-written row, no rewritten history).
Ledger == INSTANCE CounterLedger WITH
    live <- live, value <- value, label <- label, ops <- ops, audit <- audit
RefinesLedger == Ledger!Spec

\* A success answer to an increment or set (incrementCounter and
\* setCounterValueWithOperation returning a MutationResult) always repeats the
\* committed operation row of that request's key, be it the first answer or a
\* replay, and however many other requests have moved the counter since.
AnswerTruthful ==
    \A p \in Procs :
        pc[p] \in {"committed", "done"} /\ resp[p].status = "ok" /\ req[p].kind # "create" =>
            LET row == ops[req[p].tenant][req[p].key] IN
            /\ row # NoOp
            /\ row.state = "completed"
            /\ row.hash = RequestHash(req[p])
            /\ row.counter = req[p].counter
            /\ row.delta = resp[p].delta
            /\ row.after = resp[p].value

\* The audit trail and the history agree: a tenant has a privileged_adjustment
\* event under an id exactly when its committed operation of that id is a set
\* by a known actor.
AuditMatchesHistory ==
    \A t \in Tenants, k \in Keys :
        audit[k] = t <=>
            /\ ops[t][k] # NoOp
            /\ ops[t][k].kind = "set_adjustment"
            /\ ops[t][k].actor # "anonymous"

\* No deadlock in PostgreSQL: among any group of requests at least one waits
\* for nobody in the group (counter row lock, operation id, audit id, label).
\* This is what locking the counter before inserting the operation row is for.
NoWaitCycle ==
    \A S \in SUBSET Procs :
        S # {} => \E p \in S : \A q \in S : ~WaitsFor(p, q)

\* The key of this request already belongs to a committed operation that this
\* very request data created.
AlreadyDone(p) ==
    LET row == ops[req[p].tenant][req[p].key]
    IN  row # NoOp /\ row.hash = RequestHash(req[p])

\* When the step answers a mutation whose operation had already been committed,
\* the answer is the original result (or a 503, after which it can be retried).
RetryAnswered(p) ==
    pc[p] \in Mutating /\ req[p].kind # "create" /\ pc'[p] = "done" /\ AlreadyDone(p) =>
        resp'[p].status \in {"ok", "unavailable"}

\* docs/api-v2.md: a retry with the same key and the same request returns the
\* original result, for every increment and every set.
RetryHonoured == [][\A p \in Procs : RetryAnswered(p)]_vars

\* The retry guarantee as far as the code keeps it, for requests that spell the
\* counter id canonically: the original result, whatever has moved the counter
\* since.  Only a set that the counter has come too far away from, so that the
\* distance no longer fits int64, is refused, and then for that reason: the
\* distance is checked before the key is looked up.
CanonicalRetryHonoured ==
    [][\A p \in Procs :
          pc[p] # "idle" /\ req[p].spelling = "canonical" =>
              \/ RetryAnswered(p)
              \/ /\ resp'[p].status = "overflow"
                 /\ DeltaOf(req[p], value[req[p].counter]) \notin Int64]_vars

\* docs/api-v2.md: an idempotency key is scoped to its tenant.  A set is never
\* refused because another tenant used the same key.
KeyScopedToTenant ==
    \A p \in Procs : pc[p] = "done" => resp[p].status # "audit_clash"

\* Every accepted request is answered, without any timeout having to help.
Answered == \A p \in Procs : pc[p] \in InTx ~> pc[p] = "done"

==============================================================================
