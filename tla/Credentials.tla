----------------------------- MODULE Credentials -----------------------------
(***************************************************************************)
(* API credentials: authentication of every request, and the lifecycle     *)
(* operations an administrator runs: create, create an administrator,      *)
(* rotate, revoke.  Rotate and revoke read the credential in one           *)
(* transaction and write in another, with any other request in between;    *)
(* the row and its audit event commit together.  There is no cache of      *)
(* credentials: each request looks its own up.                             *)
(*                                                                         *)
(* Any request that is not a lifecycle operation is "use", with the scope  *)
(* its route requires.  Ids are UUIDs, drawn in order.                     *)
(***************************************************************************)
EXTENDS Integers

CONSTANTS
    Procs, Tenants, Existing,   \* Existing: the tenants that exist
    Allowed, Default,           \* supported scopes, and those given by default
    Requests,                   \* what clients ask for; expires = Never is NULL
    Never, NoTenant,
    MaxIds, MaxTime,            \* bounds of the ids and of the clock
    NoCred, NoReq

VARIABLES
    now,
    drawn,      \* ids drawn so far
    creds,      \* api_credentials
    events,     \* auth_audit_events: how many of each action, per credential
    pc, req,
    key,        \* the credential a request presents
    target,     \* the credential that rotate or revoke names
    old,        \* the credential that rotate or revoke has read
    tx,         \* the uncommitted write: a row under an id
    resp,
    dead,       \* history: credentials whose revocation had been answered
                \* when the request started
    buried      \* history: credentials whose revocation has been answered

vars == <<now, drawn, creds, events, pc, req, key, target, old, tx, resp, dead, buried>>

Legacy   == 0                   \* the environment key, an administrator
Ids      == 1 .. MaxIds
Times    == 0 .. MaxTime
Actions  == {"created", "rotated", "revoked"}
Creds    == [tenant : Tenants \cup {NoTenant}, scopes : SUBSET Allowed,
             admin : BOOLEAN, expires : Nat \cup {Never}, from : 0 .. MaxIds,
             by : 0 .. MaxIds, revoked : BOOLEAN]
Ops      == {"use", "create", "admin", "rotate", "revoke"}

\* A request without the caller's key and without the credential it names.
IsRequest(r) ==
    /\ DOMAIN r = {"op", "tenant", "scopes", "expires"}
    /\ r.op \in Ops
    /\ r.tenant \in IF r.op = "admin" THEN {NoTenant} ELSE Tenants
    /\ r.expires \in Nat \cup {Never}

Stages   == {"idle", "auth", "read", "insert", "update", "commit", "done"}
InFlight == Stages \ {"idle", "done"}
Statuses == {"none", "ok", "unauthorized", "forbidden", "invalid", "not_found", "unavailable"}

ASSUME CredentialAssumption ==
    /\ Existing \subseteq Tenants /\ NoTenant \notin Tenants
    /\ Default \subseteq Allowed
    /\ MaxIds \in Nat /\ MaxTime \in Nat
    /\ Never \notin Nat
    /\ \A r \in Requests : IsRequest(r)
    /\ NoCred \notin Creds /\ NoReq \notin Requests

NoTx == [id |-> 0, row |-> NoCred, action |-> "none"]
GoTo(p, st) == pc' = [pc EXCEPT ![p] = st]

------------------------------------------------------------------------------
(* Authentication and authorisation.                                       *)

\* Mutant of Active: a revoked credential is still found.
ActiveUnlessExpired(row, t) ==
    row # NoCred /\ (row.expires # Never => row.expires > t)

\* GetActiveCredential.
Active(row, t) ==
    /\ row # NoCred
    /\ ~row.revoked
    /\ row.expires # Never => row.expires > t

IsAdmin(id) == id # Legacy => creds[id].admin

\* Any key can be sent, and any credential of any state be named.
Start(p, r) ==
    /\ pc[p] = "idle"
    /\ req' = [req EXCEPT ![p] = r]
    /\ \E k \in 0 .. drawn : key' = [key EXCEPT ![p] = k]
    /\ \E i \in IF r.op \in {"rotate", "revoke"} THEN 1 .. drawn ELSE {0} :
          target' = [target EXCEPT ![p] = i]
    /\ dead' = [dead EXCEPT ![p] = buried]
    /\ GoTo(p, "auth")
    /\ UNCHANGED <<now, drawn, creds, events, old, tx, resp, buried>>

\* The end of a request that commits nothing: a transaction is rolled back.
Stop(p, s) ==
    /\ tx' = [tx EXCEPT ![p] = NoTx]
    /\ old' = [old EXCEPT ![p] = NoCred]
    /\ resp' = [resp EXCEPT ![p] = s]
    /\ GoTo(p, "done")
    /\ UNCHANGED <<now, drawn, creds, events, req, key, target, dead, buried>>

\* Authenticate: the environment key, or a lookup of the credential.
Authenticated(p) == key[p] # Legacy => Active(creds[key[p]], now)

Unauthenticated(p) ==
    /\ pc[p] = "auth"
    /\ ~Authenticated(p)
    /\ Stop(p, "unauthorized")

\* PrincipalAuthorized for the routes of a tenant, RequireAdmin for the
\* lifecycle routes.
Authorized(p) ==
    LET r == req[p] IN
    ~IsAdmin(key[p]) =>
        /\ r.op = "use"
        /\ creds[key[p]].tenant = r.tenant
        /\ r.scopes \subseteq creds[key[p]].scopes

Forbidden(p) ==
    /\ pc[p] = "auth"
    /\ Authenticated(p)
    /\ ~Authorized(p)
    /\ Stop(p, "forbidden")

\* A request that is no lifecycle operation is served.
Serve(p) ==
    /\ pc[p] = "auth"
    /\ req[p].op = "use"
    /\ Authenticated(p) /\ Authorized(p)
    /\ Stop(p, "ok")

\* The handler of a lifecycle route begins.  The principal is not looked up
\* again.
Allow(p) ==
    /\ pc[p] = "auth"
    /\ req[p].op # "use"
    /\ Authenticated(p) /\ Authorized(p)
    /\ GoTo(p, IF req[p].op \in {"create", "admin"} THEN "insert" ELSE "read")
    /\ UNCHANGED <<now, drawn, creds, events, req, key, target, old, tx, resp, dead, buried>>

------------------------------------------------------------------------------
(* The lifecycle.                                                          *)

\* normalizeCredentialScopes: an empty list means the default.
Normalized(scopes) == IF scopes = {} THEN Default ELSE scopes

\* Mutant of Acceptable: any scope may be asked for.
AcceptableAnyScope(r) == r.expires # Never => r.expires > now

\* The checks of create before it writes anything.
Acceptable(r) ==
    /\ r.scopes \subseteq Allowed
    /\ r.expires # Never => r.expires > now

CreateInvalid(p) ==
    /\ pc[p] = "insert"
    /\ req[p].op \in {"create", "admin"}
    /\ ~Acceptable(req[p])
    /\ Stop(p, "invalid")

\* Foreign key violation on tenant_id.
CreateNoTenant(p) ==
    /\ pc[p] = "insert"
    /\ req[p].op = "create"
    /\ Acceptable(req[p])
    /\ req[p].tenant \notin Existing
    /\ Stop(p, "not_found")

\* INSERT INTO api_credentials, and the audit event in the same transaction.
Insert(p, row, action) ==
    /\ drawn < MaxIds
    /\ drawn' = drawn + 1
    /\ tx' = [tx EXCEPT ![p] = [id |-> drawn + 1, row |-> row, action |-> action]]
    /\ old' = [old EXCEPT ![p] = NoCred]
    /\ GoTo(p, "commit")
    /\ UNCHANGED <<now, creds, events, req, key, target, resp, dead, buried>>

Create(p) ==
    LET r == req[p]
        admin == r.op = "admin" IN
    /\ pc[p] = "insert"
    /\ r.op \in {"create", "admin"}
    /\ Acceptable(r)
    /\ ~admin => r.tenant \in Existing
    /\ Insert(p, [tenant |-> IF admin THEN NoTenant ELSE r.tenant,
                  scopes |-> Normalized(r.scopes), admin |-> admin,
                  expires |-> r.expires, from |-> 0, by |-> key[p],
                  revoked |-> FALSE], "created")

\* GetActiveCredential and credentialBelongsToTenant, before rotate and revoke.
\* An administrator's credential belongs to no tenant.
ReadActive(p) ==
    LET row == creds[target[p]] IN
    /\ pc[p] = "read"
    /\ Active(row, now)
    /\ row.tenant = req[p].tenant /\ row.tenant # NoTenant
    /\ old' = [old EXCEPT ![p] = row]
    /\ GoTo(p, IF req[p].op = "rotate" THEN "insert" ELSE "update")
    /\ UNCHANGED <<now, drawn, creds, events, req, key, target, tx, resp, dead, buried>>

ReadMissing(p) ==
    LET row == creds[target[p]] IN
    /\ pc[p] = "read"
    /\ ~(Active(row, now) /\ row.tenant = req[p].tenant /\ row.tenant # NoTenant)
    /\ Stop(p, "not_found")

\* Mutant of Replacement: the replacement does not expire.
ReplacementForever(p) ==
    [old[p] EXCEPT !.admin = FALSE, !.from = target[p], !.by = key[p], !.expires = Never]

\* What Rotate copies from the credential it read, and what it does not.
Replacement(p) ==
    [old[p] EXCEPT !.admin = FALSE, !.from = target[p], !.by = key[p]]

\* The old credential stays as it is.
Rotate(p) ==
    /\ pc[p] = "insert"
    /\ req[p].op = "rotate"
    /\ Insert(p, Replacement(p), "rotated")

\* The row another open transaction is revoking.
Locked(p) == \E q \in Procs \ {p} : tx[q].action = "revoked" /\ tx[q].id = target[p]

\* Mutant of Revoke: without AND revoked_at IS NULL.
RevokeAgain(p) ==
    LET id == target[p] IN
    /\ pc[p] = "update"
    /\ ~Locked(p)
    /\ tx' = [tx EXCEPT ![p] = [id |-> id, row |-> [creds[id] EXCEPT !.revoked = TRUE],
                                action |-> "revoked"]]
    /\ old' = [old EXCEPT ![p] = NoCred]
    /\ GoTo(p, "commit")
    /\ UNCHANGED <<now, drawn, creds, events, req, key, target, resp, dead, buried>>

\* UPDATE ... SET revoked_at WHERE id = $1 AND revoked_at IS NULL, and the
\* audit event.
Revoke(p) ==
    LET id == target[p] IN
    /\ pc[p] = "update"
    /\ ~Locked(p)
    /\ ~creds[id].revoked
    /\ tx' = [tx EXCEPT ![p] = [id |-> id, row |-> [creds[id] EXCEPT !.revoked = TRUE],
                                action |-> "revoked"]]
    /\ old' = [old EXCEPT ![p] = NoCred]
    /\ GoTo(p, "commit")
    /\ UNCHANGED <<now, drawn, creds, events, req, key, target, resp, dead, buried>>

\* No row is left to revoke: somebody else was first.
RevokeMissing(p) ==
    /\ pc[p] = "update"
    /\ creds[target[p]].revoked
    /\ Stop(p, "not_found")

\* finish(true): the row and its event.
Publish(p) ==
    /\ creds' = [creds EXCEPT ![tx[p].id] = tx[p].row]
    /\ events' = [events EXCEPT ![tx[p].id][tx[p].action] = @ + 1]
    /\ tx' = [tx EXCEPT ![p] = NoTx]
    /\ GoTo(p, "done")
    /\ UNCHANGED <<now, drawn, req, key, target, old, dead>>

Commit(p) ==
    /\ pc[p] = "commit"
    /\ Publish(p)
    /\ resp' = [resp EXCEPT ![p] = "ok"]
    /\ buried' = IF req[p].op = "revoke" THEN buried \cup {target[p]} ELSE buried

\* How an error of the database is answered.  respondWithServiceError has a 503
\* for those it knows to pass (isUnavailable), and for the others what its
\* caller names: a 503 again, but a 400 in the handlers that create.
ErrorAnswers(p) ==
    IF req[p].op \in {"create", "admin"} /\ pc[p] # "auth"
    THEN {"unavailable", "invalid"} ELSE {"unavailable"}

\* The commit took effect, the caller sees an error.
CommitUnacknowledged(p) ==
    /\ pc[p] = "commit"
    /\ Publish(p)
    /\ \E s \in ErrorAnswers(p) : resp' = [resp EXCEPT ![p] = s]
    /\ UNCHANGED buried

\* A statement fails, or its deadline passes.
Fail(p) ==
    /\ pc[p] \in InFlight
    /\ \E s \in ErrorAnswers(p) : Stop(p, s)

Recycle(p) ==
    /\ pc[p] = "done"
    /\ req' = [req EXCEPT ![p] = NoReq]
    /\ key' = [key EXCEPT ![p] = 0]
    /\ target' = [target EXCEPT ![p] = 0]
    /\ resp' = [resp EXCEPT ![p] = "none"]
    /\ dead' = [dead EXCEPT ![p] = {}]
    /\ GoTo(p, "idle")
    /\ UNCHANGED <<now, drawn, creds, events, old, tx, buried>>

Tick ==
    /\ now < MaxTime
    /\ now' = now + 1
    /\ UNCHANGED <<drawn, creds, events, pc, req, key, target, old, tx, resp, dead, buried>>

Init ==
    /\ now = 0
    /\ drawn = 0
    /\ creds = [i \in Ids |-> NoCred]
    /\ events = [i \in Ids |-> [a \in Actions |-> 0]]
    /\ pc = [p \in Procs |-> "idle"]
    /\ req = [p \in Procs |-> NoReq]
    /\ key = [p \in Procs |-> 0]
    /\ target = [p \in Procs |-> 0]
    /\ old = [p \in Procs |-> NoCred]
    /\ tx = [p \in Procs |-> NoTx]
    /\ resp = [p \in Procs |-> "none"]
    /\ dead = [p \in Procs |-> {}]
    /\ buried = {}

Next ==
    \/ \E p \in Procs :
          \/ \E r \in Requests : Start(p, r)
          \/ Unauthenticated(p) \/ Forbidden(p) \/ Serve(p) \/ Allow(p)
          \/ CreateInvalid(p) \/ CreateNoTenant(p) \/ Create(p)
          \/ ReadActive(p) \/ ReadMissing(p) \/ Rotate(p)
          \/ Revoke(p) \/ RevokeMissing(p)
          \/ Commit(p) \/ CommitUnacknowledged(p) \/ Fail(p) \/ Recycle(p)
    \/ Tick

Spec == Init /\ [][Next]_vars

------------------------------------------------------------------------------
(* Properties.                                                             *)

\* Every variable keeps its type; the CHECK of migration 07 is part of it:
\* only an administrator's credential has no tenant.
TypeOK ==
    /\ now \in Times
    /\ drawn \in 0 .. MaxIds
    /\ \A i \in Ids : creds[i] \in Creds \cup {NoCred}
    /\ \A i \in Ids : creds[i] # NoCred => (creds[i].tenant = NoTenant <=> creds[i].admin)
    /\ events \in [Ids -> [Actions -> Nat]]
    /\ pc \in [Procs -> Stages]
    /\ req \in [Procs -> Requests \cup {NoReq}]
    /\ key \in [Procs -> 0 .. MaxIds]
    /\ target \in [Procs -> 0 .. MaxIds]
    /\ \A p \in Procs : old[p] \in Creds \cup {NoCred}
    /\ resp \in [Procs -> Statuses]
    /\ dead \in [Procs -> SUBSET Ids]
    /\ buried \subseteq Ids

\* The audit trail tells the life of every credential exactly: one created or
\* rotated event, and one revoked event if and only if it is revoked, however
\* many revocations race or are retried (CreateCredentialAndAudit,
\* RevokeCredentialAndAudit).
TrailExact ==
    \A i \in Ids :
        LET row == creds[i]
            count(a) == events[i][a] IN
        IF row = NoCred
        THEN \A a \in Actions : count(a) = 0
        ELSE /\ count("created") = (IF row.from = 0 THEN 1 ELSE 0)
             /\ count("rotated") = (IF row.from = 0 THEN 0 ELSE 1)
             /\ count("revoked") = (IF row.revoked THEN 1 ELSE 0)

\* Rotation never widens a grant: along every chain of rotations the tenant,
\* the scopes and the expiry are those of the credential that was created, and
\* no administrator comes out of it (credentialService.Rotate).
RotationKeepsGrant ==
    \A i \in Ids :
        creds[i] # NoCred /\ creds[i].from # 0 =>
            LET parent == creds[creds[i].from] IN
            /\ ~creds[i].admin /\ ~parent.admin
            /\ creds[i].tenant = parent.tenant
            /\ creds[i].scopes = parent.scopes
            /\ creds[i].expires = parent.expires

\* A revocation that has been answered is final: a request that starts later
\* is not served for that credential, and does not rotate or revoke it again.
RevocationFinal ==
    \A p \in Procs :
        pc[p] = "done" /\ resp[p] = "ok" =>
            /\ key[p] \notin dead[p]
            /\ target[p] \notin dead[p]
==============================================================================
