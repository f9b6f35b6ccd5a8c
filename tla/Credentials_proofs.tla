-------------------------- MODULE Credentials_proofs --------------------------
(***************************************************************************)
(* Proofs about Credentials, for any requests, tenants, scopes and number  *)
(* of processes: types, the exact audit trail, that rotation keeps the     *)
(* grant, and that an answered revocation is final.                        *)
(*                                                                         *)
(* The argument is what a committed credential can become: its grant never *)
(* changes and it is revoked at most once, so what rotate and revoke read  *)
(* in one transaction is still true of the grant in the next, and only the *)
(* revoked flag has to be checked again.                                   *)
(***************************************************************************)
EXTENDS Credentials, TLAPS

\* The functions behind TypeOK, and the uncommitted writes.
Shaped ==
    /\ creds \in [Ids -> Creds \cup {NoCred}]
    /\ old \in [Procs -> Creds \cup {NoCred}]
    /\ tx \in [Procs -> [id : 0 .. MaxIds, row : Creds \cup {NoCred}, action : Actions \cup {"none"}]]

\* The credential that a request names, and the stages of each operation.
Carried(p) ==
    /\ pc[p] # "idle" => /\ req[p] \in Requests
                         /\ target[p] \in IF req[p].op \in {"rotate", "revoke"} THEN Ids ELSE {0}
    /\ pc[p] = "read" => req[p].op \in {"rotate", "revoke"}
    /\ pc[p] = "insert" => req[p].op \in {"create", "admin", "rotate"}
    /\ pc[p] = "update" => req[p].op = "revoke"

\* Two rows with the same grant, neither of them an administrator's.
SameGrant(row, parent) ==
    /\ ~ row.admin /\ ~ parent.admin
    /\ row.tenant = parent.tenant /\ row.scopes = parent.scopes /\ row.expires = parent.expires

\* The row of a rotation descends from a credential with the same grant.
Descends(row) ==
    row.from # 0 =>
        row.from \in Ids /\ creds[row.from] \in Creds /\ SameGrant(row, creds[row.from])

\* What rotate and revoke have read is still the grant of the credential.
HasRead(p) ==
    pc[p] \in {"insert", "update"} /\ req[p].op \in {"rotate", "revoke"} =>
        /\ target[p] \in Ids /\ creds[target[p]] \in Creds
        /\ old[p] \in Creds /\ ~ old[p].revoked
        /\ old[p].tenant # NoTenant /\ SameGrant(old[p], creds[target[p]])

\* An open transaction inserts a row under an id of its own ...
OpenInsert(id, row, action) ==
    /\ id <= drawn /\ creds[id] = NoCred
    /\ ~ row.revoked
    /\ row.tenant = NoTenant <=> row.admin
    /\ action \in {"created", "rotated"}
    /\ action = "created" <=> row.from = 0
    /\ Descends(row)

\* ... or revokes a credential that is not revoked yet.
OpenRevoke(id, row) ==
    /\ creds[id] \in Creds /\ ~ creds[id].revoked
    /\ row = [creds[id] EXCEPT !.revoked = TRUE]

OpenTx(p) ==
    IF pc[p] = "commit"
    THEN /\ tx[p].id \in Ids /\ tx[p].row \in Creds
         /\ IF req[p].op = "revoke"
            THEN tx[p].action = "revoked" /\ tx[p].id = target[p] /\ OpenRevoke(tx[p].id, tx[p].row)
            ELSE OpenInsert(tx[p].id, tx[p].row, tx[p].action)
    ELSE tx[p].action = "none"

\* A request that passed authentication, or was served, presented no credential
\* that was dead when it started; one past its read names no dead one.
Trusted(p) ==
    /\ dead[p] \subseteq buried
    /\ pc[p] \in {"read", "insert", "update", "commit"} => key[p] \notin dead[p]
    /\ pc[p] \in {"insert", "update", "commit"} => target[p] \notin dead[p]
    /\ pc[p] = "done" /\ resp[p] = "ok" => key[p] \notin dead[p] /\ target[p] \notin dead[p]

\* No two open transactions write one row.
RowsApart ==
    \A p, q \in Procs : pc[p] = "commit" /\ pc[q] = "commit" /\ p # q => tx[p].id # tx[q].id

\* Ids not drawn are free, and every committed row descends from its parent.
Drawn   == \A i \in Ids : i > drawn => creds[i] = NoCred
Lineage == \A i \in Ids : creds[i] # NoCred => Descends(creds[i])

\* A revocation that was answered has taken effect.
Buried == \A i \in buried : creds[i] \in Creds /\ creds[i].revoked

Request(p) == Carried(p) /\ HasRead(p) /\ OpenTx(p) /\ Trusted(p)

IInv ==
    /\ TypeOK
    /\ Shaped
    /\ \A p \in Procs : Request(p)
    /\ RowsApart
    /\ Drawn
    /\ TrailExact
    /\ Lineage
    /\ Buried

\* Nothing of request q changes.
Same(q) ==
    /\ pc'[q] = pc[q] /\ req'[q] = req[q] /\ key'[q] = key[q] /\ target'[q] = target[q]
    /\ old'[q] = old[q] /\ tx'[q] = tx[q] /\ resp'[q] = resp[q] /\ dead'[q] = dead[q]

------------------------------------------------------------------------------
(* Facts that every step uses.                                             *)

LEMMA Numbers ==
    ASSUME TypeOK
    PROVE  /\ drawn \in Nat /\ MaxIds \in Nat /\ drawn <= MaxIds
           /\ \A i \in Ids : i \in Nat /\ i # 0 /\ i \in 0 .. MaxIds
           /\ 0 \in 0 .. MaxIds /\ 0 \notin Ids
  BY CredentialAssumption DEF TypeOK, Ids

LEMMA RequestFields ==
    ASSUME NEW r \in Requests
    PROVE  /\ r.op \in Ops /\ r.expires \in Nat \cup {Never}
           /\ r.op # "admin" => r.tenant \in Tenants
           /\ r # NoReq
  BY CredentialAssumption DEF IsRequest

\* What an open transaction writes has been drawn.
LEMMA OpenDrawn ==
    ASSUME IInv, NEW p \in Procs, pc[p] = "commit"
    PROVE  tx[p].id \in Ids /\ tx[p].id <= drawn
  <1>1. tx[p].id \in Ids
    BY DEF IInv, Request, OpenTx
  <1>2. CASE req[p].op = "revoke"
    <2>1. creds[tx[p].id] # NoCred
      BY <1>2, CredentialAssumption DEF IInv, Request, OpenTx, OpenRevoke
    <2>2. ~ (tx[p].id > drawn)
      BY <1>1, <2>1 DEF IInv, Drawn
    <2> QED  BY <1>1, <2>2, Numbers DEF IInv
  <1>3. CASE req[p].op # "revoke"
    BY <1>1, <1>3 DEF IInv, Request, OpenTx, OpenInsert
  <1> QED  BY <1>1, <1>2, <1>3

\* A request that a step leaves alone keeps what is known of it, as long as no
\* credential is written.
LEMMA OtherKept ==
    ASSUME IInv, NEW q \in Procs, Same(q), UNCHANGED <<creds, buried>>,
           drawn' \in Nat, drawn <= drawn'
    PROVE  Request(q)'
  <1>1. Carried(q)'
    BY DEF IInv, Request, Same, Carried
  <1>2. HasRead(q)'
    BY DEF IInv, Request, Same, HasRead
  <1>3. OpenTx(q)'
    <2>1. CASE pc[q] = "commit"
      <3>1. tx[q].id <= drawn'
        BY <2>1, OpenDrawn, Numbers DEF IInv
      <3>2. ASSUME NEW row PROVE Descends(row) => Descends(row)'
        BY DEF Descends
      <3> HIDE DEF Descends
      <3> QED  BY <2>1, <3>1, <3>2 DEF IInv, Request, Same, OpenTx, OpenInsert, OpenRevoke
    <2>2. CASE pc[q] # "commit"
      BY <2>2 DEF IInv, Request, Same, OpenTx
    <2> QED  BY <2>1, <2>2
  <1>4. Trusted(q)'
    BY DEF IInv, Request, Same, Trusted
  <1> QED  BY <1>1, <1>2, <1>3, <1>4 DEF Request

\* A step of one request that commits nothing.
LEMMA LocalStep ==
    ASSUME IInv, TypeOK', Shaped', NEW p \in Procs,
           UNCHANGED <<creds, events, buried>>,
           drawn' \in Nat, drawn <= drawn',
           \A q \in Procs \ {p} : Same(q),
           Request(p)',
           \A q \in Procs \ {p} :
               pc'[p] = "commit" /\ pc[q] = "commit" => tx[q].id # tx'[p].id
    PROVE  IInv'
  <1>1. ASSUME NEW q \in Procs PROVE Request(q)'
    BY OtherKept
  <1>2. RowsApart'
    <2> SUFFICES ASSUME NEW a \in Procs, NEW b \in Procs,
                        pc'[a] = "commit", pc'[b] = "commit", a # b
                 PROVE  tx'[a].id # tx'[b].id
      BY DEF RowsApart
    <2>1. CASE a # p /\ b # p
      BY <2>1 DEF IInv, RowsApart, Same
    <2>2. CASE a = p
      BY <2>2 DEF Same
    <2>3. CASE b = p
      BY <2>3 DEF Same
    <2> QED  BY <2>1, <2>2, <2>3
  <1>3. Drawn'
    BY Numbers DEF IInv, Drawn
  <1>4. TrailExact' /\ Lineage' /\ Buried'
    BY DEF IInv, TrailExact, Lineage, Descends, Buried
  <1> QED  BY <1>1, <1>2, <1>3, <1>4 DEF IInv

------------------------------------------------------------------------------
(* One lemma per action, or per form of it.                                *)

LEMMA StartStep ==
    ASSUME IInv, NEW p \in Procs, NEW r \in Requests, Start(p, r)
    PROVE  IInv'
  <1>1. PICK k \in 0 .. drawn : key' = [key EXCEPT ![p] = k]
    BY DEF Start
  <1>2. PICK i \in IF r.op \in {"rotate", "revoke"} THEN 1 .. drawn ELSE {0} :
            target' = [target EXCEPT ![p] = i]
    BY DEF Start
  <1>3. /\ pc[p] = "idle" /\ pc' = [pc EXCEPT ![p] = "auth"]
        /\ req' = [req EXCEPT ![p] = r]
        /\ dead' = [dead EXCEPT ![p] = buried]
        /\ UNCHANGED <<now, drawn, creds, events, old, tx, resp, buried>>
    BY DEF Start, GoTo
  <1>4. k \in 0 .. MaxIds /\ i \in 0 .. MaxIds
        /\ i \in IF r.op \in {"rotate", "revoke"} THEN Ids ELSE {0}
    BY Numbers DEF IInv, Ids
  <1>5. TypeOK' /\ Shaped'
    BY <1>1, <1>2, <1>3, <1>4 DEF IInv, TypeOK, Shaped, Stages
  <1>6. pc'[p] = "auth" /\ req'[p] = r /\ target'[p] = i /\ dead'[p] = buried
    BY <1>1, <1>2, <1>3 DEF IInv, TypeOK
  <1>7. \A q \in Procs \ {p} : Same(q)
    BY <1>1, <1>2, <1>3 DEF IInv, TypeOK, Same
  <1>8. Request(p)'
    BY <1>3, <1>4, <1>6 DEF IInv, Request, Carried, HasRead, OpenTx, Trusted
  <1> QED  BY <1>3, <1>5, <1>6, <1>7, <1>8, LocalStep, Numbers DEF IInv

\* The end of a request that commits nothing.  An answer of success is given
\* only to a request that names no dead credential.
LEMMA StopStep ==
    ASSUME IInv, NEW p \in Procs, pc[p] # "idle", NEW s \in Statuses, Stop(p, s),
           s = "ok" => key[p] \notin dead[p] /\ target[p] \notin dead[p]
    PROVE  IInv'
  <1>1. /\ tx' = [tx EXCEPT ![p] = NoTx]
        /\ old' = [old EXCEPT ![p] = NoCred]
        /\ resp' = [resp EXCEPT ![p] = s]
        /\ pc' = [pc EXCEPT ![p] = "done"]
        /\ UNCHANGED <<now, drawn, creds, events, req, key, target, dead, buried>>
    BY DEF Stop, GoTo
  <1>2. NoTx \in [id : 0 .. MaxIds, row : Creds \cup {NoCred}, action : Actions \cup {"none"}]
        /\ NoTx.action = "none"
    BY Numbers DEF IInv, NoTx
  <1>3. TypeOK' /\ Shaped'
    BY <1>1, <1>2 DEF IInv, TypeOK, Shaped, Stages
  <1>4. pc'[p] = "done" /\ tx'[p] = NoTx /\ resp'[p] = s
    BY <1>1 DEF IInv, TypeOK, Shaped
  <1>5. \A q \in Procs \ {p} : Same(q)
    BY <1>1 DEF IInv, TypeOK, Shaped, Same
  <1>6. Request(p)'
    BY <1>1, <1>2, <1>4 DEF IInv, Request, Carried, HasRead, OpenTx, Trusted
  <1> QED  BY <1>1, <1>3, <1>4, <1>5, <1>6, LocalStep, Numbers DEF IInv

\* A credential that authenticates was not dead when the request started.
LEMMA AliveKey ==
    ASSUME IInv, NEW p \in Procs, Authenticated(p)
    PROVE  key[p] \notin dead[p]
  <1>1. ASSUME key[p] \in dead[p] PROVE FALSE
    <2>1. key[p] \in buried /\ key[p] \in Ids
      BY <1>1 DEF IInv, TypeOK, Request, Trusted
    <2>2. creds[key[p]].revoked /\ key[p] # 0
      BY <2>1, Numbers DEF IInv, Buried
    <2> QED  BY <2>2 DEF Authenticated, Active, Legacy
  <1> QED  BY <1>1

LEMMA NoTarget ==
    ASSUME IInv, NEW p \in Procs, pc[p] # "idle", req[p].op \notin {"rotate", "revoke"}
    PROVE  target[p] \notin dead[p]
  <1>1. target[p] = 0
    BY DEF IInv, Request, Carried
  <1>2. dead[p] \subseteq Ids
    BY DEF IInv, TypeOK
  <1> QED  BY <1>1, <1>2, Numbers DEF IInv

LEMMA ServeStep ==
    ASSUME IInv, NEW p \in Procs, Serve(p)
    PROVE  IInv'
  <1>1. pc[p] = "auth" /\ req[p].op = "use" /\ Authenticated(p) /\ Stop(p, "ok")
    BY DEF Serve
  <1>2. "ok" \in Statuses
    BY DEF Statuses
  <1> QED  BY <1>1, <1>2, AliveKey, NoTarget, StopStep

LEMMA RefusedStep ==
    ASSUME IInv, NEW p \in Procs,
           \/ Unauthenticated(p) \/ Forbidden(p) \/ CreateInvalid(p) \/ CreateNoTenant(p)
           \/ ReadMissing(p) \/ RevokeMissing(p) \/ Fail(p)
    PROVE  IInv'
  <1>1. PICK s \in Statuses \ {"ok"} : pc[p] # "idle" /\ Stop(p, s)
    BY DEF Unauthenticated, Forbidden, CreateInvalid, CreateNoTenant, ReadMissing, RevokeMissing,
           Fail, ErrorAnswers, InFlight, Statuses
  <1> QED  BY <1>1, StopStep

LEMMA AllowStep ==
    ASSUME IInv, NEW p \in Procs, Allow(p)
    PROVE  IInv'
  <1>1. /\ pc[p] = "auth" /\ req[p].op # "use" /\ Authenticated(p)
        /\ pc' = [pc EXCEPT ![p] = IF req[p].op \in {"create", "admin"} THEN "insert" ELSE "read"]
        /\ UNCHANGED <<now, drawn, creds, events, req, key, target, old, tx, resp, dead, buried>>
    BY DEF Allow, GoTo
  <1>2. TypeOK' /\ Shaped'
    BY <1>1 DEF IInv, TypeOK, Shaped, Stages
  <1>3. pc'[p] = IF req[p].op \in {"create", "admin"} THEN "insert" ELSE "read"
    BY <1>1 DEF IInv, TypeOK
  <1>4. \A q \in Procs \ {p} : Same(q)
    BY <1>1 DEF IInv, TypeOK, Same
  <1>5. Request(p)'
    <2>1. req[p] \in Requests /\ req[p].op \in Ops
      BY <1>1, RequestFields DEF IInv, Request, Carried
    <2>2. Carried(p)' /\ HasRead(p)' /\ OpenTx(p)'
      BY <1>1, <1>3, <2>1 DEF IInv, Request, Carried, HasRead, OpenTx, Ops
    <2>3. Trusted(p)'
      BY <1>1, <1>3, AliveKey, NoTarget DEF IInv, Request, Trusted
    <2> QED  BY <2>2, <2>3 DEF Request
  <1> QED  BY <1>1, <1>2, <1>3, <1>4, <1>5, LocalStep, Numbers DEF IInv

LEMMA ReadActiveStep ==
    ASSUME IInv, NEW p \in Procs, ReadActive(p)
    PROVE  IInv'
  <1> DEFINE row == creds[target[p]]
  <1>1. /\ pc[p] = "read" /\ Active(row, now)
        /\ row.tenant # NoTenant
        /\ old' = [old EXCEPT ![p] = row]
        /\ pc' = [pc EXCEPT ![p] = IF req[p].op = "rotate" THEN "insert" ELSE "update"]
        /\ UNCHANGED <<now, drawn, creds, events, req, key, target, tx, resp, dead, buried>>
    BY DEF ReadActive, GoTo
  <1>2. target[p] \in Ids /\ req[p].op \in {"rotate", "revoke"}
    BY <1>1 DEF IInv, Request, Carried
  <1>3. row \in Creds /\ ~ row.revoked /\ ~ row.admin
    BY <1>1, <1>2 DEF IInv, TypeOK, Active
  <1>4. TypeOK' /\ Shaped'
    BY <1>1, <1>3 DEF IInv, TypeOK, Shaped, Stages
  <1>5. pc'[p] = (IF req[p].op = "rotate" THEN "insert" ELSE "update") /\ old'[p] = row
    BY <1>1 DEF IInv, TypeOK, Shaped
  <1>6. \A q \in Procs \ {p} : Same(q)
    BY <1>1 DEF IInv, TypeOK, Shaped, Same
  <1>7. target[p] \notin dead[p]
    BY <1>3 DEF IInv, Request, Trusted, Buried
  <1>8. Request(p)'
    <2>1. Carried(p)' /\ OpenTx(p)'
      BY <1>1, <1>2, <1>5 DEF IInv, Request, Carried, OpenTx
    <2>2. HasRead(p)'
      BY <1>1, <1>2, <1>3, <1>5 DEF HasRead, SameGrant
    <2>3. Trusted(p)'
      BY <1>1, <1>5, <1>7 DEF IInv, Request, Trusted
    <2> QED  BY <2>1, <2>2, <2>3 DEF Request
  <1> QED  BY <1>1, <1>4, <1>5, <1>6, <1>8, LocalStep, Numbers DEF IInv

\* A new row waits under an id that nobody else has.
LEMMA InsertStep ==
    ASSUME IInv, NEW p \in Procs, pc[p] = "insert", NEW row \in Creds,
           NEW action \in {"created", "rotated"}, Insert(p, row, action),
           ~ row.revoked, row.tenant = NoTenant <=> row.admin,
           action = "created" <=> row.from = 0, Descends(row)
    PROVE  IInv'
  <1>0. PICK id \in Nat : id = drawn + 1
    BY Numbers DEF IInv
  <1> DEFINE w == [id |-> id, row |-> row, action |-> action]
  <1>1. /\ drawn < MaxIds /\ drawn' = id
        /\ tx' = [tx EXCEPT ![p] = w]
        /\ old' = [old EXCEPT ![p] = NoCred]
        /\ pc' = [pc EXCEPT ![p] = "commit"]
        /\ UNCHANGED <<now, creds, events, req, key, target, resp, dead, buried>>
    BY <1>0 DEF Insert, GoTo
  <1>2. id \in Ids /\ id \in Nat /\ id > drawn /\ id \in 0 .. MaxIds /\ id <= drawn'
    BY <1>0, <1>1, Numbers DEF IInv, Ids
  <1>3. w.id = id /\ w.row = row /\ w.action = action
        /\ w \in [id : 0 .. MaxIds, row : Creds \cup {NoCred}, action : Actions \cup {"none"}]
    BY <1>2 DEF Actions
  <1> HIDE DEF w
  <1>4. TypeOK' /\ Shaped'
    BY <1>1, <1>2, <1>3 DEF IInv, TypeOK, Shaped, Stages
  <1>5. pc'[p] = "commit" /\ tx'[p] = w
    BY <1>1 DEF IInv, TypeOK, Shaped
  <1>6. \A q \in Procs \ {p} : Same(q)
    BY <1>1 DEF IInv, TypeOK, Shaped, Same
  <1>7. Request(p)'
    <2>1. Carried(p)' /\ HasRead(p)' /\ Trusted(p)'
      BY <1>1, <1>5 DEF IInv, Request, Carried, HasRead, Trusted
    <2>2. req'[p].op # "revoke"
      BY <1>1 DEF IInv, Request, Carried
    <2>3. creds'[id] = NoCred
      BY <1>1, <1>2 DEF IInv, Drawn
    <2>4. Descends(row)'
      BY <1>1 DEF Descends
    <2>5. OpenInsert(id, row, action)'
      BY <1>2, <2>3, <2>4 DEF OpenInsert
    <2>6. OpenTx(p)'
      <3>1. tx'[p].id = id /\ tx'[p].row = row /\ tx'[p].action = action
        BY <1>3, <1>5
      <3> QED  BY <1>2, <1>5, <2>2, <2>5, <3>1 DEF OpenTx, OpenInsert, Descends
    <2> QED  BY <2>1, <2>6 DEF Request
  <1>8. ASSUME NEW q \in Procs \ {p}, pc[q] = "commit" PROVE tx[q].id # tx'[p].id
    <2>1. tx[q].id \in Ids /\ tx[q].id <= drawn
      BY <1>8, OpenDrawn
    <2> QED  BY <1>2, <1>3, <1>5, <2>1, Numbers DEF IInv
  <1>9. drawn' \in Nat /\ drawn <= drawn'
    BY <1>1, <1>2, Numbers DEF IInv
  <1> QED  BY <1>1, <1>4, <1>6, <1>7, <1>8, <1>9, LocalStep

LEMMA CreateStep ==
    ASSUME IInv, NEW p \in Procs, Create(p)
    PROVE  IInv'
  <1> DEFINE r == req[p]
             admin == r.op = "admin"
             row == [tenant |-> IF admin THEN NoTenant ELSE r.tenant,
                     scopes |-> Normalized(r.scopes), admin |-> admin,
                     expires |-> r.expires, from |-> 0, by |-> key[p],
                     revoked |-> FALSE]
  <1>1. pc[p] = "insert" /\ r.op \in {"create", "admin"} /\ Acceptable(r) /\ Insert(p, row, "created")
    BY DEF Create
  <1>2. r \in Requests
    BY <1>1 DEF IInv, Request, Carried
  <1>3. r.expires \in Nat \cup {Never} /\ (r.op # "admin" => r.tenant \in Tenants)
    BY <1>2, RequestFields
  <1>4. Normalized(r.scopes) \in SUBSET Allowed
    BY <1>1, CredentialAssumption DEF Normalized, Acceptable
  <1>5. key[p] \in 0 .. MaxIds /\ 0 \in 0 .. MaxIds
    BY Numbers DEF IInv, TypeOK
  <1>6. admin \in BOOLEAN
    OBVIOUS
  <1>7. row \in Creds
    BY <1>3, <1>4, <1>5, <1>6 DEF Creds
  <1>8. ~ row.revoked /\ row.from = 0 /\ (row.tenant = NoTenant <=> row.admin)
    BY <1>3, CredentialAssumption
  <1>9. Descends(row)
    BY <1>8 DEF Descends
  <1> HIDE DEF row
  <1> QED  BY <1>1, <1>7, <1>8, <1>9, InsertStep

\* The replacement has the grant that was read, which is still the parent's.
LEMMA RotateStep ==
    ASSUME IInv, NEW p \in Procs, Rotate(p)
    PROVE  IInv'
  <1>1. pc[p] = "insert" /\ req[p].op = "rotate" /\ Insert(p, Replacement(p), "rotated")
    BY DEF Rotate
  <1>2. /\ target[p] \in Ids /\ creds[target[p]] \in Creds
        /\ old[p] \in Creds /\ ~ old[p].revoked
        /\ old[p].tenant # NoTenant /\ SameGrant(old[p], creds[target[p]])
    BY <1>1 DEF IInv, Request, HasRead
  <1>3. target[p] \in 0 .. MaxIds /\ key[p] \in 0 .. MaxIds /\ target[p] # 0
    BY <1>2, Numbers DEF IInv, TypeOK
  <1>4. /\ Replacement(p) \in Creds
        /\ Replacement(p).admin = FALSE /\ Replacement(p).from = target[p]
        /\ Replacement(p).revoked = old[p].revoked /\ Replacement(p).tenant = old[p].tenant
        /\ Replacement(p).scopes = old[p].scopes /\ Replacement(p).expires = old[p].expires
    BY <1>2, <1>3 DEF Replacement, Creds
  <1>5. Descends(Replacement(p))
    BY <1>2, <1>4 DEF Descends, SameGrant
  <1> QED  BY <1>1, <1>2, <1>3, <1>4, <1>5, InsertStep

LEMMA RevokeStep ==
    ASSUME IInv, NEW p \in Procs, Revoke(p)
    PROVE  IInv'
  <1>0. PICK id, row : id = target[p] /\ row = [creds[id] EXCEPT !.revoked = TRUE]
    OBVIOUS
  <1> DEFINE w == [id |-> id, row |-> row, action |-> "revoked"]
  <1>1. /\ pc[p] = "update" /\ ~ Locked(p) /\ ~ creds[id].revoked
        /\ tx' = [tx EXCEPT ![p] = w]
        /\ old' = [old EXCEPT ![p] = NoCred]
        /\ pc' = [pc EXCEPT ![p] = "commit"]
        /\ UNCHANGED <<now, drawn, creds, events, req, key, target, resp, dead, buried>>
    BY <1>0 DEF Revoke, GoTo
  <1>2. req[p].op = "revoke" /\ id \in Ids /\ creds[id] \in Creds /\ id \in 0 .. MaxIds
    BY <1>0, <1>1, Numbers DEF IInv, Request, Carried, HasRead
  <1>3. row \in Creds
    BY <1>0, <1>2 DEF Creds
  <1>4. w.id = id /\ w.row = row /\ w.action = "revoked"
        /\ w \in [id : 0 .. MaxIds, row : Creds \cup {NoCred}, action : Actions \cup {"none"}]
    BY <1>2, <1>3 DEF Actions
  <1>5. OpenRevoke(id, row)'
    BY <1>0, <1>1, <1>2 DEF OpenRevoke
  <1> HIDE DEF w
  <1>6. TypeOK' /\ Shaped'
    BY <1>1, <1>4 DEF IInv, TypeOK, Shaped, Stages
  <1>7. pc'[p] = "commit" /\ tx'[p] = w /\ target'[p] = id /\ req'[p] = req[p]
    BY <1>0, <1>1 DEF IInv, TypeOK, Shaped
  <1>8. \A q \in Procs \ {p} : Same(q)
    BY <1>1 DEF IInv, TypeOK, Shaped, Same
  <1>9. Request(p)'
    <2>1. Carried(p)' /\ HasRead(p)' /\ Trusted(p)'
      BY <1>1, <1>7 DEF IInv, Request, Carried, HasRead, Trusted
    <2>2. OpenTx(p)'
      <3>1. tx'[p].id = id /\ tx'[p].row = row /\ tx'[p].action = "revoked"
        BY <1>4, <1>7
      <3> QED  BY <1>2, <1>3, <1>5, <1>7, <3>1 DEF OpenTx, OpenRevoke
    <2> QED  BY <2>1, <2>2 DEF Request
  <1>10. ASSUME NEW q \in Procs \ {p}, pc[q] = "commit" PROVE tx[q].id # tx'[p].id
    <2>1. CASE req[q].op = "revoke"
      BY <1>0, <1>1, <1>4, <1>7, <1>10, <2>1 DEF IInv, Request, OpenTx, Locked
    <2>2. CASE req[q].op # "revoke"
      BY <1>2, <1>4, <1>7, <1>10, <2>2, CredentialAssumption DEF IInv, Request, OpenTx, OpenInsert
    <2> QED  BY <2>1, <2>2
  <1> QED  BY <1>1, <1>6, <1>8, <1>9, <1>10, LocalStep, Numbers DEF IInv

LEMMA RecycleStep ==
    ASSUME IInv, NEW p \in Procs, Recycle(p)
    PROVE  IInv'
  <1>1. /\ pc[p] = "done" /\ pc' = [pc EXCEPT ![p] = "idle"]
        /\ req' = [req EXCEPT ![p] = NoReq]
        /\ key' = [key EXCEPT ![p] = 0]
        /\ target' = [target EXCEPT ![p] = 0]
        /\ resp' = [resp EXCEPT ![p] = "none"]
        /\ dead' = [dead EXCEPT ![p] = {}]
        /\ UNCHANGED <<now, drawn, creds, events, old, tx, buried>>
    BY DEF Recycle, GoTo
  <1>2. TypeOK' /\ Shaped'
    BY <1>1, Numbers DEF IInv, TypeOK, Shaped, Stages, Statuses
  <1>3. pc'[p] = "idle" /\ dead'[p] = {}
    BY <1>1 DEF IInv, TypeOK
  <1>4. \A q \in Procs \ {p} : Same(q)
    BY <1>1 DEF IInv, TypeOK, Same
  <1>5. Request(p)'
    BY <1>1, <1>3 DEF IInv, Request, Carried, HasRead, OpenTx, Trusted
  <1> QED  BY <1>1, <1>2, <1>3, <1>4, <1>5, LocalStep, Numbers DEF IInv

LEMMA TickStep ==
    ASSUME IInv, Tick
    PROVE  IInv'
  <1>1. /\ now < MaxTime /\ now' = now + 1
        /\ UNCHANGED <<drawn, creds, events, pc, req, key, target, old, tx, resp, dead, buried>>
    BY DEF Tick
  <1>2. TypeOK' /\ Shaped'
    BY <1>1, CredentialAssumption DEF IInv, TypeOK, Shaped, Times
  <1>3. ASSUME NEW q \in Procs PROVE Request(q)'
    BY <1>1, OtherKept, Numbers DEF IInv, Same
  <1>4. RowsApart' /\ Drawn' /\ TrailExact' /\ Lineage' /\ Buried'
    BY <1>1 DEF IInv, RowsApart, Drawn, TrailExact, Lineage, Descends, Buried
  <1> QED  BY <1>2, <1>3, <1>4 DEF IInv

\* What a commit may do to a credential that is there: its grant and its
\* parent stay, and it stays revoked.
Kept(i) ==
    creds[i] \in Creds =>
        /\ creds'[i] \in Creds
        /\ creds'[i].tenant = creds[i].tenant /\ creds'[i].scopes = creds[i].scopes
        /\ creds'[i].expires = creds[i].expires /\ creds'[i].admin = creds[i].admin
        /\ creds'[i].from = creds[i].from
        /\ creds[i].revoked => creds'[i].revoked

LEMMA DescendsKept ==
    ASSUME \A i \in Ids : Kept(i), NEW row, Descends(row)
    PROVE  Descends(row)'
  BY DEF Kept, Descends, SameGrant

\* An insert goes to a free id, a revocation sets the flag of its row.
LEMMA PublishKeeps ==
    ASSUME IInv, NEW p \in Procs, pc[p] = "commit", Publish(p)
    PROVE  \A i \in Ids : Kept(i)
  <1> DEFINE id == tx[p].id
             row == tx[p].row
  <1>1. id \in Ids /\ row \in Creds
    BY DEF IInv, Request, OpenTx
  <1>2. creds'[id] = row /\ \A i \in Ids : i # id => creds'[i] = creds[i]
    BY <1>1 DEF IInv, Shaped, Publish
  <1> SUFFICES ASSUME NEW i \in Ids, creds[i] \in Creds PROVE Kept(i)
    BY DEF Kept
  <1>3. CASE i = id /\ req[p].op = "revoke"
    <2>1. row = [creds[i] EXCEPT !.revoked = TRUE]
      BY <1>3 DEF IInv, Request, OpenTx, OpenRevoke
    <2> QED  BY <1>1, <1>2, <1>3, <2>1 DEF Kept, Creds
  <1>4. CASE i = id /\ req[p].op # "revoke"
    BY <1>4, CredentialAssumption DEF IInv, Request, OpenTx, OpenInsert
  <1>5. CASE i # id
    BY <1>2, <1>5 DEF Kept
  <1> QED  BY <1>3, <1>4, <1>5

\* finish(true): the row and its event.
LEMMA PublishStep ==
    ASSUME IInv, NEW p \in Procs, pc[p] = "commit", Publish(p),
           NEW s \in Statuses, resp' = [resp EXCEPT ![p] = s],
           \/ buried' = buried
           \/ req[p].op = "revoke" /\ buried' = buried \cup {target[p]}
    PROVE  IInv'
  <1> DEFINE id == tx[p].id
             row == tx[p].row
             action == tx[p].action
  <1>1. /\ creds' = [creds EXCEPT ![id] = row]
        /\ events' = [events EXCEPT ![id][action] = @ + 1]
        /\ tx' = [tx EXCEPT ![p] = NoTx]
        /\ pc' = [pc EXCEPT ![p] = "done"]
        /\ UNCHANGED <<now, drawn, req, key, target, old, dead>>
    BY DEF Publish, GoTo
  <1>2. id \in Ids /\ row \in Creds /\ row # NoCred
    BY CredentialAssumption DEF IInv, Request, OpenTx
  <1>3. req[p].op = "revoke" =>
            /\ action = "revoked" /\ id = target[p]
            /\ creds[id] \in Creds /\ creds[id] # NoCred /\ ~ creds[id].revoked
            /\ row = [creds[id] EXCEPT !.revoked = TRUE]
    BY CredentialAssumption DEF IInv, Request, OpenTx, OpenRevoke
  <1>4. req[p].op = "revoke" =>
            /\ row.tenant = creds[id].tenant /\ row.scopes = creds[id].scopes
            /\ row.expires = creds[id].expires /\ row.admin = creds[id].admin
            /\ row.from = creds[id].from /\ row.revoked
    BY <1>3 DEF Creds
  <1>5. req[p].op # "revoke" => OpenInsert(id, row, action) /\ creds[id] = NoCred
    BY DEF IInv, Request, OpenTx, OpenInsert
  <1>6. action \in Actions
    BY <1>3, <1>5 DEF OpenInsert, Actions
  <1>7. creds'[id] = row /\ \A i \in Ids : i # id => creds'[i] = creds[i]
    BY <1>1, <1>2 DEF IInv, Shaped
  <1>8. \A i \in Ids, b \in Actions :
            events'[i][b] = IF i = id /\ b = action THEN events[i][b] + 1 ELSE events[i][b]
    BY <1>1, <1>2, <1>6 DEF IInv, TypeOK
  <1>9. \A i \in Ids : Kept(i)
    BY PublishKeeps
  <1>10. row.tenant = NoTenant <=> row.admin
    <2>1. CASE req[p].op = "revoke"
      BY <1>2, <1>3, <1>4, <2>1 DEF IInv, TypeOK
    <2>2. CASE req[p].op # "revoke"
      BY <1>5, <2>2 DEF OpenInsert
    <2> QED  BY <2>1, <2>2
  <1>11. TypeOK' /\ Shaped'
    <2>1. NoTx \in [id : 0 .. MaxIds, row : Creds \cup {NoCred}, action : Actions \cup {"none"}]
      BY Numbers DEF IInv, NoTx
    <2>2. Shaped'
      BY <1>1, <1>2, <2>1 DEF IInv, Shaped
    <2>3. \A i \in Ids : /\ creds'[i] \in Creds \cup {NoCred}
                         /\ creds'[i] # NoCred => (creds'[i].tenant = NoTenant <=> creds'[i].admin)
      BY <1>2, <1>7, <1>10 DEF IInv, TypeOK
    <2>4. events' \in [Ids -> [Actions -> Nat]]
      <3>1. events \in [Ids -> [Actions -> Nat]]
        BY DEF IInv, TypeOK
      <3> HIDE DEF id, action
      <3> QED  BY <1>1, <1>2, <1>6, <3>1
    <2>5. buried' \subseteq Ids
      BY <1>2, <1>3 DEF IInv, TypeOK
    <2> QED  BY <1>1, <2>2, <2>3, <2>4, <2>5 DEF IInv, TypeOK, Stages
  <1>12. pc'[p] = "done" /\ tx'[p] = NoTx /\ resp'[p] = s
    BY <1>1 DEF IInv, TypeOK, Shaped
  <1>13. \A q \in Procs \ {p} : Same(q)
    BY <1>1 DEF IInv, TypeOK, Shaped, Same
  <1>14. buried \subseteq buried'
    OBVIOUS
  <1>15. ASSUME NEW q \in Procs \ {p} PROVE Request(q)'
    <2>0. Same(q) /\ Request(q)
      BY <1>13 DEF IInv
    <2>1. Carried(q)' /\ Trusted(q)'
      BY <2>0, <1>14 DEF Request, Same, Carried, Trusted
    <2>2. HasRead(q)'
      BY <2>0, <1>9 DEF Request, Same, HasRead, Kept, SameGrant
    <2>3. OpenTx(q)'
      <3>1. CASE pc[q] # "commit"
        BY <2>0, <3>1 DEF Request, Same, OpenTx
      <3>2. CASE pc[q] = "commit"
        <4>1. tx[q].id \in Ids /\ tx[q].id # id /\ tx'[q] = tx[q]
          BY <2>0, <3>2 DEF IInv, RowsApart, Request, OpenTx, Same
        <4>2. creds'[tx[q].id] = creds[tx[q].id] /\ drawn' = drawn
          BY <1>1, <1>7, <4>1
        <4>3. OpenRevoke(tx[q].id, tx[q].row) => OpenRevoke(tx[q].id, tx[q].row)'
          BY <4>1, <4>2 DEF OpenRevoke
        <4>4. OpenInsert(tx[q].id, tx[q].row, tx[q].action) => OpenInsert(tx[q].id, tx[q].row, tx[q].action)'
          <5>1. Descends(tx[q].row) => Descends(tx[q].row)'
            <6>1. ASSUME NEW o PROVE Descends(o) => Descends(o)'
              BY <1>9, DescendsKept
            <6> QED  BY <4>1, <6>1 DEF Descends, SameGrant
          <5> QED  BY <4>1, <4>2, <5>1 DEF OpenInsert
        <4> QED  BY <2>0, <3>2, <4>1, <4>3, <4>4 DEF Request, Same, OpenTx
      <3> QED  BY <3>1, <3>2
    <2> QED  BY <2>1, <2>2, <2>3 DEF Request
  <1>16. Request(p)'
    <2>1. NoTx.action = "none"
      BY DEF NoTx
    <2> QED  BY <1>1, <1>12, <1>14, <2>1 DEF IInv, Request, Carried, HasRead, OpenTx, Trusted
  <1>17. RowsApart'
    BY <1>12, <1>13 DEF IInv, RowsApart, Same
  <1>18. Drawn'
    <2>1. id <= drawn /\ id \in Nat /\ drawn \in Nat
      BY <1>2, OpenDrawn, Numbers DEF IInv
    <2> SUFFICES ASSUME NEW i \in Ids, i > drawn PROVE creds'[i] = NoCred
      BY <1>1 DEF Drawn
    <2>2. i # id
      BY <2>1, Numbers DEF IInv
    <2> QED  BY <1>7, <2>2 DEF IInv, Drawn
  <1>19. TrailExact'
    <2> SUFFICES ASSUME NEW i \in Ids
                 PROVE  IF creds'[i] = NoCred
                        THEN \A b \in Actions : events'[i][b] = 0
                        ELSE /\ events'[i]["created"] = (IF creds'[i].from = 0 THEN 1 ELSE 0)
                             /\ events'[i]["rotated"] = (IF creds'[i].from = 0 THEN 0 ELSE 1)
                             /\ events'[i]["revoked"] = (IF creds'[i].revoked THEN 1 ELSE 0)
      BY DEF TrailExact
    <2>1. CASE i # id
      <3>1. creds'[i] = creds[i] /\ \A b \in Actions : events'[i][b] = events[i][b]
        BY <1>7, <1>8, <2>1
      <3> QED  BY <3>1 DEF IInv, TrailExact, Actions
    <2>2. CASE i = id /\ req[p].op = "revoke"
      <3>1. /\ events[id]["created"] = (IF row.from = 0 THEN 1 ELSE 0)
            /\ events[id]["rotated"] = (IF row.from = 0 THEN 0 ELSE 1)
            /\ events[id]["revoked"] = 0
        BY <1>2, <1>3, <1>4, <2>2 DEF IInv, TrailExact
      <3>2. /\ events'[id]["created"] = events[id]["created"]
            /\ events'[id]["rotated"] = events[id]["rotated"]
            /\ events'[id]["revoked"] = events[id]["revoked"] + 1
        BY <1>2, <1>3, <1>8, <2>2 DEF Actions
      <3> QED  BY <1>2, <1>4, <1>7, <2>2, <3>1, <3>2
    <2>3. CASE i = id /\ req[p].op # "revoke"
      <3>1. /\ ~ row.revoked /\ action \in {"created", "rotated"}
            /\ action = "created" <=> row.from = 0
        BY <1>5, <2>3 DEF OpenInsert
      <3>2. \A b \in Actions : events[id][b] = 0
        BY <1>2, <1>5, <2>3 DEF IInv, TrailExact
      <3>3. /\ events'[id]["created"] = (IF action = "created" THEN 1 ELSE 0)
            /\ events'[id]["rotated"] = (IF action = "rotated" THEN 1 ELSE 0)
            /\ events'[id]["revoked"] = 0
        BY <1>2, <1>8, <3>1, <3>2 DEF Actions
      <3> QED  BY <1>2, <1>7, <2>3, <3>1, <3>3
    <2> QED  BY <2>1, <2>2, <2>3
  <1>20. Lineage'
    <2> SUFFICES ASSUME NEW i \in Ids, creds'[i] # NoCred PROVE Descends(creds[i])'
      BY DEF Lineage
    <2>1. ASSUME NEW o, Descends(o) PROVE Descends(o)'
      BY <1>9, <2>1, DescendsKept
    <2>2. Descends(row)
      <3>1. CASE req[p].op = "revoke"
        BY <1>2, <1>3, <1>4, <3>1 DEF IInv, Lineage, Descends, SameGrant
      <3>2. CASE req[p].op # "revoke"
        BY <1>5, <3>2 DEF OpenInsert
      <3> QED  BY <3>1, <3>2
    <2>3. PICK o : o = creds'[i] /\ Descends(o)
      BY <1>7, <2>2 DEF IInv, Lineage
    <2>4. Descends(o)'
      BY <2>1, <2>3
    <2> QED  BY <2>3, <2>4 DEF Descends
  <1>21. Buried'
    <2> SUFFICES ASSUME NEW i \in buried' PROVE creds'[i] \in Creds /\ creds'[i].revoked
      BY DEF Buried
    <2>1. CASE i \in buried
      BY <1>9, <2>1 DEF IInv, TypeOK, Buried, Kept
    <2>2. CASE i \notin buried
      <3>1. req[p].op = "revoke" /\ i = id
        BY <1>3, <2>2
      <3> QED  BY <1>2, <1>4, <1>7, <3>1
    <2> QED  BY <2>1, <2>2
  <1> QED  BY <1>11, <1>15, <1>16, <1>17, <1>18, <1>19, <1>20, <1>21 DEF IInv

------------------------------------------------------------------------------
(* The theorems.                                                           *)

LEMMA InitInv == Init => IInv
  <1> SUFFICES ASSUME Init PROVE IInv
    OBVIOUS
  <1>1. TypeOK
    BY CredentialAssumption DEF Init, TypeOK, Stages, Statuses, Times
  <1>2. Shaped
    BY CredentialAssumption DEF Init, Shaped, NoTx
  <1>3. ASSUME NEW p \in Procs PROVE Request(p)
    BY DEF Init, Request, Carried, HasRead, OpenTx, Trusted, NoTx
  <1>4. RowsApart /\ Drawn /\ TrailExact /\ Lineage /\ Buried
    BY DEF Init, RowsApart, Drawn, TrailExact, Lineage, Buried
  <1> QED  BY <1>1, <1>2, <1>3, <1>4 DEF IInv

LEMMA NextInv == IInv /\ [Next]_vars => IInv'
  <1> SUFFICES ASSUME IInv, [Next]_vars PROVE IInv'
    OBVIOUS
  <1>1. CASE UNCHANGED vars
    <2>1. UNCHANGED <<now, drawn, creds, events, pc, req, key, target, old, tx, resp, dead, buried>>
      BY <1>1 DEF vars
    <2>2. TypeOK' /\ Shaped' /\ RowsApart' /\ Drawn' /\ TrailExact' /\ Lineage' /\ Buried'
      BY <2>1 DEF IInv, TypeOK, Shaped, RowsApart, Drawn, TrailExact, Lineage, Descends, Buried
    <2>3. ASSUME NEW q \in Procs PROVE Request(q)'
      BY <2>1, OtherKept, Numbers DEF IInv, Same
    <2> QED  BY <2>2, <2>3 DEF IInv
  <1>2. ASSUME NEW p \in Procs, NEW r \in Requests, Start(p, r) PROVE IInv'
    BY <1>2, StartStep
  <1>3. ASSUME NEW p \in Procs,
               \/ Unauthenticated(p) \/ Forbidden(p) \/ CreateInvalid(p) \/ CreateNoTenant(p)
               \/ ReadMissing(p) \/ RevokeMissing(p) \/ Fail(p)
        PROVE  IInv'
    BY <1>3, RefusedStep
  <1>4. ASSUME NEW p \in Procs, Serve(p) \/ Allow(p) \/ ReadActive(p) PROVE IInv'
    BY <1>4, ServeStep, AllowStep, ReadActiveStep
  <1>5. ASSUME NEW p \in Procs, Create(p) \/ Rotate(p) \/ Revoke(p) PROVE IInv'
    BY <1>5, CreateStep, RotateStep, RevokeStep
  <1>6. ASSUME NEW p \in Procs, Commit(p) PROVE IInv'
    BY <1>6, PublishStep DEF Commit, Statuses
  <1>7. ASSUME NEW p \in Procs, CommitUnacknowledged(p) PROVE IInv'
    BY <1>7, PublishStep DEF CommitUnacknowledged, ErrorAnswers, Statuses
  <1>8. ASSUME NEW p \in Procs, Recycle(p) PROVE IInv'
    BY <1>8, RecycleStep
  <1>9. CASE Tick
    BY <1>9, TickStep
  <1> QED  BY <1>1, <1>2, <1>3, <1>4, <1>5, <1>6, <1>7, <1>8, <1>9 DEF Next

LEMMA Invariance == Spec => []IInv
  BY InitInv, NextInv, PTL DEF Spec

\* Types hold in every reachable state, the CHECK of migration 07 with them:
\* only an administrator's credential has no tenant.
THEOREM CredentialTypes == Spec => []TypeOK
  <1>1. IInv => TypeOK
    BY DEF IInv
  <1> QED  BY <1>1, Invariance, PTL

\* The audit trail tells the life of every credential exactly, however many
\* revocations race, fail or are retried.
THEOREM CredentialTrailExact == Spec => []TrailExact
  <1>1. IInv => TrailExact
    BY DEF IInv
  <1> QED  BY <1>1, Invariance, PTL

\* Along every chain of rotations tenant, scopes and expiry are the same, and
\* no administrator comes out of one.
THEOREM CredentialRotationKeepsGrant == Spec => []RotationKeepsGrant
  <1>1. IInv => RotationKeepsGrant
    BY DEF IInv, Lineage, Descends, SameGrant, RotationKeepsGrant
  <1> QED  BY <1>1, Invariance, PTL

\* A request that starts after a revocation has been answered is not served
\* for that credential, and neither rotates nor revokes it.
THEOREM CredentialRevocationFinal == Spec => []RevocationFinal
  <1>1. IInv => RevocationFinal
    BY DEF IInv, Request, Trusted, RevocationFinal
  <1> QED  BY <1>1, Invariance, PTL

\* No step changes what a committed credential grants or where it comes from,
\* and none takes a revocation back or removes a row.
THEOREM CredentialGrantImmutable == Spec => [][\A i \in Ids : Kept(i)]_vars
  <1>1. ASSUME IInv, [Next]_vars PROVE \A i \in Ids : Kept(i)
    <2>1. CASE UNCHANGED creds
      BY <2>1 DEF Kept
    <2>2. ASSUME NEW p \in Procs, Commit(p) \/ CommitUnacknowledged(p) PROVE \A i \in Ids : Kept(i)
      BY <1>1, <2>2, PublishKeeps DEF Commit, CommitUnacknowledged
    <2>3. UNCHANGED creds \/ \E p \in Procs : Commit(p) \/ CommitUnacknowledged(p)
      BY <1>1 DEF Next, vars, Start, Unauthenticated, Forbidden, Serve, Allow, CreateInvalid,
         CreateNoTenant, Create, Insert, ReadActive, ReadMissing, Rotate, Revoke, RevokeMissing,
         Fail, Recycle, Tick, Stop
    <2> QED  BY <2>1, <2>2, <2>3
  <1>2. IInv /\ [Next]_vars => [\A i \in Ids : Kept(i)]_vars
    BY <1>1
  <1> QED  BY <1>2, Invariance, PTL DEF Spec
==============================================================================
