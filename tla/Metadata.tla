------------------------------ MODULE Metadata ------------------------------
(***************************************************************************)
(* Counter metadata: one JSON document per counter, written under the      *)
(* condition of an ETag (service and store of the metadata endpoints).     *)
(* Each write is a transaction: CounterExists, one conditional statement,  *)
(* COMMIT.  Clients edit documents the way the ETag is meant for: they     *)
(* read, add their edit to what they read, and write back with If-Match.   *)
(*                                                                         *)
(* A document is the set of edits it contains.                             *)
(***************************************************************************)
EXTENDS Integers

CONSTANTS
    Procs,          \* clients, each with one request under way
    Counters,       \* counter ids clients name
    Existing,       \* those that exist in the tenant
    MaxVersions,    \* bound of the versions ever drawn
    NoDoc, NoReq, NoProc

VARIABLES
    doc,        \* counter_metadata: the committed row of each counter
    drawn,      \* versions drawn so far (gen_random_uuid)
    lock,       \* the row of a counter written by an open transaction
    pc, req,
    known,      \* what a client has read last, per counter
    tx,         \* the uncommitted row of a transaction
    resp,
    edits,      \* history: edits committed since the document was created
    spent       \* history: committed writes that named each version

vars == <<doc, drawn, lock, pc, req, known, tx, resp, edits, spent>>

Versions == 1 .. MaxVersions
Edits    == Versions            \* an edit is named after the version it makes
Docs     == [ver : Versions, data : SUBSET Edits]
Ops      == {"get", "create", "replace", "delete"}
ReqShape == [op : Ops, counter : Counters, expected : 0 .. MaxVersions, base : SUBSET Edits]
Stages   == {"idle", "exists", "read", "write", "commit", "done"}
InTx     == {"exists", "read", "write", "commit"}
Statuses == {"none", "ok", "not_found", "no_metadata", "precondition", "unavailable"}

ASSUME MetadataAssumption ==
    /\ Existing \subseteq Counters
    /\ MaxVersions \in Nat
    /\ NoDoc \notin Docs /\ NoReq \notin ReqShape /\ NoProc \notin Procs

GoTo(p, st) == pc' = [pc EXCEPT ![p] = st]
NoTx == [set |-> FALSE, row |-> NoDoc]
Mine(p) == req[p].counter

\* gen_random_uuid(): no version has been drawn before.
NewVersion(c) == drawn + 1

------------------------------------------------------------------------------
(* Requests.  MetadataHandler: PUT with If-None-Match: * creates; PUT and  *)
(* DELETE with If-Match need the version the client has read.              *)

Send(p, r) ==
    /\ pc[p] = "idle"
    /\ req' = [req EXCEPT ![p] = r]
    /\ GoTo(p, "exists")
    /\ UNCHANGED <<doc, drawn, lock, known, tx, resp, edits, spent>>

Ask(op, c, v, base) == [op |-> op, counter |-> c, expected |-> v, base |-> base]

StartGet(p, c)    == Send(p, Ask("get", c, 0, {}))
StartCreate(p, c) == Send(p, Ask("create", c, 0, {}))
StartMatch(p, c)  ==
    /\ known[p][c] # NoDoc
    /\ \E op \in {"replace", "delete"} : Send(p, Ask(op, c, known[p][c].ver, known[p][c].data))

\* Mutant of Abort: an error return that leaves the transaction open.
AbortLeaky(p, s) ==
    /\ resp' = [resp EXCEPT ![p] = s]
    /\ GoTo(p, "done")
    /\ UNCHANGED <<doc, drawn, lock, req, known, tx, edits, spent>>

\* Every error return: the deferred finish(false).
Abort(p, s) ==
    /\ lock' = [c \in Counters |-> IF lock[c] = p THEN NoProc ELSE lock[c]]
    /\ tx' = [tx EXCEPT ![p] = NoTx]
    /\ resp' = [resp EXCEPT ![p] = s]
    /\ GoTo(p, "done")
    /\ UNCHANGED <<doc, drawn, req, known, edits, spent>>

\* CounterExists.
CounterMissing(p) ==
    /\ pc[p] = "exists"
    /\ Mine(p) \notin Existing
    /\ Abort(p, "not_found")

CounterExists(p) ==
    /\ pc[p] = "exists"
    /\ Mine(p) \in Existing
    /\ GoTo(p, IF req[p].op = "get" THEN "read" ELSE "write")
    /\ UNCHANGED <<doc, drawn, lock, req, known, tx, resp, edits, spent>>

\* GET: the document and its ETag.
Read(p) ==
    /\ pc[p] = "read"
    /\ known' = [known EXCEPT ![p][Mine(p)] = doc[Mine(p)]]
    /\ resp' = [resp EXCEPT ![p] = IF doc[Mine(p)] = NoDoc THEN "no_metadata" ELSE "ok"]
    /\ GoTo(p, "done")
    /\ UNCHANGED <<doc, drawn, lock, req, tx, edits, spent>>

\* The statement has its row to itself; the others wait for its transaction.
Unlocked(p) == lock[Mine(p)] = NoProc

Written(p, row) ==
    /\ lock' = [lock EXCEPT ![Mine(p)] = p]
    /\ tx' = [tx EXCEPT ![p] = [set |-> TRUE, row |-> row]]
    /\ GoTo(p, "commit")
    /\ UNCHANGED <<doc, req, known, resp, edits, spent>>

\* Mutant of Matches: only the existence of the document is required.
MatchesAny(p) ==
    IF req[p].op = "create" THEN doc[Mine(p)] = NoDoc ELSE doc[Mine(p)] # NoDoc

\* Mutant of Matches: ON CONFLICT DO UPDATE.
MatchesUpsert(p) ==
    req[p].op # "create" => doc[Mine(p)] # NoDoc /\ doc[Mine(p)].ver = req[p].expected

\* The condition of the statement: ON CONFLICT DO NOTHING, WHERE version = $n.
Matches(p) ==
    IF req[p].op = "create"
    THEN doc[Mine(p)] = NoDoc
    ELSE doc[Mine(p)] # NoDoc /\ doc[Mine(p)].ver = req[p].expected

\* INSERT, or UPDATE with a fresh version: the edit is added to what the
\* client had read.
Store(p) ==
    LET v == NewVersion(Mine(p)) IN
    /\ pc[p] = "write"
    /\ req[p].op \in {"create", "replace"}
    /\ Unlocked(p) /\ Matches(p)
    /\ drawn < MaxVersions
    /\ drawn' = drawn + 1
    /\ Written(p, [ver |-> v, data |-> req[p].base \cup {drawn + 1}])

\* DELETE.
Delete(p) ==
    /\ pc[p] = "write"
    /\ req[p].op = "delete"
    /\ Unlocked(p) /\ Matches(p)
    /\ UNCHANGED drawn
    /\ Written(p, NoDoc)

\* No row: 412.  An UPDATE or DELETE whose version is not the committed one
\* does not wait; an INSERT waits for whoever is writing the row.
Refused(p) ==
    /\ pc[p] = "write"
    /\ ~Matches(p)
    /\ req[p].op = "create" => Unlocked(p)
    /\ Abort(p, "precondition")

Publish(p) ==
    LET c == Mine(p)
        row == tx[p].row IN
    /\ doc' = [doc EXCEPT ![c] = row]
    /\ edits' = [edits EXCEPT ![c] =
                    IF row = NoDoc THEN {} ELSE @ \cup (row.data \ req[p].base)]
    /\ spent' = IF req[p].op = "create" THEN spent
                ELSE [spent EXCEPT ![req[p].expected] = @ + 1]
    /\ lock' = [lock EXCEPT ![c] = NoProc]
    /\ tx' = [tx EXCEPT ![p] = NoTx]
    /\ UNCHANGED <<drawn, req>>

\* COMMIT, and the answer with the new ETag.
Commit(p) ==
    /\ pc[p] = "commit"
    /\ Publish(p)
    /\ known' = [known EXCEPT ![p][Mine(p)] = tx[p].row]
    /\ resp' = [resp EXCEPT ![p] = "ok"]
    /\ GoTo(p, "done")

\* COMMIT took effect, the caller sees an error.
CommitUnacknowledged(p) ==
    /\ pc[p] = "commit"
    /\ Publish(p)
    /\ resp' = [resp EXCEPT ![p] = "unavailable"]
    /\ GoTo(p, "done")
    /\ UNCHANGED known

\* Timeout, lost connection, crashed replica.
Fail(p) ==
    /\ pc[p] \in InTx
    /\ Abort(p, "unavailable")

\* The client sends the same request once more after an error.
Resend(p) ==
    /\ pc[p] = "done"
    /\ resp[p] = "unavailable"
    /\ resp' = [resp EXCEPT ![p] = "none"]
    /\ GoTo(p, "exists")
    /\ UNCHANGED <<doc, drawn, lock, req, known, tx, edits, spent>>

Recycle(p) ==
    /\ pc[p] = "done"
    /\ req' = [req EXCEPT ![p] = NoReq]
    /\ resp' = [resp EXCEPT ![p] = "none"]
    /\ GoTo(p, "idle")
    /\ UNCHANGED <<doc, drawn, lock, known, tx, edits, spent>>

Init ==
    /\ doc = [c \in Counters |-> NoDoc]
    /\ drawn = 0
    /\ lock = [c \in Counters |-> NoProc]
    /\ pc = [p \in Procs |-> "idle"]
    /\ req = [p \in Procs |-> NoReq]
    /\ known = [p \in Procs |-> [c \in Counters |-> NoDoc]]
    /\ tx = [p \in Procs |-> NoTx]
    /\ resp = [p \in Procs |-> "none"]
    /\ edits = [c \in Counters |-> {}]
    /\ spent = [v \in Versions |-> 0]

Next ==
    \E p \in Procs :
        \/ \E c \in Counters : StartGet(p, c) \/ StartCreate(p, c) \/ StartMatch(p, c)
        \/ CounterMissing(p) \/ CounterExists(p) \/ Read(p)
        \/ Store(p) \/ Delete(p) \/ Refused(p)
        \/ Commit(p) \/ CommitUnacknowledged(p) \/ Fail(p)
        \/ Resend(p) \/ Recycle(p)

Spec == Init /\ [][Next]_vars

------------------------------------------------------------------------------
(* Properties.                                                             *)

\* Every variable keeps its type, and an open write holds its row.
TypeOK ==
    /\ doc \in [Counters -> Docs \cup {NoDoc}]
    /\ drawn \in 0 .. MaxVersions
    /\ lock \in [Counters -> Procs \cup {NoProc}]
    /\ pc \in [Procs -> Stages]
    /\ req \in [Procs -> ReqShape \cup {NoReq}]
    /\ known \in [Procs -> [Counters -> Docs \cup {NoDoc}]]
    /\ tx \in [Procs -> [set : BOOLEAN, row : Docs \cup {NoDoc}]]
    /\ resp \in [Procs -> Statuses]
    /\ edits \in [Counters -> SUBSET Edits]
    /\ spent \in [Versions -> Nat]
    /\ \A p \in Procs : tx[p].set <=> pc[p] = "commit"

\* No lost update: a document has every edit committed to it since it was
\* created, whoever read, wrote, deleted, recreated or retried in between.
\* This is what the If-Match of MetadataStore.Put is for, and why a version is
\* never used again (the comment of migration 09 on recreated documents).
NoLostUpdate ==
    \A c \in Counters : doc[c] # NoDoc => doc[c].data = edits[c]

\* Each ETag is good for one write: no two replacements or deletions ever
\* commit on the strength of the same version, the retry of a write whose
\* commit was not acknowledged included.
VersionSpentOnce == \A v \in Versions : spent[v] <= 1
==============================================================================
