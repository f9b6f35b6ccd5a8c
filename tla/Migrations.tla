------------------------------ MODULE Migrations ------------------------------
(***************************************************************************)
(* The embedded migration runner (--db-migrate=up and down) and the schema *)
(* check of a starting server.  A runner is one process with one database  *)
(* session: it takes a session advisory lock, reads which versions are     *)
(* applied, and runs each script in a transaction with its tracking row.   *)
(* The session, and with it the lock and an open transaction, ends with    *)
(* the process.                                                            *)
(***************************************************************************)
EXTENDS Integers

CONSTANTS
    Runners,    \* migration commands
    Built,      \* the LatestVersion of the binary each runner is
    Servers,    \* API processes
    Latest,     \* the LatestVersion they are built with
    NoRunner

VARIABLES
    table,      \* does schema_migrations exist?
    applied,    \* its rows
    schema,     \* versions whose script is in effect
    lock,       \* holder of the advisory lock
    pc,
    dir,        \* "up" or "down"
    status,     \* the versions a runner has read as applied
    at,         \* the version its loop over the files has reached
    tx,         \* what its open transaction has done
    result,
    server      \* state of each API process

rvars == <<lock, pc, dir, status, at, tx, result>>
vars  == <<table, applied, schema, lock, pc, dir, status, at, tx, result, server>>

ASSUME MigrationsAssumption ==
    /\ Latest \in Nat \ {0}
    /\ Built \in [Runners -> 1 .. Latest]
    /\ NoRunner \notin Runners

Versions == 1 .. Latest
Inside   == {"ensure", "status", "pick", "execute", "record", "commit", "unlock"}
Stages   == Inside \cup {"idle", "lock", "done"}
Writes   == {"script", "row"}

GoTo(p, st) == pc' = [pc EXCEPT ![p] = st]

\* discoverMigrations: the files of the binary, in order of version.
Files(p) == 1 .. Built[p]

------------------------------------------------------------------------------
(* withMigrationLock.                                                      *)

Start(p, d) ==
    /\ pc[p] = "idle"
    /\ dir' = [dir EXCEPT ![p] = d]
    /\ result' = [result EXCEPT ![p] = "none"]
    /\ GoTo(p, "lock")
    /\ UNCHANGED <<table, applied, schema, lock, status, at, tx, server>>

\* Mutant of Free: the lock keeps nobody out.
FreeAlways(p) == TRUE

Free(p) == lock = NoRunner

Lock(p) ==
    /\ pc[p] = "lock"
    /\ Free(p)
    /\ lock' = p
    /\ GoTo(p, "ensure")
    /\ UNCHANGED <<table, applied, schema, dir, status, at, tx, result, server>>

\* lock_timeout or a lost connection: the command fails without the lock.
LockFails(p) ==
    /\ pc[p] = "lock"
    /\ result' = [result EXCEPT ![p] = "failed"]
    /\ GoTo(p, "done")
    /\ UNCHANGED <<table, applied, schema, lock, dir, status, at, tx, server>>

\* The session's private state is gone.
Forget(p) ==
    /\ lock' = IF lock = p THEN NoRunner ELSE lock
    /\ status' = [status EXCEPT ![p] = {}]
    /\ at' = [at EXCEPT ![p] = 0]
    /\ tx' = [tx EXCEPT ![p] = {}]

\* Mutant of Unlock: the connection goes back with its lock.
UnlockNot(p) ==
    /\ pc[p] = "unlock"
    /\ GoTo(p, "done")
    /\ UNCHANGED <<table, applied, schema, lock, dir, status, at, tx, result, server>>

\* The deferred pg_advisory_unlock, on every way out of the locked part.
Unlock(p) ==
    /\ pc[p] = "unlock"
    /\ Forget(p)
    /\ GoTo(p, "done")
    /\ UNCHANGED <<table, applied, schema, dir, result, server>>

------------------------------------------------------------------------------
(* RunUp and RunDown.                                                      *)

\* CREATE TABLE IF NOT EXISTS schema_migrations.
Ensure(p) ==
    /\ pc[p] = "ensure"
    /\ table' = TRUE
    /\ GoTo(p, "status")
    /\ UNCHANGED <<applied, schema, lock, dir, status, at, tx, result, server>>

\* migrationStatus.
ReadStatus(p) ==
    /\ pc[p] = "status"
    /\ status' = [status EXCEPT ![p] = applied]
    /\ at' = [at EXCEPT ![p] = IF dir[p] = "up" THEN 0 ELSE Built[p] + 1]
    /\ GoTo(p, "pick")
    /\ UNCHANGED <<table, applied, schema, lock, dir, tx, result, server>>

\* The files the loop has still to run: going up, those that are not applied;
\* going down, those that are.
Due(p) == IF dir[p] = "up" THEN {v \in Files(p) : v > at[p] /\ v \notin status[p]}
          ELSE {v \in Files(p) : v < at[p] /\ v \in status[p]}

\* Mutant of Following: the loop of RunDown runs forwards too.
FollowingUp(p) == CHOOSE v \in Due(p) : \A w \in Due(p) : v <= w

Following(p) ==
    CHOOSE v \in Due(p) : \A w \in Due(p) : IF dir[p] = "up" THEN v <= w ELSE v >= w

Pick(p) ==
    /\ pc[p] = "pick"
    /\ Due(p) # {}
    /\ at' = [at EXCEPT ![p] = Following(p)]
    /\ GoTo(p, "execute")
    /\ UNCHANGED <<table, applied, schema, lock, dir, status, tx, result, server>>

NothingDue(p) ==
    /\ pc[p] = "pick"
    /\ Due(p) = {}
    /\ result' = [result EXCEPT ![p] = "ok"]
    /\ GoTo(p, "unlock")
    /\ UNCHANGED <<table, applied, schema, lock, dir, status, at, tx, server>>

\* executeMigration: the script, then the tracking row, in one transaction.
Execute(p) ==
    /\ pc[p] = "execute"
    /\ tx' = [tx EXCEPT ![p] = {"script"}]
    /\ GoTo(p, "record")
    /\ UNCHANGED <<table, applied, schema, lock, dir, status, at, result, server>>

\* Mutant of Record: the row is left to another transaction.
RecordNot(p) ==
    /\ pc[p] = "record"
    /\ GoTo(p, "commit")
    /\ UNCHANGED <<table, applied, schema, lock, dir, status, at, tx, result, server>>

Record(p) ==
    /\ pc[p] = "record"
    /\ tx' = [tx EXCEPT ![p] = @ \cup {"row"}]
    /\ GoTo(p, "commit")
    /\ UNCHANGED <<table, applied, schema, lock, dir, status, at, result, server>>

Changed(p, w, S) ==
    IF w \notin tx[p] THEN S
    ELSE IF dir[p] = "up" THEN S \cup {at[p]} ELSE S \ {at[p]}

Publish(p) ==
    /\ schema' = Changed(p, "script", schema)
    /\ applied' = Changed(p, "row", applied)

\* RunUp goes on with the next file, RunDown stops after one.
Commit(p) ==
    /\ pc[p] = "commit"
    /\ Publish(p)
    /\ tx' = [tx EXCEPT ![p] = {}]
    /\ IF dir[p] = "up"
       THEN GoTo(p, "pick") /\ UNCHANGED result
       ELSE GoTo(p, "unlock") /\ result' = [result EXCEPT ![p] = "ok"]
    /\ UNCHANGED <<table, lock, dir, status, at, server>>

\* COMMIT took effect and the connection was lost before the runner knew.
CommitUnacknowledged(p) ==
    /\ pc[p] = "commit"
    /\ Publish(p)
    /\ Forget(p)
    /\ result' = [result EXCEPT ![p] = "failed"]
    /\ GoTo(p, "done")
    /\ UNCHANGED <<table, dir, server>>

\* Mutant of Fail: no rollback is deferred.
FailOpen(p) ==
    /\ pc[p] \in Inside \ {"unlock"}
    /\ result' = [result EXCEPT ![p] = "failed"]
    /\ GoTo(p, "unlock")
    /\ UNCHANGED <<table, applied, schema, lock, dir, status, at, tx, server>>

\* A statement fails (error in a script, statement_timeout): the transaction is
\* rolled back and the command gives up the lock.
Fail(p) ==
    /\ pc[p] \in Inside \ {"unlock"}
    /\ tx' = [tx EXCEPT ![p] = {}]
    /\ result' = [result EXCEPT ![p] = "failed"]
    /\ GoTo(p, "unlock")
    /\ UNCHANGED <<table, applied, schema, lock, dir, status, at, server>>

\* The process is killed: PostgreSQL ends its session.
Crash(p) ==
    /\ pc[p] \in Inside \cup {"lock"}
    /\ Forget(p)
    /\ result' = [result EXCEPT ![p] = "failed"]
    /\ GoTo(p, "done")
    /\ UNCHANGED <<table, applied, schema, dir, server>>

Exit(p) ==
    /\ pc[p] = "done"
    /\ GoTo(p, "idle")
    /\ UNCHANGED <<table, applied, schema, lock, dir, status, at, tx, result, server>>

------------------------------------------------------------------------------
(* A starting server.                                                      *)

\* Mutant of Compatible: a newer schema than nothing will do.
CompatibleAny == table /\ applied # {}

\* CurrentVersion and ValidateSchemaVersion: the highest row is LatestVersion.
\* Without schema_migrations the query fails.
Compatible == table /\ Latest \in applied /\ \A v \in applied : v <= Latest

Serve(s) ==
    /\ server[s] = "down"
    /\ Compatible
    /\ server' = [server EXCEPT ![s] = "serving"]
    /\ UNCHANGED <<table, applied, schema, rvars>>

Refuse(s) ==
    /\ server[s] = "down"
    /\ ~Compatible
    /\ server' = [server EXCEPT ![s] = "refused"]
    /\ UNCHANGED <<table, applied, schema, rvars>>

Stop(s) ==
    /\ server[s] # "down"
    /\ server' = [server EXCEPT ![s] = "down"]
    /\ UNCHANGED <<table, applied, schema, rvars>>

------------------------------------------------------------------------------
Init ==
    /\ table = FALSE
    /\ applied = {}
    /\ schema = {}
    /\ lock = NoRunner
    /\ pc = [p \in Runners |-> "idle"]
    /\ dir = [p \in Runners |-> "up"]
    /\ status = [p \in Runners |-> {}]
    /\ at = [p \in Runners |-> 0]
    /\ tx = [p \in Runners |-> {}]
    /\ result = [p \in Runners |-> "none"]
    /\ server = [s \in Servers |-> "down"]

Advance(p) ==
    \/ Lock(p) \/ Ensure(p) \/ ReadStatus(p) \/ Pick(p) \/ NothingDue(p)
    \/ Execute(p) \/ Record(p) \/ Commit(p) \/ Unlock(p)

Next ==
    \/ \E p \in Runners :
        \/ \E d \in {"up", "down"} : Start(p, d)
        \/ Advance(p)
        \/ LockFails(p) \/ CommitUnacknowledged(p) \/ Fail(p) \/ Crash(p) \/ Exit(p)
    \/ \E s \in Servers : Serve(s) \/ Refuse(s) \/ Stop(s)

Spec == Init /\ [][Next]_vars

\* A running command keeps running, and PostgreSQL hands the advisory lock to
\* the sessions waiting for it in order.
FairSpec == Spec /\ \A p \in Runners : SF_vars(Advance(p))

------------------------------------------------------------------------------
(* Properties.                                                             *)

\* Every variable keeps its type; a transaction is open only while a script is
\* run under the lock.
TypeOK ==
    /\ table \in BOOLEAN
    /\ applied \subseteq Versions /\ schema \subseteq Versions
    /\ lock \in Runners \cup {NoRunner}
    /\ pc \in [Runners -> Stages]
    /\ dir \in [Runners -> {"up", "down"}]
    /\ status \in [Runners -> SUBSET Versions]
    /\ at \in [Runners -> 0 .. (Latest + 1)]
    /\ tx \in [Runners -> SUBSET Writes]
    /\ result \in [Runners -> {"none", "ok", "failed"}]
    /\ server \in [Servers -> {"down", "serving", "refused"}]
    /\ \A p \in Runners : tx[p] # {} => pc[p] \in {"record", "commit"} /\ lock = p

\* However up and down commands overlap, fail or are killed, schema_migrations
\* says exactly which scripts are in effect, and they are the first n: no
\* script is skipped, run twice or left half-recorded.
HistoryIntact ==
    /\ applied = schema
    /\ \E n \in 0 .. Latest : applied = 1 .. n

\* A script only ever runs against the schema it was written for: an up script
\* on what its predecessor left, a down script on what its up script left.
ScriptFitsSchema ==
    \A p \in Runners : pc[p] \in {"execute", "record", "commit"} =>
        schema = IF dir[p] = "up" THEN 1 .. (at[p] - 1) ELSE 1 .. at[p]

\* A server that passes VerifySchemaCompatibility, which looks at the highest
\* row only, finds every script of its binary in effect.
ServedSchemaComplete ==
    [][\A s \in Servers : server[s] = "down" /\ server'[s] = "serving" => schema = Versions]_vars

\* docs/deployment.md: a rollback removes only the highest applied migration.
HighestRolledBack ==
    [][\A v \in schema \ schema' : \A w \in schema : w <= v]_vars

\* Every command ends: no way out of the locked part keeps the advisory lock.
Ends == \A p \in Runners : pc[p] = "lock" ~> pc[p] = "done"
==============================================================================
