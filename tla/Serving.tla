-------------------------------- MODULE Serving --------------------------------
(***************************************************************************)
(* One server process: start-up, the chain of middleware that each request *)
(* runs through, the database connections it borrows, panics, deadlines,   *)
(* and the way down on SIGTERM or when Serve fails.  What handlers do to   *)
(* the data is in the other modules; here a statement succeeds, fails or   *)
(* hangs.                                                                  *)
(***************************************************************************)
EXTENDS Integers, FiniteSets

CONSTANTS
    Conns,          \* client connections
    Sites,          \* deployments: Concurrency of the server, the router's
                    \* maxConcurrency, DB_MAX_OPEN_CONNS, and whether
                    \* SENTRY_DSN is set
    MaxStatements   \* bound on the statements of a handler

\* Limits are positive: config.go refuses SERVER_CONCURRENCY and
\* DB_MAX_OPEN_CONNS below one, so ConcurrencyLimit is never switched off.
ASSUME ServingAssumption ==
    /\ IsFiniteSet(Conns)
    /\ Sites \subseteq [server : Nat \ {0}, max : Nat \ {0}, pool : Nat \ {0}, sentry : BOOLEAN]
    /\ MaxStatements \in Nat

VARIABLES
    site,   \* the deployment, fixed
    main,   \* where main() is
    health, \* HealthState
    pool,   \* the sql.DB: "open" or "closed" ...
    used,   \* ... and how many of its connections are lent out
    sem,    \* requests counted by the semaphore of ConcurrencyLimit
    pc,     \* per connection: where its request is in the chain
    kind,   \* what it asks for
    since,  \* where main() was when it arrived
    left,   \* statements its handler has yet to run
    db,     \* its current statement
    tx,     \* connections for whose request IdempotentMutation has a transaction
    status  \* the status its response has so far

process == <<site, main, health, pool>>
request == <<kind, since, left, status>>
vars    == <<process, used, sem, pc, request, db, tx>>

\* "data" stands for every handler that runs its statements in transactions of
\* their own (reads, increments, sets, mutations without a key), "keyed" for
\* those that run inside IdempotentMutation.  Pages, /metrics and unknown
\* routes take the path of "live".
Kinds  == {"preflight", "live", "ready", "data", "keyed"}
Inside == {"cors", "auth", "limit", "route", "begin", "work", "save"}
Mains  == {"off", "up", "draining", "closing", "stopped", "failed"}
Statuses == {"unset", "ok", "created", "client", "overloaded", "unavailable",
             "not_ready", "not_live", "error"}

Open == {c \in Conns : pc[c] # "closed"}

\* Pool connections a request holds: that of its transaction, and that of a
\* statement which did not join it.
Held(c) == (IF c \in tx THEN 1 ELSE 0) + (IF db[c] = "own" THEN 1 ELSE 0)

----------------------------------------------------------------------------
(* Ways out.                                                                *)

\* Returning from the chain, normally or by a panic, runs what is deferred on
\* the way: finish(false), the cancel functions, the release of the semaphore.
Leave(c, s) ==
    /\ pc' = [pc EXCEPT ![c] = "reply"]
    /\ status' = [status EXCEPT ![c] = s]
    /\ sem' = sem - 1
    /\ used' = used - Held(c)
    /\ tx' = tx \ {c}
    /\ db' = [db EXCEPT ![c] = "none"]
    /\ left' = [left EXCEPT ![c] = 0]
    /\ UNCHANGED <<process, kind, since>>

\* A step inside the chain that touches neither the response nor the pool.
GoTo(c, l) ==
    /\ pc' = [pc EXCEPT ![c] = l]
    /\ UNCHANGED <<process, used, sem, request, db, tx>>

\* The first statement of stage l of the chain waits for a pool connection.
GoToDatabase(c, l) ==
    /\ pc' = [pc EXCEPT ![c] = l]
    /\ db' = [db EXCEPT ![c] = "want"]
    /\ UNCHANGED <<process, used, sem, request, tx>>

----------------------------------------------------------------------------
(* Connections (fasthttp).                                                  *)

\* Accepted while the listener is open.  A connection beyond Concurrency gets
\* fasthttp's own 503 and is closed: no request of it reaches the chain.
Connect(c) ==
    /\ main \in {"up", "draining"}
    /\ pc[c] = "closed"
    /\ Cardinality(Open) < site.server
    /\ GoTo(c, "idle")

\* The client leaves, or the idle timeout passes.
HangUp(c) == pc[c] = "idle" /\ main # "closing" /\ GoTo(c, "closed")

\* Shutdown closes connections without a request.
CloseIdle(c) == pc[c] = "idle" /\ main = "closing" /\ GoTo(c, "closed")

Arrive(c, k) ==
    /\ pc[c] = "idle"
    /\ pc' = [pc EXCEPT ![c] = "received"]
    /\ kind' = [kind EXCEPT ![c] = k]
    /\ since' = [since EXCEPT ![c] = main]
    /\ UNCHANGED <<process, used, sem, left, status, db, tx>>

\* The response is written; the connection is kept only by a server that is
\* not shutting down.
Reply(c) ==
    /\ pc[c] = "reply"
    /\ \E l \in {"idle", "closed"} :
         /\ l = "idle" => main # "closing"
         /\ pc' = [pc EXCEPT ![c] = l]
    /\ status' = [status EXCEPT ![c] = "unset"]
    /\ kind' = [kind EXCEPT ![c] = "live"]
    /\ since' = [since EXCEPT ![c] = "off"]
    /\ UNCHANGED <<process, used, sem, left, db, tx>>

----------------------------------------------------------------------------
(* The chain: Recover, Sentry, logging, identity and deadlines, which only  *)
(* wrap the rest; then the stages below.                                    *)

\* Mutant of Admit: one request too many.
Admit_OneMore(c) ==
    /\ pc[c] = "received"
    /\ sem <= site.max
    /\ sem' = sem + 1
    /\ pc' = [pc EXCEPT ![c] = "cors"]
    /\ UNCHANGED <<process, used, request, db, tx>>

\* ConcurrencyLimit: a non-blocking send to the semaphore channel.
Admit(c) ==
    /\ pc[c] = "received"
    /\ sem < site.max
    /\ sem' = sem + 1
    /\ pc' = [pc EXCEPT ![c] = "cors"]
    /\ UNCHANGED <<process, used, request, db, tx>>

Refuse(c) ==
    /\ pc[c] = "received"
    /\ sem >= site.max
    /\ pc' = [pc EXCEPT ![c] = "reply"]
    /\ status' = [status EXCEPT ![c] = "overloaded"]
    /\ UNCHANGED <<process, used, sem, kind, since, left, db, tx>>

\* CORS answers OPTIONS itself.
Preflight(c) == pc[c] = "cors" /\ kind[c] = "preflight" /\ Leave(c, "ok")

\* AuthenticateRequest: without a key, or with the legacy key, nothing is
\* looked up; a managed key is; any other is refused.
Authenticate(c) ==
    /\ pc[c] = "cors"
    /\ kind[c] # "preflight"
    /\ \/ GoTo(c, "limit")
       \/ GoToDatabase(c, "auth")
       \/ Leave(c, "client")

Limit(c) == pc[c] = "limit" /\ (GoTo(c, "route") \/ Leave(c, "client"))

\* LivenessHandler, and ReadinessHandler up to its ping.
RouteLive(c) ==
    /\ pc[c] = "route"
    /\ kind[c] = "live"
    /\ Leave(c, IF health.alive THEN "ok" ELSE "not_live")

RouteReady(c) ==
    /\ pc[c] = "route"
    /\ kind[c] = "ready"
    /\ IF health.started /\ ~ health.draining
       THEN GoToDatabase(c, "work")
       ELSE Leave(c, "not_ready")

StartHandler(c) ==
    /\ pc' = [pc EXCEPT ![c] = "work"]
    /\ db' = [db EXCEPT ![c] = "none"]
    /\ \E n \in 0 .. MaxStatements : left' = [left EXCEPT ![c] = n]
    /\ UNCHANGED <<process, used, sem, kind, since, status, tx>>

\* Scope and tenant checks (401, 403, 400), then the handler; a request with
\* an Idempotency-Key first begins the transaction of its replay record.
RouteData(c) ==
    /\ pc[c] = "route"
    /\ \/ kind[c] \in {"data", "keyed"} /\ Leave(c, "client")
       \/ kind[c] = "data" /\ StartHandler(c)
       \/ kind[c] = "keyed" /\ GoToDatabase(c, "begin")

\* Mutant of Ask: a statement never looks for the transaction of its request.
Ask_NoJoin(c) ==
    /\ pc[c] = "work"
    /\ db[c] = "none"
    /\ left[c] > 0
    /\ left' = [left EXCEPT ![c] = @ - 1]
    /\ db' = [db EXCEPT ![c] = "want"]
    /\ UNCHANGED <<process, used, sem, pc, kind, since, status, tx>>

\* ExecutorFor and BeginWrite: join the transaction of the request if it has
\* one, else borrow a connection.
Ask(c) ==
    /\ pc[c] = "work"
    /\ db[c] = "none"
    /\ left[c] > 0
    /\ left' = [left EXCEPT ![c] = @ - 1]
    /\ db' = [db EXCEPT ![c] = IF c \in tx THEN "joined" ELSE "want"]
    /\ UNCHANGED <<process, used, sem, pc, kind, since, status, tx>>

\* The pool lends a connection (database/sql).
Acquire(c) ==
    /\ db[c] = "want"
    /\ pool = "open"
    /\ used < site.pool
    /\ used' = used + 1
    /\ IF pc[c] = "begin"
       THEN tx' = tx \cup {c} /\ db' = [db EXCEPT ![c] = "joined"]
       ELSE db' = [db EXCEPT ![c] = "own"] /\ UNCHANGED tx
    /\ UNCHANGED <<process, sem, pc, request>>

\* A statement, or the short transaction around it, ends and gives its own
\* connection back.
Return(c, l) ==
    /\ used' = IF db[c] = "own" THEN used - 1 ELSE used
    /\ db' = [db EXCEPT ![c] = "none"]
    /\ pc' = [pc EXCEPT ![c] = l]
    /\ UNCHANGED <<process, sem, request, tx>>

Running(c) == db[c] \in {"own", "joined"}

\* The credential is active, or unknown, expired or revoked.
Authenticated(c) ==
    /\ pc[c] = "auth"
    /\ Running(c)
    /\ Return(c, "limit") \/ Leave(c, "client")

\* The advisory lock is taken and the record looked up: it is replayed, or its
\* hash differs, or there is none and the handler runs.
Begun(c) ==
    /\ pc[c] = "begin"
    /\ Running(c)
    /\ \/ \E s \in {"ok", "client"} : Leave(c, s)
       \/ StartHandler(c)

Pinged(c) == pc[c] = "work" /\ kind[c] = "ready" /\ Running(c) /\ Leave(c, "ok")

StatementDone(c) == pc[c] = "work" /\ kind[c] # "ready" /\ Running(c) /\ Return(c, "work")

\* The handler has answered.  Under a key a success, 200 (which is what a
\* response starts with) or 201 and 204, is saved and committed with the
\* replay record; anything else is rolled back.
Handled(c) ==
    /\ pc[c] = "work"
    /\ kind[c] # "ready"
    /\ db[c] = "none"
    /\ left[c] = 0
    /\ \/ Leave(c, "client")
       \/ kind[c] = "data" /\ Leave(c, "ok")
       \/ /\ kind[c] = "keyed"
          /\ pc' = [pc EXCEPT ![c] = "save"]
          /\ \E s \in {"unset", "created"} : status' = [status EXCEPT ![c] = s]
          /\ db' = [db EXCEPT ![c] = "joined"]
          /\ UNCHANGED <<process, used, sem, kind, since, left, tx>>

Saved(c) == pc[c] = "save" /\ Leave(c, IF status[c] = "unset" THEN "ok" ELSE status[c])

\* Mutant of Expire: queries run under a context without a deadline.
Expire_Never(c) == db[c] # "none" /\ pool = "closed" /\ Leave(c, "unavailable")

\* A statement, or the wait for a connection, ends in an error: it failed, the
\* pool is closed, or the deadline of RequestContext (1 s for a ping) passed.
Expire(c) ==
    /\ db[c] # "none"
    /\ Leave(c, IF kind[c] = "ready" /\ pc[c] = "work" THEN "not_ready" ELSE "unavailable")

\* A panic below the semaphore.  Recover answers 500; with Sentry its own
\* recover comes first and keeps a status other than 200 that is already set.
Panic(c) ==
    /\ pc[c] \in Inside
    /\ Leave(c, IF site.sentry /\ status[c] # "unset" THEN status[c] ELSE "error")

----------------------------------------------------------------------------
(* main().                                                                  *)

AllClosed ==
    /\ pc' = [c \in Conns |-> "closed"]
    /\ kind' = [c \in Conns |-> "live"]
    /\ since' = [c \in Conns |-> "off"]
    /\ left' = [c \in Conns |-> 0]
    /\ db' = [c \in Conns |-> "none"]
    /\ tx' = {}
    /\ status' = [c \in Conns |-> "unset"]
    /\ used' = 0
    /\ sem' = 0

requests == <<used, sem, pc, request, db, tx>>

\* The database answers, schema and role are right, the port is bound:
\* MarkStarted, then Serve.
Boot ==
    /\ main = "off"
    /\ main' = "up"
    /\ pool' = "open"
    /\ health' = [started |-> TRUE, draining |-> FALSE, alive |-> TRUE]
    /\ UNCHANGED <<site, requests>>

\* Mutant of Signal: the signal is not passed on to the readiness check.
Signal_StaysReady ==
    /\ main = "up"
    /\ main' = "draining"
    /\ UNCHANGED <<site, health, pool, requests>>

\* SIGTERM or interrupt: MarkDraining.
Signal ==
    /\ main = "up"
    /\ main' = "draining"
    /\ health' = [health EXCEPT !.draining = TRUE]
    /\ UNCHANGED <<site, pool, requests>>

\* server.Shutdown closes the listener and starts to wait.
Shutdown ==
    /\ main = "draining"
    /\ main' = "closing"
    /\ UNCHANGED <<site, health, pool, requests>>

MarkStopped == health' = [health EXCEPT !.started = FALSE, !.alive = FALSE]

\* Mutant of Drained: main goes on without waiting for the connections.
Drained_NoWait ==
    /\ main = "closing"
    /\ main' = "stopped"
    /\ MarkStopped
    /\ UNCHANGED <<site, pool, requests>>

\* Shutdown returns when no connection is open; MarkStopped.
Drained ==
    /\ main = "closing"
    /\ Open = {}
    /\ main' = "stopped"
    /\ MarkStopped
    /\ UNCHANGED <<site, pool, requests>>

\* Serve returns an error: MarkStopped, with requests still in the chain.
ServeFails ==
    /\ main = "up"
    /\ main' = "failed"
    /\ MarkStopped
    /\ UNCHANGED <<site, pool, requests>>

\* The deferred calls of main, db.Close last.
ClosePool ==
    /\ main \in {"stopped", "failed"}
    /\ pool = "open"
    /\ pool' = "closed"
    /\ UNCHANGED <<site, main, health, requests>>

Exit ==
    /\ main \in {"stopped", "failed"}
    /\ pool = "closed"
    /\ main' = "off"
    /\ AllClosed
    /\ UNCHANGED <<site, health, pool>>

\* The process is killed.
Kill ==
    /\ main # "off"
    /\ main' = "off"
    /\ pool' = "closed"
    /\ AllClosed
    /\ UNCHANGED <<site, health>>

----------------------------------------------------------------------------
Init ==
    /\ site \in Sites
    /\ main = "off"
    /\ health = [started |-> FALSE, draining |-> FALSE, alive |-> TRUE]
    /\ pool = "closed"
    /\ pc = [c \in Conns |-> "closed"]
    /\ kind = [c \in Conns |-> "live"]
    /\ since = [c \in Conns |-> "off"]
    /\ left = [c \in Conns |-> 0]
    /\ db = [c \in Conns |-> "none"]
    /\ tx = {}
    /\ status = [c \in Conns |-> "unset"]
    /\ used = 0
    /\ sem = 0

\* Steps that need nobody else.
Advance(c) ==
    \/ Admit(c) \/ Refuse(c) \/ Preflight(c) \/ Authenticate(c) \/ Limit(c)
    \/ RouteLive(c) \/ RouteReady(c) \/ RouteData(c) \/ Ask(c) \/ Handled(c)
    \/ Reply(c) \/ CloseIdle(c)

\* Answers of the database.
Answer(c) ==
    \/ Acquire(c) \/ Authenticated(c) \/ Begun(c) \/ Pinged(c)
    \/ StatementDone(c) \/ Saved(c)

Next ==
    \/ Boot \/ Signal \/ Shutdown \/ Drained \/ ServeFails \/ ClosePool \/ Exit \/ Kill
    \/ \E c \in Conns :
         \/ Connect(c) \/ HangUp(c) \/ Advance(c) \/ Answer(c) \/ Expire(c) \/ Panic(c)
         \/ \E k \in Kinds : Arrive(c, k)

Spec == Init /\ [][Next]_vars

\* The Go scheduler runs every goroutine that can go on, the deadline of a
\* statement passes, and main goes on.  No answer of the database is assumed.
FairSpec ==
    /\ Spec
    /\ \A c \in Conns : WF_vars(Advance(c)) /\ WF_vars(Expire(c))
    /\ WF_vars(Shutdown) /\ WF_vars(Drained) /\ WF_vars(ClosePool) /\ WF_vars(Exit)

----------------------------------------------------------------------------
(* Properties.                                                              *)

TypeOK ==
    /\ site \in Sites
    /\ main \in Mains
    /\ health \in [started : BOOLEAN, draining : BOOLEAN, alive : BOOLEAN]
    /\ pool \in {"open", "closed"}
    /\ used \in 0 .. site.pool
    /\ sem \in 0 .. site.max
    /\ pc \in [Conns -> Inside \cup {"closed", "idle", "received", "reply"}]
    /\ kind \in [Conns -> Kinds]
    /\ since \in [Conns -> Mains]
    /\ left \in [Conns -> 0 .. MaxStatements]
    /\ db \in [Conns -> {"none", "want", "own", "joined"}]
    /\ tx \in SUBSET Conns
    /\ status \in [Conns -> Statuses]

Below  == {c \in Conns : pc[c] \in Inside}
Owning == {c \in Conns : db[c] = "own"}

\* Nothing leaks and nothing is waited for in a circle, whatever panics,
\* expires or is rolled back: the semaphore of ConcurrencyLimit counts the
\* requests below it, the pool's connections are those of requests below it,
\* and no request that holds one waits for another (BeginWrite joins the
\* transaction of IdempotentMutation), so a pool of one connection is enough.
ResourcesReturned ==
    /\ sem = Cardinality(Below)
    /\ used = Cardinality(tx) + Cardinality(Owning)
    /\ tx \cup Owning \subseteq Below
    /\ \A c \in Conns : db[c] = "want" => Held(c) = 0

\* What orchestrators are told: a probe that arrives after the signal is never
\* answered ready, and none is answered NOT_LIVE while main waits for the
\* requests of a graceful stop (the comment on HealthState), so nobody
\* restarts a process that is handing off its traffic.
ProbesTruthful ==
    \A c \in Conns : pc[c] = "reply" =>
        /\ kind[c] = "ready" /\ status[c] = "ok" => since[c] = "up"
        /\ status[c] = "not_live" => main = "failed"

StageOf ==
    [off |-> "off", up |-> "ready", draining |-> "unready", closing |-> "closed",
     stopped |-> "down", failed |-> "failed"]

Graceful == INSTANCE GracefulShutdown WITH
    Clients <- Conns, stage <- StageOf[main], open <- Open, pool <- pool

\* On SIGTERM the server becomes unready, closes its listener, waits for every
\* connection, and closes the pool under nobody; only when Serve itself fails
\* may requests lose their database (main after sigChan or serverErrors).
RefinesGraceful == Graceful!Spec

\* A drain ends, whatever requests are in the chain, even if the database
\* answers nothing any more: every wait has a deadline.
DrainEnds == main = "draining" ~> main = "off"
===============================================================================
