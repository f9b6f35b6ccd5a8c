# Verification of counter-api

counter-api is a multi-tenant HTTP service for named 64-bit counters. Any number
of identical replicas run over one PostgreSQL database; Redis is optional and
used for two things only, a shared read cache and a shared rate limit. This
directory holds TLA+ models of the parts of the service that keep state, TLC
configurations that check them on small instances, and TLAPS proofs of the most
important properties for instances of every size.

`PROJECT.json` has the machine-readable side of this document: which source
lines every definition models ("map"), every run, the mutants that show each
property can fail, hazards, findings and theorems.

## 1. The system

| Component | State | Operations | Hard behaviour | What makes it correct |
|---|---|---|---|---|
| Counter mutations (`store/counter.go`, `service/counter.go`, `handlers/counter.go`) | tables `counters`, `counter_operations`, `auth_audit_events` | create, increment, set | statements of many transactions interleave; lock waits; failure between statements; COMMIT without acknowledgement; retries; int64 limits | every change of a value is one completed operation; one effect per key; a retry gets the original answer; no deadlock |
| Replay wrapper (`handlers/idempotency.go`) | table `idempotency_requests`, advisory locks | lock, purge, look up, run the handler, record, commit | two requests with one key; expiry while waiting; handler failure; one-time secrets | effect and record together; once per lifetime; secret shown once |
| Read cache (`cache/readcache.go`, `service/counter.go`) | LRU list and map per replica, or three Redis structures | get, fill, invalidate | fill races invalidation; Redis fails or is skipped; capacity | bounded staleness; structures agree |
| Counter metadata (`store/metadata.go`, `service/metadata.go`, `handlers/metadata.go`) | table `counter_metadata` | get, conditional put, conditional delete | two editors; a resent write; delete and recreate | no lost edit; an ETag is good once |
| Credentials (`service/credential.go`, `store/credential.go`, `middleware/auth.go`) | table `api_credentials`, audit events | create, create admin, rotate, revoke, authenticate | read in one transaction, write in the next; racing revocations; expiry | exact trail; grants not widened; revocation final |
| Rate limiter (`middleware/ratelimit.go`, `redis_ratelimit.go`) | map of token buckets per replica, Redis hashes | find bucket, take token, clean up, call Redis, fall back | cleanup between finding and using a bucket; full map; half-failed calls | quota held; exact Retry-After |
| Migrations (`migrations/migrations.go`, `main.go`) | table `schema_migrations`, the schema, a session lock | up, down, start-up check | overlapping commands; crash around a commit; binaries of different versions | record matches schema; scripts in order; check sufficient |
| Listing and history pages (`store/history.go`, `store/counter.go`, `service/history.go`, `handlers/history.go`) | none in the server; a cursor with the client | first page, next page | rows commit in another order than that of `created_at`, in front of and behind a cursor; equal time stamps; pages asked for again | nothing twice, nothing skipped that was there |
| Reconciliation (`store/history.go`, `main.go`) | the position of the scan | batch, report | mutations between two batches | no false alarm, no damaged counter missed |
| Serving (`main.go`, `router/router.go`, `middleware/overload.go`, `deadline.go`, `recovery.go`, `sentry.go`, `observability/health.go`, `handlers/observability.go`, `database/transaction.go`) | semaphore, pool, health flags, the stage of each request | admit, authenticate, limit, route, borrow a connection, answer; start, signal, drain, fail | panics and deadlines at any stage; pool smaller than the load; shutdown with requests and probes in flight; a database that hangs | nothing leaks; no request waits for what it holds; graceful and finite drain; truthful probes |
| Configuration, validation, key format, metrics, docs | none of their own | | | stateless; see PROJECT.json |

Interaction. A request passes the concurrency limit, CORS, authentication (one
credential lookup, no cache), the rate limit, its handler and one or two
PostgreSQL transactions
(`database/transaction.go`: `BeginWrite` returns a `finish` function that every
caller also defers with `false`). Increment and set carry their own idempotency
record, the `counter_operations` row; every other mutation goes through the
replay wrapper, which puts the transaction into the request context so that the
handler's writes join it. After a mutation has committed, the service deletes
the cache entry; a read that misses fills it.

## 2. Modules

| Module | Models | Used by |
|---|---|---|
| `CounterData` | requests after validation, rows of `counter_operations`, the int64 range | `CounterLedger`, `CounterTables` |
| `CounterTables` | the committed tables, declared once for those who write them and those who read them | `CounterOps`, `HistoryData` |
| `CounterLedger` | abstract: opening a counter and posting a mutation are atomic | refined by `CounterOps`, composed with readers in `History` |
| `CounterOps` | create, increment, set as transactions, statement by statement | `MCCounterOps`, `Ledger_proofs` |
| `IdempotentMutation` | the replay wrapper with two kinds of handler | `MCIdempotentMutation`, `IdempotentMutation_proofs` |
| `IdempotentMutation_proofs` | six theorems | |
| `ReadCache` | both cache backends and the requests that use them | `MCReadCache`, `ReadCache_proofs` |
| `ReadCache_proofs` | three theorems | |
| `Metadata` | documents under ETags | `MCMetadata`, `Metadata_proofs` |
| `Metadata_proofs` | four theorems | |
| `Credentials` | issue, rotate, revoke, use | `MCCredentials`, `Credentials_proofs` |
| `Credentials_proofs` | five theorems | |
| `RateLimit` | local and shared token buckets | `MCRateLimit`, `RateLimit_proofs` |
| `RateLimit_proofs` | three theorems | |
| `Migrations` | up, down, start-up check | `MCMigrations`, `Migrations_proofs` |
| `Migrations_proofs` | five theorems | |
| `HistoryData` | the order of ids, page and batch sizes, damage, entries `(created_at, id)` | `History` |
| `History` | pages and reconciliation next to the writers of `CounterLedger` | `MCHistory`, `Ledger_proofs` |
| `Ledger_proofs` | eleven theorems about `CounterOps` and `History`, which share the tables | |
| `GracefulShutdown` | abstract: what a stopping server promises | refined by `Serving` |
| `Serving` | one process: the chain of middleware, pool, probes, start and stop | `MCServing`, `Serving_proofs` |
| `Serving_proofs` | four theorems | |

Conventions. A *process* (`Procs`) is one request slot of some replica; `pc`
names the statement it will run next. Committed tables are variables of their
own; what a transaction has written and not committed is private to its process
(`tx...`, `writes`) and becomes visible in the one step that stands for COMMIT.
Waiting for a lock is a disabled action. UUIDs are model values or numbers drawn
in order, hashes are the tuple of what is hashed, that is, collision-free. A
definition called "Mutant of X" is a plausible mistake in X and is used by no
specification.

### CounterOps

State: `live`, `value`, `label` are the columns of `counters`; `ops` is
`counter_operations` by tenant and id; `audit` the `privileged_adjustment`
events by id; `rowLock` the rows locked FOR UPDATE. Per process: `cur` is the
value read under the lock, `txVal`, `txOp`, `writes` the uncommitted rows,
`resp` the answer.

| Action | Code |
|---|---|
| `StartMutation`, `LockMissing`, `LockCounter` | the `SELECT ... FOR UPDATE` with the tenant in its WHERE |
| `SetOutOfRange` | the distance check of a set, made before the key is looked up |
| `Reserve` | `INSERT ... ON CONFLICT DO NOTHING RETURNING` of a pending row |
| `ResolveRefuse`, `ResolveReplay` | `resolveExistingOperation` |
| `IncrementRefused`, `UpdateCounter` | the `max_delta` and overflow checks, the UPDATE |
| `CompleteOperation` | the UPDATE that fills `value_before`, `value_after`, `state` |
| `AuditSet`, `AuditClash` | the audit INSERT of a set and its unique violation |
| `StartCreate`, `InsertCounter`, `InsertConflict`, `RecordInitial` | `CreateCounter` |
| `Commit`, `CommitUnacknowledged`, `Fail` | `finish(true)`, the same without an acknowledgement, and `finish(false)` after any failing statement, timeout or crash |
| `Respond`, `Recycle` | the answer, and the slot free again |

Locks are modelled by who waits for whom (`WaitsFor`): the counter row, which
FOR UPDATE takes and which the foreign key of an inserted operation row takes in
share mode; and the three unique indexes, on which an INSERT waits for an
uncommitted row with the same key. Transactions are READ COMMITTED: what a
statement reads is the committed state of its own step.

The abstraction `CounterLedger` has the committed tables and two actions. The
refinement mapping is the identity on the tables: `Commit` and
`CommitUnacknowledged` are `Post`, `Open` or a stutter (a replay), everything
else is a stutter.

### IdempotentMutation

`Begin`, `Acquire` (`pg_advisory_xact_lock`), `Purge` (by `NOW()`, which is the
start of the transaction), `LookupMiss/Reused/Replay`, `HandlerOk/Refused`
(tenant creation can be refused because its label is taken; credential creation
answers with a secret), `Record` (redacted body), `Commit` and its two failures.
Without a key the handler runs alone. Bodies are compared in canonical form. The
primary key of the record table is left out: the advisory lock alone has to keep
two records of one key apart, so what holds here holds with it.

### ReadCache

`StartRead`, `GetHit`, `GetMiss`, `Load`, `Fill` are `counterService.Get`;
`StartWrite`, `Commit`, `Invalidate` the end of a mutation. `AfterGet`,
`AfterSet`, `AfterDelete` are what the LRU list and map, or the three Lua
scripts, do to a store. `Failed` is a Redis call that fails before or after its
script ran; it starts the cooldown, during which `Skipped` applies. A counter's
value is its version. `backend` is fixed at start. `MaxLag` is the request
deadline: no request takes longer from its database statement to its cache call.
The LRU list is given by its prefixes, `lru[c]` being the keys from the newest
down to `c`: the same information as a sequence, and the position of a key, the
move to the front and the keys beyond the capacity are set expressions that the
proofs can handle.

### Metadata

`Send` and `Start...` are a client's conditional request; `CounterExists`,
`Read`, `Store`, `Delete`, `Refused`, `Commit` the statements; `Resend` the
retry of a request whose answer was an error. A document is the set of edits it
contains, so that losing one is visible.

### Credentials

`Start`, `Unauthenticated`, `Forbidden`, `Serve`, `Allow` are the middleware and
the access check; `Create...`, `Read...`, `Rotate`, `Revoke...` the operations,
with the read and the write of rotate and revoke in different transactions;
`Tick` lets credentials expire. `Fail` and `CommitUnacknowledged` answer as
`respondWithServiceError` does (`ErrorAnswers`). The key of the environment is
administrator 0.

### RateLimit

A request finds its bucket under the limiter's mutex (`Lookup`, `Register`,
`StoreFull`) and takes its token under the bucket's (`Take`), so it holds a
pointer in between; `heap` has the buckets. `CleanupScan` and `CleanupDelete`
are the two loops of `Cleanup`, which run under the limiter's mutex while
buckets are in use. `CallOk`, `CallFailed`, `Fallback` are the Redis backend.
`site` is the deployment: with or without Redis, when cleanups run, and
which requests arrive. `grants` and `stray` are history: for each time of the
last window, how many requests were allowed from then until now; `stray` has
those allowed by a bucket that Cleanup had already picked. `Pointers` bounds how
many buckets exist at once, and a bucket that nobody points to is collected
(`Keep`). A restart of a replica, after which its clients start full buckets, is
not an action; a local quota is per life of a process.

### Migrations

`Start`, `Lock`, `LockFails`, `Ensure`, `ReadStatus`, `Pick`, `NothingDue`,
`Execute`, `Record`, `Commit`, `Unlock`, `Exit` are a command; `Fail`,
`CommitUnacknowledged` and `Crash` its ways to end early (the session, and with
it the lock and the open transaction, ends with the process). `Serve`, `Refuse`,
`Stop` are a server that checks the highest recorded version at start. What the
SQL of a script does is abstracted to the script being in effect or not.

### History

The committed tables change by the two actions of `CounterLedger`, which
`CounterOps` is proved to implement, so readers meet every order of commits the
store allows. What the ledger lacks is time: the service takes `s.now()` when it
has validated a request (`Arrive`), the rows that become visible at COMMIT
(`LandMutation`, `LandCreate`) carry that stamp, and other requests may have
come and gone in between; `Fall` is a request that writes nothing.

| Action | Code |
|---|---|
| `BeginWalk`, `Lookup`, `ReadPage`, `PageFails` | `ListCountersServiceHandler` and `OperationHistoryServiceHandler` with their services: the existence check in a transaction of its own, one row more than the limit, the cursor of the last row |
| `ListCounters`, `ListOperations` | the queries, ascending and descending; `OrderBy` is PostgreSQL's, a sequence with every row once and none before one that precedes it |
| `BeginScan`, `ScanBatch`, `ScanDone`, `ScanFails` | `-reconcile`: the batch loop of `Reconcile`, the report, the exit status |

An entry `(created_at, id)` stands for a row and for the cursor that encodes it.
The initial state may be damaged (`damage`): a value moved without an operation,
or the opening row lost; `ReportExact` compares the report with it. A behaviour
has one reader, a walk or a scan: readers write nothing and lock nothing.

### Serving

Per connection, `pc` is the stage of its request in the chain of
`NewRouterWithObservability`, `db` its current statement ("want" waits for a
connection of the pool, "own" has one, "joined" uses that of the request's
transaction), `tx` the requests inside `IdempotentMutation`. `Leave` is the way
out of the chain, with everything that is deferred on it. What handlers do to
the data is in the other modules; here a statement succeeds (`Answer`), or fails,
or its deadline passes (`Expire`), at any time, and any stage may panic. Limits
are positive: `ConcurrencyLimit` has a mode without a limit, for values below
one, which `config.go` refuses at start.

| Action | Code |
|---|---|
| `Connect`, `HangUp`, `CloseIdle`, `Reply` | fasthttp, external: `Concurrency` is a limit on connections |
| `Admit`, `Refuse` | `ConcurrencyLimitWithMetrics` |
| `Preflight`, `Authenticate`, `Authenticated`, `Limit` | CORS, authentication, rate limit |
| `RouteLive`, `RouteReady`, `Pinged` | the probes; `/readyz` reads the flags, then pings |
| `RouteData`, `Ask`, `Acquire`, `StatementDone`, `Begun`, `Handled`, `Saved` | handlers, alone or inside `IdempotentMutation`; `BeginWrite` |
| `Panic` | `Recover`, and the `recover` of the Sentry handler, which comes first |
| `Boot`, `Signal`, `Shutdown`, `Drained`, `ServeFails`, `ClosePool`, `Exit`, `Kill` | `main` from `MarkStarted` to its deferred `db.Close` |

`GracefulShutdown` knows only the stage of the process, the open connections and
the pool. The mapping takes `main` to the stage and the connections that are not
closed to `open`.

## 3. Runs

Passing runs, one for each component:

| Run | Instance | Shows |
|---|---|---|
| `counters` | 2 slots, 2 tenants, 3 counters of which one is yet to be created, 2 keys that both tenants use, int64 of 3 bits | refinement of the ledger, truthful answers, exact audit trail, canonical retries, no wait cycle, and every request answered |
| `replay` | 2 slots, 2 scopes with keys and requests without, 2 ids, records of 2 ticks, clock to 2 | once per window, record with effect, secrets, replays, every request answered |
| `stale` | 2 slots, 2 replicas, 2 counters, capacity 1, lifetime 1 tick, either backend | bounded staleness, consistent structures |
| `edit` | 2 clients, an existing and a missing counter, 4 versions | no lost edit, ETags good once |
| `lifecycle` | 2 slots, 2 credentials besides the environment key, an existing and a missing tenant, 1 expiry | trail, grants, final revocation |
| `quota` | 2 slots; a replica with 2 clients for 1 place, quota 1 (post) and 2 (get) per window of 2 ticks, half-second ticks and a cleanup; or 2 replicas that share Redis, with failures and a cooldown of 2 ticks | quota of each limiter, Retry-After |
| `upgrade` | 2 commands, 3 migrations, 1 server | record and schema, order, start-up check, rollback, every command ends |
| `pages` | 2 tenants, 4 counters of which one is yet to be created, an increment, a set and a creation in flight, 2 points in time, pages of 1 and 2, batches of 1, 4 kinds of damage | a walk repeats and skips nothing it had to show; the report is exact |
| `serving` | 2 connections, up to 2 statements per handler, 3 deployments: pool of 1, router limit below the server's with Sentry, a single connection | slots and connections come back, no wait while holding, probes, graceful shutdown, every drain ends |

Bounds and why they are enough:

- Two slots give every interleaving of a request with another one, and `Recycle`
  lets any number of requests come before, between and after. The theorems on
  `CounterOps` hold for any number.
- `MaxInt = 3`, hence -4..3, is the smallest width at which an increment can
  exceed `max_delta` without overflowing, overflow without exceeding it, and a
  set leave the range by its distance; the seeds put a counter next to each
  limit.
- Two keys shared between tenants, kinds, amounts and counters give every
  combination of a key used for the same request, for another request, and not
  used.
- Clocks run past one lifetime (records, cache entries, buckets, credentials),
  so each is met fresh, expiring and expired; only the Redis buckets, which live
  two windows and are full after one, do not get as far as their expiry.
  `MaxVersion`, `MaxIds` and `MaxVersions` bound only how often something new is
  made.
- In `pages` two points in time give stamps before, equal to and after a cursor;
  pages and batches of one make every row a boundary, and the ids of the two
  tenants interleave. The theorems on `History` hold for any clock, any number
  of rows and any sizes.
- In `serving` two connections for a pool or a semaphore of one give every
  contention, and connections are reused without limit. The theorems on
  `Serving` hold for any number and any limits.
- The read cache at capacity 1 with two counters evicts on every second fill.
- Symmetry is used over slots, replicas, counters and clients, in runs without
  liveness only; the sets of deployments in `MCRateLimit` are closed under it.

Deadlock is checked in every run but `pages`: a slot can always take a request
or a step. In `pages` the clock stops and a reader may have finished.

Violation runs: what the repository says of itself and the code does not do.

| Run | Property | What happens |
|---|---|---|
| `variant` | `RetryHonoured` | The exact retry of a request that spells the counter id in upper case is answered "key reused": the spelling of the URL is compared with the canonical one. |
| `samekey` | `KeyScopedToTenant` | Two tenants use one key for a set: the second fails on the primary key of `auth_audit_events`. |
| `burst` | `BurstBounded` | A request takes its token from a bucket that Cleanup has just dropped; the client then has a full new one. |

The passing counterparts say how far the guarantee goes: `CanonicalRetryHonoured`
for `variant`, `AuditMatchesHistory` for `samekey`, `QuotaHeld` for `burst`.

More observations made while modelling, which have no run of their own:

- A second retry is not honoured, and `CanonicalRetryHonoured` says exactly which:
  a set whose distance from the current value does not fit int64 is refused
  (`SetOutOfRange`) before its key is looked up, so the retry of a completed set
  is answered `COUNTER_OVERFLOW` once other mutations have moved the counter far
  enough, against `docs/api-v2.md` line 11. The run `counters` reaches it (a set
  to 0, then to -4, then the first again, in an int64 of -4..3).
- The handlers that create a credential answer every database error that
  `isUnavailable` does not know with 400 `INVALID_PARAMETER` (`ErrorAnswers`), a
  lost acknowledgement of the commit included: the credential then exists, its
  secret is lost, and the client is told that its request was at fault.
- An omitted label is stored as the empty string under
  `UNIQUE (tenant_id, label)`, so the second counter that a tenant creates
  without a label is refused as a duplicate (`InsertConflict`), although
  `docs/api-v2.md` calls the label optional.
- A read that began before a mutation may put the old value back into the cache
  after the mutation has invalidated it (`Fill` after `Invalidate`); later reads
  get it until it expires. `docs/api-v2.md` line 431 has cached results stale
  "until invalidation or TTL expiry"; what holds is `ServedRecent`, lifetime plus
  deadline.
- Keys that expire without being read again leave the values and the LRU of the
  Redis cache but not its expiry index (`Sweep`), so the index is not bounded by
  the capacity as the comment of `readcache.go` has it.
- A down command of a binary older than the schema rolls back the highest version
  that binary knows, below a newer one that stays applied; `HighestRolledBack`
  holds for commands of one binary (`SameBuild`).
- A counter or an operation that commits late carries an older `created_at`. If a
  walk of counters has passed that position, the walk does not show it
  (`WalkFaithful` is about rows that were there when the walk began), and the
  history lists mutations by the time they were received, not by the order in
  which they changed the value.
- `main.go` passes `SERVER_CONCURRENCY` both to fasthttp, as a limit on
  connections, and to the router's semaphore. With equal limits `Refuse` cannot
  happen, so an overloaded deployment answers with fasthttp's own 503 and not
  with the `SERVICE_OVERLOADED` and Retry-After of `docs/deployment.md` line 245.
- The probes pass the same chain as every request: `/livez` can be answered 429,
  or 503 when it carries a key and the database does not answer.
- With Sentry, a panic after a handler has set a status other than 200 keeps that
  status, for instance 201 although the transaction is rolled back (`Panic`), and
  `Recover` does not see it.

Limits on what the rate-limit run and theorems say. `QuotaHeld` needs a cleanup
age of at least a window (a bucket dropped earlier has not refilled); the
defaults are 300 and 60 seconds, `config.go` only asks for at least one. It also
needs a window that is a whole number of refill intervals, as with the defaults
(10 and 30 tokens in 60 seconds): otherwise `refillInterval` rounds the interval
down, by less than a nanosecond, and a window refills slightly more than the
quota; the Redis script divides without rounding and is modelled only for
windows where the two agree. And the Redis script
returns milliseconds where the local bucket returns seconds, both of which
become Retry-After; no document states the unit, and `RetryAfterExact` is about
the local bucket.

Fairness. `CounterOps!FairSpec`, `IdempotentMutation!FairSpec` and
`Migrations!FairSpec` assume strong fairness of a process's own next statement:
a running handler or command keeps running, and PostgreSQL queues lock waiters
in order, so one whose lock becomes free again and again gets it. Nothing is
assumed of failures, timeouts, clients or retries: they may happen or not.
`Answered` of the replay wrapper is stated up to the bound of ids.
`Serving!FairSpec` assumes weak fairness of the steps a request takes alone, of
the passing of a deadline while a statement or a wait for a connection lasts
(`RequestContext` puts one on every request), and of the steps of `main`. It
assumes no answer of the database, no client that hangs up and no signal.

## 4. Proofs

All proofs are checked by TLAPS with Z3, Zenon and LS4, without trusted steps.

### Ledger_proofs: the transactions

For any sets of slots, tenants, counters, keys, labels and requests and any
width of int64, from `IntAssumption` (`MaxInt` is positive), `DataAssumption`
(requests have passed the handlers' validation, `max_delta` is positive, seeds
are counters that `CreateCounter` made, marker values are distinct),
`ProcAssumption` and `NoCounterAssumption`; `LedgerBalances` also from
`HistoryAssumption`, below:

| Theorem | States |
|---|---|
| `TypeCorrect` | `Spec => []TypeOK` |
| `Truthful` | `Spec => []AnswerTruthful` |
| `AuditCorrect` | `Spec => []AuditMatchesHistory` |
| `DeadlockFree` | `Spec => []NoWaitCycle` |
| `Refinement` | `Spec => RefinesLedger` |
| `RetriesHonoured` | `Spec => CanonicalRetryHonoured` |
| `LedgerBalances` | `Spec => []Balanced`: the value of every counter is the sum of the deltas of its completed operations |

None of these is inductive. `IInv` adds what a transaction may rely on between
two statements: `Busy` (the slot serves its request on the right path),
`Locked` (from the lock to the end the value that was read is still the
committed one; this is where FOR UPDATE is used), `LockOwned`, `Written` (what
has been written at each statement; at COMMIT it is either nothing and a replay,
or exactly the ledger's row), `KeyExclusive`, `AuditExclusive` and
`CreateExclusive` (what a unique index gives: a reserved key is unused and
reserved once). One lemma per action shows that it preserves `IInv`; for COMMIT,
`CommitCases` first splits what is published into nothing, a mutation and a new
counter, and each case has a lemma for the invariant and one for the ledger's
step. `DeadlockFree` follows from an order of the stages: who waits at lock or
insert, reserve or audit waits for someone strictly further (`WaitsForLater`),
so the furthest of a group waits for nobody in it. `RetriesHonoured` needs a
second invariant, `RowsCoherent`: every row under a client's key is the row of
some request, with a hash that determines its kind, counter and, for an
increment, delta. `LedgerBalances` is proved last, from `StepImplements` (a step
of the store is a step of the ledger) and what the readers' part of the module
shows of the ledger's steps: `PostMoves` and `OpenMoves`.

### Ledger_proofs: the readers

The specification of `History` is `HistorySpec` and its parts are named alike, so
that one module can speak of it and of `CounterOps`, over the same
`CounterTables`. For any number of counters and operations, any clock, page sizes and batch size and any damage, from the
assumptions above and `HistoryAssumption` (ids of one kind are distinct in their
order, sizes are positive, a cursor can be told from no cursor, and the seeded
tables are finite):

| Theorem | States |
|---|---|
| `HistoryTypeCorrect` | `HistorySpec => []HistoryTypeOK` |
| `WalksFaithful` | `HistorySpec => []WalkFaithful` |
| `ReportsExact` | `HistorySpec => []ReportExact` |
| `HistoryTallies` | `HistorySpec => []ValuesTally`: a value differs from the sum of its history exactly by the damage the database was found with |

What the readers compute are sums over sets and sorted sequences, so the module
begins with facts about these, for every size. Induction is by a smallest
counterexample (`LeastNatural`, from the library's `WFMin` and
`NatLessThanWellFounded`), because the library's induction theorems take an
operator the provers cannot instantiate:

- `Place`: in a strict total order on a finite set, the number of elements before
  an element. Places are different and all are taken (`PlaceTaken`, by
  counting), so a sorted sequence of the set exists (`SortedExists`) and every
  enumeration without inversions is one (`SortedLists`): what `OrderBy` chooses.
- `DeltaSum`: `MapThenSumSet` removes chosen elements one by one. The function it
  is defined by exists (`FoldExists`), its values are integers, it does not
  matter which element is removed first (`FoldRemoves`), and so a row more adds
  its delta (`SumAdds`).
- `PageFacts` and `OrderedAppend`: what one row more than the limit, the cut and
  the cursor make of a sorted listing.

The inductive invariant `HInv` (TLC has checked it on the instance of `pages`)
has four parts. `LedgerInv`: rows are complete and belong to a counter of their
tenant, the tables are finite, and each value is the sum of its history plus its
drift (`Tallies`). `WalkInv`: what was listed is in order and of the right
tenant and counter, the cursor is its last row, and everything that has to be
shown has been listed or comes after the cursor. `ScanInv`: the same of a scan
and the last counter of its last batch, and what has been reported so far is
exactly the damage among the counters checked so far. Writers keep the last two
because a committed row never moves (`Grows`, which is why `created_at` is not
updated anywhere) and because a mutation moves a value and its sum alike, so
that a counter's drift does not change whenever it is checked (`CheckExact`).
Readers keep the first because they write nothing.

### Migrations_proofs

For any number of commands, servers and migrations, from `MigrationsAssumption`
and `SameBuild` (all commands are of the binary the servers are, which is
needed: see the observations): `TypeCorrect`, `HistoryKept`
(`[]HistoryIntact`), `ScriptsFit` (`[]ScriptFitsSchema`), `CheckSuffices`
(`ServedSchemaComplete`) and `RollbackHighest` (`HighestRolledBack`). The
inductive invariant adds to the first three that only the holder of the lock is
inside (`LockOwned`), that an open transaction has done what its stage says
(`TxStaged`), and that what the loop has read is still true and complete up to
its position (`LoopSound`), from which the next file picked is the one that fits
the schema (`PickedNext`).

### Serving_proofs

For any finite set of connections, any deployments and any number of statements,
from `ServingAssumption` alone: `TypeCorrect`, `NothingLeaks`
(`[]ResourcesReturned`), `ProbesHonest` (`[]ProbesTruthful`) and `Refinement`
(`RefinesGraceful`). The invariant adds what a request holds at each stage
(`Staged`), which handlers run at which stage and that no response has a final
status before it leaves (`Routed`), and how the health flags follow `main`
(`MainSound`). Actions have few forms, so there is one lemma for each form:
`LeaveStep` shows once that the way out returns what was held, whatever the
stage, by counting; `AdvanceStep` and `AnswerStep` reduce the actions to the
forms. The bounds of `TypeOK` are not inductive without the counts of
`ResourcesReturned`, nor those without `Staged`. For the refinement only the end
of a connection and the steps of `main` are visible (`Hidden`, `Closes`).

### Metadata_proofs

For any clients, counters and number of versions: `MetadataTypes`,
`MetadataNoLostUpdate` (`[]NoLostUpdate`), `MetadataVersionSpentOnce`
(`[]VersionSpentOnce`) and `MetadataLockOwned` (a row is locked only by a
transaction that has written it). `NoLostUpdate` says something about committed
rows only; the invariant says what a version means wherever one can be seen
(`VersionNames`): in a committed row, in what a client has read, in an open
transaction and in the If-Match of a request, a version belongs to one counter
and one content, and all versions seen have been drawn (`VersionDrawn`). So a
conditional statement that finds its version has found the content its client
edited. `OpenWrite` and the row lock (`LockOwned`) carry that to the commit, and
`Unspent` says that a version that is still committed has not been used up.

### IdempotentMutation_proofs

For any requests, slots, lifetimes and number of processes: `IdempotencyTypes`,
`IdempotencyOncePerWindow`, `IdempotencyRecordMatchesEffect`,
`IdempotencySecretShownOnce`, `IdempotencyReplayHonoured` (the action property
`ReplayHonoured`) and `IdempotencyLockOwned` (no return path leaves the advisory
lock behind). The argument is the lock: from `Acquire` to the end of its
transaction a request is the only one under its key (`Locking`), so what the
purge and the lookup found about the record is still so when the handler's row
and the record are published (`Looked`, `PendingRow`, `PendingRec`). `Tables`
relates committed rows and records, `Secretive` and `Redactions` say where a
secret may be.

### Credentials_proofs

For any requests, tenants, scopes and number of processes: `CredentialTypes`,
`CredentialTrailExact`, `CredentialRotationKeepsGrant`,
`CredentialRevocationFinal` and the action property `CredentialGrantImmutable`.
Rotate and revoke read in one transaction and write in the next. What a request
remembers of the first (`HasRead`) may be outdated in the second, but only in
one respect: a committed row keeps its grant and its origin and is revoked at
most once, which `CredentialGrantImmutable` states and the invariant uses in
`Lineage` (each credential has the grant of the one it replaces) and `OpenTx`
(an uncommitted row fits the row it will replace). `RowsApart` says that no two
open transactions write one row, `Buried` that what was answered revoked is
revoked, `Trusted` that a request past authentication uses no credential whose
revocation had been answered when it began.

### ReadCache_proofs

For any requests, replicas, counters, capacity and lifetimes, both backends:
`CacheTypes`, `CacheStructures` (`[]StoreConsistent`) and `CacheStaleness`
(the action property `ServedRecent`). Staleness rests on one fact about every
entry (`Timely`): if its version has a successor, it expires at most TTL + MaxLag
after the successor was committed. A fill establishes it because what it writes
was current when its request read it (`CurrentAt`), less than MaxLag ago; a
commit establishes it for entries that were current until then. Invalidation is
not needed for the bound, which is why lost invalidations do no more harm than
that. That eviction restores the capacity is a counting argument: a list with
more keys than the capacity has keys beyond it, and dropping those leaves at
most the capacity (`ExcessFound` and the cardinality lemmas).

### RateLimit_proofs

For any requests, replicas, clients and limits: `LimiterTypes`,
`LimiterRetryAfterExact` and, under `Regular` (the two conditions on the
configuration in section 3; the `quota` run has such values), `LimiterQuotaHeld`.

The first two need `IInv`: who points to which bucket (`Mapped`, `Apart`,
`Request`: the bucket a request holds is its client's or nobody's any more) and
that tokens and refill times are in range. Retry-After is then arithmetic: a
refusal means no token and no interval gone since the last refill, and the
rounded-up number of seconds is enough for the rest of the interval, one less is
not (`WaitFacts`).

The quota is accounting. `Backed`: what a bucket granted since any time s and
what it still has are together at most its capacity and the refills that fell
due after s. `Spare`: the grants since s are covered by the refills alone. A
client with a bucket has a backed account, a client without one, or with one that
Cleanup has picked, a spare one; its next bucket is full, and a full bucket turns
spare into backed (`BackedFresh`). Taking a token keeps an account backed
(`BackedTake`, which is also used for the Redis row); a bucket not used for a
window has refilled, so its account is spare when Cleanup picks it (`SpareOld`),
and so is that of a Redis row that has expired (`ScriptAccount`). The same
invariant shows why the `burst` run fails: a token taken from a bucket that
Cleanup has picked is in nobody's account.

### Only model-checked

- Liveness (`Answered`, `Ends`, `DrainEnds`): beyond this prover.
- `BurstBounded`, `KeyScopedToTenant`, `RetryHonoured`: false, see the violation
  runs.

## 5. Not modelled

- Row-level security policies and configuration: PostgreSQL and environment; the
  tenant condition of each query is modelled, limits are constants.
- Durations: deadlines and timeouts may pass at any time. That the write timeout
  of the server is longer than those of requests is configuration.
- Malformed cursors, limits, bodies and ids: refused before any state is read.
- Generation, hashing and comparison of API keys; JSON, UUID and header parsing
  beyond the cases that matter (spelling of counter ids, canonical bodies).
- Metrics, logging and Sentry events, error texts, documentation pages, load
  scripts.
- `database/migrations.go`: helpers the binary does not call.

## 6. Status

Every module of section 2 is modelled and checked, and every invariant and
action property that a passing run checks is also proved for every value of the
constants.

What would extend the project further: `CachedCounters`, the cache composed with
the counter store, so that staleness is stated of values and not of versions;
and a model of several readers of one `History`, if readers should ever come to
write something.
