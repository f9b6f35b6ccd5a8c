-------------------------------- MODULE History --------------------------------
(***************************************************************************)
(* Reading the ledger while it moves: the pages of counters and of         *)
(* operations that clients walk with a cursor, and the reconciliation an   *)
(* operator runs with -reconcile.  Writers are those of CounterLedger,     *)
(* which CounterOps implements; here a request also has the time stamp the *)
(* service gives it before its transaction begins, so rows become visible  *)
(* in another order than that of their created_at.                         *)
(***************************************************************************)
EXTENDS HistoryData, SequencesExt

VARIABLES
    born,       \* counters.created_at
    stamp,      \* counter_operations.created_at, by tenant and operation id
    now,        \* the clock
    flying,     \* requests the service has stamped and not answered yet
    damage,     \* the damage each seeded counter started with
    walk,       \* a client that follows next_cursor
    scan        \* an operator's reconciliation

historyVars == <<tables, born, stamp, now, flying, damage, walk, scan>>

Tables == INSTANCE CounterLedger WITH
    live <- live, value <- value, label <- label, ops <- ops, audit <- audit

OnGround == -1

----------------------------------------------------------------------------
(* Writers.                                                                 *)

\* The service validates a request and takes s.now() as its created_at.
Arrive(r) ==
    /\ flying[r] = OnGround
    /\ flying' = [flying EXCEPT ![r] = now]
    /\ UNCHANGED <<tables, born, stamp, now, damage, walk, scan>>

\* Its transaction commits some time later; the rows carry the old stamp.
LandMutation(r) ==
    /\ flying[r] # OnGround
    /\ Tables!Post(r)
    /\ stamp' = [stamp EXCEPT ![r.tenant][r.key] = flying[r]]
    /\ flying' = [flying EXCEPT ![r] = OnGround]
    /\ UNCHANGED <<born, now, damage, walk, scan>>

\* CreateCounter: the counter and the row that opens its history.
LandCreate(r, c) ==
    /\ flying[r] # OnGround
    /\ Tables!Open(c, r)
    /\ born' = [born EXCEPT ![c] = flying[r]]
    /\ stamp' = [stamp EXCEPT ![r.tenant][InitialKey(c)] = flying[r]]
    /\ flying' = [flying EXCEPT ![r] = OnGround]
    /\ UNCHANGED <<now, damage, walk, scan>>

\* Refused, replayed, failed or rolled back: nothing is written.
Fall(r) ==
    /\ flying[r] # OnGround
    /\ flying' = [flying EXCEPT ![r] = OnGround]
    /\ UNCHANGED <<tables, born, stamp, now, damage, walk, scan>>

Tick ==
    /\ now < MaxNow
    /\ now' = now + 1
    /\ UNCHANGED <<tables, born, stamp, flying, damage, walk, scan>>

----------------------------------------------------------------------------
(* Pages.                                                                   *)

\* PostgreSQL's row comparison (created_at, id) < (created_at, id).
Precedes(a, b) == a.at < b.at \/ (a.at = b.at /\ Rank[a.id] < Rank[b.id])

CounterEntries(t) == {Entry(born[c], c) : c \in {d \in live : Owner[d] = t}}
OperationsOf(t, c) ==
    {k \in OpIds : ops[t][k] # NoOp /\ ops[t][k].counter = c /\ ops[t][k].state = "completed"}
OperationEntries(t, c) == {Entry(stamp[t][k], k) : k \in OperationsOf(t, c)}

\* ORDER BY: every row once, none before one that precedes it.
OrderBy(rows, before(_, _)) ==
    CHOOSE s \in SetToSeqs(rows) :
        \A i, j \in 1 .. Cardinality(rows) : i < j => ~ before(s[j], s[i])

LimitTo(rows, n) == SubSeq(rows, 1, IF Len(rows) < n THEN Len(rows) ELSE n)

\* Mutant of ListCounters: the cursor compares created_at only.
ListCounters_TimeOnly(t, cursor, n) ==
    LET rows == {e \in CounterEntries(t) : cursor = NoCursor \/ cursor.at < e.at}
    IN  LimitTo(OrderBy(rows, Precedes), n)

\* SELECT ... WHERE (created_at, id) > cursor ORDER BY created_at, id LIMIT n
ListCounters(t, cursor, n) ==
    LET rows == {e \in CounterEntries(t) : cursor = NoCursor \/ Precedes(cursor, e)}
    IN  LimitTo(OrderBy(rows, Precedes), n)

\* SELECT ... WHERE (created_at, operation_id) < cursor ORDER BY ... DESC LIMIT n
ListOperations(t, c, cursor, n) ==
    LET rows == {e \in OperationEntries(t, c) : cursor = NoCursor \/ Precedes(e, cursor)}
    IN  LimitTo(OrderBy(rows, LAMBDA a, b : Precedes(b, a)), n)

\* The service asks for one row more than the limit: if it is there, the page
\* is cut and its last row is the cursor.
CutPage(rows, limit) ==
    IF Len(rows) > limit
    THEN [rows |-> SubSeq(rows, 1, limit), next |-> rows[limit]]
    ELSE [rows |-> rows, next |-> NoCursor]

NoWalk == [pc |-> "off", of |-> NoCounter, tenant |-> NoTenant,
           cursor |-> NoCursor, listed |-> <<>>, prior |-> {}]

Idle == walk.pc = "off" /\ scan.pc = "off"

\* A client starts to list the counters of a tenant (of = NoCounter) or the
\* operations of a counter; prior remembers what was committed by then.
\* One reader per behaviour: readers write nothing and lock nothing, so two
\* of them cannot affect each other.
BeginWalk(t, c) ==
    /\ Idle
    /\ walk' = [pc |-> "ask", of |-> c, tenant |-> t, cursor |-> NoCursor, listed |-> <<>>,
                prior |-> IF c = NoCounter THEN CounterEntries(t) ELSE OperationEntries(t, c)]
    /\ UNCHANGED <<tables, born, stamp, now, flying, damage, scan>>

\* The request for a page first looks the counter up (GetCounter), or the
\* tenant (TenantExists; every tenant of the model exists), in a transaction
\* of its own.
Lookup ==
    /\ walk.pc = "ask"
    /\ IF walk.of = NoCounter \/ (walk.of \in live /\ Owner[walk.of] = walk.tenant)
       THEN walk' = [walk EXCEPT !.pc = "found"]
       ELSE walk' = [walk EXCEPT !.pc = "not_found"]
    /\ UNCHANGED <<tables, born, stamp, now, flying, damage, scan>>

\* Then it reads the rows and answers with a page; next_cursor is the token of
\* the page's last entry, and its absence ends the walk.
ReadPage(limit) ==
    LET rows == IF walk.of = NoCounter
                THEN ListCounters(walk.tenant, walk.cursor, limit + 1)
                ELSE ListOperations(walk.tenant, walk.of, walk.cursor, limit + 1)
        page == CutPage(rows, limit)
    IN  /\ walk.pc = "found"
        /\ walk' = [walk EXCEPT !.pc = IF page.next = NoCursor THEN "end" ELSE "ask",
                                !.cursor = page.next,
                                !.listed = @ \o page.rows]
        /\ UNCHANGED <<tables, born, stamp, now, flying, damage, scan>>

\* Either query fails, or the answer is lost; the client asks for the page again.
PageFails ==
    /\ walk.pc = "found"
    /\ walk' = [walk EXCEPT !.pc = "ask"]
    /\ UNCHANGED <<tables, born, stamp, now, flying, damage, scan>>

----------------------------------------------------------------------------
(* Reconciliation.                                                          *)

NoScan == [pc |-> "off", last |-> NoCounter, present |-> {}, checked |-> {},
           again |-> FALSE, mismatches |-> {}, violations |-> {}, exit |-> "none"]

BeginScan ==
    /\ Idle
    /\ scan' = [NoScan EXCEPT !.pc = "batch", !.present = live]
    /\ UNCHANGED <<tables, born, stamp, now, flying, damage, walk>>

\* ORDER BY tenant_id, id
Sooner(c, d) ==
    \/ Rank[Owner[c]] < Rank[Owner[d]]
    \/ Owner[c] = Owner[d] /\ Rank[c] < Rank[d]

\* Mutant of After: the tenant is left out of the WHERE.
After_IdOnly(last, c) == last = NoCounter \/ Rank[last] < Rank[c]

\* WHERE (tenant_id, id) > (last tenant, last id); the first query has no WHERE.
After(last, c) == last = NoCounter \/ Sooner(last, c)

\* One statement, hence one snapshot: the next counters in order.
Batch(last) ==
    LET rows == {c \in live : After(last, c)}
    IN  {c \in rows : Cardinality({d \in rows : Sooner(d, c)}) < BatchSize}

\* SUM(delta) over the completed operations of the counter, as a big.Int.
TotalDelta(c) ==
    MapThenSumSet(LAMBDA k : ops[Owner[c]][k].delta, OperationsOf(Owner[c], c))

Mismatch(c) == TotalDelta(c) # value[c]

InitialValueCount(c) ==
    Cardinality({k \in OperationsOf(Owner[c], c) : ops[Owner[c]][k].kind = "initial_value"})

LastOf(rows) == CHOOSE c \in rows : \A d \in rows \ {c} : Sooner(d, c)

\* Mutant of ScanBatch: a counter that does not match is not counted as checked.
ScanBatch_Skips ==
    LET rows == Batch(scan.last)
    IN  /\ scan.pc = "batch"
        /\ rows # {}
        /\ scan' = [scan EXCEPT
               !.last = LastOf(rows),
               !.checked = @ \cup {c \in rows : ~ Mismatch(c)},
               !.mismatches = @ \cup {c \in rows : Mismatch(c)}]
        /\ UNCHANGED <<tables, born, stamp, now, flying, damage, walk>>

\* A batch with rows: check each, remember the last.
ScanBatch ==
    LET rows == Batch(scan.last)
    IN  /\ scan.pc = "batch"
        /\ rows # {}
        /\ scan' = [scan EXCEPT
               !.last = LastOf(rows),
               !.again = @ \/ rows \cap scan.checked # {},
               !.checked = @ \cup rows,
               !.mismatches = @ \cup {c \in rows : Mismatch(c)},
               !.violations = @ \cup {c \in rows : InitialValueCount(c) # 1}]
        /\ UNCHANGED <<tables, born, stamp, now, flying, damage, walk>>

\* An empty batch ends the loop; main logs the report and exits with status 1
\* if it found anything.
ScanDone ==
    /\ scan.pc = "batch"
    /\ Batch(scan.last) = {}
    /\ scan' = [scan EXCEPT !.pc = "end",
                            !.exit = IF scan.mismatches # {} \/ scan.violations # {}
                                     THEN "inconsistent" ELSE "ok"]
    /\ UNCHANGED <<tables, born, stamp, now, flying, damage, walk>>

\* A query fails: log.Fatalf without a report.
ScanFails ==
    /\ scan.pc = "batch"
    /\ scan' = [scan EXCEPT !.pc = "end", !.exit = "failed"]
    /\ UNCHANGED <<tables, born, stamp, now, flying, damage, walk>>

----------------------------------------------------------------------------
(* Databases the reader may find: each seeded counter is sound, or its      *)
(* value has been moved by one without an operation, or its opening row has *)
(* been lost.                                                               *)

HistoryInit ==
    /\ damage \in Damages
    /\ live = Seeded
    /\ value = [c \in Counters |->
          IF c \in Seeded /\ damage[c] = "drift" THEN SeedValue[c] + 1 ELSE SeedValue[c]]
    /\ label = SeedLabel
    /\ ops = [t \in Tenants |-> [k \in OpIds |->
          IF \E c \in Seeded : k = InitialKey(c) /\ damage[c] = "headless"
          THEN NoOp ELSE SeedOps[t][k]]]
    /\ audit = [k \in Keys |-> NoTenant]
    /\ born = [c \in Counters |-> 0]
    /\ stamp = [t \in Tenants |-> [k \in OpIds |-> 0]]
    /\ now = 0
    /\ flying = [r \in Requests |-> OnGround]
    /\ walk = NoWalk
    /\ scan = NoScan

HistoryNext ==
    \/ \E r \in Requests : Arrive(r) \/ LandMutation(r) \/ Fall(r)
    \/ \E r \in Requests, c \in Counters : LandCreate(r, c)
    \/ Tick
    \/ \E t \in Tenants, c \in Counters \cup {NoCounter} : BeginWalk(t, c)
    \/ Lookup
    \/ \E n \in Limits : ReadPage(n)
    \/ PageFails
    \/ BeginScan \/ ScanBatch \/ ScanDone \/ ScanFails

HistorySpec == HistoryInit /\ [][HistoryNext]_historyVars

----------------------------------------------------------------------------
(* Properties.                                                              *)

HistoryTypeOK ==
    /\ live \in SUBSET Counters
    /\ value \in [Counters -> Int64]
    /\ label \in [Counters -> Labels]
    /\ ops \in [Tenants -> [OpIds -> OpRows \cup {NoOp}]]
    /\ audit \in [Keys -> Tenants \cup {NoTenant}]
    /\ born \in [Counters -> Times]
    /\ stamp \in [Tenants -> [OpIds -> Times]]
    /\ now \in Times
    /\ flying \in [Requests -> Times \cup {OnGround}]
    /\ damage \in Damages
    /\ walk \in [pc : {"off", "ask", "found", "not_found", "end"},
                of : Counters \cup {NoCounter}, tenant : Tenants \cup {NoTenant},
                cursor : Entries \cup {NoCursor}, listed : Seq(Entries),
                prior : SUBSET Entries]
    /\ scan \in [pc : {"off", "batch", "end"}, last : Counters \cup {NoCounter},
                present : SUBSET Counters, checked : SUBSET Counters, again : BOOLEAN,
                mismatches : SUBSET Counters, violations : SUBSET Counters,
                exit : {"none", "ok", "inconsistent", "failed"}]
    /\ scan.mismatches \cup scan.violations \subseteq scan.checked

\* What a client collects by following next_cursor (ListCounters and
\* ListOperations): strictly in order across pages whose sizes differ, so no
\* row twice; rows of the tenant and counter it asked for only; and, when the
\* walk ends, every row that was committed when it began, whatever has been
\* committed meanwhile on either side of the cursor and however often a page
\* was asked for again.
WalkFaithful ==
    LET rows   == Range(walk.listed)
        scope  == IF walk.of = NoCounter THEN CounterEntries(walk.tenant)
                  ELSE OperationEntries(walk.tenant, walk.of)
        before(a, b) == IF walk.of = NoCounter THEN Precedes(a, b) ELSE Precedes(b, a)
    IN  walk.pc # "off" =>
            /\ \A i, j \in 1 .. Len(walk.listed) :
                   i < j => before(walk.listed[i], walk.listed[j])
            /\ rows \subseteq scope
            /\ walk.of # NoCounter /\ rows # {} => Owner[walk.of] = walk.tenant
            /\ walk.pc = "end" => walk.prior \subseteq rows

\* How far the damage moved a seeded counter from its history.
DriftOf(c) ==
    CASE damage[c] = "none"     -> 0
      [] damage[c] = "drift"    -> 1
      [] damage[c] = "headless" -> SeedValue[c]

\* A reconciliation that runs next to mutations (Reconcile, batch by batch)
\* raises no false alarm and misses nothing: it checks every counter there was
\* when it began, once, reports exactly the damaged ones, and its exit status
\* tells whether there are any.
ReportExact ==
    scan.pc = "end" /\ scan.exit # "failed" =>
        /\ scan.present \subseteq scan.checked
        /\ ~ scan.again
        /\ scan.mismatches = {c \in Seeded : DriftOf(c) # 0}
        /\ scan.violations = {c \in Seeded : damage[c] = "headless"}
        /\ (scan.exit = "ok") <=> (\A c \in Seeded : damage[c] = "none")

===============================================================================
