----------------------------- MODULE CounterData -----------------------------
(***************************************************************************)
(* The rows and requests that the counter modules share: what a mutation   *)
(* request carries once the HTTP handler has validated it, and what a row  *)
(* of counter_operations records.  Identifiers (UUIDs) are model values;   *)
(* int64 is the two's-complement range MinInt..MaxInt of any width.        *)
(***************************************************************************)
EXTENDS Integers

CONSTANTS
    Tenants,        \* tenant ids; all of them exist (there is no tenant deletion)
    Counters,       \* counter ids, those of counters not created yet included
    Owner,          \* the tenant each counter id belongs to
    MaxDelta,       \* max_delta of each counter, fixed when it is created
    Keys,           \* Idempotency-Key UUIDs that clients send
    Labels,         \* counter labels; NoLabel is the empty string
    NoLabel,
    Requests,       \* the validated requests that clients may send and resend
    Seeded,         \* counters that exist when the model starts ...
    SeedValue,      \* ... their initial values ...
    SeedLabel,      \* ... and their labels
    MaxInt,         \* the largest int64
    NoOp,           \* no row
    NoTenant        \* no audit event

MinInt == -MaxInt - 1
Int64  == MinInt .. MaxInt

\* The three kinds of row in counter_operations, and what a row may say of
\* its progress.  A completed row has value_before and value_after; in a
\* pending row both are NULL, written 0 here and never read.
OpKinds   == {"initial_value", "increment", "set_adjustment"}
OpStates  == {"pending", "completed"}
ReqKinds  == {"increment", "set_adjustment", "create"}
Spellings == {"canonical", "variant"}  \* uuid.Parse also accepts upper case
Actors    == {"anonymous", "principal"}

\* The id CreateCounter derives for the row that opens a counter's history.
InitialKey(c) == <<"counter-initial", c>>
OpIds == Keys \cup {InitialKey(c) : c \in Counters}

\* mutationRequestHash: SHA-256 over length-prefixed fields, taken as
\* injective.  The counter id goes in as the client spelled it.
RequestHash(r) == <<r.kind, r.tenant, r.counter, r.spelling, r.arg>>
InitialHash(c) == <<"counter-initial", c>>
Hashes == {RequestHash(r) : r \in Requests} \cup {InitialHash(c) : c \in Counters}

OpRows == [kind : OpKinds, counter : Counters, delta : Int64, hash : Hashes,
           actor : Actors, state : OpStates, before : Int64, after : Int64]

RequestShape == [kind : ReqKinds, tenant : Tenants, counter : Counters,
                 spelling : Spellings, arg : Int64, key : Keys,
                 label : Labels, actor : Actors]

InitialRow(c, v) ==
    [kind |-> "initial_value", counter |-> c, delta |-> v,
     hash |-> InitialHash(c), actor |-> "anonymous", state |-> "completed",
     before |-> 0, after |-> v]

\* How far a mutation moves a counter whose value is v: an increment by its
\* delta, a set by the distance to its target.
DeltaOf(r, v) == IF r.kind = "increment" THEN r.arg ELSE r.arg - v

\* The completed row of mutation r applied to a counter whose value is v.
MutationRow(r, v) ==
    [kind |-> r.kind, counter |-> r.counter, delta |-> DeltaOf(r, v),
     hash |-> RequestHash(r), actor |-> r.actor, state |-> "completed",
     before |-> v, after |-> v + DeltaOf(r, v)]

\* The same row when it has only been reserved.
PendingRow(r, v) ==
    [kind |-> r.kind, counter |-> r.counter, delta |-> DeltaOf(r, v),
     hash |-> RequestHash(r), actor |-> r.actor, state |-> "pending",
     before |-> 0, after |-> 0]

\* Validation that the handlers do before they reach the service: a delta is
\* positive, and a set or initial value is at most MaxInt64 - 1.
Validated(r) ==
    /\ r.kind = "increment" => r.arg > 0
    /\ r.kind # "increment" => r.arg < MaxInt

\* UPDATE counter_operations SET value_before, value_after, state: the other
\* columns keep what the reservation put there.
CompleteRow(row, b, a) ==
    [kind |-> row.kind, counter |-> row.counter, delta |-> row.delta,
     hash |-> row.hash, actor |-> row.actor, state |-> "completed",
     before |-> b, after |-> a]

ASSUME IntAssumption == MaxInt \in Nat \ {0}

ASSUME DataAssumption ==
    /\ Owner \in [Counters -> Tenants]
    /\ MaxDelta \in [Counters -> 1 .. MaxInt]
    /\ NoLabel \in Labels
    /\ Requests \subseteq RequestShape
    /\ \A r \in Requests : Validated(r)
    /\ Seeded \subseteq Counters
    /\ SeedValue \in [Counters -> MinInt .. (MaxInt - 1)]
    /\ SeedLabel \in [Counters -> Labels]
    /\ NoOp \notin OpRows
    /\ NoTenant \notin Tenants
    /\ \A c \in Counters : InitialKey(c) \notin Keys

\* What PostgreSQL holds in the seeded states: each seeded counter was made by
\* CreateCounter, so it has its opening row.
SeedOps ==
    [t \in Tenants |-> [k \in OpIds |->
        IF \E c \in Seeded : Owner[c] = t /\ k = InitialKey(c)
        THEN LET c == CHOOSE x \in Seeded : Owner[x] = t /\ k = InitialKey(x)
             IN  InitialRow(c, SeedValue[c])
        ELSE NoOp]]
==============================================================================
