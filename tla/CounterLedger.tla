---------------------------- MODULE CounterLedger ----------------------------
(***************************************************************************)
(* What the counter store promises, with no transactions in it: creating a *)
(* counter and mutating one are single atomic steps, an operation row is   *)
(* written once and never again, and a counter's value moves only together *)
(* with the completed row that accounts for the move.                      *)
(***************************************************************************)
EXTENDS CounterData

VARIABLES
    live,   \* counters with a committed row
    value,  \* committed counters.value
    label,  \* committed counters.label
    ops,    \* committed counter_operations, by tenant and operation id
    audit   \* committed privileged_adjustment events: id -> tenant

lvars == <<live, value, label, ops, audit>>

Init ==
    /\ live = Seeded
    /\ value = SeedValue
    /\ label = SeedLabel
    /\ ops = SeedOps
    /\ audit = [k \in Keys |-> NoTenant]

\* A new counter and the row that opens its history, together.  A label is
\* used once per tenant.
Open(c, r) ==
    /\ r.kind = "create"
    /\ c \notin live
    /\ Owner[c] = r.tenant
    /\ \A d \in live : Owner[d] = r.tenant => label[d] # r.label
    /\ live' = live \cup {c}
    /\ value' = [value EXCEPT ![c] = r.arg]
    /\ label' = [label EXCEPT ![c] = r.label]
    /\ ops' = [ops EXCEPT ![r.tenant][InitialKey(c)] = InitialRow(c, r.arg)]
    /\ UNCHANGED audit

\* One mutation under a key its tenant has not used: the value moves, inside
\* the int64 range, and the row that accounts for the move is written with
\* it.  A privileged set leaves its audit event in the same step.
Post(r) ==
    LET row == MutationRow(r, value[r.counter])
    IN  /\ r.kind # "create"
        /\ r.counter \in live
        /\ Owner[r.counter] = r.tenant
        /\ ops[r.tenant][r.key] = NoOp
        /\ r.kind = "increment" => r.arg <= MaxDelta[r.counter]
        /\ {row.delta, row.after} \subseteq Int64
        /\ value' = [value EXCEPT ![r.counter] = row.after]
        /\ ops' = [ops EXCEPT ![r.tenant][r.key] = row]
        /\ IF r.kind = "set_adjustment" /\ r.actor # "anonymous"
           THEN /\ audit[r.key] = NoTenant
                /\ audit' = [audit EXCEPT ![r.key] = r.tenant]
           ELSE UNCHANGED audit
        /\ UNCHANGED <<live, label>>

Next == \E r \in Requests : Post(r) \/ \E c \in Counters : Open(c, r)

Spec == Init /\ [][Next]_lvars
==============================================================================
