----------------------------- MODULE CounterTables -----------------------------
(***************************************************************************)
(* The committed tables, as every connection sees them: transactions write *)
(* them (CounterOps), pages and reconciliation read them (History).        *)
(***************************************************************************)
EXTENDS CounterData

CONSTANT NoCounter  \* a slot without a target, a walk over counters, a new scan

ASSUME NoCounterAssumption == NoCounter \notin Counters

VARIABLES
    live,   \* counters with a committed row
    value,  \* counters.value
    label,  \* counters.label
    ops,    \* counter_operations, by tenant and operation id
    audit   \* privileged_adjustment events: id -> tenant

tables == <<live, value, label, ops, audit>>
================================================================================
