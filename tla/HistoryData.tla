------------------------------ MODULE HistoryData ------------------------------
(***************************************************************************)
(* What the readers of the ledger are given: the order of the ids, the     *)
(* sizes of pages and batches, the databases they may find, and the        *)
(* entries that ORDER BY sorts and a cursor holds.                         *)
(***************************************************************************)
EXTENDS CounterTables, FiniteSets

CONSTANTS
    Rank,       \* position of tenant, counter and operation ids in UUID order
    Limits,     \* page sizes clients ask for (the handlers accept 1 to 100)
    BatchSize,  \* counters per reconciliation query (main.go passes 100)
    Damages,    \* what manual edits and bad restores may have left behind
    MaxNow,     \* bound on the clock
    NoCursor

Times == 0 .. MaxNow
Kinds == {"none", "drift", "headless"}

\* (created_at, id) of a counter or of an operation.
Entry(at, id) == [at |-> at, id |-> id]
Entries == [at : Times, id : Counters \cup OpIds]

\* Ids of one kind are distinct, so their order is strict; a table holds
\* finitely many rows.
ASSUME HistoryAssumption ==
    /\ Rank \in [Tenants \cup Counters \cup OpIds -> Int]
    /\ \A S \in {Tenants, Counters, OpIds} :
           \A x, y \in S : Rank[x] = Rank[y] => x = y
    /\ Limits \subseteq Nat \ {0}
    /\ BatchSize \in Nat \ {0}
    /\ MaxNow \in Nat
    /\ Damages \subseteq [Seeded -> Kinds]
    /\ NoCursor \notin Entries
    /\ IsFiniteSet(Seeded)
===============================================================================
