----------------------------- MODULE MCCounterOps -----------------------------
(* Small instances of CounterOps for TLC.                                     *)
EXTENDS CounterOps

CONSTANTS p1, p2, t1, t2, c1, c2, c3, k1, k2, named, unnamed

Inc(c, t, d, k) ==
    [kind |-> "increment", tenant |-> t, counter |-> c, spelling |-> "canonical",
     arg |-> d, key |-> k, label |-> unnamed, actor |-> "principal"]
Set(c, t, v, k) == [Inc(c, t, v, k) EXCEPT !.kind = "set_adjustment"]
Create(t, l, v) == [Inc(c1, t, v, k1) EXCEPT !.kind = "create", !.label = l]

\* c1 is a counter of t1 at 0, c2 one of t2 at 2, and c3 is not created yet.
Owners   == [c \in Counters |-> IF c = c2 THEN t2 ELSE t1]
Values   == [c \in Counters |-> IF c = c1 THEN 0 ELSE 2]
NoLabels == [c \in Counters |-> unnamed]
UpToTwo  == [c \in Counters |-> 2]

\* Both tenants use both keys, for increments and for sets, and t2 names a
\* counter of t1.  Every limit is within reach: a delta above max_delta, an
\* increment past MaxInt, a set further away than an int64, at once or when it
\* is retried (c1 is set to 0, then to -4).  c3 is created under a free label,
\* refused under a taken one, and used by a client that does not wait for its
\* creation.
MixedRequests ==
    {Inc(c1, t1, 1, k1), Set(c1, t1, -4, k2), Inc(c1, t1, 3, k2), Set(c1, t1, 0, k1),
     Inc(c2, t2, 2, k1), Set(c2, t2, 0, k2), Inc(c1, t2, 1, k1),
     [Set(c2, t2, 1, k1) EXCEPT !.actor = "anonymous"],
     Create(t1, named, 1), Create(t1, unnamed, 0), Inc(c3, t1, 2, k1)}

\* Two tenants that happen to use one key for a set.
SameKeyRequests == {Set(c1, t1, 1, k1), Set(c2, t2, 1, k1)}

\* An increment whose path spells the counter id in upper case.
VariantRequests ==
    {[Inc(c1, t1, 1, k1) EXCEPT !.spelling = "variant"], Inc(c1, t1, 1, k2)}
==============================================================================
