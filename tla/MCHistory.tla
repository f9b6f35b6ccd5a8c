------------------------------- MODULE MCHistory -------------------------------
(* Two tenants; the ids of their counters interleave in UUID order.           *)
EXTENDS History

CONSTANTS t1, t2, c1, c2, c3, c4, k1, k2, named, other, unnamed

Req(kind, c, k, v, l) ==
    [kind |-> kind, tenant |-> t1, counter |-> c, spelling |-> "canonical",
     arg |-> v, key |-> k, label |-> l, actor |-> "anonymous"]

\* An increment and a set that race on c1, and the creation of c3, whose id is
\* smaller than those of c1 and c4, the counters its tenant has.
WriteRequests ==
    {Req("increment", c1, k1, 2, unnamed), Req("set_adjustment", c1, k2, 0, unnamed),
     Req("create", c1, k1, 1, other)}

Owners   == [c \in Counters |-> IF c = c2 THEN t2 ELSE t1]
Values   == [c \in Counters |-> 1]
UpToTwo  == [c \in Counters |-> 2]
SeedNames == [c \in Counters |-> IF c = c4 THEN named ELSE unnamed]

\* Tenants t1 < t2; counters c3 < c1 < c2 < c4, so that (tenant, id) order is
\* c3, c1, c4, c2.  The opening row of c1 comes between its keys.
Ranks ==
    [x \in Tenants \cup Counters \cup OpIds |->
        CASE x = t1 -> 1 [] x = t2 -> 2
          [] x = c3 -> 1 [] x = c1 -> 2 [] x = c2 -> 3 [] x = c4 -> 4
          [] x = k1 -> 1 [] x = InitialKey(c1) -> 2 [] x = k2 -> 3
          [] x = InitialKey(c2) -> 4 [] x = InitialKey(c3) -> 5 [] OTHER -> 6]

Sound == [c \in Seeded |-> "none"]
Damaged ==
    {Sound, [Sound EXCEPT ![c1] = "drift"], [Sound EXCEPT ![c1] = "headless"],
     [Sound EXCEPT ![c2] = "headless", ![c4] = "drift"]}
===============================================================================
