---------------------------- MODULE MCRateLimit ----------------------------
(* Small instances of RateLimit for TLC.                                   *)
EXTENDS RateLimit, TLC

\* One replica with local buckets, two clients for one place in its map, and
\* cleanups while buckets are in use.
Local(r) == [shared |-> FALSE, cleanups |-> {3},
             requests |-> {q \in Requests : q.replica = r}]

\* All replicas share Redis; one client sends to any of them.
Common(c) == [shared |-> TRUE, cleanups |-> {},
              requests |-> {q \in Requests : q.client = c /\ q.kind = "post"}]

LocalSites == {Local(r) : r \in Replicas}
AllSites   == LocalSites \cup {Common(c) : c \in Clients}

\* Requests, clients and replicas are alike: the sites above are closed under
\* exchanging them.
Symmetry == Permutations(Procs) \cup Permutations(Clients) \cup Permutations(Replicas)
=============================================================================
