------------------------------- MODULE MCServing -------------------------------
(* Deployments with two connections for TLC.                                  *)
EXTENDS Serving

Site(n, m, p, s) == [server |-> n, max |-> m, pool |-> p, sentry |-> s]

\* main.go passes SERVER_CONCURRENCY both to the server and to the router; the
\* second deployment has a router with a lower limit of its own, the third a
\* server with a single connection.
MixedSites == {Site(2, 2, 1, FALSE), Site(2, 1, 2, TRUE), Site(1, 1, 1, TRUE)}
===============================================================================
