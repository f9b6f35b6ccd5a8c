---------------------------- MODULE MCCredentials ----------------------------
(* Small instances of Credentials for TLC.                                 *)
EXTENDS Credentials, TLC

CONSTANTS p1, p2, t1, ghost

Symmetry == Permutations(Procs)

Ask(op, tenant, scopes, expires) ==
    [op |-> op, tenant |-> tenant, scopes |-> scopes, expires |-> expires]

\* Issuing with the default and with an expiry, the ways issuing is refused,
\* the lifecycle operations, and a request that needs a scope.
Traffic ==
    {Ask("create", t1, {"write"}, 1), Ask("create", t1, {}, Never),
     Ask("create", t1, {"root"}, Never), Ask("create", ghost, {}, Never),
     Ask("admin", NoTenant, {}, Never),
     Ask("rotate", t1, {}, Never), Ask("revoke", t1, {}, Never),
     Ask("use", t1, {"write"}, Never)}
==============================================================================
