---------------------------- MODULE MCMigrations ----------------------------
(* Runners of the binary that the servers are.                             *)
EXTENDS Migrations

CONSTANTS r1, r2

SameBinary == [p \in Runners |-> Latest]
=============================================================================
