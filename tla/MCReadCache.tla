----------------------------- MODULE MCReadCache -----------------------------
(* Small instances of ReadCache for TLC.                                   *)
EXTENDS ReadCache, TLC

CONSTANTS p1, p2, r1, r2, c1, c2, c3

Symmetry == Permutations(Procs) \cup Permutations(Replicas) \cup Permutations(Counters)
==============================================================================
