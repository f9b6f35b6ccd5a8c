----------------------------- MODULE MCMetadata -----------------------------
(* Small instances of Metadata for TLC.                                    *)
EXTENDS Metadata, TLC

CONSTANTS p1, p2, c1, c2

Symmetry == Permutations(Procs)
==============================================================================
