--------------------------- MODULE MCRuntimeLease ---------------------------
(* Three worker processes, one after the other or at the same time.         *)
EXTENDS RuntimeLease, TLC

Symmetry == Permutations(Instances)
=============================================================================
