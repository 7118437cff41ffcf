----------------------------- MODULE MCJobQueue -----------------------------
(* The job queue with three jobs, two attempts each and a lease of two ticks.  *)
EXTENDS JobQueue, TLC

Symmetry == Permutations(Jobs)
=============================================================================
