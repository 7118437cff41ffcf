-------------------------- MODULE MCNormalizationJobs --------------------------
(* Runs of one batch under one or two workers; see the configurations.         *)
EXTENDS NormalizationJobs, TLC

Symmetry == Permutations(Workers)
=============================================================================
