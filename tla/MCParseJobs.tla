---------------------------- MODULE MCParseJobs ----------------------------
(* Two workers over one or two batches; see the configurations.            *)
EXTENDS ParseJobs, TLC

Symmetry == Permutations(Jobs) \cup Permutations(Workers)
=============================================================================
