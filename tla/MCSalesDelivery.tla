--------------------------- MODULE MCSalesDelivery ---------------------------
(* An order of two, filled from two completions, one of them a lot. *)
EXTENDS SalesDelivery, TLC

CONSTANTS c1, c2

MCCompleted == c1 :> 2 @@ c2 :> 1

Symmetry == Permutations(Instructions) \cup Permutations(Shipments) \cup Permutations(Settlements)
=============================================================================
