---------------------------- MODULE MCStockLedger ----------------------------
(* Two positions and at most two work orders.  w1 makes p2 out of p1.  In   *)
(* MCStockOrders w2 competes with it for p1 and needs what w1 makes.        *)
EXTENDS StockLedger, TLC

CONSTANTS p1, p2, w1, w2

MCRequired == (w1 :> (p1 :> 2 @@ p2 :> 0)) @@ (w2 :> (p1 :> 1 @@ p2 :> 1))

MCPlanned == w1 :> 2 @@ w2 :> 1

MCNothingPlanned == [w \in Orders |-> 1]

MCFinished == [w \in Orders |-> p2]

MCOpening == p1 :> 2 @@ p2 :> 1

MCNothingRequired == [w \in Orders |-> [p \in Positions |-> 0]]

MCSomeStock == p1 :> 1 @@ p2 :> 0

Symmetry == Permutations(Requests)
=============================================================================
