------------------------- MODULE MCStockTransactions -------------------------
(* Two sessions on two positions.  p1 stands for material 9 and p2 for      *)
(* material 10: as numbers p1 comes first, as strings p2.                   *)
EXTENDS StockTransactions, TLC

CONSTANTS p1, p2, w1

MCByKey == <<p2, p1>>

MCById == <<p1, p2>>

MCRequired == w1 :> (p1 :> 1 @@ p2 :> 1)

MCPlanned == w1 :> 1

MCFinished == w1 :> p2

MCOneOpening == p1 :> 1 @@ p2 :> 0

Symmetry == Permutations(Sessions) \cup Permutations(Requests)
=============================================================================
