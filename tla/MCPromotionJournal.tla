-------------------------- MODULE MCPromotionJournal --------------------------
(* One promotion from BEGIN to its rollback, with a second quiesce and a     *)
(* second deployment that compete with the first, and the promotion after it.*)
EXTENDS PromotionJournal

CONSTANTS b1, s1, q1, a1, m1, c1, r1, i1, x1, f1, k1, p1, q2, c2, b2

MCOrdinal ==
    [o \in Ops |->
        CASE o \in {b1, b2} -> 4 [] o = s1 -> 5 [] o \in {q1, q2} -> 6 [] o = a1 -> 7
          [] o = m1 -> 8 [] o \in {c1, c2} -> 9 [] o = r1 -> 10 [] o = i1 -> 11
          [] o = x1 -> 12 [] o = f1 -> 13 [] o = k1 -> 14 [] o = p1 -> 15]

MCGeneration == [o \in Ops |-> IF o = b2 THEN 2 ELSE 1]
=============================================================================
