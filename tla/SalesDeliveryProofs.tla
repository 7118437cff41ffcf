------------------------ MODULE SalesDeliveryProofs ------------------------
(***************************************************************************)
(* Theorems about sales, goods and money, for any numbers of completions,  *)
(* inspections, instructions, shipments and settlements, and any quantity. *)
(*                                                                         *)
(*   Sums          what SumFunctionOnSet returns, for every finite set,    *)
(*                 and how it moves when one row changes                   *)
(*   Finance       a receivable is of a shipment that stands: it rests on  *)
(*                 what the transactions that hold FINANCE_SOURCE saw      *)
(*   Money         what is settled of a receivable                         *)
(*   Books         the order, its instructions and its shipments           *)
(*   Goods         completions, their allocation and their inspections     *)
(***************************************************************************)
EXTENDS SalesDelivery, FiniteSetTheorems, WellFoundedInduction, TLAPS

-----------------------------------------------------------------------------
(* Sums.                                                                   *)

\* The member that the recursion takes out of a nonempty set.
Pick(T) == CHOOSE x \in T : TRUE

\* One step of the recursion that SumFunctionOnSet evaluates.
SumStep(f, total, T) ==
    IF T = {} THEN 0 ELSE f[Pick(T)] + total[T \ {Pick(T)}]

\* g holds the sums of f over all subsets of S.
IsTotals(f, g, S) == g = [T \in SUBSET S |-> SumStep(f, g, T)]

\* The table of sums of f over all subsets of S.
Totals(f, S) == CHOOSE g : IsTotals(f, g, S)

\* Among some sets of a finite set, one has no other below it.
LEMMA SmallestSet ==
    ASSUME NEW S, IsFiniteSet(S), NEW B \in SUBSET (SUBSET S), B # {}
    PROVE  \E T \in B : \A U \in B : U \subseteq T => U = T
<1>1. IsWellFoundedOn(StrictSubsetOrdering(S), SUBSET S)
  BY FS_StrictSubsetOrderingWellFounded, FS_FiniteSubsetsOfFinite
<1>2. PICK T \in B : \A U \in B : <<U, T>> \notin StrictSubsetOrdering(S)
  BY <1>1, WFMin
<1>3. \A U \in B : U \subseteq T => U = T
  BY <1>2 DEF StrictSubsetOrdering
<1> QED  BY <1>3

\* Two tables of sums agree where both are defined.
LEMMA TotalsAgree ==
    ASSUME NEW f, NEW S, IsFiniteSet(S), NEW V, NEW g, NEW h,
           IsTotals(f, g, S), IsTotals(f, h, V), NEW T \in SUBSET S, T \subseteq V
    PROVE  g[T] = h[T]
<1> DEFINE B == {U \in SUBSET S : U \subseteq V /\ g[U] # h[U]}
<1>1. SUFFICES ASSUME B # {} PROVE FALSE
  OBVIOUS
<1>2. PICK U \in B : \A W \in B : W \subseteq U => W = U
  <2>1. B \in SUBSET (SUBSET S)
    OBVIOUS
  <2> HIDE DEF B
  <2> QED  BY <1>1, <2>1, SmallestSet
<1>3. g[U] = SumStep(f, g, U) /\ h[U] = SumStep(f, h, U)
  BY DEF IsTotals
<1>4. CASE U = {}
  BY <1>2, <1>3, <1>4 DEF SumStep
<1>5. CASE U # {}
  <2>1. Pick(U) \in U
    BY <1>5 DEF Pick
  <2>2. g[U \ {Pick(U)}] = h[U \ {Pick(U)}]
    BY <1>2, <2>1
  <2> QED  BY <1>2, <1>3, <2>2 DEF SumStep
<1> QED  BY <1>4, <1>5

\* There is such a table.
LEMMA TotalsExist ==
    ASSUME NEW f, NEW S, IsFiniteSet(S)
    PROVE  IsTotals(f, Totals(f, S), S)
<1> DEFINE B == {U \in SUBSET S : ~\E g : IsTotals(f, g, U)}
<1>1. SUFFICES ASSUME B # {} PROVE FALSE
  BY DEF Totals
<1>2. PICK U \in B : \A W \in B : W \subseteq U => W = U
  <2>1. B \in SUBSET (SUBSET S)
    OBVIOUS
  <2> HIDE DEF B
  <2> QED  BY <1>1, <2>1, SmallestSet
<1> DEFINE Below(T) == Totals(f, T)
           part == [T \in (SUBSET U) \ {U} |-> Below(T)[T]]
           whole == [T \in SUBSET U |-> IF T = U THEN SumStep(f, part, U) ELSE part[T]]
<1>3. \A T \in (SUBSET U) \ {U} : IsTotals(f, Below(T), T) /\ IsFiniteSet(T)
  BY <1>2, FS_Subset DEF Totals
<1>4. ASSUME NEW T \in SUBSET U PROVE whole[T] = SumStep(f, whole, T)
  <2>1. CASE T = {}
    <3>1. CASE T = U
      BY <3>1, <2>1 DEF SumStep
    <3>2. CASE T # U
      <4>1. part[T] = SumStep(f, Below(T), T)
        BY <1>3, <3>2 DEF IsTotals
      <4> QED  BY <4>1, <3>2, <2>1 DEF SumStep
    <3> QED  BY <3>1, <3>2
  <2>2. CASE T # {}
    <3> DEFINE R == T \ {Pick(T)}
    <3>1. Pick(T) \in T
      BY <2>2 DEF Pick
    <3>2. R \in (SUBSET U) \ {U} /\ whole[R] = part[R]
      BY <3>1
    <3>3. CASE T = U
      BY <3>3, <3>2, <2>2 DEF SumStep
    <3>4. CASE T # U
      <4>0. part[T] = SumStep(f, Below(T), T)
        BY <1>3, <3>4 DEF IsTotals
      <4>1. part[T] = f[Pick(T)] + Below(T)[R]
        BY <4>0, <2>2 DEF SumStep
      <4>2. Below(T)[R] = Below(R)[R]
        BY <1>3, <3>2, <3>4, TotalsAgree
      <4> QED  BY <4>1, <4>2, <3>2, <3>4, <2>2 DEF SumStep
    <3> QED  BY <3>3, <3>4
  <2> QED  BY <2>1, <2>2
<1>5. IsTotals(f, whole, U)
  <2>1. whole = [T \in SUBSET U |-> whole[T]]
    OBVIOUS
  <2>2. [T \in SUBSET U |-> whole[T]] = [T \in SUBSET U |-> SumStep(f, whole, T)]
    BY <1>4
  <2> HIDE DEF whole
  <2> QED  BY <2>1, <2>2 DEF IsTotals
<1> QED  BY <1>2, <1>5

\* What SumFunctionOnSet computes: nothing of the empty set, else one value
\* and the sum of the others.
LEMMA SumUnfolds ==
    ASSUME NEW f, NEW S, IsFiniteSet(S)
    PROVE  /\ SumFunctionOnSet(f, {}) = 0
           /\ S # {} => SumFunctionOnSet(f, S)
                          = f[Pick(S)] + SumFunctionOnSet(f, S \ {Pick(S)})
<1>1. \A T : SumFunctionOnSet(f, T) = Totals(f, T)[T]
  <2> TAKE T
  <2> QED  BY DEF SumFunctionOnSet, FoldFunctionOnSet, MapThenFoldSet, Totals, IsTotals,
        SumStep, Pick
<1>2. \A T \in SUBSET S : IsTotals(f, Totals(f, T), T)
  BY FS_Subset, TotalsExist
<1>3. SumFunctionOnSet(f, {}) = 0
  BY <1>1, <1>2 DEF IsTotals, SumStep
<1>4. ASSUME S # {}
      PROVE  SumFunctionOnSet(f, S) = f[Pick(S)] + SumFunctionOnSet(f, S \ {Pick(S)})
  <2> DEFINE R == S \ {Pick(S)}
  <2>1. Totals(f, S)[S] = f[Pick(S)] + Totals(f, S)[R]
    BY <1>2, <1>4 DEF IsTotals, SumStep
  <2>2. Totals(f, S)[R] = Totals(f, R)[R]
    <3>1. R \in SUBSET S
      OBVIOUS
    <3>2. IsTotals(f, Totals(f, S), S) /\ IsTotals(f, Totals(f, R), R)
      BY <1>2, <3>1
    <3> HIDE DEF R
    <3> QED  BY <3>1, <3>2, TotalsAgree
  <2> QED  BY <1>1, <2>1, <2>2
<1> QED  BY <1>3, <1>4

\* The sum of nothing.
LEMMA SumOfNone == \A f : SumFunctionOnSet(f, {}) = 0
BY FS_EmptySet, SumUnfolds

\* A sum of integers is an integer.
LEMMA SumIsInt ==
    ASSUME NEW f, NEW S, IsFiniteSet(S), \A x \in S : f[x] \in Int
    PROVE  SumFunctionOnSet(f, S) \in Int
<1> DEFINE B == {U \in SUBSET S : SumFunctionOnSet(f, U) \notin Int}
<1>1. SUFFICES ASSUME B # {} PROVE FALSE
  OBVIOUS
<1>2. PICK U \in B : \A W \in B : W \subseteq U => W = U
  <2>1. B \in SUBSET (SUBSET S)
    OBVIOUS
  <2> HIDE DEF B
  <2> QED  BY <1>1, <2>1, SmallestSet
<1>3. IsFiniteSet(U)
  BY FS_Subset
<1>4. U # {} /\ Pick(U) \in U
  <2>1. ASSUME U = {} PROVE FALSE
    BY <1>2, <2>1, SumOfNone
  <2> QED  BY <2>1 DEF Pick
<1>5. SumFunctionOnSet(f, U \ {Pick(U)}) \in Int
  BY <1>2, <1>4
<1> QED  BY <1>2, <1>3, <1>4, <1>5, SumUnfolds

\* Any value may be taken out of a sum.
LEMMA SumTakesOut ==
    ASSUME NEW f, NEW S, IsFiniteSet(S), \A y \in S : f[y] \in Int, NEW x \in S
    PROVE  SumFunctionOnSet(f, S) = f[x] + SumFunctionOnSet(f, S \ {x})
<1> DEFINE B == {U \in SUBSET S : \E y \in U :
                   SumFunctionOnSet(f, U) # f[y] + SumFunctionOnSet(f, U \ {y})}
<1>1. SUFFICES ASSUME B # {} PROVE FALSE
  OBVIOUS
<1>2. PICK U \in B : \A W \in B : W \subseteq U => W = U
  <2>1. B \in SUBSET (SUBSET S)
    OBVIOUS
  <2> HIDE DEF B
  <2> QED  BY <1>1, <2>1, SmallestSet
<1>3. PICK y \in U : SumFunctionOnSet(f, U) # f[y] + SumFunctionOnSet(f, U \ {y})
  BY <1>2
<1>4. IsFiniteSet(U)
  BY FS_Subset
<1> DEFINE z == Pick(U)
<1>5. z \in U /\ SumFunctionOnSet(f, U) = f[z] + SumFunctionOnSet(f, U \ {z})

  BY <1>3, <1>4, SumUnfolds DEF Pick
<1>6. y # z
  BY <1>3, <1>5
<1>7. SumFunctionOnSet(f, U \ {z}) = f[y] + SumFunctionOnSet(f, (U \ {z}) \ {y})
  BY <1>2, <1>5, <1>6
<1>8. SumFunctionOnSet(f, U \ {y}) = f[z] + SumFunctionOnSet(f, (U \ {y}) \ {z})
  BY <1>2, <1>5, <1>6
<1>9. (U \ {z}) \ {y} = (U \ {y}) \ {z}
  OBVIOUS
<1>10. SumFunctionOnSet(f, (U \ {y}) \ {z}) \in Int
  <2>1. IsFiniteSet((U \ {y}) \ {z})
    BY <1>4, FS_Subset
  <2> QED  BY <2>1, SumIsInt
<1>11. f[y] \in Int /\ f[z] \in Int
  BY <1>5
<1>12. SumFunctionOnSet(f, U)
         = f[y] + (f[z] + SumFunctionOnSet(f, (U \ {y}) \ {z}))
  <2>1. SumFunctionOnSet(f, U \ {z}) = f[y] + SumFunctionOnSet(f, (U \ {y}) \ {z})
    BY <1>7, <1>9
  <2>2. \A a, b, c \in Int : a + (b + c) = b + (a + c)
    OBVIOUS
  <2> HIDE DEF z, B
  <2>3. SumFunctionOnSet(f, U)
          = f[z] + (f[y] + SumFunctionOnSet(f, (U \ {y}) \ {z}))
    BY <1>5, <2>1
  <2> QED  BY <2>2, <2>3, <1>10, <1>11
<1> QED  BY <1>3, <1>8, <1>12

\* The sum depends on the values only.
LEMMA SumOfSame ==
    ASSUME NEW f, NEW g, NEW S, IsFiniteSet(S), \A x \in S : f[x] = g[x]
    PROVE  SumFunctionOnSet(f, S) = SumFunctionOnSet(g, S)
<1> DEFINE B == {U \in SUBSET S : SumFunctionOnSet(f, U) # SumFunctionOnSet(g, U)}
<1>1. SUFFICES ASSUME B # {} PROVE FALSE
  OBVIOUS
<1>2. PICK U \in B : \A W \in B : W \subseteq U => W = U
  <2>1. B \in SUBSET (SUBSET S)
    OBVIOUS
  <2> HIDE DEF B
  <2> QED  BY <1>1, <2>1, SmallestSet
<1>3. IsFiniteSet(U)
  BY FS_Subset
<1>4. U # {} /\ Pick(U) \in U
  <2>1. ASSUME U = {} PROVE FALSE
    BY <1>2, <2>1, SumOfNone
  <2> QED  BY <2>1 DEF Pick
<1>5. SumFunctionOnSet(f, U \ {Pick(U)}) = SumFunctionOnSet(g, U \ {Pick(U)})
  BY <1>2, <1>4
<1> QED  BY <1>2, <1>3, <1>4, <1>5, SumUnfolds

\* Smaller values have a smaller sum.
LEMMA SumIsMonotone ==
    ASSUME NEW f, NEW g, NEW S, IsFiniteSet(S),
           \A x \in S : f[x] \in Int /\ g[x] \in Int /\ f[x] <= g[x]
    PROVE  SumFunctionOnSet(f, S) <= SumFunctionOnSet(g, S)
<1> DEFINE B == {U \in SUBSET S : ~(SumFunctionOnSet(f, U) <= SumFunctionOnSet(g, U))}
<1>1. SUFFICES ASSUME B # {} PROVE FALSE
  OBVIOUS
<1>2. PICK U \in B : \A W \in B : W \subseteq U => W = U
  <2>1. B \in SUBSET (SUBSET S)
    OBVIOUS
  <2> HIDE DEF B
  <2> QED  BY <1>1, <2>1, SmallestSet
<1>3. IsFiniteSet(U)
  BY FS_Subset
<1>4. U # {} /\ Pick(U) \in U
  <2>1. ASSUME U = {} PROVE FALSE
    BY <1>2, <2>1, SumOfNone
  <2> QED  BY <2>1 DEF Pick
<1> DEFINE R == U \ {Pick(U)}
<1>5. SumFunctionOnSet(f, R) <= SumFunctionOnSet(g, R)
  BY <1>2, <1>4
<1>6. IsFiniteSet(R)
  BY <1>3, FS_Subset
<1>7. SumFunctionOnSet(f, R) \in Int /\ SumFunctionOnSet(g, R) \in Int
  BY <1>6, SumIsInt
<1>8. /\ SumFunctionOnSet(f, U) = f[Pick(U)] + SumFunctionOnSet(f, R)
      /\ SumFunctionOnSet(g, U) = g[Pick(U)] + SumFunctionOnSet(g, R)
  BY <1>3, <1>4, SumUnfolds
<1>9. f[Pick(U)] \in Int /\ g[Pick(U)] \in Int /\ f[Pick(U)] <= g[Pick(U)]
  BY <1>4
<1> HIDE DEF R
<1> QED  BY <1>2, <1>5, <1>7, <1>8, <1>9

\* Sums add up, value by value.
LEMMA SumAdds ==
    ASSUME NEW f, NEW g, NEW h, NEW S, IsFiniteSet(S),
           \A x \in S : f[x] \in Int /\ g[x] \in Int /\ h[x] = f[x] + g[x]
    PROVE  SumFunctionOnSet(h, S) = SumFunctionOnSet(f, S) + SumFunctionOnSet(g, S)
<1> DEFINE B == {U \in SUBSET S :
          SumFunctionOnSet(h, U) # SumFunctionOnSet(f, U) + SumFunctionOnSet(g, U)}
<1>1. SUFFICES ASSUME B # {} PROVE FALSE
  OBVIOUS
<1>2. PICK U \in B : \A W \in B : W \subseteq U => W = U
  <2>1. B \in SUBSET (SUBSET S)
    OBVIOUS
  <2> HIDE DEF B
  <2> QED  BY <1>1, <2>1, SmallestSet
<1>3. IsFiniteSet(U)
  BY FS_Subset
<1>4. U # {} /\ Pick(U) \in U
  <2>1. ASSUME U = {} PROVE FALSE
    BY <1>2, <2>1, SumOfNone
  <2> QED  BY <2>1 DEF Pick
<1> DEFINE R == U \ {Pick(U)}
<1>5. SumFunctionOnSet(h, R) = SumFunctionOnSet(f, R) + SumFunctionOnSet(g, R)
  BY <1>2, <1>4
<1>6. IsFiniteSet(R)
  BY <1>3, FS_Subset
<1>7. SumFunctionOnSet(f, R) \in Int /\ SumFunctionOnSet(g, R) \in Int
  BY <1>6, SumIsInt
<1>8. /\ SumFunctionOnSet(f, U) = f[Pick(U)] + SumFunctionOnSet(f, R)
      /\ SumFunctionOnSet(g, U) = g[Pick(U)] + SumFunctionOnSet(g, R)
      /\ SumFunctionOnSet(h, U) = h[Pick(U)] + SumFunctionOnSet(h, R)
  BY <1>3, <1>4, SumUnfolds
<1>9. f[Pick(U)] \in Int /\ g[Pick(U)] \in Int /\ h[Pick(U)] = f[Pick(U)] + g[Pick(U)]
  BY <1>4
<1> HIDE DEF R
<1> QED  BY <1>2, <1>5, <1>7, <1>8, <1>9

\* A sum of which one value changes.
LEMMA SumMoves ==
    ASSUME NEW f, NEW g, NEW S, IsFiniteSet(S), NEW x \in S,
           \A y \in S : f[y] \in Int /\ g[y] \in Int,
           \A y \in S \ {x} : f[y] = g[y]
    PROVE  SumFunctionOnSet(g, S) = SumFunctionOnSet(f, S) + g[x] - f[x]
<1>1. IsFiniteSet(S \ {x})
  BY FS_Subset
<1>2. SumFunctionOnSet(f, S \ {x}) = SumFunctionOnSet(g, S \ {x})
  BY <1>1, SumOfSame
<1>3. SumFunctionOnSet(f, S \ {x}) \in Int
  BY <1>1, SumIsInt
<1>4. SumFunctionOnSet(f, S) = f[x] + SumFunctionOnSet(f, S \ {x})
  BY SumTakesOut
<1>5. SumFunctionOnSet(g, S) = g[x] + SumFunctionOnSet(g, S \ {x})
  BY SumTakesOut
<1> QED  BY <1>2, <1>3, <1>4, <1>5

\* Nothing added up is nothing.
LEMMA SumOfZeroes ==
    ASSUME NEW f, NEW S, IsFiniteSet(S), \A x \in S : f[x] = 0
    PROVE  SumFunctionOnSet(f, S) = 0
<1>1. \A n \in Int : n = n + n => n = 0
  OBVIOUS
<1>2. SumFunctionOnSet(f, S) = SumFunctionOnSet(f, S) + SumFunctionOnSet(f, S)
  <2>1. \A x \in S : f[x] = f[x] + f[x] /\ f[x] \in Int
    OBVIOUS
  <2> QED  BY <2>1, SumAdds
<1>3. SumFunctionOnSet(f, S) \in Int
  <2>1. \A x \in S : f[x] \in Int
    OBVIOUS
  <2> QED  BY <2>1, SumIsInt
<1> QED  BY <1>1, <1>2, <1>3

\* f on T, and nothing elsewhere on S.
Within(f, T, S) == [x \in S |-> IF x \in T THEN f[x] ELSE 0]

\* A sum over some members of S is one over all of them, of f within these.
LEMMA SumWithin ==
    ASSUME NEW f, NEW S, IsFiniteSet(S), NEW T \in SUBSET S, \A x \in T : f[x] \in Int
    PROVE  SumFunctionOnSet(f, T) = SumFunctionOnSet(Within(f, T, S), S)
<1>1. PICK g, total : g = Within(f, T, S) /\ total = SumFunctionOnSet(f, T)
  OBVIOUS
<1>2. \A x \in S : g[x] = (IF x \in T THEN f[x] ELSE 0)
  BY <1>1 DEF Within
<1>3. \A x \in S : g[x] \in Int
  BY <1>2
<1> DEFINE B == {U \in SUBSET S : T \subseteq U /\ SumFunctionOnSet(g, U) # total}
<1>4. SUFFICES ASSUME B # {} PROVE FALSE
  BY <1>1
<1>5. PICK U \in B : \A W \in B : W \subseteq U => W = U
  <2>1. B \in SUBSET (SUBSET S)
    OBVIOUS
  <2> HIDE DEF B
  <2> QED  BY <1>4, <2>1, SmallestSet
<1>6. CASE U = T
  <2>1. IsFiniteSet(T) /\ \A x \in T : f[x] = g[x]
    BY <1>2, FS_Subset
  <2>2. SumFunctionOnSet(f, T) = SumFunctionOnSet(g, T)
    BY <2>1, SumOfSame
  <2> QED  BY <1>1, <1>5, <1>6, <2>2
<1>7. CASE U # T
  <2>1. PICK x \in U : x \notin T
    BY <1>5, <1>7
  <2>2. SumFunctionOnSet(g, U \ {x}) = total
    BY <1>5, <2>1
  <2>3. IsFiniteSet(U) /\ IsFiniteSet(U \ {x}) /\ \A y \in U : g[y] \in Int
    BY <1>3, <1>5, FS_Subset
  <2>4. SumFunctionOnSet(g, U) = g[x] + SumFunctionOnSet(g, U \ {x})
    BY <2>3, SumTakesOut
  <2>5. SumFunctionOnSet(g, U \ {x}) \in Int
    BY <2>3, SumIsInt
  <2>6. g[x] = 0
    BY <1>2, <1>5, <2>1
  <2> QED  BY <1>5, <2>2, <2>4, <2>5, <2>6
<1> QED  BY <1>6, <1>7

\* The sums of f over T and of g over U differ in what x adds, if nothing else does.
LEMMA SumShifts ==
    ASSUME NEW S, IsFiniteSet(S), NEW T \in SUBSET S, NEW U \in SUBSET S,
           NEW f, NEW g, \A y \in T : f[y] \in Int, \A y \in U : g[y] \in Int,
           NEW x \in S,
           \A y \in S \ {x} : (y \in T <=> y \in U) /\ (y \in T => f[y] = g[y])
    PROVE  SumFunctionOnSet(g, U) = SumFunctionOnSet(f, T)
              + (IF x \in U THEN g[x] ELSE 0) - (IF x \in T THEN f[x] ELSE 0)
<1>1. PICK a, b : a = Within(f, T, S) /\ b = Within(g, U, S)
  OBVIOUS
<1>2. \A y \in S : /\ a[y] = (IF y \in T THEN f[y] ELSE 0)
                   /\ b[y] = (IF y \in U THEN g[y] ELSE 0)
                   /\ a[y] \in Int /\ b[y] \in Int
  BY <1>1 DEF Within
<1>3. \A y \in S \ {x} : a[y] = b[y]
  BY <1>2
<1>4. SumFunctionOnSet(b, S) = SumFunctionOnSet(a, S) + b[x] - a[x]
  BY <1>2, <1>3, SumMoves
<1>5. SumFunctionOnSet(f, T) = SumFunctionOnSet(a, S)
  BY <1>1, SumWithin
<1>6. SumFunctionOnSet(g, U) = SumFunctionOnSet(b, S)
  BY <1>1, SumWithin
<1> QED  BY <1>2, <1>4, <1>5, <1>6

\* A sum of natural numbers is one, and none of its summands is greater.
LEMMA SumBounds ==
    ASSUME NEW S, IsFiniteSet(S), NEW T \in SUBSET S, NEW f, \A x \in T : f[x] \in Nat
    PROVE  /\ SumFunctionOnSet(f, T) \in Nat
           /\ \A x \in T : f[x] <= SumFunctionOnSet(f, T)
<1>1. IsFiniteSet(T)
  BY FS_Subset
<1>2. ASSUME NEW U \in SUBSET S, IsFiniteSet(U), \A x \in U : f[x] \in Nat
      PROVE  SumFunctionOnSet(f, U) \in Nat
  <2>1. PICK z : z = [x \in U |-> 0]
    OBVIOUS
  <2>2. SumFunctionOnSet(z, U) = 0
    BY <1>2, <2>1, SumOfZeroes
  <2>3. SumFunctionOnSet(z, U) <= SumFunctionOnSet(f, U)
    BY <1>2, <2>1, SumIsMonotone
  <2>4. SumFunctionOnSet(f, U) \in Int
    BY <1>2, SumIsInt
  <2> QED  BY <2>2, <2>3, <2>4
<1>3. SumFunctionOnSet(f, T) \in Nat
  BY <1>1, <1>2
<1>4. ASSUME NEW x \in T PROVE f[x] <= SumFunctionOnSet(f, T)
  <2>1. SumFunctionOnSet(f, T) = f[x] + SumFunctionOnSet(f, T \ {x})
    BY <1>1, SumTakesOut
  <2>2. SumFunctionOnSet(f, T \ {x}) \in Nat
    BY <1>1, <1>2, FS_Subset
  <2> QED  BY <2>1, <2>2, <1>3
<1> QED  BY <1>3, <1>4
-----------------------------------------------------------------------------
(* Rows.                                                                   *)

\* The rows of shipments, receivables and settlements.
Rows ==
    /\ shipment \in [Shipments ->
                       [status : {"NONE", "POSTED", "REVERSED"},
                        of : Instructions \cup {None}, quantity : Nat]]
    /\ receivable \in [Shipments ->
                         [status : {"NONE", "OPEN", "PARTIALLY_SETTLED",
                                    "SETTLED"},
                          settled : Int]]
    /\ settlement \in [Settlements ->
                         [status : {"NONE", "POSTED", "REVERSED"},
                          of : Shipments \cup {None}, amount : Nat]]

\* The rows of the order, its instructions and goods.
BookRows ==
    /\ reversed \subseteq Completions
    /\ order \in [status : OrderStatus, shipped : Int]
    /\ instruction \in [Instructions ->
                          [status : InstructionStatus, quantity : Nat,
                           executed : Int]]
    /\ takes \in [Shipments -> [Inspections -> Nat]]
    /\ allocation \in [Completions -> [status : {"NONE", "ACTIVE", "CANCELLED"},
                                       quantity : Nat]]
    /\ inspection \in [Inspections ->
                          [of : Completions \cup {None},
                           life : {"NONE", "OPEN", "CLOSED"},
                           decision : {"PENDING", "HOLD", "RELEASED"},
                           inspected : Nat, released : Nat]]

-----------------------------------------------------------------------------
(* What a sum becomes when one row changes.                                *)

\* The instructions that count.
NotCancelled == {d \in Instructions : instruction[d].status # "CANCELLED"}

\* What is still due of all instructions that were not cancelled.
Due == SumFunctionOnSet(StillDue, NotCancelled)

\* One shipment changes.
LEMMA ShipmentMoves ==
    ASSUME Rows, Rows', NEW s \in Shipments,
           \A x \in Shipments \ {s} : shipment'[x] = shipment[x],
           NEW d
    PROVE  SumFunctionOnSet(Shipped, PostedOf(d))' =
             SumFunctionOnSet(Shipped, PostedOf(d))
             + (IF s \in PostedOf(d)' THEN shipment'[s].quantity ELSE 0)
             - (IF s \in PostedOf(d) THEN shipment[s].quantity ELSE 0)
<1>1. PICK f, g, T, U : f = Shipped /\ g = Shipped' /\ T = PostedOf(d) /\ U = PostedOf(d)'
  OBVIOUS
<1>2. \A x \in Shipments : /\ f[x] = shipment[x].quantity /\ f[x] \in Int
                           /\ g[x] = shipment'[x].quantity /\ g[x] \in Int
  BY <1>1 DEF Shipped, Rows
<1>3. T \in SUBSET Shipments /\ U \in SUBSET Shipments
  BY <1>1 DEF PostedOf, Standing
<1>4. \A x \in Shipments \ {s} : (x \in T <=> x \in U) /\ (x \in T => f[x] = g[x])
  BY <1>1, <1>2 DEF PostedOf, Standing
<1>5. SumFunctionOnSet(g, U) = SumFunctionOnSet(f, T)
        + (IF s \in U THEN g[s] ELSE 0) - (IF s \in T THEN f[s] ELSE 0)
  BY <1>2, <1>3, <1>4, RecordsAssumption, SumShifts
<1> QED  BY <1>1, <1>2, <1>5

\* So does what it takes of a release.
LEMMA ConsumptionMoves ==
    ASSUME Rows, Rows', BookRows, BookRows', NEW s \in Shipments,
           \A x \in Shipments \ {s} : shipment'[x] = shipment[x] /\ takes'[x] = takes[x],
           NEW i \in Inspections
    PROVE  Consumed(i)' = Consumed(i)
             + (IF shipment'[s].status = "POSTED" THEN takes'[s][i] ELSE 0)
             - (IF shipment[s].status = "POSTED" THEN takes[s][i] ELSE 0)
<1>1. PICK f, g, T, U : /\ f = [x \in Shipments |-> takes[x][i]]
                        /\ g = [x \in Shipments |-> takes'[x][i]]
                        /\ T = Standing /\ U = Standing'
  OBVIOUS
<1>2. \A x \in Shipments : /\ f[x] = takes[x][i] /\ f[x] \in Int
                           /\ g[x] = takes'[x][i] /\ g[x] \in Int
  BY <1>1 DEF BookRows
<1>3. T \in SUBSET Shipments /\ U \in SUBSET Shipments
  BY <1>1 DEF Standing
<1>4. \A x \in Shipments \ {s} : (x \in T <=> x \in U) /\ (x \in T => f[x] = g[x])
  BY <1>1, <1>2 DEF Standing
<1>5. SumFunctionOnSet(g, U) = SumFunctionOnSet(f, T)
        + (IF s \in U THEN g[s] ELSE 0) - (IF s \in T THEN f[s] ELSE 0)
  BY <1>2, <1>3, <1>4, RecordsAssumption, SumShifts
<1>6. Consumed(i)' = SumFunctionOnSet(g, U) /\ Consumed(i) = SumFunctionOnSet(f, T)
  BY <1>1 DEF Consumed
<1>7. (s \in U <=> shipment'[s].status = "POSTED") /\ (s \in T <=> shipment[s].status = "POSTED")
  BY <1>1 DEF Standing
<1> QED  BY <1>2, <1>5, <1>6, <1>7

\* What shipments took is a natural number.
LEMMA ConsumptionIsNat ==
    ASSUME BookRows, NEW i \in Inspections
    PROVE  Consumed(i) \in Nat
<1>1. PICK f, T : f = [x \in Shipments |-> takes[x][i]] /\ T = Standing
  OBVIOUS
<1>2. T \in SUBSET Shipments /\ \A x \in T : f[x] \in Nat
  BY <1>1 DEF Standing, BookRows
<1>3. SumFunctionOnSet(f, T) \in Nat
  BY <1>2, RecordsAssumption, SumBounds
<1> QED  BY <1>1, <1>3 DEF Consumed

\* One instruction changes.
LEMMA InstructionMoves ==
    ASSUME BookRows, BookRows', NEW d \in Instructions,
           \A x \in Instructions \ {d} : instruction'[x] = instruction[x]
    PROVE  /\ SumFunctionOnSet(Executed, Instructions)' =
                SumFunctionOnSet(Executed, Instructions)
                + instruction'[d].executed - instruction[d].executed
           /\ Due' = Due
                + (IF instruction'[d].status # "CANCELLED"
                   THEN instruction'[d].quantity - instruction'[d].executed ELSE 0)
                - (IF instruction[d].status # "CANCELLED"
                   THEN instruction[d].quantity - instruction[d].executed ELSE 0)
<1>1. SumFunctionOnSet(Executed, Instructions)' =
        SumFunctionOnSet(Executed, Instructions)
        + instruction'[d].executed - instruction[d].executed
  <2>1. PICK f, g : f = Executed /\ g = Executed'
    OBVIOUS
  <2>2. \A x \in Instructions : /\ f[x] = instruction[x].executed /\ f[x] \in Int
                                /\ g[x] = instruction'[x].executed /\ g[x] \in Int
    BY <2>1 DEF Executed, BookRows
  <2>3. \A x \in Instructions \ {d} : f[x] = g[x]
    BY <2>2
  <2>4. SumFunctionOnSet(g, Instructions) = SumFunctionOnSet(f, Instructions) + g[d] - f[d]
    BY <2>2, <2>3, RecordsAssumption, SumMoves
  <2> QED  BY <2>1, <2>2, <2>4
<1>2. Due' = Due
        + (IF instruction'[d].status # "CANCELLED"
           THEN instruction'[d].quantity - instruction'[d].executed ELSE 0)
        - (IF instruction[d].status # "CANCELLED"
           THEN instruction[d].quantity - instruction[d].executed ELSE 0)
  <2>1. PICK f, g, T, U : f = StillDue /\ g = StillDue' /\ T = NotCancelled /\ U = NotCancelled'
    OBVIOUS
  <2>2. \A x \in Instructions :
          /\ f[x] = instruction[x].quantity - instruction[x].executed /\ f[x] \in Int
          /\ g[x] = instruction'[x].quantity - instruction'[x].executed /\ g[x] \in Int
    BY <2>1 DEF StillDue, BookRows
  <2>3. T \in SUBSET Instructions /\ U \in SUBSET Instructions
    BY <2>1 DEF NotCancelled
  <2>4. \A x \in Instructions \ {d} : (x \in T <=> x \in U) /\ (x \in T => f[x] = g[x])
    BY <2>1, <2>2 DEF NotCancelled
  <2>5. SumFunctionOnSet(g, U) = SumFunctionOnSet(f, T)
          + (IF d \in U THEN g[d] ELSE 0) - (IF d \in T THEN f[d] ELSE 0)
    BY <2>2, <2>3, <2>4, RecordsAssumption, SumShifts
  <2>6. /\ d \in U <=> instruction'[d].status # "CANCELLED"
        /\ d \in T <=> instruction[d].status # "CANCELLED"
    BY <2>1 DEF NotCancelled
  <2>7. Due = SumFunctionOnSet(f, T) /\ Due' = SumFunctionOnSet(g, U)
    BY <2>1 DEF Due
  <2> QED  BY <2>2, <2>5, <2>6, <2>7
<1> QED  BY <1>1, <1>2

\* One inspection changes, and no allocation.
LEMMA InspectionMoves ==
    ASSUME BookRows, BookRows', NEW i \in Inspections, allocation' = allocation,
           \A x \in Inspections \ {i} : inspection'[x] = inspection[x],
           NEW c
    PROVE  SumFunctionOnSet(ReleasedBy, EligibleOf(c))' =
             SumFunctionOnSet(ReleasedBy, EligibleOf(c))
             + (IF i \in EligibleOf(c)' THEN inspection'[i].released ELSE 0)
             - (IF i \in EligibleOf(c) THEN inspection[i].released ELSE 0)
<1>1. PICK f, g, T, U :
        f = ReleasedBy /\ g = ReleasedBy' /\ T = EligibleOf(c) /\ U = EligibleOf(c)'
  OBVIOUS
<1>2. \A x \in Inspections : /\ f[x] = inspection[x].released /\ f[x] \in Int
                             /\ g[x] = inspection'[x].released /\ g[x] \in Int
  BY <1>1 DEF ReleasedBy, BookRows
<1>3. T \in SUBSET Inspections /\ U \in SUBSET Inspections
  BY <1>1 DEF EligibleOf, Of
<1>4. \A x \in Inspections \ {i} : (x \in T <=> x \in U) /\ (x \in T => f[x] = g[x])
  BY <1>1, <1>2 DEF EligibleOf, Of, Eligible
<1>5. SumFunctionOnSet(g, U) = SumFunctionOnSet(f, T)
        + (IF i \in U THEN g[i] ELSE 0) - (IF i \in T THEN f[i] ELSE 0)
  BY <1>2, <1>3, <1>4, RecordsAssumption, SumShifts
<1> QED  BY <1>1, <1>2, <1>5

\* One settlement changes.
LEMMA SettlementMoves ==
    ASSUME Rows, Rows', NEW p \in Settlements,
           \A x \in Settlements \ {p} : settlement'[x] = settlement[x],
           NEW s
    PROVE  SumFunctionOnSet(Amounts, SettledOf(s))' =
             SumFunctionOnSet(Amounts, SettledOf(s))
             + (IF p \in SettledOf(s)' THEN settlement'[p].amount ELSE 0)
             - (IF p \in SettledOf(s) THEN settlement[p].amount ELSE 0)
<1>1. PICK f, g, T, U : f = Amounts /\ g = Amounts' /\ T = SettledOf(s) /\ U = SettledOf(s)'
  OBVIOUS
<1>2. \A x \in Settlements : /\ f[x] = settlement[x].amount /\ f[x] \in Int
                             /\ g[x] = settlement'[x].amount /\ g[x] \in Int
  BY <1>1 DEF Amounts, Rows
<1>3. T \in SUBSET Settlements /\ U \in SUBSET Settlements
  BY <1>1 DEF SettledOf
<1>4. \A x \in Settlements \ {p} : (x \in T <=> x \in U) /\ (x \in T => f[x] = g[x])
  BY <1>1, <1>2 DEF SettledOf
<1>5. SumFunctionOnSet(g, U) = SumFunctionOnSet(f, T)
        + (IF p \in U THEN g[p] ELSE 0) - (IF p \in T THEN f[p] ELSE 0)
  BY <1>2, <1>3, <1>4, RecordsAssumption, SumShifts
<1> QED  BY <1>1, <1>2, <1>5

-----------------------------------------------------------------------------
(* Postings and reversals under FINANCE_SOURCE.                            *)

\* What a transaction that holds the lock of a shipment has seen still holds.
SeenUnderLock ==
    /\ posting \subseteq Shipments /\ reversing \subseteq Shipments
    /\ posting \cap reversing = {}
    /\ \A s \in posting \cup reversing :
          shipment[s].status = "POSTED" /\ receivable[s].status = "NONE"

\* A settlement is of a shipment that has a receivable.
SettlesAReceivable ==
    \A p \in Settlements : settlement[p].status # "NONE" =>
       settlement[p].of \in Shipments /\ receivable[settlement[p].of].status # "NONE"

\* Rows are typed, and what the two locked transactions rely on holds.
FinanceInv == Rows /\ SeenUnderLock /\ SettlesAReceivable /\ ReceivableStands

\* It holds at first.
LEMMA FinanceInitially == Init => FinanceInv
  BY DEF Init, FinanceInv, Rows, SeenUnderLock, SettlesAReceivable,
         ReceivableStands

\* The actions on goods, instructions and the order leave all of this alone.
LEMMA FinanceUnchanged ==
    ASSUME FinanceInv,
           UNCHANGED <<shipment, receivable, settlement, posting, reversing>>
    PROVE  FinanceInv'
  BY DEF FinanceInv, Rows, SeenUnderLock, SettlesAReceivable, ReceivableStands

\* A shipment is posted: its row was empty, so no receivable and no settlement was
\* of it.
LEMMA FinanceExecute ==
    ASSUME FinanceInv, NEW d \in Instructions, NEW s \in Shipments,
           NEW pool \in Pools, NEW q \in 1..Ordered,
           ExecuteInstruction(d, s, pool, q)
    PROVE  FinanceInv'
  <1>1. /\ shipment[s].status = "NONE"
        /\ shipment' = [shipment EXCEPT ![s] =
                          [status |-> "POSTED", of |-> d, quantity |-> q]]
        /\ UNCHANGED <<receivable, settlement, posting, reversing>>
    BY DEF ExecuteInstruction, money, open
  <1>2. q \in Nat
    BY OrderedAssumption
  <1>3. receivable[s].status = "NONE" /\ s \notin posting \cup reversing
    BY <1>1 DEF FinanceInv, ReceivableStands, SeenUnderLock
  <1>4. Rows'
    BY <1>1, <1>2 DEF FinanceInv, Rows
  <1>5. \A x \in Shipments : x # s => shipment'[x] = shipment[x]
    BY <1>1 DEF FinanceInv, Rows
  <1>6. SeenUnderLock'
    BY <1>1, <1>3, <1>5 DEF FinanceInv, SeenUnderLock
  <1>7. ReceivableStands'
    BY <1>1, <1>3, <1>5 DEF FinanceInv, ReceivableStands
  <1> QED
    BY <1>1, <1>4, <1>6, <1>7 DEF FinanceInv, SettlesAReceivable

\* A transaction takes the lock after it saw a shipment that stands, unreceived.
LEMMA FinanceBegin ==
    ASSUME FinanceInv, NEW s \in Shipments,
           BeginReversal(s) \/ BeginReceivable(s)
    PROVE  FinanceInv'
  <1>1. /\ shipment[s].status = "POSTED" /\ receivable[s].status = "NONE"
        /\ s \notin posting \cup reversing
        /\ UNCHANGED <<shipment, receivable, settlement>>
    BY DEF BeginReversal, BeginReceivable, SourceIsFree, Reversible, sent, money
  <1>2. \/ posting' = posting \cup {s} /\ reversing' = reversing
        \/ posting' = posting /\ reversing' = reversing \cup {s}
    BY DEF BeginReversal, BeginReceivable
  <1> QED
    BY <1>1, <1>2
    DEF FinanceInv, Rows, SeenUnderLock, SettlesAReceivable, ReceivableStands

\* The shipment that is reversed has no receivable: the lock is held.
LEMMA FinanceCommitReversal ==
    ASSUME FinanceInv, NEW s \in Shipments, CommitReversal(s)
    PROVE  FinanceInv'
  <1>1. /\ s \in reversing /\ reversing' = reversing \ {s}
        /\ shipment' = [shipment EXCEPT ![s].status = "REVERSED"]
        /\ UNCHANGED <<receivable, settlement, posting>>
    BY DEF CommitReversal, money
  <1>2. receivable[s].status = "NONE" /\ s \notin posting
    BY <1>1 DEF FinanceInv, SeenUnderLock
  <1>3. Rows'
    BY <1>1 DEF FinanceInv, Rows
  <1>4. \A x \in Shipments : x # s => shipment'[x] = shipment[x]
    BY <1>1 DEF FinanceInv, Rows
  <1>5. SeenUnderLock' /\ ReceivableStands'
    BY <1>1, <1>2, <1>4 DEF FinanceInv, SeenUnderLock, ReceivableStands
  <1> QED
    BY <1>1, <1>3, <1>5 DEF FinanceInv, SettlesAReceivable

\* The shipment that gets a receivable stands: the lock is held.
LEMMA FinanceCommitReceivable ==
    ASSUME FinanceInv, NEW s \in Shipments, CommitReceivable(s)
    PROVE  FinanceInv'
  <1>1. /\ s \in posting /\ posting' = posting \ {s}
        /\ receivable' = [receivable EXCEPT ![s].status = "OPEN"]
        /\ UNCHANGED <<shipment, settlement, reversing>>
    BY DEF CommitReceivable, sent
  <1>2. shipment[s].status = "POSTED" /\ s \notin reversing
    BY <1>1 DEF FinanceInv, SeenUnderLock
  <1>3. Rows'
    BY <1>1 DEF FinanceInv, Rows
  <1>4. /\ \A x \in Shipments : x # s => receivable'[x] = receivable[x]
        /\ receivable'[s].status = "OPEN"
    BY <1>1 DEF FinanceInv, Rows
  <1>5. SeenUnderLock' /\ ReceivableStands' /\ SettlesAReceivable'
    BY <1>1, <1>2, <1>4
    DEF FinanceInv, SeenUnderLock, ReceivableStands, SettlesAReceivable
  <1> QED
    BY <1>3, <1>5 DEF FinanceInv

\* A transaction that gives up only lets go of the lock.
LEMMA FinanceRollback ==
    ASSUME FinanceInv, NEW s \in Shipments, Rollback(s)
    PROVE  FinanceInv'
  BY DEF Rollback, sent, money, FinanceInv, Rows, SeenUnderLock,
         SettlesAReceivable, ReceivableStands

\* Both settlement actions write an open row of a receivable that is there.
LEMMA FinanceSettle ==
    ASSUME FinanceInv, NEW p \in Settlements, NEW s \in Shipments,
           NEW a \in 1..Ordered, Settle(p, s, a)
    PROVE  FinanceInv'
  <1>1. /\ receivable[s].status # "NONE"
        /\ settlement' = [settlement EXCEPT ![p] =
                            [status |-> "POSTED", of |-> s, amount |-> a]]
        /\ receivable' = [receivable EXCEPT ![s] =
              [settled |-> receivable[s].settled + a,
               status |-> IF receivable[s].settled + a = shipment[s].quantity
                          THEN "SETTLED" ELSE "PARTIALLY_SETTLED"]]
        /\ UNCHANGED <<shipment, posting, reversing>>
    BY DEF Settle, sent, open
  <1>2. a \in Nat
    BY OrderedAssumption
  <1>3. /\ \A x \in Shipments : x # s => receivable'[x] = receivable[x]
        /\ receivable'[s].status \in {"SETTLED", "PARTIALLY_SETTLED"}
    BY <1>1 DEF FinanceInv, Rows
  <1>4. Rows'
    <2>1. receivable' \in [Shipments ->
                             [status : {"NONE", "OPEN", "PARTIALLY_SETTLED",
                                        "SETTLED"},
                              settled : Int]]
      BY <1>1, <1>2 DEF FinanceInv, Rows
    <2>2. settlement' \in [Settlements ->
                             [status : {"NONE", "POSTED", "REVERSED"},
                              of : Shipments \cup {None}, amount : Nat]]
      BY <1>1, <1>2 DEF FinanceInv, Rows
    <2> QED
      BY <1>1, <2>1, <2>2 DEF FinanceInv, Rows
  <1>5. SeenUnderLock' /\ ReceivableStands'
    BY <1>1, <1>3 DEF FinanceInv, SeenUnderLock, ReceivableStands
  <1>6. /\ \A x \in Settlements : x # p => settlement'[x] = settlement[x]
        /\ settlement'[p].of = s
    BY <1>1 DEF FinanceInv, Rows
  <1>7. SettlesAReceivable'
    BY <1>3, <1>6 DEF FinanceInv, SettlesAReceivable
  <1> QED
    BY <1>4, <1>5, <1>7 DEF FinanceInv

\* A settlement is taken back from a receivable that stays.
LEMMA FinanceReverseSettlement ==
    ASSUME FinanceInv, NEW p \in Settlements, ReverseSettlement(p)
    PROVE  FinanceInv'
  <1> DEFINE s == settlement[p].of
             a == settlement[p].amount
  <1>1. /\ settlement[p].status = "POSTED"
        /\ settlement' = [settlement EXCEPT ![p].status = "REVERSED"]
        /\ receivable' = [receivable EXCEPT ![s] =
              [settled |-> receivable[s].settled - a,
               status |-> IF receivable[s].settled = a THEN "OPEN"
                          ELSE "PARTIALLY_SETTLED"]]
        /\ UNCHANGED <<shipment, posting, reversing>>
    BY DEF ReverseSettlement, sent, open
  <1>2. s \in Shipments /\ receivable[s].status # "NONE" /\ a \in Nat
    BY <1>1 DEF FinanceInv, Rows, SettlesAReceivable
  <1> HIDE DEF s, a
  <1>3. /\ \A x \in Shipments : x # s => receivable'[x] = receivable[x]
        /\ receivable'[s].status \in {"OPEN", "PARTIALLY_SETTLED"}
    BY <1>1, <1>2 DEF FinanceInv, Rows
  <1>4. receivable' \in [Shipments ->
                           [status : {"NONE", "OPEN", "PARTIALLY_SETTLED",
                                      "SETTLED"},
                            settled : Int]]
    BY <1>1, <1>2 DEF FinanceInv, Rows
  <1>5. Rows'
    <2>1. settlement' \in [Settlements ->
                             [status : {"NONE", "POSTED", "REVERSED"},
                              of : Shipments \cup {None}, amount : Nat]]
      BY <1>1 DEF FinanceInv, Rows
    <2> QED
      BY <1>1, <1>4, <2>1 DEF FinanceInv, Rows
  <1>6. SeenUnderLock' /\ ReceivableStands'
    BY <1>1, <1>2, <1>3 DEF FinanceInv, SeenUnderLock, ReceivableStands
  <1>7. /\ \A x \in Settlements : settlement'[x].of = settlement[x].of
        /\ \A x \in Settlements : settlement'[x].status # "NONE" =>
              settlement[x].status # "NONE"
    BY <1>1 DEF FinanceInv, Rows
  <1>8. SettlesAReceivable'
    BY <1>3, <1>7 DEF FinanceInv, SettlesAReceivable
  <1> QED
    BY <1>5, <1>6, <1>8 DEF FinanceInv

\* Every step keeps it.
LEMMA FinanceNext ==
    ASSUME FinanceInv, [Next]_vars
    PROVE  FinanceInv'
  <1>1. CASE UNCHANGED vars
    BY <1>1, FinanceUnchanged DEF vars, sent, money, open
  <1>2. ASSUME NEW c \in Completions,
               \/ \E q \in 1..Ordered : CreateAllocation(c, q)
               \/ CancelAllocation(c)
               \/ ReverseCompletion(c)
        PROVE  FinanceInv'
    BY <1>2, FinanceUnchanged
    DEF CreateAllocation, CancelAllocation, ReverseCompletion, sent, money, open
  <1>3. ASSUME NEW i \in Inspections,
               \/ \E c \in Completions, q \in 1..Ordered :
                     CreateInspection(i, c, q)
               \/ \E q \in 0..Ordered : Disposition(i, q)
               \/ CloseInspection(i)
               \/ ReopenInspection(i)
        PROVE  FinanceInv'
    BY <1>3, FinanceUnchanged
    DEF CreateInspection, Disposition, CloseInspection, ReopenInspection, sent,
        money, open
  <1>4. ASSUME NEW d \in Instructions,
               \/ \E q \in 1..Ordered : CreateInstruction(d, q)
               \/ \E t \in DOMAIN AllowedFrom : TransitionInstruction(d, t)
        PROVE  FinanceInv'
    BY <1>4, FinanceUnchanged
    DEF CreateInstruction, TransitionInstruction, sent, money, open
  <1>5. CASE CloseOrder \/ CancelOrder
    BY <1>5, FinanceUnchanged DEF CloseOrder, CancelOrder, sent, money, open
  <1> QED
    BY <1>1, <1>2, <1>3, <1>4, <1>5, FinanceExecute, FinanceBegin,
       FinanceCommitReversal, FinanceCommitReceivable, FinanceRollback,
       FinanceSettle, FinanceReverseSettlement
    DEF Next

-----------------------------------------------------------------------------
(* What is settled of a receivable.                                        *)

\* A receivable is settled by its settlements that stand, up to its total.
ReceivableFits(s) ==
    /\ receivable[s].settled = SumFunctionOnSet(Amounts, SettledOf(s))
    /\ receivable[s].status # "NONE" =>
         /\ receivable[s].settled <= shipment[s].quantity
         /\ receivable[s].status =
               IF receivable[s].settled = shipment[s].quantity THEN "SETTLED"
               ELSE IF receivable[s].settled > 0 THEN "PARTIALLY_SETTLED"
                    ELSE "OPEN"

\* Money adds up on every receivable.
MoneyInv ==
    /\ \A p \in Settlements : settlement[p].status = "POSTED" => settlement[p].amount > 0
    /\ \A s \in Shipments : ReceivableFits(s)

\* What was posted has a quantity.
PostedIsSomething ==
    \A s \in Shipments : shipment[s].status = "POSTED" => shipment[s].quantity > 0

\* Nothing is settled of a receivable that is not there.
LEMMA NothingSettled ==
    ASSUME FinanceInv, NEW s \in Shipments, receivable[s].status = "NONE"
    PROVE  SumFunctionOnSet(Amounts, SettledOf(s)) = 0
<1>1. PICK f, T : f = Amounts /\ T = SettledOf(s)
  OBVIOUS
<1>2. T = {}
  BY <1>1 DEF SettledOf, FinanceInv, SettlesAReceivable
<1>3. SumFunctionOnSet(f, T) = 0
  BY <1>2, FS_EmptySet, SumOfZeroes
<1> QED  BY <1>1, <1>3

\* The sum of settlements that stand is never negative.
LEMMA SettledIsNat ==
    ASSUME Rows, NEW s
    PROVE  SumFunctionOnSet(Amounts, SettledOf(s)) \in Nat
<1>1. PICK f, T : f = Amounts /\ T = SettledOf(s)
  OBVIOUS
<1>2. T \in SUBSET Settlements /\ \A p \in T : f[p] \in Nat
  BY <1>1 DEF SettledOf, Amounts, Rows
<1> QED  BY <1>1, <1>2, RecordsAssumption, SumBounds

\* Steps that leave the money alone, and the quantity of what has a receivable.
LEMMA MoneyStays ==
    ASSUME MoneyInv, UNCHANGED money,
           \A s \in Shipments : receivable[s].status # "NONE" =>
             shipment'[s].quantity = shipment[s].quantity
    PROVE  MoneyInv'
<1>1. receivable' = receivable /\ settlement' = settlement
  BY DEF money
<1>2. ASSUME NEW s \in Shipments PROVE ReceivableFits(s)'
  <2>1. SumFunctionOnSet(Amounts, SettledOf(s))' = SumFunctionOnSet(Amounts, SettledOf(s))
    BY <1>1 DEF Amounts, SettledOf
  <2> QED  BY <1>1, <2>1 DEF MoneyInv, ReceivableFits
<1> QED  BY <1>1, <1>2 DEF MoneyInv

\* A new receivable is open, and nothing is settled of it.
LEMMA ReceivableOpens ==
    ASSUME FinanceInv, FinanceInv', MoneyInv, PostedIsSomething,
           NEW s \in Shipments, CommitReceivable(s)
    PROVE  MoneyInv'
<1>1. /\ s \in posting
      /\ receivable' = [receivable EXCEPT ![s].status = "OPEN"]
      /\ shipment' = shipment /\ settlement' = settlement
  BY DEF CommitReceivable, sent
<1>2. /\ shipment[s].status = "POSTED" /\ receivable[s].status = "NONE"
      /\ shipment[s].quantity \in Nat /\ shipment[s].quantity > 0
  BY <1>1 DEF FinanceInv, SeenUnderLock, PostedIsSomething, Rows
<1>3. /\ \A x \in Shipments \ {s} : receivable'[x] = receivable[x]
      /\ receivable'[s].status = "OPEN" /\ receivable'[s].settled = receivable[s].settled
  BY <1>1 DEF FinanceInv, Rows
<1>4. \A x : SumFunctionOnSet(Amounts, SettledOf(x))' = SumFunctionOnSet(Amounts, SettledOf(x))
  BY <1>1 DEF Amounts, SettledOf
<1>5. SumFunctionOnSet(Amounts, SettledOf(s)) = 0
  BY <1>2, NothingSettled
<1>6. ReceivableFits(s)'
  BY <1>1, <1>2, <1>3, <1>4, <1>5 DEF MoneyInv, ReceivableFits
<1>7. \A x \in Shipments \ {s} : ReceivableFits(x)'
  BY <1>1, <1>3, <1>4 DEF MoneyInv, ReceivableFits
<1> QED  BY <1>1, <1>6, <1>7 DEF MoneyInv

\* A settlement moves one receivable by its amount.
LEMMA SettlingFits ==
    ASSUME FinanceInv, FinanceInv', MoneyInv, NEW p \in Settlements, NEW s \in Shipments,
           NEW a \in 1..Ordered, Settle(p, s, a)
    PROVE  MoneyInv'
<1>1. /\ settlement[p].status = "NONE" /\ receivable[s].status # "NONE"
      /\ a <= shipment[s].quantity - receivable[s].settled
      /\ settlement' = [settlement EXCEPT ![p] =
                          [status |-> "POSTED", of |-> s, amount |-> a]]
      /\ receivable' = [receivable EXCEPT ![s] =
            [settled |-> receivable[s].settled + a,
             status |-> IF receivable[s].settled + a = shipment[s].quantity
                        THEN "SETTLED" ELSE "PARTIALLY_SETTLED"]]
      /\ shipment' = shipment
  BY DEF Settle, sent
<1>2. a \in Int /\ a > 0
  BY OrderedAssumption
<1>3. /\ \A x \in Shipments \ {s} : receivable'[x] = receivable[x]
      /\ receivable'[s].settled = receivable[s].settled + a
      /\ receivable'[s].status = IF receivable[s].settled + a = shipment[s].quantity
                                 THEN "SETTLED" ELSE "PARTIALLY_SETTLED"
  BY <1>1 DEF FinanceInv, Rows
<1>4. /\ \A x \in Settlements \ {p} : settlement'[x] = settlement[x]
      /\ settlement'[p].status = "POSTED" /\ settlement'[p].of = s
      /\ settlement'[p].amount = a
  BY <1>1 DEF FinanceInv, Rows
<1>5. \A x : /\ p \notin SettledOf(x)
             /\ p \in SettledOf(x)' <=> x = s
  BY <1>1, <1>4 DEF SettledOf
<1>6. \A x : SumFunctionOnSet(Amounts, SettledOf(x))' =
              SumFunctionOnSet(Amounts, SettledOf(x)) + (IF x = s THEN a ELSE 0)
  <2>1. TAKE x
  <2>2. SumFunctionOnSet(Amounts, SettledOf(x))' =
          SumFunctionOnSet(Amounts, SettledOf(x))
          + (IF p \in SettledOf(x)' THEN settlement'[p].amount ELSE 0)
          - (IF p \in SettledOf(x) THEN settlement[p].amount ELSE 0)
    BY <1>4, SettlementMoves DEF FinanceInv
  <2>3. SumFunctionOnSet(Amounts, SettledOf(x)) \in Nat
    BY SettledIsNat DEF FinanceInv
  <2> QED  BY <1>2, <1>4, <1>5, <2>2, <2>3
<1>7. SumFunctionOnSet(Amounts, SettledOf(s)) \in Nat /\ shipment[s].quantity \in Nat
  BY SettledIsNat DEF FinanceInv, Rows
<1>8. ReceivableFits(s)'
  BY <1>1, <1>2, <1>3, <1>6, <1>7 DEF MoneyInv, ReceivableFits
<1>9. ASSUME NEW x \in Shipments \ {s} PROVE ReceivableFits(x)'
  <2>1. SumFunctionOnSet(Amounts, SettledOf(x)) \in Nat
    BY SettledIsNat DEF FinanceInv
  <2> QED  BY <1>1, <1>3, <1>6, <2>1 DEF MoneyInv, ReceivableFits
<1> QED  BY <1>2, <1>4, <1>8, <1>9 DEF MoneyInv

\* Its reversal moves it back.
LEMMA SettlementReversalFits ==
    ASSUME FinanceInv, FinanceInv', MoneyInv, NEW p \in Settlements, ReverseSettlement(p)
    PROVE  MoneyInv'
<1>1. PICK s, a :
        /\ s = settlement[p].of /\ a = settlement[p].amount
        /\ settlement[p].status = "POSTED"
        /\ settlement' = [settlement EXCEPT ![p].status = "REVERSED"]
        /\ receivable' = [receivable EXCEPT ![s] =
              [settled |-> receivable[s].settled - a,
               status |-> IF receivable[s].settled = a THEN "OPEN"
                          ELSE "PARTIALLY_SETTLED"]]
        /\ shipment' = shipment
  BY DEF ReverseSettlement, sent
<1>2. s \in Shipments /\ receivable[s].status # "NONE" /\ a \in Nat /\ a > 0
  BY <1>1 DEF FinanceInv, Rows, SettlesAReceivable, MoneyInv
<1>3. /\ \A x \in Shipments \ {s} : receivable'[x] = receivable[x]
      /\ receivable'[s].settled = receivable[s].settled - a
      /\ receivable'[s].status = IF receivable[s].settled = a THEN "OPEN"
                                 ELSE "PARTIALLY_SETTLED"
  BY <1>1, <1>2 DEF FinanceInv, Rows
<1>4. /\ \A x \in Settlements \ {p} : settlement'[x] = settlement[x]
      /\ settlement'[p].status = "REVERSED"
  BY <1>1 DEF FinanceInv, Rows
<1>5. \A x : /\ p \in SettledOf(x) <=> x = s
             /\ p \notin SettledOf(x)'
  BY <1>1, <1>4 DEF SettledOf
<1>6. \A x : SumFunctionOnSet(Amounts, SettledOf(x))' =
              SumFunctionOnSet(Amounts, SettledOf(x)) - (IF x = s THEN a ELSE 0)
  <2>1. TAKE x
  <2>2. SumFunctionOnSet(Amounts, SettledOf(x))' =
          SumFunctionOnSet(Amounts, SettledOf(x))
          + (IF p \in SettledOf(x)' THEN settlement'[p].amount ELSE 0)
          - (IF p \in SettledOf(x) THEN settlement[p].amount ELSE 0)
    BY <1>4, SettlementMoves DEF FinanceInv
  <2>3. SumFunctionOnSet(Amounts, SettledOf(x)) \in Nat
    BY SettledIsNat DEF FinanceInv
  <2> QED  BY <1>1, <1>2, <1>5, <2>2, <2>3
<1>7. /\ SumFunctionOnSet(Amounts, SettledOf(s)) \in Nat
      /\ SumFunctionOnSet(Amounts, SettledOf(s))' \in Nat
      /\ shipment[s].quantity \in Nat
  <2>1. SumFunctionOnSet(Amounts, SettledOf(s)) \in Nat
    BY SettledIsNat DEF FinanceInv
  <2>2. Rows' => SumFunctionOnSet(Amounts, SettledOf(s))' \in Nat
    <3>1. PICK f, T : f = Amounts' /\ T = SettledOf(s)'
      OBVIOUS
    <3>2. Rows' => T \in SUBSET Settlements /\ \A x \in T : f[x] \in Nat
      BY <3>1 DEF SettledOf, Amounts, Rows
    <3> QED  BY <3>1, <3>2, RecordsAssumption, SumBounds
  <2> QED  BY <2>1, <2>2, <1>2 DEF FinanceInv, Rows
<1>8. ReceivableFits(s)'
  BY <1>1, <1>2, <1>3, <1>6, <1>7 DEF MoneyInv, ReceivableFits
<1>9. ASSUME NEW x \in Shipments \ {s} PROVE ReceivableFits(x)'
  <2>1. SumFunctionOnSet(Amounts, SettledOf(x)) \in Nat
    BY SettledIsNat DEF FinanceInv
  <2> QED  BY <1>1, <1>3, <1>6, <2>1 DEF MoneyInv, ReceivableFits
<1> QED  BY <1>1, <1>2, <1>4, <1>8, <1>9 DEF MoneyInv

-----------------------------------------------------------------------------
(* The order, its instructions and its shipments.                          *)

\* A shipment has its instruction and its quantity from its first moment.
ShipmentFits(s) ==
    /\ shipment[s].quantity = SumFunctionOnSet(takes[s], Inspections)
    /\ IF shipment[s].status = "NONE"
       THEN /\ shipment[s].of = None /\ shipment[s].quantity = 0
            /\ \A i \in Inspections : takes[s][i] = 0
       ELSE shipment[s].of \in Instructions /\ shipment[s].quantity > 0

\* An instruction counts the shipments of it that stand, and its status tells.
InstructionFits(d) ==
    /\ instruction[d].executed = SumFunctionOnSet(Shipped, PostedOf(d))
    /\ 0 <= instruction[d].executed
    /\ instruction[d].executed <= instruction[d].quantity
    /\ instruction[d].status = "NONE" <=> instruction[d].quantity = 0
    /\ instruction[d].status = "COMPLETED" <=>
          instruction[d].executed = instruction[d].quantity
          /\ instruction[d].quantity > 0
    /\ instruction[d].status = "PARTIAL" <=>
          instruction[d].executed \in 1..(instruction[d].quantity - 1)
    /\ (\E s \in Shipments : shipment[s].of = d) =>
          instruction[d].status \in {"ACCEPTED", "PARTIAL", "COMPLETED"}

\* The order counts its instructions; a reversal is of an order that is open.
OrderFits ==
    /\ order.shipped = SumFunctionOnSet(Executed, Instructions)
    /\ order.status = "CLOSED" => order.shipped = Ordered
    /\ order.status = "CANCELLED" => order.shipped = 0
    /\ order.status \notin {"CLOSED", "CANCELLED"} =>
          order.status = StatusFor(order.shipped)
    /\ reversing # {} => order.status \notin {"CLOSED", "CANCELLED"}
    /\ order.shipped + Due <= Ordered

\* Order, instructions and shipments add up.
BooksInv ==
    /\ \A s \in Shipments : ShipmentFits(s)
    /\ \A d \in Instructions : InstructionFits(d)
    /\ OrderFits

\* Sums of whole numbers are whole.
LEMMA BooksAreWhole ==
    ASSUME BookRows
    PROVE  SumFunctionOnSet(Executed, Instructions) \in Int /\ Due \in Int
<1>1. PICK f, g, T : f = Executed /\ g = StillDue /\ T = NotCancelled
  OBVIOUS
<1>2. /\ \A x \in Instructions : f[x] \in Int /\ g[x] \in Int
      /\ T \in SUBSET Instructions /\ IsFiniteSet(T)
  BY <1>1, RecordsAssumption, FS_Subset DEF Executed, StillDue, NotCancelled, BookRows
<1>3. SumFunctionOnSet(f, Instructions) \in Int /\ SumFunctionOnSet(g, T) \in Int
  BY <1>2, RecordsAssumption, SumIsInt
<1> QED  BY <1>1, <1>3 DEF Due

\* The instructions that are not cancelled and not live are due nothing.
LEMMA DueIsReserved ==
    ASSUME BookRows, \A d \in Instructions : InstructionFits(d)
    PROVE  Due = Reserved(Instructions)
<1>1. PICK f, T, U : /\ f = StillDue /\ T = NotCancelled
                     /\ U = {d \in Instructions : instruction[d].status \in Live}
  OBVIOUS
<1>2. /\ \A x \in Instructions : f[x] \in Int
      /\ T \in SUBSET Instructions /\ U \in SUBSET Instructions
  BY <1>1 DEF StillDue, NotCancelled, BookRows
<1>3. ASSUME NEW x \in Instructions PROVE Within(f, T, Instructions)[x] = Within(f, U, Instructions)[x]
  <2>1. f[x] = instruction[x].quantity - instruction[x].executed
    BY <1>1 DEF StillDue
  <2>2. /\ instruction[x].status \in InstructionStatus
        /\ instruction[x].quantity \in Nat /\ instruction[x].executed \in Int
    BY DEF BookRows
  <2>3. CASE instruction[x].status \in {"NONE", "COMPLETED"}
    <3>1. f[x] = 0
      BY <2>1, <2>2, <2>3 DEF InstructionFits
    <3> QED  BY <3>1 DEF Within
  <2>4. CASE instruction[x].status \notin {"NONE", "COMPLETED"}
    <3>1. x \in T <=> x \in U
      BY <1>1, <2>2, <2>4 DEF NotCancelled, Live, InstructionStatus
    <3> QED  BY <3>1 DEF Within
  <2> QED  BY <2>3, <2>4
<1>4. SumFunctionOnSet(f, T) = SumFunctionOnSet(Within(f, T, Instructions), Instructions)
  BY <1>2, RecordsAssumption, SumWithin
<1>5. SumFunctionOnSet(f, U) = SumFunctionOnSet(Within(f, U, Instructions), Instructions)
  BY <1>2, RecordsAssumption, SumWithin
<1>6. SumFunctionOnSet(f, T) = SumFunctionOnSet(f, U)
  BY <1>3, <1>4, <1>5, RecordsAssumption, SumOfSame
<1> QED  BY <1>1, <1>6 DEF Due, Reserved

\* A shipment that stands is counted by its instruction, and that by the order.
LEMMA StandingIsCounted ==
    ASSUME Rows, BookRows, BooksInv, NEW s \in Shipments, shipment[s].status = "POSTED"
    PROVE  /\ shipment[s].of \in Instructions /\ shipment[s].quantity > 0
           /\ shipment[s].quantity <= instruction[shipment[s].of].executed
           /\ instruction[shipment[s].of].executed <= order.shipped
<1>1. PICK d : d = shipment[s].of
  OBVIOUS
<1>2. d \in Instructions /\ shipment[s].quantity > 0 /\ shipment[s].quantity \in Nat
  BY <1>1 DEF BooksInv, ShipmentFits, Rows
<1>3. shipment[s].quantity <= SumFunctionOnSet(Shipped, PostedOf(d))
  <2>1. PICK f, T : f = Shipped /\ T = PostedOf(d)
    OBVIOUS
  <2>2. T \in SUBSET Shipments /\ s \in T /\ \A x \in T : f[x] \in Nat
    BY <1>1, <2>1 DEF Shipped, PostedOf, Standing, Rows
  <2>3. f[s] <= SumFunctionOnSet(f, T)
    BY <2>2, RecordsAssumption, SumBounds
  <2> QED  BY <2>1, <2>3 DEF Shipped
<1>4. instruction[d].executed <= SumFunctionOnSet(Executed, Instructions)
  <2>1. PICK f : f = Executed
    OBVIOUS
  <2>2. \A x \in Instructions : f[x] \in Nat
    BY <2>1 DEF Executed, BookRows, BooksInv, InstructionFits
  <2>3. f[d] <= SumFunctionOnSet(f, Instructions)
    BY <1>2, <2>2, RecordsAssumption, SumBounds
  <2> QED  BY <1>2, <2>1, <2>3 DEF Executed
<1> QED  BY <1>1, <1>2, <1>3, <1>4 DEF BooksInv, InstructionFits, OrderFits

-----------------------------------------------------------------------------
(* The steps that change the books.                                        *)

\* Steps on goods and money.
LEMMA BooksStay ==
    ASSUME BooksInv, UNCHANGED <<order, instruction, sent>>,
           reversing' # {} => order.status \notin {"CLOSED", "CANCELLED"}
    PROVE  BooksInv'
<1>1. /\ order' = order /\ instruction' = instruction
      /\ shipment' = shipment /\ takes' = takes
  BY DEF sent
<1>2. OrderFits'
  BY <1>1 DEF BooksInv, OrderFits, Executed, StatusFor, Due, StillDue, NotCancelled
<1>3. \A s \in Shipments : ShipmentFits(s)'
  BY <1>1 DEF BooksInv, ShipmentFits
<1>4. ASSUME NEW d \in Instructions PROVE InstructionFits(d)'
  BY <1>1 DEF BooksInv, InstructionFits, Shipped, PostedOf, Standing
<1> QED  BY <1>2, <1>3, <1>4 DEF BooksInv

\* An order that was shipped from, and is not closed, is open for a reversal.
LEMMA ReversalBegins ==
    ASSUME Rows, BookRows, BooksInv, NEW s \in Shipments, BeginReversal(s)
    PROVE  BooksInv'
<1>1. /\ shipment[s].status = "POSTED" /\ order.status # "CLOSED"
      /\ UNCHANGED <<order, instruction, sent>>
  BY DEF BeginReversal, Reversible
<1>2. order.status # "CANCELLED"
  <2>1. order.shipped \in Int /\ shipment[s].quantity \in Nat
        /\ instruction[shipment[s].of].executed \in Int
    BY <1>1, StandingIsCounted DEF BookRows, Rows
  <2>2. order.shipped > 0
    BY <1>1, <2>1, StandingIsCounted
  <2> QED  BY <2>1, <2>2 DEF BooksInv, OrderFits
<1> QED  BY <1>1, <1>2, BooksStay

\* Closing and cancelling the order.
LEMMA OrderEnds ==
    ASSUME BookRows, BooksInv, CloseOrder \/ CancelOrder
    PROVE  BooksInv'
<1>1. /\ reversing' = {} /\ instruction' = instruction
      /\ shipment' = shipment /\ takes' = takes
      /\ order'.shipped = order.shipped
      /\ \/ order.status = "SHIPPED" /\ order'.status = "CLOSED"
         \/ order.shipped = 0 /\ order'.status = "CANCELLED"
  BY DEF CloseOrder, CancelOrder, OrderIsFree, sent, open, BookRows
<1>2. order.status = "SHIPPED" => order.shipped = Ordered
  BY DEF BooksInv, OrderFits, StatusFor
<1>3. OrderFits'
  BY <1>1, <1>2 DEF BooksInv, OrderFits, Executed, StatusFor, Due, StillDue, NotCancelled
<1>4. \A s \in Shipments : ShipmentFits(s)'
  BY <1>1 DEF BooksInv, ShipmentFits
<1>5. ASSUME NEW d \in Instructions PROVE InstructionFits(d)'
  BY <1>1 DEF BooksInv, InstructionFits, Shipped, PostedOf, Standing
<1> QED  BY <1>3, <1>4, <1>5 DEF BooksInv

\* A new instruction promises no more than is not promised yet.
LEMMA InstructionCreated ==
    ASSUME BookRows, BookRows', BooksInv, NEW d \in Instructions, NEW q \in 1..Ordered,
           CreateInstruction(d, q)
    PROVE  BooksInv'
<1>1. /\ instruction[d].status = "NONE"
      /\ q <= Ordered - order.shipped - Reserved(Instructions)
      /\ instruction' = [instruction EXCEPT ![d] =
                           [status |-> "DRAFT", quantity |-> q, executed |-> 0]]
      /\ order' = order /\ shipment' = shipment /\ takes' = takes /\ reversing' = reversing
  BY DEF CreateInstruction, Undelivered, sent, open
<1>2. q \in Int /\ q > 0 /\ Ordered \in Int
  BY OrderedAssumption
<1>3. /\ \A x \in Instructions \ {d} : instruction'[x] = instruction[x]
      /\ instruction'[d].status = "DRAFT" /\ instruction'[d].quantity = q
      /\ instruction'[d].executed = 0
  BY <1>1 DEF BookRows
<1>4. InstructionFits(d) /\ instruction[d].quantity = 0 /\ instruction[d].executed = 0
  BY <1>1 DEF BooksInv, InstructionFits, BookRows
<1>5. /\ SumFunctionOnSet(Executed, Instructions) \in Int /\ Due \in Int
      /\ order.shipped \in Int
  BY BooksAreWhole DEF BookRows
<1>6. /\ SumFunctionOnSet(Executed, Instructions)' = SumFunctionOnSet(Executed, Instructions)
      /\ Due' = Due + q
  BY <1>1, <1>2, <1>3, <1>4, <1>5, InstructionMoves
<1>7. Due = Reserved(Instructions)
  BY DueIsReserved DEF BooksInv
<1>8. order'.shipped + Due' <= Ordered
  BY <1>1, <1>2, <1>5, <1>6, <1>7
<1>9. OrderFits'
  BY <1>1, <1>6, <1>8 DEF BooksInv, OrderFits, StatusFor
<1>10. \A x : SumFunctionOnSet(Shipped, PostedOf(x))' = SumFunctionOnSet(Shipped, PostedOf(x))
  BY <1>1 DEF Shipped, PostedOf, Standing
<1>11. InstructionFits(d)'
  <2>1. /\ ~\E s \in Shipments : shipment[s].of = d
        /\ SumFunctionOnSet(Shipped, PostedOf(d)) = 0
    BY <1>1, <1>4 DEF InstructionFits
  <2>2. /\ 0 <= q /\ ~(0 = q /\ q > 0) /\ 0 \notin 1..(q - 1) /\ q # 0
    BY <1>2
  <2> QED  BY <1>1, <1>3, <1>10, <2>1, <2>2 DEF InstructionFits
<1>12. \A x \in Instructions \ {d} : InstructionFits(x)'
  BY <1>1, <1>3, <1>10 DEF BooksInv, InstructionFits
<1>13. \A s \in Shipments : ShipmentFits(s)'
  BY <1>1 DEF BooksInv, ShipmentFits
<1> QED  BY <1>9, <1>11, <1>12, <1>13 DEF BooksInv

\* An instruction changes its status: it gives up what it was due, or nothing.
LEMMA InstructionMovesOn ==
    ASSUME BookRows, BookRows', BooksInv, NEW d \in Instructions,
           NEW target \in DOMAIN AllowedFrom, TransitionInstruction(d, target)
    PROVE  BooksInv'
<1>1. /\ instruction[d].status \in AllowedFrom[target]
      /\ target \in {"RETURNED", "CANCELLED"} => ~EverExecuted(d)
      /\ instruction' = [instruction EXCEPT ![d].status = target]
      /\ order' = order /\ shipment' = shipment /\ takes' = takes /\ reversing' = reversing
  BY DEF TransitionInstruction, sent, open
<1>2. /\ target \in {"SUBMITTED", "ACCEPTED", "RETURNED", "CANCELLED"}
      /\ instruction[d].status \in {"DRAFT", "RETURNED", "SUBMITTED", "ACCEPTED"}
      /\ target = "SUBMITTED" => instruction[d].status \in {"DRAFT", "RETURNED"}
  BY <1>1 DEF AllowedFrom
<1>3. /\ \A x \in Instructions \ {d} : instruction'[x] = instruction[x]
      /\ instruction'[d].status = target
      /\ instruction'[d].quantity = instruction[d].quantity
      /\ instruction'[d].executed = instruction[d].executed
      /\ instruction[d].quantity \in Int /\ instruction[d].executed \in Int
  BY <1>1 DEF BookRows
<1>4. InstructionFits(d) /\ instruction[d].executed <= instruction[d].quantity
  BY DEF BooksInv, InstructionFits
<1>5. /\ SumFunctionOnSet(Executed, Instructions) \in Int /\ Due \in Int
      /\ order.shipped \in Int /\ Ordered \in Int
  BY BooksAreWhole, OrderedAssumption DEF BookRows
<1>6. /\ SumFunctionOnSet(Executed, Instructions)' = SumFunctionOnSet(Executed, Instructions)
      /\ Due' <= Due /\ Due' \in Int
  <2>1. /\ SumFunctionOnSet(Executed, Instructions)' =
              SumFunctionOnSet(Executed, Instructions)
              + instruction[d].executed - instruction[d].executed
        /\ Due' = Due
              + (IF target # "CANCELLED"
                 THEN instruction[d].quantity - instruction[d].executed ELSE 0)
              - (instruction[d].quantity - instruction[d].executed)
    BY <1>2, <1>3, InstructionMoves
  <2> QED  BY <1>3, <1>4, <1>5, <2>1
<1>7. order'.shipped + Due' <= Ordered
  BY <1>1, <1>5, <1>6 DEF BooksInv, OrderFits
<1>8. OrderFits'
  BY <1>1, <1>6, <1>7 DEF BooksInv, OrderFits, StatusFor
<1>9. \A x : SumFunctionOnSet(Shipped, PostedOf(x))' = SumFunctionOnSet(Shipped, PostedOf(x))
  BY <1>1 DEF Shipped, PostedOf, Standing
<1>10. InstructionFits(d)'
  <2>1. (\E s \in Shipments : shipment[s].of = d) => target = "ACCEPTED"
    BY <1>1, <1>2, <1>4 DEF InstructionFits, EverExecuted
  <2> QED  BY <1>1, <1>2, <1>3, <1>4, <1>9, <2>1 DEF InstructionFits
<1>11. \A x \in Instructions \ {d} : InstructionFits(x)'
  BY <1>1, <1>3, <1>9 DEF BooksInv, InstructionFits
<1>12. \A s \in Shipments : ShipmentFits(s)'
  BY <1>1 DEF BooksInv, ShipmentFits
<1> QED  BY <1>8, <1>10, <1>11, <1>12 DEF BooksInv

\* A shipment is posted.
LEMMA ShipmentPosted ==
    ASSUME Rows, Rows', BookRows, BookRows', BooksInv,
           NEW d \in Instructions, NEW s \in Shipments, NEW pool, NEW q \in 1..Ordered,
           ExecuteInstruction(d, s, pool, q)
    PROVE  BooksInv'
<1>1. PICK plan : plan = Plan(pool, q)
  OBVIOUS
<1>2. /\ OrderIsFree /\ shipment[s].status = "NONE"
      /\ instruction[d].status \in {"ACCEPTED", "PARTIAL"}
      /\ q <= instruction[d].quantity - instruction[d].executed
      /\ SumFunctionOnSet(plan, Inspections) = q
      /\ shipment' = [shipment EXCEPT ![s] =
                        [status |-> "POSTED", of |-> d, quantity |-> q]]
      /\ takes' = [takes EXCEPT ![s] = plan]
      /\ order' = [shipped |-> order.shipped + q, status |-> StatusFor(order.shipped + q)]
      /\ instruction' = [instruction EXCEPT
            ![d].executed = @ + q,
            ![d].status = IF instruction[d].executed + q = instruction[d].quantity
                          THEN "COMPLETED" ELSE "PARTIAL"]
      /\ reversing' = reversing
  BY <1>1 DEF ExecuteInstruction, open
<1>3. q \in Int /\ q > 0 /\ Ordered \in Int
  BY OrderedAssumption
<1>4. PICK a, n, e : /\ a = instruction[d].quantity /\ e = instruction[d].executed
                     /\ n = IF e + q = a THEN "COMPLETED" ELSE "PARTIAL"
  OBVIOUS
<1>5. /\ \A x \in Instructions \ {d} : instruction'[x] = instruction[x]
      /\ instruction'[d].status = n /\ instruction'[d].quantity = a
      /\ instruction'[d].executed = e + q
      /\ a \in Int /\ e \in Int /\ order.shipped \in Int
  BY <1>2, <1>4 DEF BookRows
<1>6. /\ \A x \in Shipments \ {s} : shipment'[x] = shipment[x] /\ takes'[x] = takes[x]
      /\ shipment'[s].status = "POSTED" /\ shipment'[s].of = d /\ shipment'[s].quantity = q
      /\ takes'[s] = plan
  BY <1>2 DEF Rows, BookRows
<1>7. 0 <= e /\ e + q <= a /\ e = SumFunctionOnSet(Shipped, PostedOf(d))
  BY <1>2, <1>3, <1>4, <1>5 DEF BooksInv, InstructionFits
<1>8. /\ SumFunctionOnSet(Executed, Instructions) \in Int /\ Due \in Int
  BY BooksAreWhole
<1>9. /\ SumFunctionOnSet(Executed, Instructions)' = SumFunctionOnSet(Executed, Instructions) + q
      /\ Due' = Due - q
  <2>1. n # "CANCELLED"
    BY <1>4
  <2>2. /\ SumFunctionOnSet(Executed, Instructions)' =
              SumFunctionOnSet(Executed, Instructions) + (e + q) - e
        /\ Due' = Due + (a - (e + q)) - (a - e)
    BY <1>2, <1>4, <1>5, <2>1, InstructionMoves
  <2> QED  BY <1>3, <1>5, <1>8, <2>2
<1>10. OrderFits'
  <2>1. order'.shipped = order.shipped + q /\ order'.status = StatusFor(order'.shipped)
    BY <1>2
  <2>2. order'.status \notin {"CLOSED", "CANCELLED"}
    BY <2>1 DEF StatusFor
  <2>3. order'.shipped + Due' <= Ordered
    BY <1>3, <1>5, <1>8, <1>9, <2>1 DEF BooksInv, OrderFits
  <2>4. order'.shipped = SumFunctionOnSet(Executed, Instructions)'
    BY <1>3, <1>5, <1>8, <1>9, <2>1 DEF BooksInv, OrderFits
  <2> QED  BY <2>1, <2>2, <2>3, <2>4 DEF OrderFits, StatusFor
<1>11. ASSUME NEW x \in Instructions
       PROVE  SumFunctionOnSet(Shipped, PostedOf(x))' =
                SumFunctionOnSet(Shipped, PostedOf(x)) + (IF x = d THEN q ELSE 0)
  <2>1. /\ s \notin PostedOf(x)
        /\ s \in PostedOf(x)' <=> x = d
    BY <1>2, <1>6 DEF PostedOf, Standing
  <2>2. SumFunctionOnSet(Shipped, PostedOf(x))' =
          SumFunctionOnSet(Shipped, PostedOf(x))
          + (IF s \in PostedOf(x)' THEN shipment'[s].quantity ELSE 0)
          - (IF s \in PostedOf(x) THEN shipment[s].quantity ELSE 0)
    BY <1>6, ShipmentMoves
  <2>3. SumFunctionOnSet(Shipped, PostedOf(x)) \in Int
    BY DEF BooksInv, InstructionFits, BookRows
  <2> QED  BY <1>3, <1>6, <2>1, <2>2, <2>3
<1>12. InstructionFits(d)'
  <2>1. SumFunctionOnSet(Shipped, PostedOf(d))' = e + q
    BY <1>7, <1>11
  <2>2. /\ n = "COMPLETED" <=> e + q = a /\ a > 0
        /\ n = "PARTIAL" <=> e + q \in 1..(a - 1)
        /\ n # "NONE" /\ a # 0 /\ 0 <= e + q /\ n \in {"PARTIAL", "COMPLETED"}
    BY <1>3, <1>4, <1>5, <1>7
  <2> QED  BY <1>5, <1>7, <2>1, <2>2 DEF InstructionFits
<1>13. ASSUME NEW x \in Instructions \ {d} PROVE InstructionFits(x)'
  <2>1. SumFunctionOnSet(Shipped, PostedOf(x))' = SumFunctionOnSet(Shipped, PostedOf(x))
    <3>1. SumFunctionOnSet(Shipped, PostedOf(x)) \in Int
      BY DEF BooksInv, InstructionFits, BookRows
    <3> QED  BY <1>11, <3>1
  <2>2. (\E y \in Shipments : shipment'[y].of = x) => \E y \in Shipments : shipment[y].of = x
    BY <1>6
  <2> QED  BY <1>5, <2>1, <2>2 DEF BooksInv, InstructionFits
<1>14. ShipmentFits(s)'
  BY <1>2, <1>3, <1>6 DEF ShipmentFits
<1>15. \A x \in Shipments \ {s} : ShipmentFits(x)'
  BY <1>6 DEF BooksInv, ShipmentFits
<1> QED  BY <1>10, <1>12, <1>13, <1>14, <1>15 DEF BooksInv

\* A shipment is taken back.
LEMMA ShipmentReversed ==
    ASSUME Rows, Rows', BookRows, BookRows', BooksInv, SeenUnderLock,
           NEW s \in Shipments, CommitReversal(s)
    PROVE  BooksInv'
<1>1. PICK d, q : d = shipment[s].of /\ q = shipment[s].quantity
  OBVIOUS
<1>2. /\ s \in reversing
      /\ reversing' = reversing \ {s}
      /\ shipment' = [shipment EXCEPT ![s].status = "REVERSED"]
      /\ order' = [shipped |-> order.shipped - q, status |-> StatusFor(order.shipped - q)]
      /\ instruction' = [instruction EXCEPT
            ![d].executed = @ - q,
            ![d].status = IF instruction[d].executed = q THEN "ACCEPTED" ELSE "PARTIAL"]
      /\ takes' = takes
  BY <1>1 DEF CommitReversal
<1>3. shipment[s].status = "POSTED"
  BY <1>2 DEF SeenUnderLock
<1>4. d \in Instructions /\ q > 0 /\ q \in Nat /\ q <= instruction[d].executed
  BY <1>1, <1>3, StandingIsCounted DEF Rows
<1>5. PICK a, n, e : /\ a = instruction[d].quantity /\ e = instruction[d].executed
                     /\ n = IF e = q THEN "ACCEPTED" ELSE "PARTIAL"
  OBVIOUS
<1>6. /\ \A x \in Instructions \ {d} : instruction'[x] = instruction[x]
      /\ instruction'[d].status = n /\ instruction'[d].quantity = a
      /\ instruction'[d].executed = e - q
      /\ a \in Int /\ e \in Int /\ order.shipped \in Int /\ Ordered \in Int
  BY <1>2, <1>4, <1>5, OrderedAssumption DEF BookRows
<1>7. /\ \A x \in Shipments \ {s} : shipment'[x] = shipment[x]
      /\ shipment'[s].status = "REVERSED" /\ shipment'[s].of = d
      /\ shipment'[s].quantity = q
  BY <1>1, <1>2 DEF Rows
<1>8. /\ q <= e /\ e <= a /\ e = SumFunctionOnSet(Shipped, PostedOf(d))
      /\ instruction[d].status \in {"PARTIAL", "COMPLETED"}
  <2>1. InstructionFits(d) /\ e >= 1
    BY <1>4, <1>5, <1>6 DEF BooksInv
  <2> QED  BY <1>4, <1>5, <1>6, <2>1 DEF InstructionFits
<1>9. /\ SumFunctionOnSet(Executed, Instructions) \in Int /\ Due \in Int
  BY BooksAreWhole
<1>10. /\ SumFunctionOnSet(Executed, Instructions)' = SumFunctionOnSet(Executed, Instructions) - q
       /\ Due' = Due + q
  <2>1. n # "CANCELLED"
    BY <1>5
  <2>2. /\ SumFunctionOnSet(Executed, Instructions)' =
              SumFunctionOnSet(Executed, Instructions) + (e - q) - e
        /\ Due' = Due + (a - (e - q)) - (a - e)
    BY <1>4, <1>5, <1>6, <1>8, <2>1, InstructionMoves
  <2> QED  BY <1>4, <1>6, <1>9, <2>2
<1>11. OrderFits'
  <2>1. order'.shipped = order.shipped - q /\ order'.status = StatusFor(order'.shipped)
    BY <1>2
  <2>2. order'.status \notin {"CLOSED", "CANCELLED"}
    BY <2>1 DEF StatusFor
  <2>3. order'.shipped + Due' <= Ordered
    BY <1>4, <1>6, <1>9, <1>10, <2>1 DEF BooksInv, OrderFits
  <2>4. order'.shipped = SumFunctionOnSet(Executed, Instructions)'
    BY <1>4, <1>6, <1>9, <1>10, <2>1 DEF BooksInv, OrderFits
  <2> QED  BY <2>1, <2>2, <2>3, <2>4 DEF OrderFits, StatusFor
<1>12. ASSUME NEW x \in Instructions
       PROVE  SumFunctionOnSet(Shipped, PostedOf(x))' =
                SumFunctionOnSet(Shipped, PostedOf(x)) - (IF x = d THEN q ELSE 0)
  <2>1. /\ s \in PostedOf(x) <=> x = d
        /\ s \notin PostedOf(x)'
    BY <1>1, <1>3, <1>7 DEF PostedOf, Standing
  <2>2. SumFunctionOnSet(Shipped, PostedOf(x))' =
          SumFunctionOnSet(Shipped, PostedOf(x))
          + (IF s \in PostedOf(x)' THEN shipment'[s].quantity ELSE 0)
          - (IF s \in PostedOf(x) THEN shipment[s].quantity ELSE 0)
    BY <1>7, ShipmentMoves
  <2>3. SumFunctionOnSet(Shipped, PostedOf(x)) \in Int
    BY DEF BooksInv, InstructionFits, BookRows
  <2> QED  BY <1>1, <1>4, <2>1, <2>2, <2>3
<1>13. InstructionFits(d)'
  <2>1. SumFunctionOnSet(Shipped, PostedOf(d))' = e - q
    BY <1>4, <1>8, <1>12
  <2>2. /\ ~(n = "COMPLETED") /\ ~(e - q = a /\ a > 0)
        /\ n = "PARTIAL" <=> e - q \in 1..(a - 1)
        /\ n # "NONE" /\ a # 0 /\ 0 <= e - q /\ e - q <= a /\ n \in {"PARTIAL", "ACCEPTED"}
    BY <1>4, <1>5, <1>6, <1>8
  <2> QED  BY <1>6, <2>1, <2>2 DEF InstructionFits
<1>14. ASSUME NEW x \in Instructions \ {d} PROVE InstructionFits(x)'
  <2>1. SumFunctionOnSet(Shipped, PostedOf(x))' = SumFunctionOnSet(Shipped, PostedOf(x))
    <3>1. SumFunctionOnSet(Shipped, PostedOf(x)) \in Int
      BY DEF BooksInv, InstructionFits, BookRows
    <3> QED  BY <1>12, <3>1
  <2>2. (\E y \in Shipments : shipment'[y].of = x) => \E y \in Shipments : shipment[y].of = x
    BY <1>1, <1>7
  <2> QED  BY <1>6, <2>1, <2>2 DEF BooksInv, InstructionFits
<1>15. ShipmentFits(s)'
  BY <1>1, <1>2, <1>3, <1>4, <1>7 DEF BooksInv, ShipmentFits
<1>16. \A x \in Shipments \ {s} : ShipmentFits(x)'
  BY <1>2, <1>7 DEF BooksInv, ShipmentFits
<1> QED  BY <1>11, <1>13, <1>14, <1>15, <1>16 DEF BooksInv

-----------------------------------------------------------------------------
(* Completions, their allocation and their inspections.                    *)

\* An inspection is of goods that are allocated and were not taken back, and
\* only a release that stands is shipped, up to what it releases.
InspectionFits(i) ==
    /\ inspection[i].life = "NONE" => inspection[i].of = None
    /\ inspection[i].life # "NONE" =>
         /\ inspection[i].of \in Completions /\ inspection[i].of \notin reversed
         /\ allocation[inspection[i].of].status = "ACTIVE"
    /\ Consumed(i) > 0 => Eligible(i) /\ Consumed(i) <= inspection[i].released

\* An allocation is of goods that were completed, and covers its releases.
AllocationFits(c) ==
    /\ allocation[c].status = "ACTIVE" => allocation[c].quantity <= Completed[c]
    /\ SumFunctionOnSet(ReleasedBy, EligibleOf(c)) <= allocation[c].quantity

\* Inspections and allocations fit each other and what is shipped.
GoodsInv ==
    /\ \A i \in Inspections : InspectionFits(i)
    /\ \A c \in Completions : AllocationFits(c)

\* What was released is a whole number.
LEMMA ReleasedIsInt ==
    ASSUME BookRows, NEW c
    PROVE  SumFunctionOnSet(ReleasedBy, EligibleOf(c)) \in Int
<1>1. PICK f, T : f = ReleasedBy /\ T = EligibleOf(c)
  OBVIOUS
<1>2. IsFiniteSet(T) /\ \A i \in T : f[i] \in Int
  BY <1>1, RecordsAssumption, FS_Subset DEF EligibleOf, Of, ReleasedBy, BookRows
<1> QED  BY <1>1, <1>2, SumIsInt

\* Without an inspection nothing is released.
LEMMA NothingReleased ==
    ASSUME NEW c, EligibleOf(c) = {}
    PROVE  SumFunctionOnSet(ReleasedBy, EligibleOf(c)) = 0
<1>1. PICK f, T : f = ReleasedBy /\ T = EligibleOf(c)
  OBVIOUS
<1>2. SumFunctionOnSet(f, T) = 0
  BY <1>1, FS_EmptySet, SumOfZeroes
<1> QED  BY <1>1, <1>2

\* Steps on other rows.
LEMMA GoodsStay ==
    ASSUME GoodsInv, UNCHANGED <<goods, sent>>
    PROVE  GoodsInv'
<1>1. /\ reversed' = reversed /\ allocation' = allocation /\ inspection' = inspection
      /\ shipment' = shipment /\ takes' = takes
  BY DEF goods, sent
<1>2. ASSUME NEW i \in Inspections PROVE InspectionFits(i)'
  BY <1>1 DEF GoodsInv, InspectionFits, Eligible, Consumed, Standing
<1>3. ASSUME NEW c \in Completions PROVE AllocationFits(c)'
  BY <1>1 DEF GoodsInv, AllocationFits, ReleasedBy, EligibleOf, Of, Eligible
<1> QED  BY <1>2, <1>3 DEF GoodsInv

\* Goods that are not inspected may be allocated, freed and taken back.
LEMMA UninspectedGoods ==
    ASSUME BookRows, BookRows', GoodsInv, NEW c \in Completions, Of(c) = {},
           UNCHANGED <<inspection, sent>>,
           \A x \in Completions \ {c} :
             allocation'[x] = allocation[x] /\ (x \in reversed' => x \in reversed),
           allocation'[c].status = "ACTIVE" => allocation'[c].quantity <= Completed[c]
    PROVE  GoodsInv'
<1>1. inspection' = inspection /\ shipment' = shipment /\ takes' = takes
  BY DEF sent
<1>2. \A i \in Inspections : inspection[i].of # c
  BY DEF Of
<1>3. \A i \in Inspections : inspection[i].life # "NONE" =>
        /\ inspection[i].of \in Completions
        /\ allocation'[inspection[i].of] = allocation[inspection[i].of]
        /\ inspection[i].of \notin reversed'
  BY <1>2 DEF GoodsInv, InspectionFits
<1>4. \A i \in Inspections : (Eligible(i)' <=> Eligible(i)) /\ Consumed(i)' = Consumed(i)
  BY <1>1, <1>3 DEF Eligible, Consumed, Standing
<1>5. ASSUME NEW i \in Inspections PROVE InspectionFits(i)'
  BY <1>1, <1>3, <1>4 DEF GoodsInv, InspectionFits
<1>6. \A x : EligibleOf(x)' = EligibleOf(x) /\ ReleasedBy' = ReleasedBy
  BY <1>1, <1>4 DEF EligibleOf, Of, ReleasedBy
<1>7. ASSUME NEW x \in Completions \ {c} PROVE AllocationFits(x)'
  BY <1>6 DEF GoodsInv, AllocationFits
<1>8. AllocationFits(c)'
  <2>1. EligibleOf(c) = {} /\ allocation'[c].quantity \in Nat
    BY DEF EligibleOf, BookRows
  <2>2. SumFunctionOnSet(ReleasedBy, EligibleOf(c)) = 0
    BY <2>1, NothingReleased
  <2> QED  BY <1>6, <2>1, <2>2 DEF AllocationFits
<1> QED  BY <1>5, <1>7, <1>8 DEF GoodsInv

\* Goods that are not allocated are not inspected.
LEMMA UnallocatedIsUninspected ==
    ASSUME GoodsInv, NEW c \in Completions, allocation[c].status # "ACTIVE"
    PROVE  Of(c) = {}
  BY NoneAssumption DEF Of, GoodsInv, InspectionFits

\* Allocating a completion touches no inspection.
LEMMA GoodsAllocated ==
    ASSUME BookRows, BookRows', GoodsInv, NEW c \in Completions, NEW q \in 1..Ordered,
           CreateAllocation(c, q)
    PROVE  GoodsInv'
<1>1. /\ allocation[c].status = "NONE" /\ q <= Completed[c]
      /\ allocation' = [allocation EXCEPT ![c] = [status |-> "ACTIVE", quantity |-> q]]
      /\ UNCHANGED <<inspection, sent>> /\ reversed' = reversed
  BY DEF CreateAllocation
<1>2. Of(c) = {}
  BY <1>1, UnallocatedIsUninspected
<1>3. /\ \A x \in Completions \ {c} : allocation'[x] = allocation[x]
      /\ allocation'[c].quantity = q
  BY <1>1 DEF BookRows
<1> QED  BY <1>1, <1>2, <1>3, UninspectedGoods

\* Only a completion no inspection stands on is freed or taken back.
LEMMA GoodsFreed ==
    ASSUME BookRows, BookRows', GoodsInv, NEW c \in Completions,
           CancelAllocation(c) \/ ReverseCompletion(c)
    PROVE  GoodsInv'
<1>1. /\ Of(c) = {} /\ UNCHANGED <<inspection, sent>>
      /\ reversed' \in {reversed, reversed \cup {c}}
      /\ \/ allocation' = [allocation EXCEPT ![c].status = "CANCELLED"]
         \/ allocation' = allocation /\ allocation[c].status # "ACTIVE"
  BY DEF CancelAllocation, ReverseCompletion
<1>2. /\ \A x \in Completions \ {c} : allocation'[x] = allocation[x]
      /\ allocation'[c].status # "ACTIVE"
  BY <1>1 DEF BookRows
<1> QED  BY <1>1, <1>2, UninspectedGoods

\* One inspection changes of which nothing is shipped: the others stay, and the
\* releases of completion c grow by what it releases.
LEMMA InspectionChanges ==
    ASSUME BookRows, BookRows', GoodsInv, NEW i \in Inspections,
           UNCHANGED <<reversed, allocation, sent>>,
           \A x \in Inspections \ {i} : inspection'[x] = inspection[x],
           Consumed(i) = 0,
           inspection'[i].life # "NONE",
           NEW c \in Completions, inspection'[i].of = c,
           inspection[i].of \in {c, None},
           c \notin reversed, allocation[c].status = "ACTIVE",
           ~Eligible(i) \/ ~Eligible(i)',
           Eligible(i)' =>
             inspection'[i].released + SumFunctionOnSet(ReleasedBy, EligibleOf(c))
               <= allocation[c].quantity
    PROVE  GoodsInv'
<1>1. /\ reversed' = reversed /\ allocation' = allocation
      /\ shipment' = shipment /\ takes' = takes
  BY DEF sent
<1>2. \A x \in Inspections : Consumed(x)' = Consumed(x)
  BY <1>1 DEF Consumed, Standing
<1>3. \A x \in Inspections \ {i} : Eligible(x)' <=> Eligible(x)
  BY <1>1 DEF Eligible
<1>4. ASSUME NEW x \in Inspections \ {i} PROVE InspectionFits(x)'
  BY <1>1, <1>2, <1>3 DEF GoodsInv, InspectionFits
<1>5. InspectionFits(i)'
  BY <1>1, <1>2 DEF InspectionFits
<1>6. c # None
  BY NoneAssumption
<1>7. ASSUME NEW x \in Completions PROVE AllocationFits(x)'
  <2>1. /\ i \in EligibleOf(x) <=> inspection[i].of = x /\ Eligible(i)
        /\ i \in EligibleOf(x)' <=> x = c /\ Eligible(i)'
    BY DEF EligibleOf, Of
  <2>2. PICK before, after, r, s :
          /\ before = SumFunctionOnSet(ReleasedBy, EligibleOf(x))
          /\ after = SumFunctionOnSet(ReleasedBy, EligibleOf(x))'
          /\ r = inspection[i].released /\ s = inspection'[i].released
    OBVIOUS
  <2>3. before \in Int /\ r \in Nat /\ s \in Nat
    BY <2>2, ReleasedIsInt DEF BookRows
  <2>4. after = before + (IF i \in EligibleOf(x)' THEN s ELSE 0)
                       - (IF i \in EligibleOf(x) THEN r ELSE 0)
    BY <1>1, <2>2, InspectionMoves
  <2>5. before <= allocation[x].quantity /\ allocation[x].quantity \in Nat
    BY <2>2 DEF GoodsInv, AllocationFits, BookRows
  <2>6. after <= allocation[x].quantity
    <3>1. CASE x = c /\ Eligible(i)'
      <4>1. i \notin EligibleOf(x) /\ i \in EligibleOf(x)'
        BY <2>1, <3>1
      <4>2. after = before + s
        BY <2>3, <2>4, <4>1
      <4> QED  BY <2>2, <2>3, <3>1, <4>2
    <3>2. CASE ~(x = c /\ Eligible(i)')
      <4>1. i \notin EligibleOf(x)'
        BY <2>1, <3>2
      <4> QED  BY <2>3, <2>4, <2>5, <4>1
    <3> QED  BY <3>1, <3>2
  <2> QED  BY <1>1, <2>2, <2>6 DEF GoodsInv, AllocationFits
<1> QED  BY <1>4, <1>5, <1>7 DEF GoodsInv

\* A new inspection is of goods that are allocated and fits next to the others.
LEMMA InspectionCreated ==
    ASSUME BookRows, BookRows', GoodsInv, NEW i \in Inspections, NEW c \in Completions,
           NEW q \in 1..Ordered, CreateInspection(i, c, q)
    PROVE  GoodsInv'
<1>1. /\ inspection[i].life = "NONE"
      /\ allocation[c].status = "ACTIVE" /\ c \notin reversed
      /\ inspection' = [inspection EXCEPT ![i] =
                          [of |-> c, life |-> "OPEN", decision |-> "PENDING",
                           inspected |-> q, released |-> 0]]
      /\ UNCHANGED <<reversed, allocation, sent>>
  BY DEF CreateInspection
<1>2. /\ \A x \in Inspections \ {i} : inspection'[x] = inspection[x]
      /\ inspection'[i].life = "OPEN" /\ inspection'[i].of = c
  BY <1>1 DEF BookRows
<1>3. ~Eligible(i)' /\ ~Eligible(i)
  BY <1>1, <1>2 DEF Eligible
<1>4. Consumed(i) = 0 /\ inspection[i].of = None
  BY <1>1, <1>3, ConsumptionIsNat DEF GoodsInv, InspectionFits
<1> QED  BY <1>1, <1>2, <1>3, <1>4, InspectionChanges

\* Only an open inspection is decided, and nothing of an open one is shipped.
LEMMA InspectionDecided ==
    ASSUME BookRows, BookRows', GoodsInv, NEW i \in Inspections, NEW q \in 0..Ordered,
           Disposition(i, q)
    PROVE  GoodsInv'
<1>1. PICK c : c = inspection[i].of
  OBVIOUS
<1>2. /\ inspection[i].life = "OPEN"
      /\ inspection' = [inspection EXCEPT
                          ![i].decision = IF q = 0 THEN "HOLD" ELSE "RELEASED",
                          ![i].released = q]
      /\ UNCHANGED <<reversed, allocation, sent>>
  BY DEF Disposition
<1>3. /\ \A x \in Inspections \ {i} : inspection'[x] = inspection[x]
      /\ inspection'[i].life = "OPEN" /\ inspection'[i].of = c
  BY <1>1, <1>2 DEF BookRows
<1>4. c \in Completions /\ c \notin reversed /\ allocation[c].status = "ACTIVE"
  BY <1>1, <1>2 DEF GoodsInv, InspectionFits
<1>5. ~Eligible(i)' /\ ~Eligible(i)
  BY <1>2, <1>3 DEF Eligible
<1>6. Consumed(i) = 0
  BY <1>5, ConsumptionIsNat DEF GoodsInv, InspectionFits
<1> QED  BY <1>1, <1>2, <1>3, <1>4, <1>5, <1>6, InspectionChanges

\* A release that is closed comes to those of its allocation.
LEMMA InspectionClosed ==
    ASSUME BookRows, BookRows', GoodsInv, NEW i \in Inspections, CloseInspection(i)
    PROVE  GoodsInv'
<1>1. PICK c : c = inspection[i].of
  OBVIOUS
<1>2. /\ inspection[i].life = "OPEN" /\ allocation[c].status = "ACTIVE"
      /\ inspection[i].decision = "RELEASED" =>
           inspection[i].released + SumFunctionOnSet(ReleasedBy, EligibleOf(c))
             <= allocation[c].quantity
      /\ inspection' = [inspection EXCEPT ![i].life = "CLOSED"]
      /\ UNCHANGED <<reversed, allocation, sent>>
  BY <1>1 DEF CloseInspection
<1>3. /\ \A x \in Inspections \ {i} : inspection'[x] = inspection[x]
      /\ inspection'[i].life = "CLOSED" /\ inspection'[i].of = c
      /\ inspection'[i].released = inspection[i].released
      /\ inspection'[i].decision = inspection[i].decision
  BY <1>1, <1>2 DEF BookRows
<1>4. c \in Completions /\ c \notin reversed
  BY <1>1, <1>2 DEF GoodsInv, InspectionFits
<1>5. ~Eligible(i) /\ (Eligible(i)' => inspection[i].decision = "RELEASED")
  BY <1>2, <1>3 DEF Eligible
<1>6. Consumed(i) = 0
  BY <1>5, ConsumptionIsNat DEF GoodsInv, InspectionFits
<1> QED  BY <1>1, <1>2, <1>3, <1>4, <1>5, <1>6, InspectionChanges

\* Only a release of which nothing is shipped is opened again.
LEMMA InspectionReopened ==
    ASSUME BookRows, BookRows', GoodsInv, NEW i \in Inspections, ReopenInspection(i)
    PROVE  GoodsInv'
<1>1. PICK c : c = inspection[i].of
  OBVIOUS
<1>2. /\ inspection[i].life = "CLOSED" /\ allocation[c].status = "ACTIVE"
      /\ inspection[i].decision = "RELEASED" => Consumed(i) = 0
      /\ inspection' = [inspection EXCEPT ![i].life = "OPEN",
                                          ![i].decision = "PENDING",
                                          ![i].released = 0]
      /\ UNCHANGED <<reversed, allocation, sent>>
  BY <1>1 DEF ReopenInspection, MayReopen
<1>3. /\ \A x \in Inspections \ {i} : inspection'[x] = inspection[x]
      /\ inspection'[i].life = "OPEN" /\ inspection'[i].of = c
  BY <1>1, <1>2 DEF BookRows
<1>4. c \in Completions /\ c \notin reversed
  BY <1>1, <1>2 DEF GoodsInv, InspectionFits
<1>5. ~Eligible(i)' /\ (Eligible(i) => inspection[i].decision = "RELEASED")
  BY <1>2, <1>3 DEF Eligible
<1>6. Consumed(i) = 0
  BY <1>2, <1>5, ConsumptionIsNat DEF GoodsInv, InspectionFits
<1> QED  BY <1>1, <1>2, <1>3, <1>4, <1>5, <1>6, InspectionChanges

-----------------------------------------------------------------------------
(* What a shipment takes.                                                  *)

\* allocateFqc never takes more of a release than is left of it.
LEMMA PlanFits ==
    ASSUME BookRows, GoodsInv, NEW pool \in Pools, NEW q \in 1..Ordered
    PROVE  /\ Plan(pool, q) \in [Inspections -> Nat]
           /\ \A i \in Inspections : Plan(pool, q)[i] > 0 =>
                Eligible(i) /\ Plan(pool, q)[i] <= Available(i)
<1>1. pool \in SUBSET Inspections /\ \A i \in pool : Eligible(i)
  BY DEF Pools, EligibleOf, Of
<1>2. \A i \in Inspections : Available(i) \in Int /\ (Eligible(i) => Available(i) >= 0)
  BY ConsumptionIsNat DEF Available, GoodsInv, InspectionFits, BookRows
<1>3. ASSUME NEW i \in Inspections PROVE Before(pool, i) \in Int
  <2>1. PICK f, T : f = [j \in Inspections |-> Available(j)] /\ T = {j \in pool : j < i}
    OBVIOUS
  <2>2. IsFiniteSet(T) /\ \A j \in T : f[j] \in Int
    BY <1>1, <1>2, <2>1, RecordsAssumption, FS_Subset
  <2>3. SumFunctionOnSet(f, T) \in Int
    BY <2>2, SumIsInt
  <2> QED  BY <2>1, <2>3 DEF Before
<1>4. q \in Int /\ q > 0
  BY OrderedAssumption
<1>5. ASSUME NEW i \in Inspections
      PROVE  /\ Plan(pool, q)[i] \in Nat
             /\ Plan(pool, q)[i] > 0 => Eligible(i) /\ Plan(pool, q)[i] <= Available(i)
  <2>1. PICK b, v, n : b = Before(pool, i) /\ v = Available(i) /\ n = Plan(pool, q)[i]
    OBVIOUS
  <2>2. n = IF i \notin pool THEN 0
            ELSE IF b >= q THEN 0
            ELSE IF v <= q - b THEN v ELSE q - b
    BY <2>1 DEF Plan
  <2>3. b \in Int /\ v \in Int /\ (i \in pool => v >= 0 /\ Eligible(i))
    BY <1>1, <1>2, <1>3, <2>1
  <2>4. n \in Nat /\ (n > 0 => i \in pool /\ n <= v)
    BY <1>4, <2>2, <2>3
  <2> QED  BY <2>1, <2>3, <2>4
<1>6. PICK plan : plan = Plan(pool, q)
  OBVIOUS
<1>7. plan = [i \in Inspections |-> plan[i]]
  BY <1>6 DEF Plan
<1> QED  BY <1>5, <1>6, <1>7

\* A new shipment takes what is left of releases that stand.
LEMMA GoodsShipped ==
    ASSUME Rows, Rows', BookRows, BookRows', BooksInv, GoodsInv,
           NEW d \in Instructions, NEW s \in Shipments, NEW pool \in Pools,
           NEW q \in 1..Ordered, ExecuteInstruction(d, s, pool, q)
    PROVE  GoodsInv'
<1>1. /\ shipment[s].status = "NONE"
      /\ shipment' = [shipment EXCEPT ![s] =
                        [status |-> "POSTED", of |-> d, quantity |-> q]]
      /\ takes' = [takes EXCEPT ![s] = Plan(pool, q)]
      /\ reversed' = reversed /\ allocation' = allocation /\ inspection' = inspection
  BY DEF ExecuteInstruction, goods
<1>2. /\ \A x \in Shipments \ {s} : shipment'[x] = shipment[x] /\ takes'[x] = takes[x]
      /\ shipment'[s].status = "POSTED" /\ takes'[s] = Plan(pool, q)
  BY <1>1 DEF Rows, BookRows
<1>3. ASSUME NEW i \in Inspections PROVE InspectionFits(i)'
  <2>1. PICK b, a, n, r : /\ b = Consumed(i) /\ a = Consumed(i)' /\ n = Plan(pool, q)[i]
                          /\ r = inspection[i].released
    OBVIOUS
  <2>2. b \in Nat /\ n \in Nat /\ r \in Nat /\ (n > 0 => Eligible(i) /\ n <= r - b)
    BY <2>1, ConsumptionIsNat, PlanFits DEF Available, BookRows
  <2>3. a = b + n
    <3>1. a = b + (IF shipment'[s].status = "POSTED" THEN takes'[s][i] ELSE 0)
                - (IF shipment[s].status = "POSTED" THEN takes[s][i] ELSE 0)
      BY <1>2, <2>1, ConsumptionMoves
    <3> QED  BY <1>1, <1>2, <2>1, <2>2, <3>1
  <2>4. Eligible(i)' <=> Eligible(i)
    BY <1>1 DEF Eligible
  <2>5. b > 0 => Eligible(i) /\ b <= r
    BY <2>1 DEF GoodsInv, InspectionFits
  <2>6. a > 0 => Eligible(i)' /\ a <= r
    BY <2>2, <2>3, <2>4, <2>5
  <2> QED  BY <1>1, <2>1, <2>6 DEF GoodsInv, InspectionFits
<1>4. ASSUME NEW c \in Completions PROVE AllocationFits(c)'
  BY <1>1 DEF GoodsInv, AllocationFits, ReleasedBy, EligibleOf, Of, Eligible
<1> QED  BY <1>3, <1>4 DEF GoodsInv

\* A shipment that is taken back gives back what it took.
LEMMA GoodsReturned ==
    ASSUME Rows, Rows', BookRows, BookRows', GoodsInv, SeenUnderLock,
           NEW s \in Shipments, CommitReversal(s)
    PROVE  GoodsInv'
<1>1. /\ s \in reversing
      /\ shipment' = [shipment EXCEPT ![s].status = "REVERSED"]
      /\ takes' = takes
      /\ reversed' = reversed /\ allocation' = allocation /\ inspection' = inspection
  BY DEF CommitReversal, goods
<1>2. /\ \A x \in Shipments \ {s} : shipment'[x] = shipment[x] /\ takes'[x] = takes[x]
      /\ shipment'[s].status = "REVERSED" /\ shipment[s].status = "POSTED"
  BY <1>1 DEF Rows, SeenUnderLock
<1>3. ASSUME NEW i \in Inspections PROVE InspectionFits(i)'
  <2>1. PICK b, a, n, r : /\ b = Consumed(i) /\ a = Consumed(i)' /\ n = takes[s][i]
                          /\ r = inspection[i].released
    OBVIOUS
  <2>2. b \in Nat /\ n \in Nat /\ r \in Nat
    BY <2>1, ConsumptionIsNat DEF BookRows
  <2>3. a = b - n
    <3>1. a = b + (IF shipment'[s].status = "POSTED" THEN takes'[s][i] ELSE 0)
                - (IF shipment[s].status = "POSTED" THEN takes[s][i] ELSE 0)
      BY <1>2, <2>1, ConsumptionMoves
    <3> QED  BY <1>2, <2>1, <2>2, <3>1
  <2>4. Eligible(i)' <=> Eligible(i)
    BY <1>1 DEF Eligible
  <2>5. b > 0 => Eligible(i) /\ b <= r
    BY <2>1 DEF GoodsInv, InspectionFits
  <2>6. a > 0 => Eligible(i)' /\ a <= r
    BY <2>2, <2>3, <2>4, <2>5
  <2> QED  BY <1>1, <2>1, <2>6 DEF GoodsInv, InspectionFits
<1>4. ASSUME NEW c \in Completions PROVE AllocationFits(c)'
  BY <1>1 DEF GoodsInv, AllocationFits, ReleasedBy, EligibleOf, Of, Eligible
<1> QED  BY <1>3, <1>4 DEF GoodsInv

-----------------------------------------------------------------------------
(* The invariant.                                                          *)

\* What is inductive about sales, goods and money.
SalesInv == FinanceInv /\ BookRows /\ MoneyInv /\ BooksInv /\ GoodsInv

\* Every step writes rows of their types.
LEMMA BookRowsStep ==
    ASSUME SalesInv, [Next]_vars
    PROVE  BookRows'
<1>1. /\ order.shipped \in Int /\ Ordered \in Nat /\ 1..Ordered \subseteq Nat
      /\ 0..Ordered \subseteq Nat
      /\ \A n : StatusFor(n) \in OrderStatus
  BY OrderedAssumption DEF SalesInv, BookRows, StatusFor, OrderStatus
<1>2. CASE UNCHANGED <<order, goods, instruction, sent>>
  BY <1>2 DEF goods, sent, SalesInv, BookRows
<1>3. ASSUME NEW c \in Completions, NEW q \in 1..Ordered, CreateAllocation(c, q)
      PROVE  BookRows'
  <2>1. /\ allocation' = [allocation EXCEPT ![c] = [status |-> "ACTIVE", quantity |-> q]]
        /\ UNCHANGED <<order, reversed, inspection, instruction, sent>>
    BY <1>3 DEF CreateAllocation
  <2> QED  BY <1>1, <2>1 DEF sent, SalesInv, BookRows
<1>4. ASSUME NEW c \in Completions, CancelAllocation(c) \/ ReverseCompletion(c)
      PROVE  BookRows'
  <2>1. CASE CancelAllocation(c)
    BY <2>1 DEF CancelAllocation, sent, SalesInv, BookRows
  <2>2. CASE ReverseCompletion(c)
    BY <2>2 DEF ReverseCompletion, sent, SalesInv, BookRows
  <2> QED  BY <1>4, <2>1, <2>2
<1>5. ASSUME NEW i \in Inspections, NEW c \in Completions, NEW q \in 1..Ordered,
             CreateInspection(i, c, q)
      PROVE  BookRows'
  <2>1. /\ inspection' = [inspection EXCEPT ![i] =
                             [of |-> c, life |-> "OPEN", decision |-> "PENDING",
                              inspected |-> q, released |-> 0]]
        /\ UNCHANGED <<order, reversed, allocation, instruction, sent>>
    BY <1>5 DEF CreateInspection
  <2> QED  BY <1>1, <2>1 DEF sent, SalesInv, BookRows
<1>6. ASSUME NEW i \in Inspections, NEW q \in 0..Ordered, Disposition(i, q)
      PROVE  BookRows'
  <2>1. PICK row : row = [inspection[i] EXCEPT
                            !.decision = IF q = 0 THEN "HOLD" ELSE "RELEASED",
                            !.released = q]
    OBVIOUS
  <2>2. /\ inspection' = [inspection EXCEPT ![i] = row]
        /\ UNCHANGED <<order, reversed, allocation, instruction, sent>>
    BY <1>6, <2>1 DEF Disposition
  <2>3. row \in [of : Completions \cup {None}, life : {"NONE", "OPEN", "CLOSED"},
                 decision : {"PENDING", "HOLD", "RELEASED"},
                 inspected : Nat, released : Nat]
    BY <1>1, <2>1 DEF SalesInv, BookRows
  <2> QED  BY <2>2, <2>3 DEF sent, SalesInv, BookRows
<1>7. ASSUME NEW i \in Inspections, CloseInspection(i) \/ ReopenInspection(i)
      PROVE  BookRows'
  <2>1. PICK row :
          /\ \/ row = [inspection[i] EXCEPT !.life = "CLOSED"]
             \/ row = [inspection[i] EXCEPT !.life = "OPEN",
                                            !.decision = "PENDING", !.released = 0]
          /\ inspection' = [inspection EXCEPT ![i] = row]
          /\ UNCHANGED <<order, reversed, allocation, instruction, sent>>
    <3>1. CASE CloseInspection(i)
      BY <3>1 DEF CloseInspection
    <3>2. CASE ReopenInspection(i)
      BY <3>2 DEF ReopenInspection
    <3> QED  BY <1>7, <3>1, <3>2
  <2>2. row \in [of : Completions \cup {None}, life : {"NONE", "OPEN", "CLOSED"},
                 decision : {"PENDING", "HOLD", "RELEASED"},
                 inspected : Nat, released : Nat]
    <3>1. inspection[i] \in [of : Completions \cup {None}, life : {"NONE", "OPEN", "CLOSED"},
                             decision : {"PENDING", "HOLD", "RELEASED"},
                             inspected : Nat, released : Nat]
      BY DEF SalesInv, BookRows
    <3>2. CASE row = [inspection[i] EXCEPT !.life = "CLOSED"]
      BY <3>1, <3>2
    <3>3. CASE row = [inspection[i] EXCEPT !.life = "OPEN", !.decision = "PENDING",
                                           !.released = 0]
      BY <3>1, <3>3
    <3> QED  BY <2>1, <3>2, <3>3
  <2> QED  BY <2>1, <2>2 DEF sent, SalesInv, BookRows
<1>8. ASSUME NEW d \in Instructions, NEW q \in 1..Ordered, CreateInstruction(d, q)
      PROVE  BookRows'
  <2>1. /\ instruction' = [instruction EXCEPT ![d] =
                             [status |-> "DRAFT", quantity |-> q, executed |-> 0]]
        /\ UNCHANGED <<order, goods, sent>>
    BY <1>8 DEF CreateInstruction
  <2> QED  BY <1>1, <2>1 DEF goods, sent, SalesInv, BookRows, InstructionStatus
<1>9. ASSUME NEW d \in Instructions, NEW t \in DOMAIN AllowedFrom,
             TransitionInstruction(d, t)
      PROVE  BookRows'
  <2>1. t \in InstructionStatus
    BY DEF AllowedFrom, InstructionStatus
  <2>2. /\ instruction' = [instruction EXCEPT ![d].status = t]
        /\ UNCHANGED <<order, goods, sent>>
    BY <1>9 DEF TransitionInstruction
  <2> QED  BY <2>1, <2>2 DEF goods, sent, SalesInv, BookRows
<1>10. ASSUME NEW d \in Instructions, NEW s \in Shipments, NEW pool \in Pools,
              NEW q \in 1..Ordered, ExecuteInstruction(d, s, pool, q)
       PROVE  BookRows'
  <2>1. PICK plan : plan = Plan(pool, q)
    OBVIOUS
  <2>2. plan \in [Inspections -> Nat]
    BY <2>1, PlanFits DEF SalesInv
  <2>3. /\ takes' = [takes EXCEPT ![s] = plan]
        /\ order' = [shipped |-> order.shipped + q, status |-> StatusFor(order.shipped + q)]
        /\ UNCHANGED goods
    BY <1>10, <2>1 DEF ExecuteInstruction
  <2>4. order' \in [status : OrderStatus, shipped : Int]
    BY <1>1, <2>3
  <2>5. takes' \in [Shipments -> [Inspections -> Nat]]
    BY <2>2, <2>3 DEF SalesInv, BookRows
  <2>6. instruction' \in [Instructions ->
                            [status : InstructionStatus, quantity : Nat, executed : Int]]
    <3>1. PICK row : row = [instruction[d] EXCEPT
             !.executed = @ + q,
             !.status = IF instruction[d].executed + q = instruction[d].quantity
                        THEN "COMPLETED" ELSE "PARTIAL"]
      OBVIOUS
    <3>2. instruction' = [instruction EXCEPT ![d] = row]
      BY <1>10, <3>1 DEF ExecuteInstruction
    <3>3. row \in [status : InstructionStatus, quantity : Nat, executed : Int]
      <4>1. PICK n \in {"COMPLETED", "PARTIAL"} :
              row = [instruction[d] EXCEPT !.executed = instruction[d].executed + q,
                                           !.status = n]
        BY <3>1
      <4>2. instruction[d] \in [status : InstructionStatus, quantity : Nat, executed : Int]
        BY DEF SalesInv, BookRows
      <4>3. q \in Int /\ n \in InstructionStatus
        BY <1>1 DEF InstructionStatus
      <4>4. PICK e \in Int : e = instruction[d].executed + q
        BY <4>2, <4>3
      <4>5. row = [instruction[d] EXCEPT !.executed = e, !.status = n]
        BY <4>1, <4>4
      <4> QED  BY <4>2, <4>3, <4>5
    <3> QED  BY <3>2, <3>3 DEF SalesInv, BookRows
  <2> QED  BY <2>3, <2>4, <2>5, <2>6 DEF goods, SalesInv, BookRows
<1>11. ASSUME NEW s \in Shipments, CommitReversal(s)
       PROVE  BookRows'
  <2>1. PICK d, q : d = shipment[s].of /\ q = shipment[s].quantity
    OBVIOUS
  <2>2. q \in Nat
    BY <2>1 DEF SalesInv, FinanceInv, Rows
  <2>3. /\ order' = [shipped |-> order.shipped - q, status |-> StatusFor(order.shipped - q)]
        /\ takes' = takes /\ UNCHANGED goods
    BY <1>11, <2>1 DEF CommitReversal
  <2>4. order' \in [status : OrderStatus, shipped : Int]
    BY <1>1, <2>2, <2>3
  <2>5. instruction' \in [Instructions ->
                            [status : InstructionStatus, quantity : Nat, executed : Int]]
    <3>1. d \in Instructions
      BY <1>11, <2>1, StandingIsCounted
         DEF CommitReversal, SalesInv, FinanceInv, SeenUnderLock
    <3>2. PICK row : row = [instruction[d] EXCEPT
             !.executed = @ - q,
             !.status = IF instruction[d].executed = q THEN "ACCEPTED" ELSE "PARTIAL"]
      OBVIOUS
    <3>3. instruction' = [instruction EXCEPT ![d] = row]
      BY <1>11, <2>1, <3>2 DEF CommitReversal
    <3>4. row \in [status : InstructionStatus, quantity : Nat, executed : Int]
      <4>1. PICK n \in {"ACCEPTED", "PARTIAL"} :
              row = [instruction[d] EXCEPT !.executed = instruction[d].executed - q,
                                           !.status = n]
        BY <3>2
      <4>2. instruction[d] \in [status : InstructionStatus, quantity : Nat, executed : Int]
        BY <3>1 DEF SalesInv, BookRows
      <4>3. q \in Int /\ n \in InstructionStatus
        BY <2>2 DEF InstructionStatus
      <4>4. PICK e \in Int : e = instruction[d].executed - q
        BY <4>2, <4>3
      <4>5. row = [instruction[d] EXCEPT !.executed = e, !.status = n]
        BY <4>1, <4>4
      <4> QED  BY <4>2, <4>3, <4>5
    <3> QED  BY <3>3, <3>4 DEF SalesInv, BookRows
  <2> QED  BY <2>3, <2>4, <2>5 DEF goods, SalesInv, BookRows
<1>12. CASE CloseOrder \/ CancelOrder
  BY <1>12 DEF CloseOrder, CancelOrder, goods, sent, SalesInv, BookRows, OrderStatus
<1>13. ASSUME NEW s \in Shipments,
              BeginReversal(s) \/ BeginReceivable(s) \/ CommitReceivable(s) \/ Rollback(s)
       PROVE  BookRows'
  BY <1>2, <1>13 DEF BeginReversal, BeginReceivable, CommitReceivable, Rollback
<1>14. ASSUME NEW p \in Settlements,
              (\E s \in Shipments, a \in 1..Ordered : Settle(p, s, a)) \/ ReverseSettlement(p)
       PROVE  BookRows'
  BY <1>2, <1>14 DEF Settle, ReverseSettlement
<1>15. CASE UNCHANGED vars
  BY <1>2, <1>15 DEF vars
<1> QED
  BY <1>3, <1>4, <1>5, <1>6, <1>7, <1>8, <1>9, <1>10, <1>11, <1>12, <1>13, <1>14, <1>15
     DEF Next

\* What a reversal needs of the order stays so while it is open.
LEMMA OtherStepsKeepBooks ==
    ASSUME SalesInv, UNCHANGED <<order, instruction, sent>>, reversing' \subseteq reversing
    PROVE  BooksInv'
<1>1. reversing' # {} => order.status \notin {"CLOSED", "CANCELLED"}
  BY DEF SalesInv, BooksInv, OrderFits
<1> QED  BY <1>1, BooksStay DEF SalesInv

\* Every step keeps the books.
LEMMA BooksStep ==
    ASSUME SalesInv, FinanceInv', BookRows', [Next]_vars
    PROVE  BooksInv'
<1>0. /\ Rows /\ Rows' /\ BookRows /\ BookRows' /\ BooksInv /\ SeenUnderLock
  BY DEF SalesInv, FinanceInv
<1>1. CASE UNCHANGED vars
  BY <1>1, OtherStepsKeepBooks DEF vars, open
<1>2. ASSUME NEW c \in Completions,
             \/ \E q \in 1..Ordered : CreateAllocation(c, q)
             \/ CancelAllocation(c) \/ ReverseCompletion(c)
      PROVE  BooksInv'
  BY <1>2, OtherStepsKeepBooks DEF CreateAllocation, CancelAllocation, ReverseCompletion, open
<1>3. ASSUME NEW i \in Inspections,
             \/ \E c \in Completions, q \in 1..Ordered : CreateInspection(i, c, q)
             \/ \E q \in 0..Ordered : Disposition(i, q)
             \/ CloseInspection(i) \/ ReopenInspection(i)
      PROVE  BooksInv'
  BY <1>3, OtherStepsKeepBooks
     DEF CreateInspection, Disposition, CloseInspection, ReopenInspection, open
<1>4. ASSUME NEW d \in Instructions,
             \/ \E q \in 1..Ordered : CreateInstruction(d, q)
             \/ \E t \in DOMAIN AllowedFrom : TransitionInstruction(d, t)
      PROVE  BooksInv'
  BY <1>0, <1>4, InstructionCreated, InstructionMovesOn
<1>5. ASSUME NEW d \in Instructions, NEW s \in Shipments, NEW pool \in Pools,
             NEW q \in 1..Ordered, ExecuteInstruction(d, s, pool, q)
      PROVE  BooksInv'
  BY <1>0, <1>5, ShipmentPosted
<1>6. ASSUME NEW s \in Shipments, BeginReversal(s) \/ CommitReversal(s)
      PROVE  BooksInv'
  BY <1>0, <1>6, ReversalBegins, ShipmentReversed
<1>7. CASE CloseOrder \/ CancelOrder
  BY <1>0, <1>7, OrderEnds
<1>8. ASSUME NEW s \in Shipments, BeginReceivable(s) \/ CommitReceivable(s) \/ Rollback(s)
      PROVE  BooksInv'
  BY <1>8, OtherStepsKeepBooks DEF BeginReceivable, CommitReceivable, Rollback
<1>9. ASSUME NEW p \in Settlements,
             (\E s \in Shipments, a \in 1..Ordered : Settle(p, s, a)) \/ ReverseSettlement(p)
      PROVE  BooksInv'
  BY <1>9, OtherStepsKeepBooks DEF Settle, ReverseSettlement, open
<1> QED
  BY <1>1, <1>2, <1>3, <1>4, <1>5, <1>6, <1>7, <1>8, <1>9 DEF Next

\* Every step keeps goods and inspections.
LEMMA GoodsStep ==
    ASSUME SalesInv, FinanceInv', BookRows', [Next]_vars
    PROVE  GoodsInv'
<1>0. /\ Rows /\ Rows' /\ BookRows /\ BookRows' /\ BooksInv /\ GoodsInv /\ SeenUnderLock
  BY DEF SalesInv, FinanceInv
<1>1. CASE UNCHANGED vars
  BY <1>0, <1>1, GoodsStay DEF vars
<1>2. ASSUME NEW c \in Completions,
             \/ \E q \in 1..Ordered : CreateAllocation(c, q)
             \/ CancelAllocation(c) \/ ReverseCompletion(c)
      PROVE  GoodsInv'
  BY <1>0, <1>2, GoodsAllocated, GoodsFreed
<1>3. ASSUME NEW i \in Inspections,
             \/ \E c \in Completions, q \in 1..Ordered : CreateInspection(i, c, q)
             \/ \E q \in 0..Ordered : Disposition(i, q)
             \/ CloseInspection(i) \/ ReopenInspection(i)
      PROVE  GoodsInv'
  BY <1>0, <1>3, InspectionCreated, InspectionDecided, InspectionClosed, InspectionReopened
<1>4. ASSUME NEW d \in Instructions,
             \/ \E q \in 1..Ordered : CreateInstruction(d, q)
             \/ \E t \in DOMAIN AllowedFrom : TransitionInstruction(d, t)
      PROVE  GoodsInv'
  BY <1>0, <1>4, GoodsStay DEF CreateInstruction, TransitionInstruction
<1>5. ASSUME NEW d \in Instructions, NEW s \in Shipments, NEW pool \in Pools,
             NEW q \in 1..Ordered, ExecuteInstruction(d, s, pool, q)
      PROVE  GoodsInv'
  BY <1>0, <1>5, GoodsShipped
<1>6. ASSUME NEW s \in Shipments, BeginReversal(s) \/ CommitReversal(s)
      PROVE  GoodsInv'
  <2>1. CASE BeginReversal(s)
    BY <1>0, <2>1, GoodsStay DEF BeginReversal
  <2>2. CASE CommitReversal(s)
    BY <1>0, <2>2, GoodsReturned
  <2> QED  BY <1>6, <2>1, <2>2
<1>7. CASE CloseOrder \/ CancelOrder
  BY <1>0, <1>7, GoodsStay DEF CloseOrder, CancelOrder
<1>8. ASSUME NEW s \in Shipments, BeginReceivable(s) \/ CommitReceivable(s) \/ Rollback(s)
      PROVE  GoodsInv'
  BY <1>0, <1>8, GoodsStay DEF BeginReceivable, CommitReceivable, Rollback
<1>9. ASSUME NEW p \in Settlements,
             (\E s \in Shipments, a \in 1..Ordered : Settle(p, s, a)) \/ ReverseSettlement(p)
      PROVE  GoodsInv'
  BY <1>0, <1>9, GoodsStay DEF Settle, ReverseSettlement
<1> QED
  BY <1>1, <1>2, <1>3, <1>4, <1>5, <1>6, <1>7, <1>8, <1>9 DEF Next

\* What has a receivable keeps its quantity.
LEMMA ReceivablesKeepQuantities ==
    ASSUME SalesInv, [Next]_vars
    PROVE  \A s \in Shipments : receivable[s].status # "NONE" =>
             shipment'[s].quantity = shipment[s].quantity
<1>1. CASE shipment' = shipment
  BY <1>1
<1>2. ASSUME NEW d \in Instructions, NEW s \in Shipments, NEW pool \in Pools,
             NEW q \in 1..Ordered, ExecuteInstruction(d, s, pool, q)
      PROVE  \A x \in Shipments : receivable[x].status # "NONE" =>
               shipment'[x].quantity = shipment[x].quantity
  <2>1. /\ shipment[s].status = "NONE"
        /\ shipment' = [shipment EXCEPT ![s] =
                          [status |-> "POSTED", of |-> d, quantity |-> q]]
    BY <1>2 DEF ExecuteInstruction
  <2>2. receivable[s].status = "NONE"
    BY <2>1 DEF SalesInv, FinanceInv, ReceivableStands
  <2> QED  BY <2>1, <2>2 DEF SalesInv, FinanceInv, Rows
<1>3. ASSUME NEW s \in Shipments, CommitReversal(s)
      PROVE  \A x \in Shipments : shipment'[x].quantity = shipment[x].quantity
  BY <1>3 DEF CommitReversal, SalesInv, FinanceInv, Rows
<1>4. \/ shipment' = shipment
      \/ \E d \in Instructions, s \in Shipments, pool \in Pools, q \in 1..Ordered :
           ExecuteInstruction(d, s, pool, q)
      \/ \E s \in Shipments : CommitReversal(s)
  BY DEF Next, vars, sent, CreateAllocation, CancelAllocation, ReverseCompletion,
     CreateInspection, Disposition, CloseInspection, ReopenInspection,
     CreateInstruction, TransitionInstruction, BeginReversal, CloseOrder, CancelOrder,
     BeginReceivable, CommitReceivable, Rollback, Settle, ReverseSettlement
<1> QED  BY <1>1, <1>2, <1>3, <1>4

\* Every step keeps the money.
LEMMA MoneyStep ==
    ASSUME SalesInv, FinanceInv', [Next]_vars
    PROVE  MoneyInv'
<1>1. /\ FinanceInv /\ MoneyInv /\ PostedIsSomething
  BY DEF SalesInv, PostedIsSomething, BooksInv, ShipmentFits
<1>2. CASE UNCHANGED money
  BY <1>1, <1>2, MoneyStays, ReceivablesKeepQuantities
<1>3. \/ UNCHANGED money
      \/ \E s \in Shipments : CommitReceivable(s)
      \/ \E p \in Settlements, s \in Shipments, a \in 1..Ordered : Settle(p, s, a)
      \/ \E p \in Settlements : ReverseSettlement(p)
  <2>1. ASSUME NEW c \in Completions,
               \/ \E q \in 1..Ordered : CreateAllocation(c, q)
               \/ CancelAllocation(c) \/ ReverseCompletion(c)
               \/ \E i \in Inspections, q \in 1..Ordered : CreateInspection(i, c, q)
        PROVE  UNCHANGED money
    BY <2>1 DEF CreateAllocation, CancelAllocation, ReverseCompletion, CreateInspection
  <2>2. ASSUME NEW i \in Inspections,
               \/ \E q \in 0..Ordered : Disposition(i, q)
               \/ CloseInspection(i) \/ ReopenInspection(i)
        PROVE  UNCHANGED money
    BY <2>2 DEF Disposition, CloseInspection, ReopenInspection
  <2>3. ASSUME NEW d \in Instructions,
               \/ \E q \in 1..Ordered : CreateInstruction(d, q)
               \/ \E target \in DOMAIN AllowedFrom : TransitionInstruction(d, target)
               \/ \E s \in Shipments, pool \in Pools, q \in 1..Ordered :
                     ExecuteInstruction(d, s, pool, q)
        PROVE  UNCHANGED money
    BY <2>3 DEF CreateInstruction, TransitionInstruction, ExecuteInstruction
  <2>4. ASSUME NEW s \in Shipments,
               \/ BeginReversal(s) \/ CommitReversal(s)
               \/ BeginReceivable(s) \/ Rollback(s)
        PROVE  UNCHANGED money
    BY <2>4 DEF BeginReversal, CommitReversal, BeginReceivable, Rollback
  <2>5. CloseOrder \/ CancelOrder \/ UNCHANGED vars => UNCHANGED money
    BY DEF CloseOrder, CancelOrder, vars
  <2> QED  BY <2>1, <2>2, <2>3, <2>4, <2>5 DEF Next
<1> QED
  BY <1>1, <1>2, <1>3, ReceivableOpens, SettlingFits, SettlementReversalFits

\* It holds in the initial states.
LEMMA InitSalesInv == Init => SalesInv
<1> SUFFICES ASSUME Init PROVE SalesInv
  OBVIOUS
<1>1. FinanceInv
  BY FinanceInitially
<1>2. BookRows
  BY DEF Init, BookRows, OrderStatus, InstructionStatus
<1>3. MoneyInv
  <2>1. ASSUME NEW s \in Shipments PROVE ReceivableFits(s)
    <3>1. receivable[s].status = "NONE" /\ receivable[s].settled = 0
      BY DEF Init
    <3>2. SumFunctionOnSet(Amounts, SettledOf(s)) = 0
      BY <1>1, <3>1, NothingSettled
    <3> QED  BY <3>1, <3>2 DEF ReceivableFits
  <2> QED  BY <2>1 DEF Init, MoneyInv
<1>4. BooksInv
  <2>1. ASSUME NEW s \in Shipments PROVE ShipmentFits(s)
    <3>1. PICK f : f = takes[s]
      OBVIOUS
    <3>2. SumFunctionOnSet(f, Inspections) = 0
      BY <3>1, RecordsAssumption, SumOfZeroes DEF Init
    <3> QED  BY <3>1, <3>2 DEF Init, ShipmentFits
  <2>2. ASSUME NEW d \in Instructions PROVE InstructionFits(d)
    <3>1. PICK f, T : f = Shipped /\ T = PostedOf(d)
      OBVIOUS
    <3>2. T = {}
      BY <3>1 DEF PostedOf, Standing, Init
    <3>3. SumFunctionOnSet(f, T) = 0
      BY <3>2, FS_EmptySet, SumOfZeroes
    <3>4. /\ instruction[d].status = "NONE" /\ instruction[d].quantity = 0
          /\ instruction[d].executed = 0 /\ \A s \in Shipments : shipment[s].of # d
      BY NoneAssumption DEF Init
    <3> QED  BY <3>1, <3>3, <3>4 DEF InstructionFits
  <2>3. PICK f, g, T : f = Executed /\ g = StillDue /\ T = NotCancelled
    OBVIOUS
  <2>4. IsFiniteSet(T) /\ (\A d \in Instructions : f[d] = 0) /\ \A d \in T : g[d] = 0
    BY <2>3, RecordsAssumption, FS_Subset DEF NotCancelled, Executed, StillDue, Init
  <2>5. SumFunctionOnSet(f, Instructions) = 0 /\ SumFunctionOnSet(g, T) = 0
    BY <2>4, RecordsAssumption, SumOfZeroes
  <2>6. OrderFits
    BY <2>3, <2>5, OrderedAssumption DEF Init, OrderFits, StatusFor, Due
  <2> QED  BY <2>1, <2>2, <2>6 DEF BooksInv
<1>5. GoodsInv
  <2>1. ASSUME NEW i \in Inspections PROVE InspectionFits(i)
    <3>1. PICK f, T : f = [s \in Shipments |-> takes[s][i]] /\ T = Standing
      OBVIOUS
    <3>2. T = {}
      BY <3>1 DEF Standing, Init
    <3>3. SumFunctionOnSet(f, T) = 0
      BY <3>2, FS_EmptySet, SumOfZeroes
    <3>4. Consumed(i) = 0
      BY <3>1, <3>3 DEF Consumed
    <3> QED  BY <3>4 DEF Init, InspectionFits
  <2>2. ASSUME NEW c \in Completions PROVE AllocationFits(c)
    <3>1. EligibleOf(c) = {}
      BY DEF EligibleOf, Of, Eligible, Init
    <3>2. SumFunctionOnSet(ReleasedBy, EligibleOf(c)) = 0
      BY <3>1, NothingReleased
    <3> QED  BY <3>2 DEF Init, AllocationFits
  <2> QED  BY <2>1, <2>2 DEF GoodsInv
<1> QED  BY <1>1, <1>2, <1>3, <1>4, <1>5 DEF SalesInv

\* Every step keeps it.
LEMMA SalesInvStep == SalesInv /\ [Next]_vars => SalesInv'
<1> SUFFICES ASSUME SalesInv, [Next]_vars PROVE SalesInv'
  OBVIOUS
<1>1. FinanceInv'
  BY FinanceNext DEF SalesInv
<1>2. BookRows'
  BY BookRowsStep
<1> QED  BY <1>1, <1>2, MoneyStep, BooksStep, GoodsStep DEF SalesInv

\* The inductive invariant of sales, goods and money.
THEOREM SalesInvariant == Spec => []SalesInv
  BY InitSalesInv, SalesInvStep, PTL DEF Spec

-----------------------------------------------------------------------------
(* What follows from it.                                                   *)

\* Rows of every table are well typed, and no quantity is negative: no reversal
\* takes back more than was counted (sales reverseShipment, finance
\* reverseSettlement).
THEOREM TypeCorrect == Spec => []TypeOK
<1>1. ASSUME SalesInv PROVE TypeOK
  <2>1. /\ FinanceInv /\ BookRows /\ MoneyInv /\ BooksInv /\ Rows /\ SeenUnderLock
    BY <1>1 DEF SalesInv, FinanceInv
  <2>2. order.shipped \in 0..Ordered
    <3>1. PICK f, g, T : f = Executed /\ g = StillDue /\ T = NotCancelled
      OBVIOUS
    <3>2. /\ T \in SUBSET Instructions
          /\ \A x \in Instructions : f[x] \in Nat /\ g[x] \in Nat
      BY <2>1, <3>1 DEF NotCancelled, Executed, StillDue, BookRows, BooksInv, InstructionFits
    <3>3. SumFunctionOnSet(f, Instructions) \in Nat /\ SumFunctionOnSet(g, T) \in Nat
      BY <3>2, RecordsAssumption, SumBounds
    <3> QED  BY <2>1, <3>1, <3>3, OrderedAssumption DEF BooksInv, OrderFits, Due
  <2>3. order \in [status : OrderStatus, shipped : 0..Ordered]
    BY <2>1, <2>2 DEF BookRows
  <2>4. instruction \in [Instructions ->
                           [status : InstructionStatus, quantity : Nat, executed : Nat]]
    BY <2>1 DEF BookRows, BooksInv, InstructionFits
  <2>5. receivable \in [Shipments ->
                          [status : {"NONE", "OPEN", "PARTIALLY_SETTLED", "SETTLED"},
                           settled : Nat]]
    <3>1. \A s \in Shipments : receivable[s].settled \in Nat
      BY <2>1, SettledIsNat DEF MoneyInv, ReceivableFits
    <3> QED  BY <2>1, <3>1 DEF Rows
  <2>6. reversed \subseteq Completions
    BY <2>1 DEF BookRows
  <2> QED  BY <2>1, <2>3, <2>4, <2>5, <2>6 DEF TypeOK, BookRows, Rows, SeenUnderLock
<1> QED  BY <1>1, SalesInvariant, PTL

\* What is shipped and what the instructions still promise never exceed the
\* order (createDeliveryInstruction, the submission trigger, reverseShipment),
\* for any number of instructions and shipments.
THEOREM ReservationsStayFit == Spec => []ReservationsFit
<1>1. SalesInv => ReservationsFit
  BY DEF SalesInv, BooksInv, OrderFits, ReservationsFit, Due, NotCancelled
<1> QED  BY <1>1, SalesInvariant, PTL

\* What is shipped was released by an inspection that stands, of goods that were
\* not taken back, and nothing is shipped twice (allocateFqc, reopen,
\* reverseFinishedGoodsCompletion).
THEOREM ShippedIsReleased == Spec => []ShippedWasReleased
<1>1. ASSUME SalesInv PROVE ShippedWasReleased
  <2>1. BookRows /\ GoodsInv
    BY <1>1 DEF SalesInv
  <2>2. ASSUME NEW i \in Inspections, Consumed(i) > 0
        PROVE  /\ Eligible(i) /\ Consumed(i) <= inspection[i].released
               /\ inspection[i].of \notin reversed
    <3>1. Eligible(i) /\ Consumed(i) <= inspection[i].released
      BY <2>1, <2>2 DEF GoodsInv, InspectionFits
    <3>2. inspection[i].life # "NONE"
      BY <3>1 DEF Eligible
    <3> QED  BY <2>1, <3>1, <3>2 DEF GoodsInv, InspectionFits
  <2>3. ASSUME NEW c \in Completions
        PROVE  SumFunctionOnSet(ReleasedBy, EligibleOf(c)) <= Completed[c]
    <3>1. /\ Completed[c] \in Nat /\ allocation[c].quantity \in Nat
          /\ SumFunctionOnSet(ReleasedBy, EligibleOf(c)) \in Int
      BY <2>1, CompletedAssumption, ReleasedIsInt DEF BookRows
    <3>2. CASE EligibleOf(c) = {}
      BY <3>1, <3>2, NothingReleased
    <3>3. CASE EligibleOf(c) # {}
      <4>1. allocation[c].status = "ACTIVE"
        BY <3>3 DEF EligibleOf, Of, Eligible
      <4> QED  BY <2>1, <3>1, <4>1 DEF GoodsInv, AllocationFits
    <3> QED  BY <3>2, <3>3
  <2> QED  BY <2>2, <2>3 DEF ShippedWasReleased
<1> QED  BY <1>1, SalesInvariant, PTL

\* Order, instructions, shipments, receivables and settlements tell the same
\* story after any sequence of postings and reversals.
THEOREM BooksAgree == Spec => []BooksAddUp
<1>1. ASSUME SalesInv PROVE BooksAddUp
  <2>1. BooksInv /\ MoneyInv
    BY <1>1 DEF SalesInv
  <2>2. SettlementsAddUp
    BY <2>1 DEF MoneyInv, ReceivableFits, SettlementsAddUp
  <2>3. ShipmentsAddUp
    BY <2>1 DEF BooksInv, OrderFits, InstructionFits, ShipmentFits, ShipmentsAddUp
  <2> QED  BY <2>2, <2>3 DEF BooksAddUp
<1> QED  BY <1>1, SalesInvariant, PTL

\* No receivable is ever of a shipment that was reversed, whatever the number of
\* transactions that post and reverse at once.
THEOREM ReceivablesStand == Spec => []ReceivableStands
  <1>1. FinanceInv => ReceivableStands
    BY DEF FinanceInv
  <1> QED
    BY <1>1, FinanceInitially, FinanceNext, PTL DEF Spec

\* Posting and reversing a shipment exclude each other, and what the one that
\* holds the lock has checked stays true until it commits.
THEOREM LockedSourceIsStable == Spec => []SeenUnderLock
  <1>1. FinanceInv => SeenUnderLock
    BY DEF FinanceInv
  <1> QED
    BY <1>1, FinanceInitially, FinanceNext, PTL DEF Spec
=============================================================================
