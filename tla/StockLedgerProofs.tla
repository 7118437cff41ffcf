------------------------- MODULE StockLedgerProofs -------------------------
(***************************************************************************)
(* Theorems about the stock ledger, for any materials, work orders, bills  *)
(* of materials, opening stock and quantities, and for any number of       *)
(* requests and of sessions.                                               *)
(*                                                                         *)
(*   Sums        what SumFunction returns, for every finite domain         *)
(*   Ledger      every step either posts one adjustment (Posts) or leaves  *)
(*               the journal and the quantities as they are (Keeps); one   *)
(*               lemma per action says which, and types the rows it        *)
(*               writes, and what the ledger promises follows from those   *)
(*               two cases alone                                           *)
(*   Orders      what an order holds of each material, and what is         *)
(*               reserved of a material over all orders                    *)
(*   Completion  what an order records as completed, from the journal      *)
(*   Sessions    the locks a transaction has taken and has still to take;  *)
(*               what it read stands until it ends, so that its commit is  *)
(*               one step of the ledger                                    *)
(***************************************************************************)
EXTENDS StockTransactions, FiniteSetTheorems, WellFoundedInduction, SequenceTheorems,
        TLAPS

-----------------------------------------------------------------------------
(* Sums.                                                                   *)

\* The member that the recursion takes out of a nonempty set.
Pick(T) == CHOOSE x \in T : TRUE

\* One step of the recursion that SumFunctionOnSet evaluates.
SumStep(f, total, T) ==
    IF T = {} THEN 0 ELSE f[Pick(T)] + total[T \ {Pick(T)}]

\* g holds the sums of f over all subsets of S.
IsTotals(f, g, S) == g = [T \in SUBSET S |-> SumStep(f, g, T)]

\* The table of sums of f over all subsets of S.
Totals(f, S) == CHOOSE g : IsTotals(f, g, S)

\* Among some sets of a finite set, one has no other below it.
LEMMA SmallestSet ==
    ASSUME NEW S, IsFiniteSet(S), NEW B \in SUBSET (SUBSET S), B # {}
    PROVE  \E T \in B : \A U \in B : U \subseteq T => U = T
<1>1. IsWellFoundedOn(StrictSubsetOrdering(S), SUBSET S)
  BY FS_StrictSubsetOrderingWellFounded, FS_FiniteSubsetsOfFinite
<1>2. PICK T \in B : \A U \in B : <<U, T>> \notin StrictSubsetOrdering(S)
  BY <1>1, WFMin
<1>3. \A U \in B : U \subseteq T => U = T
  BY <1>2 DEF StrictSubsetOrdering
<1> QED  BY <1>3

\* Two tables of sums agree where both are defined.
LEMMA TotalsAgree ==
    ASSUME NEW f, NEW S, IsFiniteSet(S), NEW V, NEW g, NEW h,
           IsTotals(f, g, S), IsTotals(f, h, V), NEW T \in SUBSET S, T \subseteq V
    PROVE  g[T] = h[T]
<1> DEFINE B == {U \in SUBSET S : U \subseteq V /\ g[U] # h[U]}
<1>1. SUFFICES ASSUME B # {} PROVE FALSE
  OBVIOUS
<1>2. PICK U \in B : \A W \in B : W \subseteq U => W = U
  <2>1. B \in SUBSET (SUBSET S)
    OBVIOUS
  <2> HIDE DEF B
  <2> QED  BY <1>1, <2>1, SmallestSet
<1>3. g[U] = SumStep(f, g, U) /\ h[U] = SumStep(f, h, U)
  BY DEF IsTotals
<1>4. CASE U = {}
  BY <1>2, <1>3, <1>4 DEF SumStep
<1>5. CASE U # {}
  <2>1. Pick(U) \in U
    BY <1>5 DEF Pick
  <2>2. g[U \ {Pick(U)}] = h[U \ {Pick(U)}]
    BY <1>2, <2>1
  <2> QED  BY <1>2, <1>3, <2>2 DEF SumStep
<1> QED  BY <1>4, <1>5

\* There is such a table.
LEMMA TotalsExist ==
    ASSUME NEW f, NEW S, IsFiniteSet(S)
    PROVE  IsTotals(f, Totals(f, S), S)
<1> DEFINE B == {U \in SUBSET S : ~\E g : IsTotals(f, g, U)}
<1>1. SUFFICES ASSUME B # {} PROVE FALSE
  BY DEF Totals
<1>2. PICK U \in B : \A W \in B : W \subseteq U => W = U
  <2>1. B \in SUBSET (SUBSET S)
    OBVIOUS
  <2> HIDE DEF B
  <2> QED  BY <1>1, <2>1, SmallestSet
<1> DEFINE Below(T) == Totals(f, T)
           part == [T \in (SUBSET U) \ {U} |-> Below(T)[T]]
           whole == [T \in SUBSET U |-> IF T = U THEN SumStep(f, part, U) ELSE part[T]]
<1>3. \A T \in (SUBSET U) \ {U} : IsTotals(f, Below(T), T) /\ IsFiniteSet(T)
  BY <1>2, FS_Subset DEF Totals
<1>4. ASSUME NEW T \in SUBSET U PROVE whole[T] = SumStep(f, whole, T)
  <2>1. CASE T = {}
    <3>1. CASE T = U
      BY <3>1, <2>1 DEF SumStep
    <3>2. CASE T # U
      <4>1. part[T] = SumStep(f, Below(T), T)
        BY <1>3, <3>2 DEF IsTotals
      <4> QED  BY <4>1, <3>2, <2>1 DEF SumStep
    <3> QED  BY <3>1, <3>2
  <2>2. CASE T # {}
    <3> DEFINE R == T \ {Pick(T)}
    <3>1. Pick(T) \in T
      BY <2>2 DEF Pick
    <3>2. R \in (SUBSET U) \ {U} /\ whole[R] = part[R]
      BY <3>1
    <3>3. CASE T = U
      BY <3>3, <3>2, <2>2 DEF SumStep
    <3>4. CASE T # U
      <4>0. part[T] = SumStep(f, Below(T), T)
        BY <1>3, <3>4 DEF IsTotals
      <4>1. part[T] = f[Pick(T)] + Below(T)[R]
        BY <4>0, <2>2 DEF SumStep
      <4>2. Below(T)[R] = Below(R)[R]
        BY <1>3, <3>2, <3>4, TotalsAgree
      <4> QED  BY <4>1, <4>2, <3>2, <3>4, <2>2 DEF SumStep
    <3> QED  BY <3>3, <3>4
  <2> QED  BY <2>1, <2>2
<1>5. IsTotals(f, whole, U)
  <2>1. whole = [T \in SUBSET U |-> whole[T]]
    OBVIOUS
  <2>2. [T \in SUBSET U |-> whole[T]] = [T \in SUBSET U |-> SumStep(f, whole, T)]
    BY <1>4
  <2> HIDE DEF whole
  <2> QED  BY <2>1, <2>2 DEF IsTotals
<1> QED  BY <1>2, <1>5

\* What SumFunctionOnSet computes: nothing of the empty set, else one value
\* and the sum of the others.
LEMMA SumUnfolds ==
    ASSUME NEW f, NEW S, IsFiniteSet(S)
    PROVE  /\ SumFunctionOnSet(f, {}) = 0
           /\ S # {} => SumFunctionOnSet(f, S)
                          = f[Pick(S)] + SumFunctionOnSet(f, S \ {Pick(S)})
<1>1. \A T : SumFunctionOnSet(f, T) = Totals(f, T)[T]
  <2> TAKE T
  <2> QED  BY DEF SumFunctionOnSet, FoldFunctionOnSet, MapThenFoldSet, Totals, IsTotals,
        SumStep, Pick
<1>2. \A T \in SUBSET S : IsTotals(f, Totals(f, T), T)
  BY FS_Subset, TotalsExist
<1>3. SumFunctionOnSet(f, {}) = 0
  BY <1>1, <1>2 DEF IsTotals, SumStep
<1>4. ASSUME S # {}
      PROVE  SumFunctionOnSet(f, S) = f[Pick(S)] + SumFunctionOnSet(f, S \ {Pick(S)})
  <2> DEFINE R == S \ {Pick(S)}
  <2>1. Totals(f, S)[S] = f[Pick(S)] + Totals(f, S)[R]
    BY <1>2, <1>4 DEF IsTotals, SumStep
  <2>2. Totals(f, S)[R] = Totals(f, R)[R]
    <3>1. R \in SUBSET S
      OBVIOUS
    <3>2. IsTotals(f, Totals(f, S), S) /\ IsTotals(f, Totals(f, R), R)
      BY <1>2, <3>1
    <3> HIDE DEF R
    <3> QED  BY <3>1, <3>2, TotalsAgree
  <2> QED  BY <1>1, <2>1, <2>2
<1> QED  BY <1>3, <1>4

\* The sum of nothing.
LEMMA SumOfNone == \A f : SumFunctionOnSet(f, {}) = 0
BY FS_EmptySet, SumUnfolds

\* A sum of integers is an integer.
LEMMA SumIsInt ==
    ASSUME NEW f, NEW S, IsFiniteSet(S), \A x \in S : f[x] \in Int
    PROVE  SumFunctionOnSet(f, S) \in Int
<1> DEFINE B == {U \in SUBSET S : SumFunctionOnSet(f, U) \notin Int}
<1>1. SUFFICES ASSUME B # {} PROVE FALSE
  OBVIOUS
<1>2. PICK U \in B : \A W \in B : W \subseteq U => W = U
  <2>1. B \in SUBSET (SUBSET S)
    OBVIOUS
  <2> HIDE DEF B
  <2> QED  BY <1>1, <2>1, SmallestSet
<1>3. IsFiniteSet(U)
  BY FS_Subset
<1>4. U # {} /\ Pick(U) \in U
  <2>1. ASSUME U = {} PROVE FALSE
    BY <1>2, <2>1, SumOfNone
  <2> QED  BY <2>1 DEF Pick
<1>5. SumFunctionOnSet(f, U \ {Pick(U)}) \in Int
  BY <1>2, <1>4
<1> QED  BY <1>2, <1>3, <1>4, <1>5, SumUnfolds

\* Any value may be taken out of a sum.
LEMMA SumTakesOut ==
    ASSUME NEW f, NEW S, IsFiniteSet(S), \A y \in S : f[y] \in Int, NEW x \in S
    PROVE  SumFunctionOnSet(f, S) = f[x] + SumFunctionOnSet(f, S \ {x})
<1> DEFINE B == {U \in SUBSET S : \E y \in U :
                   SumFunctionOnSet(f, U) # f[y] + SumFunctionOnSet(f, U \ {y})}
<1>1. SUFFICES ASSUME B # {} PROVE FALSE
  OBVIOUS
<1>2. PICK U \in B : \A W \in B : W \subseteq U => W = U
  <2>1. B \in SUBSET (SUBSET S)
    OBVIOUS
  <2> HIDE DEF B
  <2> QED  BY <1>1, <2>1, SmallestSet
<1>3. PICK y \in U : SumFunctionOnSet(f, U) # f[y] + SumFunctionOnSet(f, U \ {y})
  BY <1>2
<1>4. IsFiniteSet(U)
  BY FS_Subset
<1> DEFINE z == Pick(U)
<1>5. z \in U /\ SumFunctionOnSet(f, U) = f[z] + SumFunctionOnSet(f, U \ {z})

  BY <1>3, <1>4, SumUnfolds DEF Pick
<1>6. y # z
  BY <1>3, <1>5
<1>7. SumFunctionOnSet(f, U \ {z}) = f[y] + SumFunctionOnSet(f, (U \ {z}) \ {y})
  BY <1>2, <1>5, <1>6
<1>8. SumFunctionOnSet(f, U \ {y}) = f[z] + SumFunctionOnSet(f, (U \ {y}) \ {z})
  BY <1>2, <1>5, <1>6
<1>9. (U \ {z}) \ {y} = (U \ {y}) \ {z}
  OBVIOUS
<1>10. SumFunctionOnSet(f, (U \ {y}) \ {z}) \in Int
  <2>1. IsFiniteSet((U \ {y}) \ {z})
    BY <1>4, FS_Subset
  <2> QED  BY <2>1, SumIsInt
<1>11. f[y] \in Int /\ f[z] \in Int
  BY <1>5
<1>12. SumFunctionOnSet(f, U)
         = f[y] + (f[z] + SumFunctionOnSet(f, (U \ {y}) \ {z}))
  <2>1. SumFunctionOnSet(f, U \ {z}) = f[y] + SumFunctionOnSet(f, (U \ {y}) \ {z})
    BY <1>7, <1>9
  <2>2. \A a, b, c \in Int : a + (b + c) = b + (a + c)
    OBVIOUS
  <2> HIDE DEF z, B
  <2>3. SumFunctionOnSet(f, U)
          = f[z] + (f[y] + SumFunctionOnSet(f, (U \ {y}) \ {z}))
    BY <1>5, <2>1
  <2> QED  BY <2>2, <2>3, <1>10, <1>11
<1> QED  BY <1>3, <1>8, <1>12

\* The sum depends on the values only.
LEMMA SumOfSame ==
    ASSUME NEW f, NEW g, NEW S, IsFiniteSet(S), \A x \in S : f[x] = g[x]
    PROVE  SumFunctionOnSet(f, S) = SumFunctionOnSet(g, S)
<1> DEFINE B == {U \in SUBSET S : SumFunctionOnSet(f, U) # SumFunctionOnSet(g, U)}
<1>1. SUFFICES ASSUME B # {} PROVE FALSE
  OBVIOUS
<1>2. PICK U \in B : \A W \in B : W \subseteq U => W = U
  <2>1. B \in SUBSET (SUBSET S)
    OBVIOUS
  <2> HIDE DEF B
  <2> QED  BY <1>1, <2>1, SmallestSet
<1>3. IsFiniteSet(U)
  BY FS_Subset
<1>4. U # {} /\ Pick(U) \in U
  <2>1. ASSUME U = {} PROVE FALSE
    BY <1>2, <2>1, SumOfNone
  <2> QED  BY <2>1 DEF Pick
<1>5. SumFunctionOnSet(f, U \ {Pick(U)}) = SumFunctionOnSet(g, U \ {Pick(U)})
  BY <1>2, <1>4
<1> QED  BY <1>2, <1>3, <1>4, <1>5, SumUnfolds

\* Sums add up, value by value.
LEMMA SumAdds ==
    ASSUME NEW f, NEW g, NEW h, NEW S, IsFiniteSet(S),
           \A x \in S : f[x] \in Int /\ g[x] \in Int /\ h[x] = f[x] + g[x]
    PROVE  SumFunctionOnSet(h, S) = SumFunctionOnSet(f, S) + SumFunctionOnSet(g, S)
<1> DEFINE B == {U \in SUBSET S :
          SumFunctionOnSet(h, U) # SumFunctionOnSet(f, U) + SumFunctionOnSet(g, U)}
<1>1. SUFFICES ASSUME B # {} PROVE FALSE
  OBVIOUS
<1>2. PICK U \in B : \A W \in B : W \subseteq U => W = U
  <2>1. B \in SUBSET (SUBSET S)
    OBVIOUS
  <2> HIDE DEF B
  <2> QED  BY <1>1, <2>1, SmallestSet
<1>3. IsFiniteSet(U)
  BY FS_Subset
<1>4. U # {} /\ Pick(U) \in U
  <2>1. ASSUME U = {} PROVE FALSE
    BY <1>2, <2>1, SumOfNone
  <2> QED  BY <2>1 DEF Pick
<1> DEFINE R == U \ {Pick(U)}
<1>5. SumFunctionOnSet(h, R) = SumFunctionOnSet(f, R) + SumFunctionOnSet(g, R)
  BY <1>2, <1>4
<1>6. IsFiniteSet(R)
  BY <1>3, FS_Subset
<1>7. SumFunctionOnSet(f, R) \in Int /\ SumFunctionOnSet(g, R) \in Int
  BY <1>6, SumIsInt
<1>8. /\ SumFunctionOnSet(f, U) = f[Pick(U)] + SumFunctionOnSet(f, R)
      /\ SumFunctionOnSet(g, U) = g[Pick(U)] + SumFunctionOnSet(g, R)
      /\ SumFunctionOnSet(h, U) = h[Pick(U)] + SumFunctionOnSet(h, R)
  BY <1>3, <1>4, SumUnfolds
<1>9. f[Pick(U)] \in Int /\ g[Pick(U)] \in Int /\ h[Pick(U)] = f[Pick(U)] + g[Pick(U)]
  BY <1>4
<1> HIDE DEF R
<1> QED  BY <1>2, <1>5, <1>7, <1>8, <1>9

\* A sum of which one value changes.
LEMMA SumMoves ==
    ASSUME NEW f, NEW g, NEW S, IsFiniteSet(S), NEW x \in S,
           \A y \in S : f[y] \in Int /\ g[y] \in Int,
           \A y \in S \ {x} : f[y] = g[y]
    PROVE  SumFunctionOnSet(g, S) = SumFunctionOnSet(f, S) + g[x] - f[x]
<1>1. IsFiniteSet(S \ {x})
  BY FS_Subset
<1>2. SumFunctionOnSet(f, S \ {x}) = SumFunctionOnSet(g, S \ {x})
  BY <1>1, SumOfSame
<1>3. SumFunctionOnSet(f, S \ {x}) \in Int
  BY <1>1, SumIsInt
<1>4. SumFunctionOnSet(f, S) = f[x] + SumFunctionOnSet(f, S \ {x})
  BY SumTakesOut
<1>5. SumFunctionOnSet(g, S) = g[x] + SumFunctionOnSet(g, S \ {x})
  BY SumTakesOut
<1> QED  BY <1>2, <1>3, <1>4, <1>5

\* Nothing added up is nothing.
LEMMA SumOfZeroes ==
    ASSUME NEW f, NEW S, IsFiniteSet(S), \A x \in S : f[x] = 0
    PROVE  SumFunctionOnSet(f, S) = 0
<1>1. \A n \in Int : n = n + n => n = 0
  OBVIOUS
<1>2. SumFunctionOnSet(f, S) = SumFunctionOnSet(f, S) + SumFunctionOnSet(f, S)
  <2>1. \A x \in S : f[x] = f[x] + f[x] /\ f[x] \in Int
    OBVIOUS
  <2> QED  BY <2>1, SumAdds
<1>3. SumFunctionOnSet(f, S) \in Int
  <2>1. \A x \in S : f[x] \in Int
    OBVIOUS
  <2> QED  BY <2>1, SumIsInt
<1> QED  BY <1>1, <1>2, <1>3
-----------------------------------------------------------------------------
(* The ledger.                                                             *)

\* Something for each of some positions.
LinesOf(S) == UNION {[P -> S] : P \in SUBSET Positions}

Adjustment == [request : Requests \cup {None},
               type : OperationTypes \cup {"REVERSAL"},
               reversalOf : Nat, lines : LinesOf(Line)]

RequestLine == [quantity : Quantities \cup {0}, version : Nat]

Request == [operation : RequestOperations, order : Orders \cup {None},
            reversalOf : Nat, lines : LinesOf(RequestLine)]

StateTyped ==
    /\ balance \in [Positions -> Row]
    /\ journal \in Seq(Adjustment)
    /\ keys \subseteq Requests
    /\ request \in [Requests -> Request \cup {None}]
    /\ order \in [Orders -> OrderStatus]
    /\ hold \in [Orders -> [Positions -> Hold]]
    /\ work \in [Orders -> Progress]

\* A request names what its operation needs: lines, an order, an adjustment.
IsWhole(q) ==
    /\ q.operation \notin {"RELEASE", "CANCEL"} => DOMAIN q.lines # {}
    /\ q.operation \in OrderOperations => q.order \in Orders
    /\ q.operation \in {"COMPLETE", "REVERSE_COMPLETION"} =>
         DOMAIN q.lines = {Finished[q.order]}
    /\ q.operation \in {"REVERSAL", "REVERSE_COMPLETION"} =>
         /\ q.reversalOf \in 1..Len(journal)
         /\ DOMAIN q.lines = DOMAIN journal[q.reversalOf].lines

RequestsAreWhole == \A r \in Requests : request[r] # None => IsWhole(request[r])

\* An adjustment has lines, only the opening stock has no request, and the
\* type tells whether it reverses another one.
EntriesAreWhole ==
    \A i \in 1..Len(journal) :
      /\ DOMAIN journal[i].lines # {}
      /\ journal[i].request = None => i = 1
      /\ journal[i].type = "REVERSAL" <=> journal[i].reversalOf # 0

\* A request that has been carried out is stale for ever.
AppliedIsStale ==
    \A i \in 1..Len(journal) : journal[i].request # None =>
      LET q == request[journal[i].request] IN
      /\ q # None
      /\ DOMAIN q.lines = DOMAIN journal[i].lines
      /\ \E p \in DOMAIN q.lines : balance[p].version > q.lines[p].version

StockInv ==
    /\ StateTyped
    /\ NeverOvercommitted
    /\ RequestsAreWhole
    /\ EntriesAreWhole
    /\ AppliedIsStale
    /\ LedgerChain
    /\ AppliedOnce
    /\ ReversalsNetOut

-----------------------------------------------------------------------------
(* The two kinds of step.                                                  *)

\* Entry e takes back the whole of an adjustment that stands.
TakesBack(e) ==
    /\ e.type = "REVERSAL"
    /\ e.reversalOf \in 1..Len(journal)
    /\ journal[e.reversalOf].type # "REVERSAL"
    /\ ~Reversed(e.reversalOf)
    /\ DOMAIN e.lines = DOMAIN journal[e.reversalOf].lines
    /\ \A p \in DOMAIN e.lines :
         /\ e.lines[p].onHand = -journal[e.reversalOf].lines[p].onHand
         /\ e.lines[p].frozen = -journal[e.reversalOf].lines[p].frozen

\* Line l moves the row of p.
MovesRow(p, l) ==
    /\ l.beforeOnHand = balance[p].onHand
    /\ l.beforeFrozen = balance[p].frozen
    /\ balance'[p].onHand = balance[p].onHand + l.onHand
    /\ balance'[p].frozen = balance[p].frozen + l.frozen
    /\ balance'[p].version > balance[p].version

\* Request r, not stale, is carried out by posting adjustment e.
Posts(r, e) ==
    /\ request[r] # None
    /\ ~Stale(r, balance)
    /\ request' = request
    /\ e \in Adjustment
    /\ e.request = r
    /\ DOMAIN e.lines = DOMAIN request[r].lines
    /\ DOMAIN e.lines # {}
    /\ journal' = Append(journal, e)
    /\ \A p \in Positions \ DOMAIN e.lines : balance'[p] = balance[p]
    /\ \A p \in DOMAIN e.lines : MovesRow(p, e.lines[p])
    /\ \/ e.type # "REVERSAL" /\ e.reversalOf = 0
       \/ TakesBack(e)

\* Nothing is posted; a row that changes gets a new version.
Keeps ==
    /\ journal' = journal
    /\ \A p \in Positions :
         /\ balance'[p].onHand = balance[p].onHand
         /\ balance'[p].frozen = balance[p].frozen
         /\ \/ balance'[p] = balance[p]
            \/ balance'[p].version > balance[p].version
    /\ \A r \in Requests : request[r] # None => request'[r] = request[r]

-----------------------------------------------------------------------------
(* Rows and lines.                                                         *)

\* A line a transaction may write leaves a well-formed row that covers what
\* is reserved and frozen of it, under a new version (calculate, persistLine).
LEMMA WrittenIsRow ==
    ASSUME NEW row \in Row, NEW line \in Line, Allowed(row, line)
    PROVE  /\ Written(row, line) \in Row
           /\ Written(row, line).onHand = row.onHand + line.onHand
           /\ Written(row, line).frozen = row.frozen + line.frozen
           /\ Written(row, line).reserved = row.reserved
           /\ Written(row, line).version = row.version + 1
           /\ row.onHand + line.onHand >= row.reserved + row.frozen + line.frozen
BY DEF Written, Allowed, Row, Line

\* A reservation moves the reserved quantity and the version only.
LEMMA ReserveIsRow ==
    ASSUME NEW row \in Row, NEW quantity \in Int
    PROVE  /\ Reserve(row, quantity) \in Row
           /\ Reserve(row, quantity).onHand = row.onHand
           /\ Reserve(row, quantity).frozen = row.frozen
           /\ Reserve(row, quantity).reserved = row.reserved + quantity
           /\ Reserve(row, quantity).version = row.version + 1
BY DEF Reserve, Row

\* What calculate makes of a requested quantity.
LEMMA PostedIsLine ==
    ASSUME NEW type \in OperationTypes, NEW quantity \in Nat, NEW row \in Row
    PROVE  /\ PostedLine(type, quantity, row) \in Line
           /\ PostedLine(type, quantity, row).beforeOnHand = row.onHand
           /\ PostedLine(type, quantity, row).beforeFrozen = row.frozen
           /\ type = "RECEIPT" =>
                /\ PostedLine(type, quantity, row).onHand = quantity
                /\ PostedLine(type, quantity, row).frozen = 0
<1>1. CASE type = "ADJUSTMENT"
  BY <1>1 DEF PostedLine, Line, Row
<1>2. CASE type # "ADJUSTMENT"
  <2>1. /\ OnHandSign[type] \in {-1, 0, 1} /\ FrozenSign[type] \in {-1, 0, 1}
        /\ type = "RECEIPT" => OnHandSign[type] = 1 /\ FrozenSign[type] = 0
    BY <1>2 DEF OperationTypes, OnHandSign, FrozenSign
  <2>2. /\ OnHandSign[type] * quantity \in Int
        /\ FrozenSign[type] * quantity \in Int
        /\ type = "RECEIPT" => /\ OnHandSign[type] * quantity = quantity
                               /\ FrozenSign[type] * quantity = 0
    BY <2>1
  <2> QED
    BY <1>2, <2>2 DEF PostedLine, Line, Row
<1> QED
  BY <1>1, <1>2

\* The line that reverses another one.
LEMMA ReversedIsLine ==
    ASSUME NEW line \in Line, NEW row \in Row
    PROVE  /\ ReversedLine(line, row) \in Line
           /\ ReversedLine(line, row).beforeOnHand = row.onHand
           /\ ReversedLine(line, row).beforeFrozen = row.frozen
           /\ ReversedLine(line, row).onHand = -line.onHand
           /\ ReversedLine(line, row).frozen = -line.frozen
BY DEF ReversedLine, Line, Row

\* Appending an adjustment leaves the earlier ones where they are.
LEMMA JournalGrows ==
    ASSUME journal \in Seq(Adjustment), NEW e \in Adjustment,
           journal' = Append(journal, e)
    PROVE  /\ journal' \in Seq(Adjustment)
           /\ Len(journal) \in Nat
           /\ Len(journal') = Len(journal) + 1
           /\ \A i \in 1..Len(journal) : journal'[i] = journal[i]
           /\ journal'[Len(journal) + 1] = e
BY AppendProperties

\* The shape of a request that is carried out.
LEMMA PendingIsTyped ==
    ASSUME StateTyped, RequestsAreWhole, NEW operations,
           NEW r \in Requests, Pending(r, operations)
    PROVE  /\ request[r] \in Request
           /\ IsWhole(request[r])
           /\ request[r].operation \in operations
           /\ DOMAIN request[r].lines \subseteq Positions
           /\ \A p \in DOMAIN request[r].lines :
                Quantity(r, p) \in Nat /\ request[r].lines[p].version \in Nat
<1>1. request[r] \in Request /\ request[r].operation \in operations
  BY DEF Pending, StateTyped
<1>2. PICK P \in SUBSET Positions : request[r].lines \in [P -> RequestLine]
  BY <1>1 DEF Request, LinesOf
<1>3. \A p \in P : request[r].lines[p] \in RequestLine
  BY <1>2
<1>4. \A p \in P : request[r].lines[p].quantity \in Nat
                /\ request[r].lines[p].version \in Nat
  <2>1. Quantities \cup {0} \subseteq Nat
    BY QuantitiesAssumption
  <2>2. \A l \in RequestLine : l.quantity \in Quantities \cup {0} /\ l.version \in Nat
    BY DEF RequestLine
  <2> QED
    BY <1>3, <2>1, <2>2
<1>5. IsWhole(request[r])
  BY DEF Pending, RequestsAreWhole
<1>6. DOMAIN request[r].lines = P
  BY <1>2
<1> QED
  BY <1>1, <1>4, <1>5, <1>6 DEF Quantity

-----------------------------------------------------------------------------
(* What every posting does to the rows and to the journal.                 *)

\* The rows a posting starts from: those of the table, at most with a changed
\* reservation and a newer version.
RowsRead(rows, P) ==
    \A p \in P : /\ rows[p] \in Row
                 /\ rows[p].onHand = balance[p].onHand
                 /\ rows[p].frozen = balance[p].frozen
                 /\ rows[p].version >= balance[p].version

LinesFit(lines, P) ==
    /\ lines \in [P -> Line]
    /\ \A p \in P : /\ lines[p].beforeOnHand = balance[p].onHand
                    /\ lines[p].beforeFrozen = balance[p].frozen

RowsWritten(lines, P) ==
    /\ balance' \in [Positions -> Row]
    /\ NeverOvercommitted'
    /\ \A p \in Positions \ P : balance'[p] = balance[p]
    /\ \A p \in P : MovesRow(p, lines[p])

Entry(r, type, original, lines) ==
    [request |-> r, type |-> type, reversalOf |-> original, lines |-> lines]

\* Writing allowed lines keeps every row of the table covered.
LEMMA WriteLinesWrites ==
    ASSUME StateTyped, NeverOvercommitted, NEW P \in SUBSET Positions,
           NEW rows, NEW lines, RowsRead(rows, P), LinesFit(lines, P),
           \A p \in P : Allowed(rows[p], lines[p]), WriteLines(rows, lines)
    PROVE  RowsWritten(lines, P)
<1>1. DOMAIN lines = P
  BY DEF LinesFit
<1>2. balance' = [p \in Positions |-> IF p \in P THEN Written(rows[p], lines[p])
                                      ELSE balance[p]]
  BY <1>1 DEF WriteLines
<1>3. ASSUME NEW p \in P
      PROVE  /\ balance'[p] \in Row
             /\ MovesRow(p, lines[p])
             /\ balance'[p].onHand >= balance'[p].reserved + balance'[p].frozen
  <2>1. /\ rows[p] \in Row /\ lines[p] \in Line /\ Allowed(rows[p], lines[p])
        /\ balance'[p] = Written(rows[p], lines[p])
        /\ balance[p] \in Row
    BY <1>2 DEF RowsRead, LinesFit, StateTyped
  <2>2. /\ balance'[p] \in Row
        /\ balance'[p].onHand = rows[p].onHand + lines[p].onHand
        /\ balance'[p].frozen = rows[p].frozen + lines[p].frozen
        /\ balance'[p].reserved = rows[p].reserved
        /\ balance'[p].version = rows[p].version + 1
        /\ rows[p].onHand + lines[p].onHand
             >= rows[p].reserved + rows[p].frozen + lines[p].frozen
    BY <2>1, WrittenIsRow
  <2> QED
    BY <2>1, <2>2 DEF MovesRow, RowsRead, LinesFit, Row, Line
<1>4. \A p \in Positions \ P : balance'[p] = balance[p]
  BY <1>2
<1>5. balance' \in [Positions -> Row]
  BY <1>2, <1>3, <1>4 DEF StateTyped
<1>6. NeverOvercommitted'
  BY <1>3, <1>4 DEF NeverOvercommitted
<1> QED
  BY <1>3, <1>4, <1>5, <1>6 DEF RowsWritten

\* The adjustment, its lines and the key are written for the request.
LEMMA RecordPosts ==
    ASSUME StateTyped, NEW r \in Requests, NEW P \in SUBSET Positions,
           NEW type \in OperationTypes \cup {"REVERSAL"}, NEW original \in Nat,
           NEW rows, NEW lines, LinesFit(lines, P), RowsWritten(lines, P),
           request[r] # None, ~Stale(r, balance), P = DOMAIN request[r].lines,
           P # {}, Record(r, type, original, rows, lines),
           \/ type # "REVERSAL" /\ original = 0
           \/ TakesBack(Entry(r, type, original, lines))
    PROVE  /\ Posts(r, Entry(r, type, original, lines))
           /\ journal' \in Seq(Adjustment)
           /\ keys' \subseteq Requests
           /\ request' = request
<1> DEFINE e == Entry(r, type, original, lines)
<1>1. e \in Adjustment
  BY DEF Entry, Adjustment, LinesFit, LinesOf
<1>2. /\ journal' = Append(journal, e)
      /\ keys' = keys \cup {r}
      /\ request' = request
  BY DEF Record, Entry
<1>3. DOMAIN e.lines = P /\ e.lines = lines /\ e.request = r
      /\ e.type = type /\ e.reversalOf = original
  BY DEF Entry, LinesFit
<1>4. journal' \in Seq(Adjustment)
  BY <1>1, <1>2, JournalGrows DEF StateTyped
<1>5. Posts(r, e)
  <2> HIDE DEF e
  <2> QED BY <1>1, <1>2, <1>3 DEF Posts, RowsWritten, e
<1> QED
  BY <1>2, <1>4, <1>5 DEF StateTyped

-----------------------------------------------------------------------------
(* The actions, one by one.                                                *)

\* The rows of the table are what a transaction without reservations starts
\* from.
LEMMA TableIsRead ==
    ASSUME StateTyped, NEW P \in SUBSET Positions
    PROVE  RowsRead(balance, P)
BY DEF StateTyped, RowsRead, Row

\* The lines calculate makes for a request.
LEMMA PostedLinesFit ==
    ASSUME NEW r \in Requests, NEW type \in OperationTypes, NEW rows,
           NEW P \in SUBSET Positions, RowsRead(rows, P),
           \A p \in P : Quantity(r, p) \in Nat
    PROVE  LinesFit([p \in P |-> PostedLine(type, Quantity(r, p), rows[p])], P)
<1>1. ASSUME NEW p \in P
      PROVE  /\ PostedLine(type, Quantity(r, p), rows[p]) \in Line
             /\ PostedLine(type, Quantity(r, p), rows[p]).beforeOnHand
                  = balance[p].onHand
             /\ PostedLine(type, Quantity(r, p), rows[p]).beforeFrozen
                  = balance[p].frozen
  BY PostedIsLine DEF RowsRead
<1> QED
  BY <1>1 DEF LinesFit

\* A posting of stock by hand or by another service (post).
LEMMA PostStep ==
    ASSUME StateTyped, NeverOvercommitted, RequestsAreWhole,
           NEW r \in Requests, Post(r, balance)
    PROVE  StateTyped' /\ NeverOvercommitted' /\ \E e : Posts(r, e)
<1> DEFINE P == DOMAIN request[r].lines
           type == request[r].operation
           lines == [p \in P |-> PostedLine(type, Quantity(r, p), balance[p])]
<1>1. /\ P \in SUBSET Positions /\ P # {}
      /\ type \in OperationTypes
      /\ \A p \in P : Quantity(r, p) \in Nat
  <2>1. Pending(r, OperationTypes)
    BY DEF Post
  <2>2. "RELEASE" \notin OperationTypes /\ "CANCEL" \notin OperationTypes
    BY DEF OperationTypes, OnHandSign
  <2> QED
    BY <2>1, <2>2, PendingIsTyped DEF IsWhole
<1>2. /\ request[r] # None /\ ~Stale(r, balance)
      /\ Record(r, type, 0, balance, lines)
      /\ WriteLines(balance, lines)
      /\ UNCHANGED <<order, hold, work>>
  BY DEF Post, Pending
<1>3. RowsRead(balance, P)
  BY <1>1, TableIsRead
<1>4. LinesFit(lines, P)
  BY <1>1, <1>3, PostedLinesFit
<1> HIDE DEF lines
<1>5. RowsWritten(lines, P)
  <2>1. \A p \in P : Allowed(balance[p], lines[p])
    BY <1>2, <1>4 DEF Record, LinesFit
  <2> QED
    BY <1>1, <1>2, <1>3, <1>4, <2>1, WriteLinesWrites
<1>6. type # "REVERSAL"
  BY <1>1 DEF OperationTypes, OnHandSign
<1> HIDE DEF type
<1>7. /\ Posts(r, Entry(r, type, 0, lines))
      /\ journal' \in Seq(Adjustment) /\ keys' \subseteq Requests
      /\ request' = request
  BY <1>1, <1>2, <1>4, <1>5, <1>6, RecordPosts
<1> QED
  BY <1>2, <1>5, <1>7 DEF StateTyped, RowsWritten

\* The reversal of adjustment i, alone or as part of a reversed completion
\* (reverseParsedInTransaction).
LEMMA ReverseAdjustmentPosts ==
    ASSUME StateTyped, NeverOvercommitted, NEW r \in Requests,
           NEW i \in 1..Len(journal), request[r] # None, ~Stale(r, balance),
           DOMAIN request[r].lines = DOMAIN journal[i].lines,
           DOMAIN request[r].lines # {}, ReverseAdjustment(r, i, balance)
    PROVE  /\ balance' \in [Positions -> Row] /\ NeverOvercommitted'
           /\ journal' \in Seq(Adjustment) /\ keys' \subseteq Requests
           /\ request' = request
           /\ \E e : Posts(r, e)
<1> DEFINE P == DOMAIN journal[i].lines
           lines == [p \in P |-> ReversedLine(journal[i].lines[p], balance[p])]
<1>1. PICK Q \in SUBSET Positions : journal[i].lines \in [Q -> Line]
  <2>1. journal[i] \in Adjustment
    BY ElementOfSeq DEF StateTyped
  <2>2. journal[i].lines \in LinesOf(Line)
    BY <2>1 DEF Adjustment
  <2> QED
    BY <2>2 DEF LinesOf
<1>2. P \in SUBSET Positions /\ \A p \in P : journal[i].lines[p] \in Line
  BY <1>1
<1>3. RowsRead(balance, P)
  BY <1>2, TableIsRead
<1>4. ASSUME NEW p \in P
      PROVE  /\ lines[p] \in Line
             /\ lines[p].beforeOnHand = balance[p].onHand
             /\ lines[p].beforeFrozen = balance[p].frozen
             /\ lines[p].onHand = -journal[i].lines[p].onHand
             /\ lines[p].frozen = -journal[i].lines[p].frozen
  BY <1>2, <1>3, ReversedIsLine DEF RowsRead
<1>5. LinesFit(lines, P)
  BY <1>4 DEF LinesFit
<1>6. /\ journal[i].type # "REVERSAL" /\ ~Reversed(i)
      /\ Record(r, "REVERSAL", i, balance, lines)
      /\ WriteLines(balance, lines)
  BY DEF ReverseAdjustment
<1>7. DOMAIN lines = P
  OBVIOUS
<1> HIDE DEF lines
<1>8. RowsWritten(lines, P)
  <2>1. \A p \in P : Allowed(balance[p], lines[p])
    BY <1>6, <1>7 DEF Record
  <2> QED
    BY <1>2, <1>3, <1>5, <1>6, <2>1, WriteLinesWrites
<1>9. TakesBack(Entry(r, "REVERSAL", i, lines))
  BY <1>4, <1>6, <1>7 DEF TakesBack, Entry
<1>10. i \in Nat
  BY JournalGrows DEF StateTyped
<1>11. /\ Posts(r, Entry(r, "REVERSAL", i, lines))
       /\ journal' \in Seq(Adjustment) /\ keys' \subseteq Requests
       /\ request' = request
  BY <1>2, <1>5, <1>6, <1>8, <1>9, <1>10, RecordPosts
<1> QED
  BY <1>8, <1>11 DEF RowsWritten

\* The general reversal (reverse).
LEMMA ReverseStep ==
    ASSUME StateTyped, NeverOvercommitted, RequestsAreWhole,
           NEW r \in Requests, Reverse(r, balance)
    PROVE  StateTyped' /\ NeverOvercommitted' /\ \E e : Posts(r, e)
<1>1. Pending(r, {"REVERSAL"})
  BY DEF Reverse
<1>2. /\ request[r].reversalOf \in 1..Len(journal)
      /\ DOMAIN request[r].lines = DOMAIN journal[request[r].reversalOf].lines
      /\ DOMAIN request[r].lines # {}
  BY <1>1, PendingIsTyped DEF IsWhole
<1>3. /\ request[r] # None /\ ~Stale(r, balance)
      /\ ReverseAdjustment(r, request[r].reversalOf, balance)
      /\ UNCHANGED <<order, hold, work>>
  BY DEF Reverse, Pending
<1> QED
  BY <1>2, <1>3, ReverseAdjustmentPosts DEF StateTyped

\* Drawing from a reservation or giving back to it keeps its shape.
LEMMA DrawIsHold ==
    ASSUME StateTyped, NEW w \in Orders, NEW p \in Positions,
           NEW quantity \in Int
    PROVE  Draw(w, p, quantity) \in Hold
BY DEF StateTyped, Draw, Hold

\* The requests of a work order's material and completion operations.
LEMMA OrderRequestIsTyped ==
    ASSUME StateTyped, RequestsAreWhole, NEW r \in Requests,
           NEW operation \in {"ISSUE_MATERIALS", "RETURN_MATERIALS",
                              "COMPLETE", "REVERSE_COMPLETION"},
           Pending(r, {operation})
    PROVE  /\ request[r].order \in Orders
           /\ DOMAIN request[r].lines \in SUBSET Positions
           /\ DOMAIN request[r].lines # {}
           /\ \A p \in DOMAIN request[r].lines : Quantity(r, p) \in Nat
           /\ operation \in {"COMPLETE", "REVERSE_COMPLETION"} =>
                DOMAIN request[r].lines = {Finished[request[r].order]}
           /\ operation = "REVERSE_COMPLETION" =>
                /\ request[r].reversalOf \in 1..Len(journal)
                /\ DOMAIN request[r].lines
                     = DOMAIN journal[request[r].reversalOf].lines
<1>1. request[r].operation = operation /\ IsWhole(request[r])
  BY PendingIsTyped
<1>2. /\ operation \in OrderOperations
      /\ operation \notin {"RELEASE", "CANCEL"}
  BY DEF OrderOperations
<1>3. /\ DOMAIN request[r].lines \in SUBSET Positions
      /\ \A p \in DOMAIN request[r].lines : Quantity(r, p) \in Nat
  BY PendingIsTyped
<1> QED
  BY <1>1, <1>2, <1>3 DEF IsWhole

\* An issue of materials: out of the reservation and out of the stock.
LEMMA IssueStep ==
    ASSUME StateTyped, NeverOvercommitted, RequestsAreWhole,
           NEW r \in Requests, IssueMaterials(r, balance)
    PROVE  StateTyped' /\ NeverOvercommitted' /\ \E e : Posts(r, e)
<1> DEFINE w == request[r].order
           P == DOMAIN request[r].lines
           consumed == [p \in P |-> Reserve(balance[p], -Quantity(r, p))]
           lines == [p \in P |-> PostedLine("ISSUE", Quantity(r, p), consumed[p])]
<1>1. /\ w \in Orders /\ P \in SUBSET Positions /\ P # {}
      /\ \A p \in P : Quantity(r, p) \in Nat
  BY OrderRequestIsTyped DEF IssueMaterials
<1>2. /\ request[r] # None /\ ~Stale(r, balance)
      /\ Record(r, "ISSUE", 0, consumed, lines)
      /\ WriteLines(consumed, lines)
      /\ UNCHANGED work
  BY DEF IssueMaterials, Pending
<1>3. /\ hold' = [hold EXCEPT ![w] = [p \in Positions |->
                    IF p \in P THEN Draw(w, p, Quantity(r, p)) ELSE hold[w][p]]]
      /\ order' = [order EXCEPT ![w] = "IN_PROGRESS"]
  BY DEF IssueMaterials
<1>4. RowsRead(consumed, P)
  <2>1. ASSUME NEW p \in P
        PROVE  /\ consumed[p] \in Row
               /\ consumed[p].onHand = balance[p].onHand
               /\ consumed[p].frozen = balance[p].frozen
               /\ consumed[p].version >= balance[p].version
    <3>1. balance[p] \in Row /\ Quantity(r, p) \in Nat
      BY <1>1 DEF StateTyped
    <3>2. PICK taken \in Int : taken = -Quantity(r, p)
      BY <3>1
    <3>3. consumed[p] = Reserve(balance[p], taken)
      BY <3>2
    <3> HIDE DEF consumed
    <3>4. PICK row \in Row : row = balance[p]
      BY <3>1
    <3>5. /\ Reserve(row, taken) \in Row
          /\ Reserve(row, taken).onHand = row.onHand
          /\ Reserve(row, taken).frozen = row.frozen
          /\ Reserve(row, taken).version = row.version + 1
      BY <3>2, ReserveIsRow
    <3>6. consumed[p] = Reserve(row, taken)
      BY <3>3, <3>4
    <3> QED
      BY <3>4, <3>5, <3>6 DEF Row
  <2> QED
    BY <2>1 DEF RowsRead
<1>5. "ISSUE" \in OperationTypes
  BY DEF OperationTypes, OnHandSign
<1> HIDE DEF consumed
<1>6. LinesFit(lines, P)
  BY <1>1, <1>4, <1>5, PostedLinesFit
<1>7. DOMAIN lines = P
  OBVIOUS
<1> HIDE DEF lines
<1>8. RowsWritten(lines, P)
  <2>1. \A p \in P : Allowed(consumed[p], lines[p])
    BY <1>2, <1>7 DEF Record
  <2> QED
    BY <1>1, <1>2, <1>4, <1>6, <2>1, WriteLinesWrites
<1>9. /\ Posts(r, Entry(r, "ISSUE", 0, lines))
      /\ journal' \in Seq(Adjustment) /\ keys' \subseteq Requests
      /\ request' = request
  BY <1>1, <1>2, <1>5, <1>6, <1>8, RecordPosts
<1>10. hold' \in [Orders -> [Positions -> Hold]]
  BY <1>1, <1>3, DrawIsHold DEF StateTyped
<1>11. order' \in [Orders -> OrderStatus]
  BY <1>3 DEF StateTyped, OrderStatus
<1> QED
  BY <1>2, <1>8, <1>9, <1>10, <1>11 DEF StateTyped, RowsWritten

\* A return of materials: what comes back into stock is reserved again, so
\* nobody else can take it.
LEMMA ReturnStep ==
    ASSUME StateTyped, NeverOvercommitted, RequestsAreWhole,
           NEW r \in Requests, ReturnMaterials(r, balance)
    PROVE  StateTyped' /\ NeverOvercommitted' /\ \E e : Posts(r, e)
<1> DEFINE w == request[r].order
           P == DOMAIN request[r].lines
           lines == [p \in P |-> PostedLine("RECEIPT", Quantity(r, p), balance[p])]
<1>1. /\ w \in Orders /\ P \in SUBSET Positions /\ P # {}
      /\ \A p \in P : Quantity(r, p) \in Nat
  BY OrderRequestIsTyped DEF ReturnMaterials
<1>2. /\ request[r] # None /\ ~Stale(r, balance)
      /\ Record(r, "RECEIPT", 0, balance, lines)
      /\ UNCHANGED <<order, work>>
  BY DEF ReturnMaterials, Pending
<1>3. /\ balance' = [p \in Positions |->
                       IF p \in P
                       THEN Reserve(Written(balance[p], lines[p]), Quantity(r, p))
                       ELSE balance[p]]
      /\ hold' = [hold EXCEPT ![w] = [p \in Positions |->
                    IF p \in P THEN Draw(w, p, -Quantity(r, p)) ELSE hold[w][p]]]
  BY DEF ReturnMaterials
<1>4. RowsRead(balance, P)
  BY <1>1, TableIsRead
<1>5. "RECEIPT" \in OperationTypes
  BY DEF OperationTypes, OnHandSign
<1>6. LinesFit(lines, P)
  BY <1>1, <1>4, <1>5, PostedLinesFit
<1>7. \A p \in P : lines[p].onHand = Quantity(r, p) /\ lines[p].frozen = 0
  BY <1>1, <1>4, <1>5, PostedIsLine DEF RowsRead
<1>8. DOMAIN lines = P
  OBVIOUS
<1> HIDE DEF lines
<1>9. RowsWritten(lines, P)
  <2>1. ASSUME NEW p \in P
        PROVE  /\ balance'[p] \in Row
               /\ MovesRow(p, lines[p])
               /\ balance'[p].onHand >= balance'[p].reserved + balance'[p].frozen
    <3> DEFINE row == Written(balance[p], lines[p])
    <3>1. /\ balance[p] \in Row /\ lines[p] \in Line
          /\ Allowed(balance[p], lines[p]) /\ Quantity(r, p) \in Nat
      BY <1>1, <1>2, <1>6, <1>8 DEF StateTyped, LinesFit, Record
    <3>2. /\ row \in Row /\ row.onHand = balance[p].onHand + Quantity(r, p)
          /\ row.frozen = balance[p].frozen /\ row.reserved = balance[p].reserved
          /\ row.version = balance[p].version + 1
      BY <1>7, <3>1, WrittenIsRow DEF Row
    <3> HIDE DEF row
    <3>3. balance'[p] = Reserve(row, Quantity(r, p))
      BY <1>1, <1>3 DEF row
    <3>q. Quantity(r, p) \in Int
      BY <3>1
    <3>4. /\ balance'[p] \in Row
          /\ balance'[p].onHand = row.onHand /\ balance'[p].frozen = row.frozen
          /\ balance'[p].reserved = row.reserved + Quantity(r, p)
          /\ balance'[p].version = row.version + 1
      BY <3>2, <3>3, <3>q, ReserveIsRow
    <3>5. balance[p].onHand >= balance[p].reserved + balance[p].frozen
      BY <1>1 DEF NeverOvercommitted
    <3> QED
      BY <1>6, <1>7, <3>1, <3>2, <3>4, <3>5 DEF MovesRow, LinesFit, Row
  <2>2. \A p \in Positions \ P : balance'[p] = balance[p]
    BY <1>3
  <2>3. balance' \in [Positions -> Row]
    BY <1>3, <2>1, <2>2 DEF StateTyped
  <2>4. NeverOvercommitted'
    BY <2>1, <2>2 DEF NeverOvercommitted
  <2> QED
    BY <2>1, <2>2, <2>3, <2>4 DEF RowsWritten
<1>10. /\ Posts(r, Entry(r, "RECEIPT", 0, lines))
       /\ journal' \in Seq(Adjustment) /\ keys' \subseteq Requests
       /\ request' = request
  BY <1>1, <1>2, <1>5, <1>6, <1>9, RecordPosts
<1>11. hold' \in [Orders -> [Positions -> Hold]]
  BY <1>1, <1>3, DrawIsHold DEF StateTyped
<1> QED
  BY <1>2, <1>9, <1>10, <1>11 DEF StateTyped, RowsWritten

\* A completion: its one line is the receipt of the product.
LEMMA CompleteStep ==
    ASSUME StateTyped, NeverOvercommitted, RequestsAreWhole,
           NEW r \in Requests, Complete(r, balance)
    PROVE  StateTyped' /\ NeverOvercommitted' /\ \E e : Posts(r, e)
<1> DEFINE w == request[r].order
           P == DOMAIN request[r].lines
           lines == [p \in P |-> PostedLine("RECEIPT", Quantity(r, p), balance[p])]
           total == work[w].completed + Quantity(r, Finished[w])
<1>1. /\ w \in Orders /\ P \in SUBSET Positions /\ P # {}
      /\ \A p \in P : Quantity(r, p) \in Nat
      /\ P = {Finished[w]}
  BY OrderRequestIsTyped DEF Complete
<1>2. /\ request[r] # None /\ ~Stale(r, balance)
      /\ Record(r, "RECEIPT", 0, balance, lines)
      /\ WriteLines(balance, lines)
      /\ UNCHANGED hold
  BY DEF Complete, Pending
<1>3. /\ work' = [work EXCEPT ![w] = [dispatched |-> work[w].dispatched,
                                      completed |-> total]]
      /\ order' = [order EXCEPT ![w] =
                      IF total = Planned[w] THEN "COMPLETED" ELSE "IN_PROGRESS"]
  BY DEF Complete
<1>4. RowsRead(balance, P)
  BY <1>1, TableIsRead
<1>5. "RECEIPT" \in OperationTypes
  BY DEF OperationTypes, OnHandSign
<1>6. LinesFit(lines, P)
  BY <1>1, <1>4, <1>5, PostedLinesFit
<1>7. DOMAIN lines = P
  OBVIOUS
<1> HIDE DEF lines
<1>8. RowsWritten(lines, P)
  <2>1. \A p \in P : Allowed(balance[p], lines[p])
    BY <1>2, <1>7 DEF Record
  <2> QED
    BY <1>1, <1>2, <1>4, <1>6, <2>1, WriteLinesWrites
<1>9. /\ Posts(r, Entry(r, "RECEIPT", 0, lines))
      /\ journal' \in Seq(Adjustment) /\ keys' \subseteq Requests
      /\ request' = request
  BY <1>1, <1>2, <1>5, <1>6, <1>8, RecordPosts
<1>10. total \in Nat
  <2>1. Quantity(r, Finished[w]) \in Nat /\ work[w] \in Progress
    BY <1>1 DEF StateTyped
  <2> QED
    BY <2>1 DEF Progress
<1>11. work' \in [Orders -> Progress]
  BY <1>1, <1>3, <1>10 DEF StateTyped, Progress
<1>12. order' \in [Orders -> OrderStatus]
  BY <1>3 DEF StateTyped, OrderStatus
<1> QED
  BY <1>2, <1>8, <1>9, <1>11, <1>12 DEF StateTyped, RowsWritten

\* A completion taken back.
LEMMA ReverseCompletionStep ==
    ASSUME StateTyped, NeverOvercommitted, RequestsAreWhole,
           NEW r \in Requests, ReverseCompletion(r, balance)
    PROVE  StateTyped' /\ NeverOvercommitted' /\ \E e : Posts(r, e)
<1> DEFINE w == request[r].order
           i == request[r].reversalOf
<1>1. Pending(r, {"REVERSE_COMPLETION"})
  BY DEF ReverseCompletion
<1>2. /\ w \in Orders /\ i \in 1..Len(journal)
      /\ DOMAIN request[r].lines = DOMAIN journal[i].lines
      /\ DOMAIN request[r].lines = {Finished[w]}
      /\ DOMAIN request[r].lines # {}
  BY <1>1, OrderRequestIsTyped
<1>3. /\ request[r] # None /\ ~Stale(r, balance)
      /\ ReverseAdjustment(r, i, balance)
      /\ UNCHANGED hold
  BY <1>1 DEF ReverseCompletion, Pending
<1>4. /\ work[w].completed >= journal[i].lines[Finished[w]].onHand
      /\ work' = [work EXCEPT ![w] = [dispatched |-> work[w].dispatched,
                                      completed |-> CompletedWithout(w, i)]]
      /\ order' = [order EXCEPT ![w] = "IN_PROGRESS"]
  BY DEF ReverseCompletion
<1>5. CompletedWithout(w, i) \in Nat /\ work[w].dispatched \in Nat
  <2>1. journal[i] \in Adjustment
    BY <1>2, ElementOfSeq DEF StateTyped
  <2>2. PICK Q \in SUBSET Positions : journal[i].lines \in [Q -> Line]
    BY <2>1 DEF Adjustment, LinesOf
  <2>3. journal[i].lines[Finished[w]] \in Line
    BY <1>2, <2>2
  <2>4. work[w] \in Progress
    BY <1>2 DEF StateTyped
  <2>5. PICK a, n : a = journal[i].lines[Finished[w]].onHand /\ n = work[w].completed
    OBVIOUS
  <2>6. a \in Int /\ n \in Nat /\ work[w].dispatched \in Nat
    BY <2>3, <2>4, <2>5 DEF Line, Progress
  <2>7. n >= a /\ CompletedWithout(w, i) = n - a
    BY <1>4, <2>5 DEF CompletedWithout
  <2> QED
    BY <2>6, <2>7
<1>6. work' \in [Orders -> Progress]
  <2>1. PICK row : row = [dispatched |-> work[w].dispatched,
                          completed |-> CompletedWithout(w, i)]
    OBVIOUS
  <2>2. row \in Progress
    BY <1>5, <2>1 DEF Progress
  <2>3. work' = [work EXCEPT ![w] = row]
    BY <1>4, <2>1
  <2> QED  BY <2>2, <2>3 DEF StateTyped
<1>7. order' \in [Orders -> OrderStatus]
  BY <1>4 DEF StateTyped, OrderStatus
<1>8. /\ balance' \in [Positions -> Row] /\ NeverOvercommitted'
      /\ journal' \in Seq(Adjustment) /\ keys' \subseteq Requests
      /\ request' = request
      /\ \E e : Posts(r, e)
  <2> HIDE DEF i
  <2> QED BY <1>2, <1>3, ReverseAdjustmentPosts
<1> QED
  BY <1>3, <1>6, <1>7, <1>8 DEF StateTyped

\* A release reserves what is free of every material the order needs.
LEMMA ReleaseStep ==
    ASSUME StateTyped, NeverOvercommitted, RequestsAreWhole,
           NEW r \in Requests, ReleaseOrder(r, balance)
    PROVE  StateTyped' /\ NeverOvercommitted' /\ Keeps /\ request' = request
<1> DEFINE w == request[r].order
<1>1. w \in Orders
  <2>1. Pending(r, {"RELEASE"})
    BY DEF ReleaseOrder
  <2> QED
    BY <2>1, PendingIsTyped DEF IsWhole, OrderOperations
<1>2. \A p \in Positions : Required[w][p] \in Nat
  BY <1>1, RequiredAssumption
<1>3. /\ \A p \in Needed(w) : Free(balance[p]) >= Required[w][p]
      /\ balance' = [p \in Positions |->
                       IF p \in Needed(w) THEN Reserve(balance[p], Required[w][p])
                       ELSE balance[p]]
      /\ hold' = [hold EXCEPT ![w] = [p \in Positions |->
                    [reserved |-> Required[w][p], issued |-> 0, released |-> 0]]]
      /\ RecordOrder(r, "RELEASED")
  BY DEF ReleaseOrder
<1>4. /\ journal' = journal /\ request' = request /\ work' = work
      /\ keys' = keys \cup {r}
      /\ order' = [order EXCEPT ![w] = "RELEASED"]
  BY <1>3 DEF RecordOrder
<1>5. ASSUME NEW p \in Positions
      PROVE  /\ balance'[p] \in Row
             /\ balance'[p].onHand = balance[p].onHand
             /\ balance'[p].frozen = balance[p].frozen
             /\ balance'[p] = balance[p] \/ balance'[p].version > balance[p].version
             /\ balance'[p].onHand >= balance'[p].reserved + balance'[p].frozen
  <2>1. PICK row \in Row : row = balance[p]
    BY DEF StateTyped
  <2>2. row.onHand >= row.reserved + row.frozen
    BY <2>1 DEF NeverOvercommitted
  <2>3. CASE p \in Needed(w)
    <3>1. PICK quantity \in Int : quantity = Required[w][p]
      BY <1>2
    <3>2. balance'[p] = Reserve(row, quantity) /\ Free(row) >= quantity
      BY <1>3, <2>1, <2>3, <3>1
    <3>3. /\ Reserve(row, quantity) \in Row
          /\ Reserve(row, quantity).onHand = row.onHand
          /\ Reserve(row, quantity).frozen = row.frozen
          /\ Reserve(row, quantity).reserved = row.reserved + quantity
          /\ Reserve(row, quantity).version = row.version + 1
      BY ReserveIsRow
    <3> QED
      BY <2>1, <2>2, <3>2, <3>3 DEF Free, Row
  <2>4. CASE p \notin Needed(w)
    BY <1>3, <2>1, <2>2, <2>4
  <2> QED
    BY <2>3, <2>4
<1>6. balance' \in [Positions -> Row]
  BY <1>3, <1>5
<1>7. hold' \in [Orders -> [Positions -> Hold]]
  <2>1. \A p \in Positions :
          [reserved |-> Required[w][p], issued |-> 0, released |-> 0] \in Hold
    BY <1>2 DEF Hold
  <2> QED
    BY <1>3, <2>1 DEF StateTyped
<1>8. order' \in [Orders -> OrderStatus]
  BY <1>4 DEF StateTyped, OrderStatus
<1>9. StateTyped'
  BY <1>4, <1>6, <1>7, <1>8 DEF StateTyped
<1>10. NeverOvercommitted'
  BY <1>5 DEF NeverOvercommitted
<1>11. Keeps
  BY <1>4, <1>5 DEF Keeps
<1> QED
  BY <1>4, <1>9, <1>10, <1>11

\* A cancellation gives back what the order still holds.
LEMMA CancelStep ==
    ASSUME StateTyped, NeverOvercommitted, RequestsAreWhole,
           NEW r \in Requests, CancelOrder(r, balance)
    PROVE  StateTyped' /\ NeverOvercommitted' /\ Keeps /\ request' = request
<1> DEFINE w == request[r].order
<1>1. w \in Orders
  <2>1. Pending(r, {"CANCEL"})
    BY DEF CancelOrder
  <2> QED
    BY <2>1, PendingIsTyped DEF IsWhole, OrderOperations
<1>2. \A p \in Positions : hold[w][p] \in Hold
  BY <1>1 DEF StateTyped
<1>3. \A p \in Positions : Owed(w, p) \in Int
  BY <1>2 DEF Owed, Hold
<1>4. /\ balance' = [p \in Positions |->
                       IF Owed(w, p) > 0 THEN Reserve(balance[p], -Owed(w, p))
                       ELSE balance[p]]
      /\ hold' = [hold EXCEPT ![w] = [p \in Positions |->
                    [reserved |-> hold[w][p].reserved, issued |-> hold[w][p].issued,
                     released |-> hold[w][p].released + Owed(w, p)]]]
      /\ RecordOrder(r, "CANCELLED")
  BY DEF CancelOrder
<1>5. /\ journal' = journal /\ request' = request /\ work' = work
      /\ keys' = keys \cup {r}
      /\ order' = [order EXCEPT ![w] = "CANCELLED"]
  BY <1>4 DEF RecordOrder
<1>6. ASSUME NEW p \in Positions
      PROVE  /\ balance'[p] \in Row
             /\ balance'[p].onHand = balance[p].onHand
             /\ balance'[p].frozen = balance[p].frozen
             /\ balance'[p] = balance[p] \/ balance'[p].version > balance[p].version
             /\ balance'[p].onHand >= balance'[p].reserved + balance'[p].frozen
  <2>1. PICK row \in Row : row = balance[p]
    BY DEF StateTyped
  <2>2. row.onHand >= row.reserved + row.frozen
    BY <2>1 DEF NeverOvercommitted
  <2>3. CASE Owed(w, p) > 0
    <3>1. PICK quantity \in Int : quantity = -Owed(w, p)
      BY <1>3
    <3>2. balance'[p] = Reserve(row, quantity) /\ quantity < 0
      BY <1>3, <1>4, <2>1, <2>3, <3>1
    <3>3. /\ Reserve(row, quantity) \in Row
          /\ Reserve(row, quantity).onHand = row.onHand
          /\ Reserve(row, quantity).frozen = row.frozen
          /\ Reserve(row, quantity).reserved = row.reserved + quantity
          /\ Reserve(row, quantity).version = row.version + 1
      BY ReserveIsRow
    <3> QED
      BY <2>1, <2>2, <3>2, <3>3 DEF Row
  <2>4. CASE ~(Owed(w, p) > 0)
    BY <1>4, <2>1, <2>2, <2>4
  <2> QED
    BY <2>3, <2>4
<1>7. balance' \in [Positions -> Row]
  BY <1>4, <1>6
<1>8. \A p \in Positions :
        [reserved |-> hold[w][p].reserved, issued |-> hold[w][p].issued,
         released |-> hold[w][p].released + Owed(w, p)] \in Hold
  BY <1>2, <1>3 DEF Hold
<1>9. hold' \in [Orders -> [Positions -> Hold]]
  BY <1>4, <1>8 DEF StateTyped
<1>10. order' \in [Orders -> OrderStatus]
  BY <1>5 DEF StateTyped, OrderStatus
<1>11. StateTyped'
  BY <1>5, <1>7, <1>9, <1>10 DEF StateTyped
<1>12. NeverOvercommitted'
  BY <1>6 DEF NeverOvercommitted
<1>13. Keeps
  BY <1>5, <1>6 DEF Keeps
<1> QED
  BY <1>5, <1>11, <1>12, <1>13

\* Work on the first operation, and closing an order, touch no stock.
LEMMA WorkStep ==
    ASSUME StateTyped, NeverOvercommitted, NEW w \in Orders, Work(w)
    PROVE  StateTyped' /\ NeverOvercommitted' /\ Keeps /\ request' = request
<1> USE DEF Keeps, NeverOvercommitted
<1>1. ASSUME NEW total \in Nat,
             work' = [work EXCEPT ![w] = [dispatched |-> total,
                                          completed |-> work[w].completed]],
             UNCHANGED <<balance, journal, keys, request, order, hold>>
      PROVE  StateTyped' /\ NeverOvercommitted' /\ Keeps /\ request' = request
  <2>1. work' \in [Orders -> Progress]
    BY <1>1 DEF StateTyped, Progress
  <2>2. StateTyped'
    BY <1>1, <2>1 DEF StateTyped
  <2> QED
    BY <1>1, <2>2
<1>2. work[w].dispatched \in Nat /\ work[w].completed \in Nat
  BY DEF StateTyped, Progress
<1>3. ASSUME NEW quantity \in Quantities, Dispatch(w, quantity)
      PROVE  StateTyped' /\ NeverOvercommitted' /\ Keeps /\ request' = request
  <2>1. work[w].dispatched + quantity \in Nat
    BY <1>2, QuantitiesAssumption
  <2> QED
    BY <1>1, <1>3, <2>1 DEF Dispatch
<1>4. ASSUME NEW quantity \in Quantities, TakeBack(w, quantity)
      PROVE  StateTyped' /\ NeverOvercommitted' /\ Keeps /\ request' = request
  <2>1. work[w].dispatched - quantity >= work[w].completed
    BY <1>4 DEF TakeBack
  <2>2. work[w].dispatched - quantity \in Nat
    BY <1>2, <2>1, QuantitiesAssumption
  <2> QED
    BY <1>1, <1>4, <2>2 DEF TakeBack
<1>5. CASE CloseOrder(w)
  <2>1. order' \in [Orders -> OrderStatus]
    BY <1>5 DEF CloseOrder, StateTyped, OrderStatus
  <2>2. StateTyped'
    BY <1>5, <2>1 DEF CloseOrder, StateTyped
  <2> QED
    BY <1>5, <2>2 DEF CloseOrder
<1> QED
  BY <1>3, <1>4, <1>5 DEF Work

\* Forgetting a key changes nothing else.
LEMMA ExpireStep ==
    ASSUME StateTyped, NeverOvercommitted, NEW r \in Requests, ExpireKey(r)
    PROVE  StateTyped' /\ NeverOvercommitted' /\ Keeps /\ request' = request
<1>1. keys' \subseteq Requests
  BY DEF ExpireKey, StateTyped
<1>2. StateTyped'
  BY <1>1 DEF ExpireKey, StateTyped
<1> QED
  BY <1>2 DEF ExpireKey, Keeps, NeverOvercommitted

\* An adjustment of the journal and its lines.
LEMMA EntryIsTyped ==
    ASSUME StateTyped, NEW i \in 1..Len(journal)
    PROVE  /\ journal[i] \in Adjustment
           /\ DOMAIN journal[i].lines \in SUBSET Positions
           /\ \A p \in DOMAIN journal[i].lines : journal[i].lines[p] \in Line
<1>1. journal[i] \in Adjustment
  BY ElementOfSeq DEF StateTyped
<1>2. PICK Q \in SUBSET Positions : journal[i].lines \in [Q -> Line]
  BY <1>1 DEF Adjustment, LinesOf
<1> QED
  BY <1>1, <1>2

\* The lines a client writes from the balances it sees.
LEMMA SeenIsLines ==
    ASSUME StateTyped, NEW P \in SUBSET Positions,
           NEW quantity \in Quantities \cup {0}
    PROVE  Seen(P, quantity) \in LinesOf(RequestLine) /\ DOMAIN Seen(P, quantity) = P
<1>1. \A p \in P : balance[p].version \in Nat
  BY DEF StateTyped, Row
<1>2. \A p \in P :
        [quantity |-> quantity, version |-> balance[p].version] \in RequestLine
  BY <1>1 DEF RequestLine
<1>3. Seen(P, quantity) \in [P -> RequestLine]
  BY <1>2 DEF Seen
<1> QED
  BY <1>3 DEF LinesOf

\* What a client may write is a request with everything its operation needs.
LEMMA WritableIsRequest ==
    ASSUME StateTyped, RequestsAreWhole, EntriesAreWhole, AppliedIsStale,
           NEW new \in Writable
    PROVE  new \in Request /\ IsWhole(new)
<1>1. ASSUME NEW operation \in RequestOperations, NEW w \in Orders \cup {None},
             NEW i \in Nat, NEW P \in SUBSET Positions,
             NEW quantity \in Quantities \cup {0},
             new = [operation |-> operation, order |-> w, reversalOf |-> i,
                    lines |-> Seen(P, quantity)]
      PROVE  new \in Request /\ new.lines \in LinesOf(RequestLine)
               /\ DOMAIN new.lines = P
  <2>1. Seen(P, quantity) \in LinesOf(RequestLine) /\ DOMAIN Seen(P, quantity) = P
    BY SeenIsLines
  <2> QED
    BY <1>1, <2>1 DEF Request
<1>2. CASE new \in StockRequests
  <2>1. PICK type \in OperationTypes, P \in NonEmpty(Positions),
             quantity \in Quantities \cup {0} :
          new = [operation |-> type, order |-> None, reversalOf |-> 0,
                 lines |-> Seen(P, quantity)]
    <3>1. "ADJUSTMENT" \in OperationTypes
      BY DEF OperationTypes
    <3> QED
      BY <1>2, <3>1 DEF StockRequests
  <2>2. P \in SUBSET Positions /\ P # {} /\ type \in RequestOperations
    BY DEF NonEmpty, RequestOperations
  <2>3. new \in Request /\ DOMAIN new.lines = P
    BY <1>1, <2>1, <2>2
  <2>4. /\ new.operation = type
        /\ type \notin OrderOperations /\ type # "REVERSAL"
    BY <2>1 DEF OperationTypes, OnHandSign, OrderOperations
  <2> QED
    BY <2>2, <2>3, <2>4 DEF IsWhole, OrderOperations
<1>3. CASE new \in Reversals
  <2>1. PICK i \in 1..Len(journal) :
          new = [operation |-> "REVERSAL", order |-> None, reversalOf |-> i,
                 lines |-> Seen(DOMAIN journal[i].lines, 0)]
    BY <1>3 DEF Reversals
  <2>2. /\ DOMAIN journal[i].lines \in SUBSET Positions
        /\ DOMAIN journal[i].lines # {}
        /\ i \in Nat
    BY EntryIsTyped DEF EntriesAreWhole, StateTyped
  <2>3. "REVERSAL" \in RequestOperations /\ "REVERSAL" \notin OrderOperations
    BY DEF RequestOperations, OrderOperations
  <2>4. new \in Request /\ DOMAIN new.lines = DOMAIN journal[i].lines
    BY <1>1, <2>1, <2>2, <2>3
  <2> QED
    BY <2>1, <2>2, <2>3, <2>4 DEF IsWhole
<1>4. CASE new \in OrderRequests
  <2>1. CASE \E type \in {"RELEASE", "CANCEL"}, w \in Orders :
               new = [operation |-> type, order |-> w, reversalOf |-> 0,
                      lines |-> Seen({}, 0)]
    <3>1. PICK type \in {"RELEASE", "CANCEL"}, w \in Orders :
            new = [operation |-> type, order |-> w, reversalOf |-> 0,
                   lines |-> Seen({}, 0)]
      BY <2>1
    <3>2. type \in RequestOperations
      BY DEF RequestOperations, OrderOperations
    <3>3. new \in Request
      BY <1>1, <3>1, <3>2
    <3> QED
      BY <3>1, <3>3 DEF IsWhole
  <2>2. CASE \E type \in {"ISSUE_MATERIALS", "RETURN_MATERIALS"}, w \in Orders,
                P \in SUBSET Positions, quantity \in Quantities \cup {0} :
               /\ P # {}
               /\ new = [operation |-> type, order |-> w, reversalOf |-> 0,
                         lines |-> Seen(P, quantity)]
    <3>1. PICK type \in {"ISSUE_MATERIALS", "RETURN_MATERIALS"}, w \in Orders,
               P \in SUBSET Positions, quantity \in Quantities \cup {0} :
            /\ P # {}
            /\ new = [operation |-> type, order |-> w, reversalOf |-> 0,
                      lines |-> Seen(P, quantity)]
      BY <2>2
    <3>2. type \in RequestOperations
      BY DEF RequestOperations, OrderOperations
    <3>3. new \in Request /\ DOMAIN new.lines = P
      BY <1>1, <3>1, <3>2
    <3> QED
      BY <3>1, <3>3 DEF IsWhole
  <2>3. \A w \in Orders : NonEmpty(Needed(w)) \subseteq NonEmpty(Positions)
    BY DEF NonEmpty, Needed
  <2> QED
    BY <1>4, <2>1, <2>2, <2>3 DEF OrderRequests, NonEmpty
<1>5. CASE new \in CompletionRequests
  <2>1. PICK w \in Orders, quantity \in Quantities \cup {0} :
          new = [operation |-> "COMPLETE", order |-> w, reversalOf |-> 0,
                 lines |-> Seen({Finished[w]}, quantity)]
    BY <1>5 DEF CompletionRequests
  <2>2. {Finished[w]} \in SUBSET Positions
    BY FinishedAssumption
  <2>3. "COMPLETE" \in RequestOperations
    BY DEF RequestOperations, OrderOperations
  <2>4. new \in Request /\ DOMAIN new.lines = {Finished[w]}
    BY <1>1, <2>1, <2>2, <2>3
  <2> QED
    BY <2>1, <2>4 DEF IsWhole
<1>6. CASE new \in CompletionReversals
  <2>1. PICK w \in Orders, i \in 1..Len(journal) :
          /\ Completes(w, i)
          /\ new = [operation |-> "REVERSE_COMPLETION", order |-> w,
                    reversalOf |-> i, lines |-> Seen({Finished[w]}, 0)]
    BY <1>6 DEF CompletionReversals
  <2>2. {Finished[w]} \in SUBSET Positions /\ i \in Nat
    BY FinishedAssumption DEF StateTyped
  <2>3. "REVERSE_COMPLETION" \in RequestOperations
    BY DEF RequestOperations, OrderOperations
  <2>4. new \in Request /\ DOMAIN new.lines = {Finished[w]}
    BY <1>1, <2>1, <2>2, <2>3
  <2>5. DOMAIN journal[i].lines = {Finished[w]}
    <3> DEFINE a == journal[i].request
    <3>1. a # None /\ request[a].operation = "COMPLETE" /\ request[a].order = w
      BY <2>1 DEF Completes
    <3>2. a \in Requests
      BY <3>1, EntryIsTyped DEF Adjustment
    <3>3. request[a] # None /\ DOMAIN request[a].lines = DOMAIN journal[i].lines
      BY <3>1 DEF AppliedIsStale
    <3> QED
      BY <3>1, <3>2, <3>3 DEF RequestsAreWhole, IsWhole
  <2> QED
    BY <2>1, <2>4, <2>5 DEF IsWhole
<1> QED
  BY <1>2, <1>3, <1>4, <1>5, <1>6 DEF Writable

\* A client writes its request: nothing in the database moves.
LEMMA WriteStep ==
    ASSUME StateTyped, NeverOvercommitted, RequestsAreWhole, EntriesAreWhole,
           AppliedIsStale, NEW r \in Requests, Write(r)
    PROVE  StateTyped' /\ NeverOvercommitted' /\ Keeps /\ RequestsAreWhole'
<1>1. PICK new \in Writable : request' = [request EXCEPT ![r] = new]
  BY DEF Write
<1>2. new \in Request /\ IsWhole(new)
  BY WritableIsRequest
<1>3. request[r] = None /\ UNCHANGED <<balance, journal, keys, order, hold, work>>
  BY DEF Write
<1>4. request' \in [Requests -> Request \cup {None}]
  BY <1>1, <1>2 DEF StateTyped
<1>5. StateTyped'
  BY <1>3, <1>4 DEF StateTyped
<1>6. Keeps
  BY <1>1, <1>3 DEF Keeps, StateTyped
<1>7. NeverOvercommitted'
  BY <1>3 DEF NeverOvercommitted
<1>8. RequestsAreWhole'
  <2>1. \A q \in Requests : q # r => request'[q] = request[q]
    BY <1>1 DEF StateTyped
  <2>2. request'[r] = new
    BY <1>1 DEF StateTyped
  <2> QED
    BY <1>2, <1>3, <2>1, <2>2 DEF RequestsAreWhole, IsWhole
<1> QED
  BY <1>5, <1>6, <1>7, <1>8

-----------------------------------------------------------------------------
(* What follows from a posting.                                            *)

\* After a posting the requests and the journal still have their shape.
LEMMA PostsKeepsShape ==
    ASSUME StockInv, NEW r \in Requests, NEW e, Posts(r, e)
    PROVE  RequestsAreWhole' /\ EntriesAreWhole'
<1>1. journal \in Seq(Adjustment) /\ e \in Adjustment
  BY DEF StockInv, StateTyped, Posts
<1>2. /\ Len(journal) \in Nat /\ Len(journal') = Len(journal) + 1
      /\ \A i \in 1..Len(journal) : journal'[i] = journal[i]
      /\ journal'[Len(journal) + 1] = e
  BY <1>1, JournalGrows DEF Posts
<1>3. RequestsAreWhole'
  <2>1. \A i \in 1..Len(journal) : i \in 1..Len(journal')
    BY <1>2
  <2>2. request' = request
    BY DEF Posts
  <2> QED
    BY <1>2, <2>1, <2>2 DEF StockInv, RequestsAreWhole, IsWhole
<1>4. EntriesAreWhole'
  <2>1. /\ DOMAIN e.lines # {} /\ e.request # None
        /\ e.type = "REVERSAL" <=> e.reversalOf # 0
    BY <1>2, NoneAssumption DEF Posts, TakesBack
  <2>2. \A i \in 1..Len(journal') : i \in 1..Len(journal) \/ i = Len(journal) + 1
    BY <1>2
  <2> QED
    BY <1>2, <2>1, <2>2 DEF StockInv, EntriesAreWhole
<1> QED
  BY <1>3, <1>4

\* The request that was posted is now stale, and those before it stay so.
LEMMA PostsKeepsStale ==
    ASSUME StockInv, StateTyped', NEW r \in Requests, NEW e, Posts(r, e)
    PROVE  AppliedIsStale'
<1>1. journal \in Seq(Adjustment) /\ e \in Adjustment
  BY DEF StockInv, StateTyped, Posts
<1>2. /\ Len(journal) \in Nat /\ Len(journal') = Len(journal) + 1
      /\ \A i \in 1..Len(journal) : journal'[i] = journal[i]
      /\ journal'[Len(journal) + 1] = e
  BY <1>1, JournalGrows DEF Posts
<1>3. request' = request
  BY DEF Posts
<1>4. ASSUME NEW p \in Positions
      PROVE  /\ balance[p].version \in Nat /\ balance'[p].version \in Nat
             /\ balance'[p].version >= balance[p].version
  <2>1. balance[p].version \in Nat /\ balance'[p].version \in Nat
    BY DEF StockInv, StateTyped, Row
  <2> QED
    BY <2>1 DEF Posts, MovesRow
<1>5. ASSUME NEW i \in 1..Len(journal), journal[i].request # None
      PROVE  LET q == request[journal[i].request] IN
             /\ q # None
             /\ DOMAIN q.lines = DOMAIN journal[i].lines
             /\ \E p \in DOMAIN q.lines : balance'[p].version > q.lines[p].version
  <2> DEFINE a == journal[i].request
             q == request[a]
  <2>1. /\ q # None /\ DOMAIN q.lines = DOMAIN journal[i].lines
        /\ \E p \in DOMAIN q.lines : balance[p].version > q.lines[p].version
    BY <1>5 DEF StockInv, AppliedIsStale
  <2>2. PICK p \in DOMAIN q.lines : balance[p].version > q.lines[p].version
    BY <2>1
  <2>3. a \in Requests
    BY <1>5, EntryIsTyped DEF StockInv, Adjustment
  <2>4. p \in Positions /\ q.lines[p].version \in Nat
    <3>1. q \in Request
      BY <2>1, <2>3 DEF StockInv, StateTyped
    <3>2. PICK P \in SUBSET Positions : q.lines \in [P -> RequestLine]
      BY <3>1 DEF Request, LinesOf
    <3>3. p \in Positions /\ q.lines[p] \in RequestLine
      BY <2>2, <3>2
    <3> QED
      BY <3>3 DEF RequestLine
  <2>5. balance'[p].version > q.lines[p].version
    BY <1>4, <2>2, <2>4
  <2> QED
    BY <2>1, <2>2, <2>5
<1>6. PICK p \in DOMAIN e.lines : TRUE
  BY DEF Posts
<1>7. balance'[p].version > request[r].lines[p].version
  BY <1>6 DEF Posts, MovesRow, Stale
<1>8. /\ e.request = r /\ request[r] # None
      /\ DOMAIN request[r].lines = DOMAIN e.lines
  BY DEF Posts
<1>9. \A i \in 1..Len(journal') : i \in 1..Len(journal) \/ i = Len(journal) + 1
  BY <1>2
<1> QED
  BY <1>2, <1>3, <1>5, <1>6, <1>7, <1>8, <1>9 DEF AppliedIsStale

\* A request that was posted before is stale, so it is not posted again.
LEMMA PostsKeepsOnce ==
    ASSUME StockInv, NEW r \in Requests, NEW e, Posts(r, e)
    PROVE  AppliedOnce'
<1>1. journal \in Seq(Adjustment) /\ e \in Adjustment
  BY DEF StockInv, StateTyped, Posts
<1>2. /\ Len(journal) \in Nat /\ Len(journal') = Len(journal) + 1
      /\ \A i \in 1..Len(journal) : journal'[i] = journal[i]
      /\ journal'[Len(journal) + 1] = e
  BY <1>1, JournalGrows DEF Posts
<1>3. \A i \in 1..Len(journal) : journal[i].request # r
  <2> SUFFICES ASSUME NEW i \in 1..Len(journal), journal[i].request = r
               PROVE  FALSE
    OBVIOUS
  <2>1. r # None
    BY NoneAssumption
  <2>2. PICK p \in DOMAIN request[r].lines :
          balance[p].version > request[r].lines[p].version
    BY <2>1 DEF StockInv, AppliedIsStale
  <2>3. /\ balance[p].version = request[r].lines[p].version
        /\ p \in DOMAIN e.lines
    BY <2>2 DEF Posts, Stale
  <2>4. p \in Positions
    <3>1. PICK Q \in SUBSET Positions : e.lines \in [Q -> Line]
      BY <1>1 DEF Adjustment, LinesOf
    <3> QED
      BY <2>3, <3>1
  <2>5. balance[p].version \in Nat
    BY <2>4 DEF StockInv, StateTyped, Row
  <2> QED
    BY <2>2, <2>3, <2>5
<1>4. e.request = r
  BY DEF Posts
<1>5. \A i \in 1..Len(journal') : i \in 1..Len(journal) \/ i = Len(journal) + 1
  BY <1>2
<1> QED
  BY <1>2, <1>3, <1>4, <1>5 DEF StockInv, AppliedOnce

\* A reversal takes back an adjustment that stands, and takes it back whole.
LEMMA PostsKeepsReversals ==
    ASSUME StockInv, NEW r \in Requests, NEW e, Posts(r, e)
    PROVE  ReversalsNetOut'
<1>1. journal \in Seq(Adjustment) /\ e \in Adjustment
  BY DEF StockInv, StateTyped, Posts
<1>2. /\ Len(journal) \in Nat /\ Len(journal') = Len(journal) + 1
      /\ \A i \in 1..Len(journal) : journal'[i] = journal[i]
      /\ journal'[Len(journal) + 1] = e
  BY <1>1, JournalGrows DEF Posts
<1> DEFINE n == Len(journal)
<1>3. \A i \in 1..Len(journal') : i \in 1..n \/ i = n + 1
  BY <1>2
<1>4. \/ e.reversalOf = 0
      \/ /\ e.reversalOf \in 1..n /\ e.reversalOf # 0
         /\ journal[e.reversalOf].reversalOf = 0
         /\ \A m \in 1..n : journal[m].reversalOf # e.reversalOf
         /\ DOMAIN e.lines = DOMAIN journal[e.reversalOf].lines
         /\ \A p \in DOMAIN e.lines :
              /\ journal[e.reversalOf].lines[p].onHand + e.lines[p].onHand = 0
              /\ journal[e.reversalOf].lines[p].frozen + e.lines[p].frozen = 0
  <2>1. CASE TakesBack(e)
    <3> DEFINE i == e.reversalOf
    <3>1. /\ i \in 1..n /\ journal[i].type # "REVERSAL" /\ ~Reversed(i)
          /\ DOMAIN e.lines = DOMAIN journal[i].lines
          /\ \A p \in DOMAIN e.lines :
               /\ e.lines[p].onHand = -journal[i].lines[p].onHand
               /\ e.lines[p].frozen = -journal[i].lines[p].frozen
      BY <2>1 DEF TakesBack
    <3> HIDE DEF i
    <3>2. journal[i].reversalOf = 0
      BY <3>1 DEF StockInv, EntriesAreWhole
    <3>3. \A p \in DOMAIN e.lines :
            /\ journal[i].lines[p].onHand \in Int
            /\ journal[i].lines[p].frozen \in Int
      BY <3>1, EntryIsTyped DEF StockInv, Line
    <3>4. \A p \in DOMAIN e.lines :
            /\ journal[i].lines[p].onHand + e.lines[p].onHand = 0
            /\ journal[i].lines[p].frozen + e.lines[p].frozen = 0
      BY <3>1, <3>3
    <3> QED
      BY <1>2, <3>1, <3>2, <3>4 DEF Reversed, i
  <2> QED
    BY <2>1 DEF Posts
<1>5. ASSUME NEW k \in 1..n, journal[k].reversalOf # 0
      PROVE  LET i == journal[k].reversalOf IN
             /\ i \in 1..n /\ i < k
             /\ journal[i].reversalOf = 0
             /\ \A m \in 1..n : journal[m].reversalOf = i => m = k
             /\ e.reversalOf # i
             /\ DOMAIN journal[i].lines = DOMAIN journal[k].lines
             /\ \A p \in DOMAIN journal[i].lines :
                  /\ journal[i].lines[p].onHand + journal[k].lines[p].onHand = 0
                  /\ journal[i].lines[p].frozen + journal[k].lines[p].frozen = 0
  <2> DEFINE i == journal[k].reversalOf
  <2>1. i \in Nat
    BY EntryIsTyped DEF StockInv, Adjustment
  <2>2. /\ i < k /\ journal[i].reversalOf = 0
        /\ \A m \in 1..n : journal[m].reversalOf = i => m = k
        /\ DOMAIN journal[i].lines = DOMAIN journal[k].lines
        /\ \A p \in DOMAIN journal[i].lines :
             /\ journal[i].lines[p].onHand + journal[k].lines[p].onHand = 0
             /\ journal[i].lines[p].frozen + journal[k].lines[p].frozen = 0
    BY <1>5 DEF StockInv, ReversalsNetOut
  <2>3. i \in 1..n
    BY <1>2, <1>5, <2>1, <2>2
  <2>4. e.reversalOf # i
    BY <1>4, <1>5
  <2> QED
    BY <2>2, <2>3, <2>4
<1>6. ASSUME NEW k \in 1..Len(journal'), journal'[k].reversalOf # 0
      PROVE  LET i == journal'[k].reversalOf IN
             /\ i < k
             /\ journal'[i].reversalOf = 0
             /\ \A m \in 1..Len(journal') : journal'[m].reversalOf = i => m = k
             /\ DOMAIN journal'[i].lines = DOMAIN journal'[k].lines
             /\ \A p \in DOMAIN journal'[i].lines :
                  /\ journal'[i].lines[p].onHand + journal'[k].lines[p].onHand = 0
                  /\ journal'[i].lines[p].frozen + journal'[k].lines[p].frozen = 0
  <2>1. CASE k \in 1..n
    BY <1>2, <1>3, <1>5, <1>6, <2>1
  <2>2. CASE k = n + 1
    BY <1>2, <1>3, <1>4, <1>6, <2>2
  <2> QED
    BY <1>3, <2>1, <2>2
<1> QED
  BY <1>6 DEF ReversalsNetOut

\* A posting adds a link to the chain of each position it moves and leaves the
\* chains of the others as they are.
LEMMA PostsKeepsChain ==
    ASSUME StockInv, NEW r \in Requests, NEW e, Posts(r, e)
    PROVE  LedgerChain'
<1>1. journal \in Seq(Adjustment) /\ e \in Adjustment
  BY DEF StockInv, StateTyped, Posts
<1>2. /\ Len(journal) \in Nat /\ Len(journal') = Len(journal) + 1
      /\ \A i \in 1..Len(journal) : journal'[i] = journal[i]
      /\ journal'[Len(journal) + 1] = e
  BY <1>1, JournalGrows DEF Posts
<1>n. PICK n \in Nat : n = Len(journal)
  BY <1>2
<1>3. ASSUME NEW p \in Positions, NEW i \in 1..n
      PROVE  AfterOnHand(i, p)' = AfterOnHand(i, p)
               /\ AfterFrozen(i, p)' = AfterFrozen(i, p)
  BY <1>2, <1>n DEF AfterOnHand, AfterFrozen
<1>4. \A i \in 1..Len(journal') : i \in 1..n \/ i = n + 1
  BY <1>2, <1>n
<1>5. \A i \in 1..n : i \in 1..Len(journal')
  BY <1>2, <1>n
<1>6. ASSUME NEW p \in Positions
      PROVE  Entries(p) \subseteq 1..n
  BY <1>n DEF Entries
<1>7. ASSUME NEW p \in Positions, p \notin DOMAIN e.lines
      PROVE  Entries(p)' = Entries(p) /\ balance'[p] = balance[p]
  BY <1>2, <1>n, <1>4, <1>5, <1>7 DEF Entries, Posts
<1>8. ASSUME NEW p \in Positions, p \in DOMAIN e.lines
      PROVE  /\ Entries(p)' = Entries(p) \cup {n + 1}
             /\ AfterOnHand(n + 1, p)' = balance'[p].onHand
             /\ AfterFrozen(n + 1, p)' = balance'[p].frozen
             /\ journal'[n + 1].lines[p].beforeOnHand = balance[p].onHand
             /\ journal'[n + 1].lines[p].beforeFrozen = balance[p].frozen
  <2>1. n + 1 \in 1..Len(journal')
    BY <1>2, <1>n
  <2>2. Entries(p)' = Entries(p) \cup {n + 1}
    BY <1>2, <1>n, <1>4, <1>5, <1>8, <2>1 DEF Entries
  <2>3. MovesRow(p, e.lines[p])
    BY <1>8 DEF Posts
  <2> QED
    BY <1>2, <1>n, <2>2, <2>3 DEF MovesRow, AfterOnHand, AfterFrozen
<1>9. ASSUME NEW p \in Positions, NEW i \in Entries(p)
      PROVE  \/ \E k \in Entries(p) :
                  /\ k > i
                  /\ \A m \in Entries(p) : m > i => m >= k
                  /\ journal'[k].lines[p].beforeOnHand = AfterOnHand(i, p)'
                  /\ journal'[k].lines[p].beforeFrozen = AfterFrozen(i, p)'
             \/ /\ \A m \in Entries(p) : m <= i
                /\ balance[p].onHand = AfterOnHand(i, p)'
                /\ balance[p].frozen = AfterFrozen(i, p)'
  <2>1. i \in 1..n /\ \A k \in Entries(p) : journal'[k] = journal[k]
    BY <1>2, <1>n, <1>6 
  <2>2. AfterOnHand(i, p)' = AfterOnHand(i, p) /\ AfterFrozen(i, p)' = AfterFrozen(i, p)
    BY <1>3, <2>1
  <2> QED
    BY <2>1, <2>2 DEF StockInv, LedgerChain
<1>10. n \in Nat
  OBVIOUS
<1>11. ASSUME NEW p \in Positions
       PROVE  /\ Entries(p)' = {} => balance'[p].onHand = 0 /\ balance'[p].frozen = 0
              /\ \A i \in Entries(p)' :
                   \/ \E k \in Entries(p)' :
                        /\ k > i
                        /\ \A m \in Entries(p)' : m > i => m >= k
                        /\ journal'[k].lines[p].beforeOnHand = AfterOnHand(i, p)'
                        /\ journal'[k].lines[p].beforeFrozen = AfterFrozen(i, p)'
                   \/ /\ \A m \in Entries(p)' : m <= i
                      /\ balance'[p].onHand = AfterOnHand(i, p)'
                      /\ balance'[p].frozen = AfterFrozen(i, p)'
  <2>1. CASE p \notin DOMAIN e.lines
    <3>1. Entries(p) = {} => balance[p].onHand = 0 /\ balance[p].frozen = 0
      BY DEF StockInv, LedgerChain
    <3> QED
      BY <1>7, <1>9, <2>1, <3>1
  <2>2. CASE p \in DOMAIN e.lines
    <3>1. \A m \in Entries(p) : m \in Nat /\ m <= n
      BY <1>6, <1>10
    <3>2. ASSUME NEW i \in Entries(p)
          PROVE  \E k \in Entries(p) \cup {n + 1} :
                    /\ k > i
                    /\ \A m \in Entries(p) \cup {n + 1} : m > i => m >= k
                    /\ journal'[k].lines[p].beforeOnHand = AfterOnHand(i, p)'
                    /\ journal'[k].lines[p].beforeFrozen = AfterFrozen(i, p)'
      <4>1. CASE \A m \in Entries(p) : m <= i
        <5>1. /\ balance[p].onHand = AfterOnHand(i, p)'
              /\ balance[p].frozen = AfterFrozen(i, p)'
          BY <1>9, <3>1, <4>1
        <5>2. n + 1 > i /\ \A m \in Entries(p) \cup {n + 1} : m > i => m >= n + 1
          BY <1>10, <3>1, <4>1
        <5> QED
          BY <1>8, <2>2, <5>1, <5>2
      <4>2. CASE ~(\A m \in Entries(p) : m <= i)
        <5>1. PICK k \in Entries(p) :
                /\ k > i
                /\ \A m \in Entries(p) : m > i => m >= k
                /\ journal'[k].lines[p].beforeOnHand = AfterOnHand(i, p)'
                /\ journal'[k].lines[p].beforeFrozen = AfterFrozen(i, p)'
          BY <1>9, <4>2
        <5>2. n + 1 >= k
          BY <1>10, <3>1
        <5> QED
          BY <5>1, <5>2
      <4> QED
        BY <4>1, <4>2
    <3>3. \A m \in Entries(p) \cup {n + 1} : m <= n + 1
      BY <1>10, <3>1
    <3>4. Entries(p)' = Entries(p) \cup {n + 1}
      BY <1>8, <2>2
    <3>5. /\ balance'[p].onHand = AfterOnHand(n + 1, p)'
          /\ balance'[p].frozen = AfterFrozen(n + 1, p)'
      BY <1>8, <2>2
    <3> QED
      BY <3>2, <3>3, <3>4, <3>5
  <2> QED
    BY <2>1, <2>2
<1> QED
  BY <1>11 DEF LedgerChain

-----------------------------------------------------------------------------
(* What follows from a step that posts nothing.                            *)

\* The journal stands and the quantities are what they were.
LEMMA KeepsKeepsLedger ==
    ASSUME StockInv, StateTyped', Keeps
    PROVE  /\ EntriesAreWhole' /\ AppliedIsStale' /\ LedgerChain'
           /\ AppliedOnce' /\ ReversalsNetOut'
<1>1. journal' = journal
  BY DEF Keeps
<1>2. EntriesAreWhole' /\ AppliedOnce' /\ ReversalsNetOut'
  BY <1>1 DEF StockInv, EntriesAreWhole, AppliedOnce, ReversalsNetOut
<1>3. LedgerChain'
  <2>1. \A p \in Positions : /\ balance'[p].onHand = balance[p].onHand
                             /\ balance'[p].frozen = balance[p].frozen
    BY DEF Keeps
  <2> QED
    BY <1>1, <2>1 DEF StockInv, LedgerChain, Entries, AfterOnHand, AfterFrozen
<1>4. ASSUME NEW i \in 1..Len(journal), journal[i].request # None
      PROVE  LET q == request'[journal[i].request] IN
             /\ q # None
             /\ DOMAIN q.lines = DOMAIN journal[i].lines
             /\ \E p \in DOMAIN q.lines : balance'[p].version > q.lines[p].version
  <2> DEFINE a == journal[i].request
             q == request[a]
  <2>1. /\ q # None /\ DOMAIN q.lines = DOMAIN journal[i].lines
        /\ \E p \in DOMAIN q.lines : balance[p].version > q.lines[p].version
    BY <1>4 DEF StockInv, AppliedIsStale
  <2>2. PICK p \in DOMAIN q.lines : balance[p].version > q.lines[p].version
    BY <2>1
  <2>3. a \in Requests
    BY <1>4, EntryIsTyped DEF StockInv, Adjustment
  <2>4. p \in Positions /\ q.lines[p].version \in Nat
    <3>1. q \in Request
      BY <2>1, <2>3 DEF StockInv, StateTyped
    <3>2. PICK P \in SUBSET Positions : q.lines \in [P -> RequestLine]
      BY <3>1 DEF Request, LinesOf
    <3>3. p \in Positions /\ q.lines[p] \in RequestLine
      BY <2>2, <3>2
    <3> QED
      BY <3>3 DEF RequestLine
  <2>5. /\ balance[p].version \in Nat /\ balance'[p].version \in Nat
        /\ balance'[p].version >= balance[p].version
    <3>1. balance[p].version \in Nat /\ balance'[p].version \in Nat
      BY <2>4 DEF StockInv, StateTyped, Row
    <3> QED
      BY <2>4, <3>1 DEF Keeps
  <2>6. request'[a] = q
    BY <2>1, <2>3 DEF Keeps
  <2>7. balance'[p].version > q.lines[p].version
    BY <2>2, <2>4, <2>5
  <2> QED
    BY <2>1, <2>2, <2>6, <2>7
<1>5. AppliedIsStale'
  BY <1>1, <1>4 DEF AppliedIsStale
<1> QED
  BY <1>2, <1>3, <1>5

\* A step that neither posts nor writes a request keeps the requests whole.
LEMMA KeepsKeepsRequests ==
    ASSUME RequestsAreWhole, Keeps, request' = request
    PROVE  RequestsAreWhole'
BY DEF Keeps, RequestsAreWhole, IsWhole

-----------------------------------------------------------------------------
(* The invariant.                                                          *)

\* Every step posts an adjustment or keeps the ledger as it is.
LEMMA StepPostsOrKeeps ==
    ASSUME StockInv, Next
    PROVE  /\ StateTyped' /\ NeverOvercommitted'
           /\ \/ \E r \in Requests : \E e : Posts(r, e)
              \/ Keeps /\ RequestsAreWhole'
<1> USE DEF StockInv
<1>1. ASSUME NEW r \in Requests, Write(r)
      PROVE  StateTyped' /\ NeverOvercommitted' /\ Keeps /\ RequestsAreWhole'
  BY <1>1, WriteStep
<1>2. ASSUME NEW r \in Requests, ExpireKey(r)
      PROVE  StateTyped' /\ NeverOvercommitted' /\ Keeps /\ RequestsAreWhole'
  BY <1>2, ExpireStep, KeepsKeepsRequests
<1>3. ASSUME NEW w \in Orders, Work(w)
      PROVE  StateTyped' /\ NeverOvercommitted' /\ Keeps /\ RequestsAreWhole'
  BY <1>3, WorkStep, KeepsKeepsRequests
<1>4. ASSUME NEW r \in Requests, ReleaseOrder(r, balance) \/ CancelOrder(r, balance)
      PROVE  StateTyped' /\ NeverOvercommitted' /\ Keeps /\ RequestsAreWhole'
  BY <1>4, ReleaseStep, CancelStep, KeepsKeepsRequests
<1>5. ASSUME NEW r \in Requests, Post(r, balance) \/ Reverse(r, balance)
      PROVE  StateTyped' /\ NeverOvercommitted' /\ \E e : Posts(r, e)
  BY <1>5, PostStep, ReverseStep
<1>6. ASSUME NEW r \in Requests,
             IssueMaterials(r, balance) \/ ReturnMaterials(r, balance)
      PROVE  StateTyped' /\ NeverOvercommitted' /\ \E e : Posts(r, e)
  BY <1>6, IssueStep, ReturnStep
<1>7. ASSUME NEW r \in Requests,
             Complete(r, balance) \/ ReverseCompletion(r, balance)
      PROVE  StateTyped' /\ NeverOvercommitted' /\ \E e : Posts(r, e)
  BY <1>7, CompleteStep, ReverseCompletionStep
<1> QED
  BY <1>1, <1>2, <1>3, <1>4, <1>5, <1>6, <1>7 DEF Next, Apply

\* Every step preserves the invariant.
LEMMA StockInvStep ==
    ASSUME StockInv, [Next]_vars
    PROVE  StockInv'
<1>1. CASE Next
  <2>1. StateTyped' /\ NeverOvercommitted'
    BY <1>1, StepPostsOrKeeps
  <2>2. ASSUME NEW r \in Requests, NEW e, Posts(r, e)
        PROVE  StockInv'
    <3>1. RequestsAreWhole' /\ EntriesAreWhole'
      BY <2>2, PostsKeepsShape
    <3>2. AppliedIsStale' /\ AppliedOnce'
      BY <2>1, <2>2, PostsKeepsStale, PostsKeepsOnce
    <3>3. LedgerChain' /\ ReversalsNetOut'
      BY <2>2, PostsKeepsChain, PostsKeepsReversals
    <3> QED
      BY <2>1, <3>1, <3>2, <3>3 DEF StockInv
  <2>3. ASSUME Keeps, RequestsAreWhole'
        PROVE  StockInv'
    BY <2>1, <2>3, KeepsKeepsLedger DEF StockInv
  <2> QED
    BY <1>1, <2>2, <2>3, StepPostsOrKeeps
<1>2. CASE UNCHANGED vars
  BY <1>2 DEF vars, StockInv, StateTyped, NeverOvercommitted, RequestsAreWhole,
     IsWhole, EntriesAreWhole, AppliedIsStale, LedgerChain, Entries, AfterOnHand,
     AfterFrozen, AppliedOnce, ReversalsNetOut
<1> QED
  BY <1>1, <1>2

\* The opening stock is one receipt, or nothing.
LEMMA OpeningIsTyped ==
    /\ OpeningAdjustment \in Adjustment
    /\ DOMAIN OpeningAdjustment.lines = Stocked
    /\ \A p \in Positions : Opening[p] \in Nat
<1>1. \A p \in Positions : Opening[p] \in Nat
  BY OpeningAssumption
<1>2. \A p \in Stocked :
        [onHand |-> Opening[p], frozen |-> 0, beforeOnHand |-> 0,
         beforeFrozen |-> 0, version |-> 0] \in Line
  BY <1>1 DEF Stocked, Line
<1>3. [p \in Stocked |->
         [onHand |-> Opening[p], frozen |-> 0, beforeOnHand |-> 0,
          beforeFrozen |-> 0, version |-> 0]] \in LinesOf(Line)
  <2>1. Stocked \in SUBSET Positions
    BY DEF Stocked
  <2>2. [p \in Stocked |->
           [onHand |-> Opening[p], frozen |-> 0, beforeOnHand |-> 0,
            beforeFrozen |-> 0, version |-> 0]] \in [Stocked -> Line]
    BY <1>2
  <2> QED
    BY <2>1, <2>2 DEF LinesOf
<1>4. "RECEIPT" \in OperationTypes
  BY DEF OperationTypes, OnHandSign
<1>5. OpeningAdjustment \in Adjustment
  BY <1>3, <1>4 DEF OpeningAdjustment, Adjustment
<1> QED
  BY <1>1, <1>5 DEF OpeningAdjustment

\* The invariant holds when the system starts.
LEMMA InitStockInv == Init => StockInv
<1> SUFFICES ASSUME Init PROVE StockInv
  OBVIOUS
<1>1. balance \in [Positions -> Row]
  <2>1. \A p \in Positions :
          [onHand |-> Opening[p], reserved |-> 0, frozen |-> 0,
           version |-> IF p \in Stocked THEN 1 ELSE 0] \in Row
    BY OpeningIsTyped DEF Row
  <2> QED
    BY <2>1 DEF Init
<1>2. hold \in [Orders -> [Positions -> Hold]]
  BY DEF Init, NoHold, Hold
<1>3. work \in [Orders -> Progress]
  BY DEF Init, Progress
<1>4. journal \in Seq(Adjustment)
  BY OpeningIsTyped DEF Init
<1>5. StateTyped
  BY <1>1, <1>2, <1>3, <1>4 DEF Init, StateTyped, OrderStatus
<1>6. NeverOvercommitted
  BY OpeningIsTyped DEF Init, NeverOvercommitted
<1>7. RequestsAreWhole
  BY DEF Init, RequestsAreWhole
<1>8. CASE Stocked = {}
  <2>1. journal = <<>> /\ Len(journal) = 0
    BY <1>8 DEF Init
  <2>2. \A p \in Positions : balance[p].onHand = 0 /\ balance[p].frozen = 0
    BY <1>8, OpeningIsTyped DEF Init, Stocked
  <2>3. EntriesAreWhole /\ AppliedIsStale /\ AppliedOnce /\ ReversalsNetOut
    BY <2>1 DEF EntriesAreWhole, AppliedIsStale, AppliedOnce, ReversalsNetOut
  <2>4. LedgerChain
    BY <2>1, <2>2 DEF LedgerChain, Entries
  <2> QED
    BY <1>5, <1>6, <1>7, <2>3, <2>4 DEF StockInv
<1>9. CASE Stocked # {}
  <2>1. /\ Len(journal) = 1 /\ journal[1] = OpeningAdjustment
        /\ \A i \in 1..Len(journal) : i = 1
    BY <1>9 DEF Init
  <2>2. /\ OpeningAdjustment.request = None
        /\ OpeningAdjustment.type # "REVERSAL"
        /\ OpeningAdjustment.reversalOf = 0
    BY DEF OpeningAdjustment
  <2>3. EntriesAreWhole /\ AppliedIsStale /\ AppliedOnce /\ ReversalsNetOut
    BY <1>9, <2>1, <2>2, OpeningIsTyped
       DEF EntriesAreWhole, AppliedIsStale, AppliedOnce, ReversalsNetOut
  <2>4. ASSUME NEW p \in Positions
        PROVE  /\ Entries(p) = {} => balance[p].onHand = 0 /\ balance[p].frozen = 0
               /\ \A i \in Entries(p) :
                    /\ \A m \in Entries(p) : m <= i
                    /\ balance[p].onHand = AfterOnHand(i, p)
                    /\ balance[p].frozen = AfterFrozen(i, p)
    <3>1. balance[p].onHand = Opening[p] /\ balance[p].frozen = 0
      BY DEF Init
    <3>2. CASE p \in Stocked
      <4>1. Entries(p) = {1}
        BY <2>1, <3>2, OpeningIsTyped DEF Entries
      <4>2. AfterOnHand(1, p) = Opening[p] /\ AfterFrozen(1, p) = 0
        BY <2>1, <3>2, OpeningIsTyped
           DEF AfterOnHand, AfterFrozen, OpeningAdjustment
      <4> QED
        BY <3>1, <4>1, <4>2
    <3>3. CASE p \notin Stocked
      <4>1. Entries(p) = {}
        BY <2>1, <3>3, OpeningIsTyped DEF Entries
      <4>2. Opening[p] = 0
        BY <3>3, OpeningIsTyped DEF Stocked
      <4> QED
        BY <3>1, <4>1, <4>2
    <3> QED
      BY <3>2, <3>3
  <2>5. LedgerChain
    BY <2>4 DEF LedgerChain
  <2> QED
    BY <1>5, <1>6, <1>7, <2>3, <2>5 DEF StockInv
<1> QED
  BY <1>8, <1>9

\* The inductive invariant: everything the ledger promises, with the shape of
\* the requests and adjustments it rests on.
THEOREM StockInvariant == Spec => []StockInv
BY InitStockInv, StockInvStep, PTL DEF Spec

-----------------------------------------------------------------------------
(* What the ledger promises.                                               *)

\* The state typing of the proofs is the one TLC checks.
LEMMA StateTypedIsTypeOK == StateTyped => TypeOK
<1> SUFFICES ASSUME StateTyped PROVE TypeOK
  OBVIOUS
<1>1. ASSUME NEW i \in 1..Len(journal)
      PROVE  IsAdjustment(journal[i])
  BY EntryIsTyped DEF IsAdjustment, Adjustment
<1>2. ASSUME NEW r \in Requests, request[r] # None
      PROVE  IsRequest(request[r])
  <2>1. request[r] \in Request
    BY <1>2 DEF StateTyped
  <2>2. PICK P \in SUBSET Positions : request[r].lines \in [P -> RequestLine]
    BY <2>1 DEF Request, LinesOf
  <2>3. \A p \in P : request[r].lines[p] \in RequestLine
    BY <2>2
  <2>4. \A p \in P : /\ request[r].lines[p].quantity \in Quantities \cup {0}
                     /\ request[r].lines[p].version \in Nat
    BY <2>3 DEF RequestLine
  <2> QED
    BY <2>1, <2>2, <2>4 DEF IsRequest, Request
<1> QED
  BY <1>1, <1>2 DEF StateTyped, TypeOK

\* Type correctness of rows, adjustments, requests, work orders and their
\* reservations; in particular no balance is ever negative.
THEOREM TypeCorrect == Spec => []TypeOK
BY StockInvariant, StateTypedIsTypeOK, PTL DEF StockInv

\* What is reserved or frozen is in stock, whatever mix of postings, reversals
\* and work orders runs (calculate, reserveRequirements, returnMaterials).
THEOREM StockCovered == Spec => []NeverOvercommitted
BY StockInvariant, PTL DEF StockInv

\* The ledger of every position is one chain that ends in its balance
\* (persistLine, reconciliation).
THEOREM LedgerUnbroken == Spec => []LedgerChain
BY StockInvariant, PTL DEF StockInv

\* A request takes effect once, with or without its idempotency key (post,
\* reverse, claimIdempotency): the versions alone refuse the repetition.
THEOREM OnceOnly == Spec => []AppliedOnce
BY StockInvariant, PTL DEF StockInv

\* An adjustment is taken back at most once, whole, and for good
\* (reverseParsedInTransaction).
THEOREM ReversalsExact == Spec => []ReversalsNetOut
BY StockInvariant, PTL DEF StockInv

\* A sequence is the beginning of itself with one more element.
LEMMA AppendIsStable ==
    ASSUME NEW S, NEW s \in Seq(S), NEW e \in S
    PROVE  SubSeq(Append(s, e), 1, Len(s)) = s
<1>1. /\ Append(s, e) \in Seq(S) /\ Len(s) \in Nat
      /\ Len(Append(s, e)) = Len(s) + 1
      /\ \A i \in 1..Len(s) : Append(s, e)[i] = s[i]
  BY AppendProperties
<1>2. \A i \in 1..Len(s) : Append(s, e)[i] \in S
  BY <1>1, ElementOfSeq
<1>3. /\ SubSeq(Append(s, e), 1, Len(s)) \in Seq(S)
      /\ Len(SubSeq(Append(s, e), 1, Len(s))) = Len(s)
      /\ \A i \in 1..Len(s) : SubSeq(Append(s, e), 1, Len(s))[i] = s[i]
  BY <1>1, <1>2, SubSeqProperties
<1> QED
  BY <1>3, SeqEqual

\* What a step may do to the rows and the journal.
MovesAreVisible ==
    /\ \A p \in Positions :
         balance'[p] # balance[p] => balance'[p].version > balance[p].version
    /\ SubSeq(journal', 1, Len(journal)) = journal

\* Every step shows in the versions and only adds to the journal.
LEMMA StepIsVisible ==
    ASSUME StockInv, [Next]_vars
    PROVE  MovesAreVisible
<1>1. journal \in Seq(Adjustment)
  BY DEF StockInv, StateTyped
<1>2. CASE \E r \in Requests : \E e : Posts(r, e)
  <2>r. PICK r \in Requests : \E e : Posts(r, e)
    BY <1>2
  <2>1. PICK e : Posts(r, e)
    BY <2>r
  <2>2. \A p \in Positions :
          balance'[p] # balance[p] => balance'[p].version > balance[p].version
    BY <2>1 DEF Posts, MovesRow
  <2>3. SubSeq(Append(journal, e), 1, Len(journal)) = journal
    BY <1>1, <2>1, AppendIsStable DEF Posts
  <2> QED
    BY <2>1, <2>2, <2>3 DEF Posts, MovesAreVisible
<1>3. CASE Keeps
  <2>1. SubSeq(journal, 1, Len(journal)) = journal
    BY <1>1, SubSeqFull
  <2> QED
    BY <1>3, <2>1 DEF Keeps, MovesAreVisible
<1>4. CASE UNCHANGED vars
  <2>1. SubSeq(journal, 1, Len(journal)) = journal
    BY <1>1, SubSeqFull
  <2> QED
    BY <1>4, <2>1 DEF vars, MovesAreVisible
<1> QED
  BY <1>2, <1>3, <1>4, StepPostsOrKeeps

\* No row changes without a new version and no adjustment is changed or
\* removed (persistLine, consumeReservations, releaseUnusedReservations).
THEOREM ChangesAreVisible == Spec => NothingChangesSilently
<1>1. StockInv /\ [Next]_vars => MovesAreVisible
  BY StepIsVisible
<1> QED
  BY <1>1, StockInvariant, PTL DEF Spec, NothingChangesSilently, MovesAreVisible
-----------------------------------------------------------------------------
(* Work orders.                                                            *)

\* Work on the order has been done.
Started == {"IN_PROGRESS", "COMPLETED", "CLOSED"}

\* Only an order in progress, or one that was, has completions.
CompletionsStart(w) ==
    \A i \in 1..Len(journal) : Completes(w, i) => order[w] \in Started

\* What an order holds of a material: never less than nothing, only while it
\* may draw it, and of a position that has a row.
HoldFits(w, p) ==
    /\ Owed(w, p) >= 0
    /\ hold[w][p].reserved <= Required[w][p]
    /\ hold[w][p].issued >= 0 /\ hold[w][p].released >= 0
    /\ Owed(w, p) > 0 => Running(w) /\ p \in Needed(w)
    /\ order[w] = "DRAFT" => hold[w][p].issued = 0
    /\ order[w] \in Started \cup {"RELEASED"} /\ p \in Needed(w)
         => balance[p].version > 0

\* The materials drawn suffice for the work that was dispatched.
MaterialsSuffice(w, p) ==
    work[w].dispatched * Required[w][p] <= hold[w][p].issued * Planned[w]

\* What is recorded of order w and of its materials fits together.
OrderFits(w) ==
    /\ CompletionsStart(w)
    /\ \A p \in Positions : HoldFits(w, p) /\ MaterialsSuffice(w, p)

\* A request about the materials or a completion of an order names what the
\* order has.
RequestsFitOrders ==
    \A r \in Requests : request[r] # None =>
      LET q == request[r] IN
      /\ q.operation \in {"ISSUE_MATERIALS", "RETURN_MATERIALS"} =>
           DOMAIN q.lines \subseteq Needed(q.order)
      /\ q.operation = "REVERSE_COMPLETION" => Completes(q.order, q.reversalOf)

\* Every order fits, and every request fits the order it names.
OrdersFit == RequestsFitOrders /\ \A w \in Orders : OrderFits(w)

\* What is reserved of a position is owed to the orders.
ReservedAddsUp ==
    \A p \in Positions :
      balance[p].reserved = SumFunction([w \in Orders |-> Owed(w, p)])

-----------------------------------------------------------------------------
(* Steps of one order.                                                     *)

\* The step leaves every order but w as it is.
OthersUntouched(w) ==
    \A v \in Orders \ {w} :
      order'[v] = order[v] /\ hold'[v] = hold[v] /\ work'[v] = work[v]

\* The reservations of the rows move as what is owed to w.
ReservedFollows(w) ==
    \A p \in Positions :
      balance'[p].reserved = balance[p].reserved + (Owed(w, p)' - Owed(w, p))

\* Whoever completes, completes w.
CompletesOnly(w) ==
    \A v \in Orders : \A i \in 1..Len(journal') :
      Completes(v, i)' => v = w \/ (i \in 1..Len(journal) /\ Completes(v, i))

\* What is known of the types.
LEMMA OrderIsTyped ==
    ASSUME StateTyped, NEW w \in Orders
    PROVE  /\ order[w] \in OrderStatus
           /\ work[w] \in Progress
           /\ work[w].dispatched \in Nat /\ work[w].completed \in Nat
           /\ Planned[w] \in Nat /\ Planned[w] > 0
           /\ Finished[w] \in Positions
           /\ \A p \in Positions : /\ hold[w][p] \in Hold
                                   /\ hold[w][p].reserved \in Nat
                                   /\ hold[w][p].issued \in Int
                                   /\ hold[w][p].released \in Int
                                   /\ Owed(w, p) \in Int
                                   /\ Required[w][p] \in Nat
                                   /\ balance[p] \in Row
<1>1. /\ order[w] \in OrderStatus
      /\ work[w] \in Progress
      /\ work[w].dispatched \in Nat /\ work[w].completed \in Nat
  BY DEF StateTyped, Progress
<1>2. Planned[w] \in Nat /\ Planned[w] > 0 /\ Finished[w] \in Positions
  BY PlannedAssumption, FinishedAssumption
<1>3. ASSUME NEW p \in Positions
      PROVE  /\ hold[w][p] \in Hold
             /\ hold[w][p].reserved \in Nat
             /\ hold[w][p].issued \in Int
             /\ hold[w][p].released \in Int
             /\ Owed(w, p) \in Int
             /\ Required[w][p] \in Nat
             /\ balance[p] \in Row
  <2>1. hold[w][p] \in Hold /\ balance[p] \in Row
    BY DEF StateTyped
  <2> QED  BY <2>1, RequiredAssumption DEF Hold, Owed
<1> QED  BY <1>1, <1>2, <1>3

\* A completed order stays so in the journal whatever is added to it.
LEMMA CompletesStays ==
    ASSUME StateTyped, AppliedIsStale, StateTyped',
           NEW w, NEW i \in 1..Len(journal),
           Len(journal') >= Len(journal), journal'[i] = journal[i],
           \A r \in Requests : request[r] # None => request'[r] = request[r]
    PROVE  Completes(w, i)' <=> Completes(w, i)
<1>1. journal[i] \in Adjustment
  BY ElementOfSeq DEF StateTyped
<1>2. journal[i].request \in Requests \cup {None}
  BY <1>1 DEF Adjustment
<1>3. journal[i].request # None => request[journal[i].request] # None
  BY DEF AppliedIsStale
<1>4. journal[i].request # None => request'[journal[i].request] = request[journal[i].request]
  BY <1>2, <1>3
<1> QED  BY <1>4 DEF Completes

\* A step of one order leaves what is true of the others.
LEMMA OthersStayFit ==
    ASSUME StateTyped, StateTyped', \A v \in Orders : OrderFits(v),
           NEW w \in Orders, OthersUntouched(w), CompletesOnly(w), OrderFits(w)',
           \A p \in Positions : balance'[p].version >= balance[p].version
    PROVE  \A v \in Orders : OrderFits(v)'
<1> SUFFICES ASSUME NEW v \in Orders, v # w PROVE OrderFits(v)'
  OBVIOUS
<1>1. order'[v] = order[v] /\ hold'[v] = hold[v] /\ work'[v] = work[v]
  BY DEF OthersUntouched
<1>2. CompletionsStart(v)'
  BY <1>1 DEF CompletesOnly, OrderFits, CompletionsStart
<1>3. ASSUME NEW p \in Positions
      PROVE  HoldFits(v, p)' /\ MaterialsSuffice(v, p)'
  <2>1. HoldFits(v, p) /\ MaterialsSuffice(v, p)
    BY DEF OrderFits
  <2>2. MaterialsSuffice(v, p)'
    BY <1>1, <2>1 DEF MaterialsSuffice
  <2>3. balance'[p].version >= balance[p].version /\ balance[p].version \in Nat
        /\ balance'[p].version \in Nat
    BY DEF StateTyped, Row
  <2>4. Owed(v, p)' = Owed(v, p) /\ Needed(v)' = Needed(v) /\ Running(v)' = Running(v)
    BY <1>1 DEF Owed, Needed, Running
  <2> QED  BY <1>1, <2>1, <2>2, <2>3, <2>4 DEF HoldFits
<1> QED  BY <1>2, <1>3 DEF OrderFits

\* The sum of what is owed follows the reservations of the rows.
LEMMA ReservedStaysAddedUp ==
    ASSUME StateTyped, StateTyped', ReservedAddsUp, NEW w \in Orders,
           OthersUntouched(w), ReservedFollows(w)
    PROVE  ReservedAddsUp'
<1> SUFFICES ASSUME NEW p \in Positions
             PROVE  balance'[p].reserved = SumFunction([v \in Orders |-> Owed(v, p)'])
  BY DEF ReservedAddsUp
<1> DEFINE f == [v \in Orders |-> Owed(v, p)]
           g == [v \in Orders |-> Owed(v, p)']
<1>1. \A v \in Orders : f[v] \in Int /\ g[v] \in Int
  <2> TAKE v \in Orders
  <2>1. Owed(v, p) \in Int
    BY OrderIsTyped
  <2>2. Owed(v, p)' \in Int
    BY DEF StateTyped, Owed, Hold
  <2> QED  BY <2>1, <2>2
<1>2. \A v \in Orders \ {w} : f[v] = g[v]
  BY DEF OthersUntouched, Owed
<1>3. SumFunctionOnSet(g, Orders) = SumFunctionOnSet(f, Orders) + g[w] - f[w]
  <2> HIDE DEF f, g
  <2> QED  BY <1>1, <1>2, OrdersAssumption, SumMoves
<1>4. SumFunctionOnSet(f, Orders) \in Int
  <2> HIDE DEF f, g
  <2> QED  BY <1>1, OrdersAssumption, SumIsInt
<1>5. balance[p].reserved = SumFunctionOnSet(f, Orders)
  BY DEF ReservedAddsUp, SumFunction
<1>6. SumFunction(g) = SumFunctionOnSet(g, Orders)
  BY DEF SumFunction
<1>7. balance'[p].reserved = balance[p].reserved + (g[w] - f[w])
  BY DEF ReservedFollows
<1>8. f[w] \in Int /\ g[w] \in Int
  BY <1>1
<1> HIDE DEF f, g
<1> QED  BY <1>3, <1>4, <1>5, <1>6, <1>7, <1>8 DEF f, g

\* A step of order w and what it keeps.
OrderMoves(w) ==
    /\ OthersUntouched(w)
    /\ CompletesOnly(w)
    /\ ReservedFollows(w)
    /\ OrderFits(w)'

\* A posting completes an order if its request says so; the journal as it was
\* says what it said.
LEMMA PostingCompletes ==
    ASSUME StockInv, StockInv', NEW r \in Requests, NEW e, Posts(r, e)
    PROVE  /\ \A w : \A i \in 1..Len(journal) : Completes(w, i)' <=> Completes(w, i)
           /\ \A w : \A i \in 1..Len(journal') : Completes(w, i)' =>
                \/ i \in 1..Len(journal) /\ Completes(w, i)
                \/ /\ i = Len(journal) + 1
                   /\ request[r].operation = "COMPLETE" /\ request[r].order = w
<1>1. /\ Len(journal) \in Nat
      /\ Len(journal') = Len(journal) + 1
      /\ \A i \in 1..Len(journal) : journal'[i] = journal[i]
      /\ journal'[Len(journal) + 1] = e
  BY JournalGrows DEF Posts, StockInv, StateTyped
<1>2. e.request = r /\ request' = request
  BY DEF Posts
<1>3. ASSUME NEW w, NEW i \in 1..Len(journal)
      PROVE  Completes(w, i)' <=> Completes(w, i)
  BY <1>1, <1>2, CompletesStays DEF StockInv
<1>4. ASSUME NEW w, NEW i \in 1..Len(journal'), Completes(w, i)', i \notin 1..Len(journal)
      PROVE  /\ i = Len(journal) + 1
             /\ request[r].operation = "COMPLETE" /\ request[r].order = w
  BY <1>1, <1>2, <1>4 DEF Completes
<1> QED  BY <1>3, <1>4

\* A step that posts nothing completes nothing.
LEMMA KeepingCompletesNothing ==
    ASSUME StockInv, StockInv', Keeps
    PROVE  \A w : \A i \in 1..Len(journal') :
             Completes(w, i)' => i \in 1..Len(journal) /\ Completes(w, i)
<1> SUFFICES ASSUME NEW w, NEW i \in 1..Len(journal), Completes(w, i)'
             PROVE  Completes(w, i)
  BY DEF Keeps
<1>1. /\ Len(journal') >= Len(journal) /\ journal'[i] = journal[i]
      /\ \A r \in Requests : request[r] # None => request'[r] = request[r]
  <2>1. Len(journal) \in Nat
    BY DEF StockInv, StateTyped
  <2> QED  BY <2>1 DEF Keeps
<1> QED  BY <1>1, CompletesStays DEF StockInv

\* The fields of a row or hold that a step writes.
LEMMA ReserveFields ==
    \A row, quantity : /\ Reserve(row, quantity).reserved = row.reserved + quantity
                       /\ Reserve(row, quantity).version = row.version + 1
BY DEF Reserve

\* An order is named by a request of it.
LEMMA RequestNamesOrder ==
    ASSUME StockInv, NEW r \in Requests, NEW operation \in OrderOperations,
           Pending(r, {operation})
    PROVE  request[r].order \in Orders
BY PendingIsTyped DEF StockInv, IsWhole, OrderOperations

\* Releasing an order reserves its materials and leaves it fitting.
LEMMA ReleaseFits ==
    ASSUME StockInv, StockInv', OrdersFit, NEW r \in Requests, NEW w \in Orders,
           w = request[r].order, ReleaseOrder(r, balance)
    PROVE  OrderMoves(w)
<1>0. StateTyped /\ StateTyped' /\ NeverOvercommitted /\ RequestsAreWhole
  BY DEF StockInv
<1>2. /\ order[w] = "DRAFT"
      /\ \A p \in Needed(w) : balance[p].version > 0
      /\ balance' = [p \in Positions |->
                       IF p \in Needed(w) THEN Reserve(balance[p], Required[w][p])
                       ELSE balance[p]]
      /\ hold' = [hold EXCEPT ![w] = [p \in Positions |->
                    [reserved |-> Required[w][p], issued |-> 0, released |-> 0]]]
      /\ order' = [order EXCEPT ![w] = "RELEASED"] /\ work' = work
  BY DEF ReleaseOrder, RecordOrder
<1>3. Keeps
  BY <1>0, ReleaseStep
<1>4. /\ order'[w] = "RELEASED"
      /\ \A p \in Positions : /\ hold'[w][p].reserved = Required[w][p]
                              /\ hold'[w][p].issued = 0
                              /\ hold'[w][p].released = 0
  BY <1>0, <1>2 DEF StateTyped
<1>5. OthersUntouched(w)
  BY <1>0, <1>2 DEF OthersUntouched, StateTyped
<1>6. CompletesOnly(w)
  BY <1>3, KeepingCompletesNothing DEF CompletesOnly
<1>7. OrderFits(w)
  BY DEF OrdersFit
<1>8. ASSUME NEW p \in Positions
      PROVE  /\ Owed(w, p) = 0 /\ Owed(w, p)' = Required[w][p]
             /\ Required[w][p] \in Nat /\ balance[p].reserved \in Int
             /\ balance[p].version \in Nat
  <2>1. HoldFits(w, p) /\ Owed(w, p) \in Int
    BY <1>0, <1>7, OrderIsTyped DEF OrderFits
  <2>2. Owed(w, p) = 0
    BY <1>2, <2>1 DEF HoldFits, Running
  <2>3. Required[w][p] \in Nat /\ balance[p] \in Row
    BY <1>0, OrderIsTyped
  <2> QED  BY <1>4, <2>2, <2>3 DEF Owed, Row
<1>9. ReservedFollows(w)
  <2> SUFFICES ASSUME NEW p \in Positions
               PROVE  balance'[p].reserved
                        = balance[p].reserved + (Owed(w, p)' - Owed(w, p))
    BY DEF ReservedFollows
  <2>1. CASE p \in Needed(w)
    BY <1>2, <1>8, <2>1, ReserveFields
  <2>2. CASE p \notin Needed(w)
    BY <1>2, <1>8, <2>2 DEF Needed
  <2> QED  BY <2>1, <2>2
<1>10. CompletionsStart(w)'
  <2>1. \A i \in 1..Len(journal) : ~Completes(w, i)
    BY <1>2, <1>7 DEF OrderFits, CompletionsStart, Started
  <2> QED  BY <1>3, <2>1, KeepingCompletesNothing DEF CompletionsStart
<1>11. ASSUME NEW p \in Positions
       PROVE  HoldFits(w, p)' /\ MaterialsSuffice(w, p)'
  <2>1. MaterialsSuffice(w, p)'
    <3>1. HoldFits(w, p) /\ MaterialsSuffice(w, p)
      BY <1>7 DEF OrderFits
    <3> QED  BY <1>2, <1>4, <3>1 DEF HoldFits, MaterialsSuffice
  <2>2. p \in Needed(w) => balance'[p].version > 0
    BY <1>2, <1>8, ReserveFields
  <2>3. Owed(w, p)' > 0 => p \in Needed(w)
    BY <1>8 DEF Needed
  <2>4. Needed(w)' = Needed(w)
    BY DEF Needed
  <2> QED  BY <1>4, <1>8, <2>1, <2>2, <2>3, <2>4 DEF HoldFits, Running
<1>12. OrderFits(w)'
  BY <1>10, <1>11 DEF OrderFits
<1> QED  BY <1>5, <1>6, <1>9, <1>12 DEF OrderMoves

\* A cancellation gives back all the order holds.
LEMMA CancelFits ==
    ASSUME StockInv, StockInv', OrdersFit, NEW r \in Requests, NEW w \in Orders,
           w = request[r].order, CancelOrder(r, balance)
    PROVE  OrderMoves(w)
<1>1. StateTyped /\ StateTyped' /\ NeverOvercommitted /\ RequestsAreWhole
  BY DEF StockInv
<1>2. /\ order[w] \in {"DRAFT", "RELEASED"}
      /\ balance' = [p \in Positions |->
                       IF Owed(w, p) > 0 THEN Reserve(balance[p], -Owed(w, p))
                       ELSE balance[p]]
      /\ hold' = [hold EXCEPT ![w] = [p \in Positions |->
                    [reserved |-> hold[w][p].reserved, issued |-> hold[w][p].issued,
                     released |-> hold[w][p].released + Owed(w, p)]]]
      /\ order' = [order EXCEPT ![w] = "CANCELLED"] /\ work' = work
  BY DEF CancelOrder, RecordOrder
<1>3. Keeps
  BY <1>1, CancelStep
<1>4. /\ order'[w] = "CANCELLED"
      /\ \A p \in Positions :
           /\ hold'[w][p].reserved = hold[w][p].reserved
           /\ hold'[w][p].issued = hold[w][p].issued
           /\ hold'[w][p].released = hold[w][p].released + Owed(w, p)
  BY <1>1, <1>2 DEF StateTyped
<1>5. OthersUntouched(w)
  BY <1>1, <1>2 DEF OthersUntouched, StateTyped
<1>6. CompletesOnly(w)
  BY <1>3, KeepingCompletesNothing DEF CompletesOnly
<1>7. OrderFits(w)
  BY DEF OrdersFit
<1>8. ASSUME NEW p \in Positions
      PROVE  /\ Owed(w, p) \in Int /\ Owed(w, p) >= 0 /\ Owed(w, p)' = 0
             /\ balance[p].reserved \in Int
  <2>1. HoldFits(w, p) /\ Owed(w, p) \in Int /\ hold[w][p] \in Hold /\ balance[p] \in Row
    BY <1>1, <1>7, OrderIsTyped DEF OrderFits
  <2>2. Owed(w, p) = hold[w][p].reserved - hold[w][p].issued - hold[w][p].released
    BY DEF Owed
  <2>3. Owed(w, p)' = hold'[w][p].reserved - hold'[w][p].issued - hold'[w][p].released
    BY DEF Owed
  <2>4. /\ hold[w][p].reserved \in Int /\ hold[w][p].issued \in Int
        /\ hold[w][p].released \in Int
    BY <1>1, OrderIsTyped
  <2>5. Owed(w, p)' = 0
    BY <1>4, <2>2, <2>3, <2>4
  <2>6. balance[p].reserved \in Int
    BY <2>1 DEF Row
  <2> QED  BY <2>1, <2>5, <2>6 DEF HoldFits
<1>9. ReservedFollows(w)
  <2> SUFFICES ASSUME NEW p \in Positions
               PROVE  balance'[p].reserved
                        = balance[p].reserved + (Owed(w, p)' - Owed(w, p))
    BY DEF ReservedFollows
  <2>1. CASE Owed(w, p) > 0
    <3>1. balance'[p].reserved = balance[p].reserved + (-Owed(w, p))
      BY <1>2, <2>1, ReserveFields
    <3> QED  BY <1>8, <3>1
  <2>2. CASE ~(Owed(w, p) > 0)
    BY <1>2, <1>8, <2>2
  <2> QED  BY <2>1, <2>2
<1>10. CompletionsStart(w)'
  <2>1. \A i \in 1..Len(journal) : ~Completes(w, i)
    BY <1>2, <1>7 DEF OrderFits, CompletionsStart, Started
  <2> QED  BY <1>3, <2>1, KeepingCompletesNothing DEF CompletionsStart
<1>11. ASSUME NEW p \in Positions
       PROVE  HoldFits(w, p)' /\ MaterialsSuffice(w, p)'
  <2>1. HoldFits(w, p) /\ MaterialsSuffice(w, p) /\ hold[w][p] \in Hold
    BY <1>1, <1>7, OrderIsTyped DEF OrderFits
  <2>2. MaterialsSuffice(w, p)'
    BY <1>2, <1>4, <2>1 DEF MaterialsSuffice
  <2>3. hold'[w][p].released >= 0 /\ Owed(w, p)' = 0
    BY <1>4, <1>8, <2>1 DEF HoldFits, Hold
  <2> QED  BY <1>4, <2>1, <2>2, <2>3 DEF HoldFits, Started
<1>12. OrderFits(w)'
  BY <1>10, <1>11 DEF OrderFits
<1> QED  BY <1>5, <1>6, <1>9, <1>12 DEF OrderMoves

\* A posting that is no completion leaves an order what it was, if it does not
\* take it back to before its completions.
LEMMA PostingStarts ==
    ASSUME StockInv, StockInv', OrdersFit, NEW r \in Requests, NEW w \in Orders,
           w = request[r].order, NEW e, Posts(r, e),
           \/ order'[w] \in Started
           \/ order'[w] = order[w] /\ request[r].operation # "COMPLETE"
    PROVE  CompletesOnly(w) /\ CompletionsStart(w)'
<1>1. CompletesOnly(w)
  BY PostingCompletes DEF CompletesOnly
<1>2. CompletionsStart(w)
  BY DEF OrdersFit, OrderFits
<1>3. \A i \in 1..Len(journal') : Completes(w, i)' =>
        \/ i \in 1..Len(journal) /\ Completes(w, i)
        \/ request[r].operation = "COMPLETE"
  BY PostingCompletes
<1>4. CompletionsStart(w)'
  BY <1>2, <1>3 DEF CompletionsStart
<1> QED  BY <1>1, <1>4

\* No posting takes a row back to an earlier version.
LEMMA PostingAges ==
    ASSUME StateTyped, StateTyped', NEW r \in Requests, NEW e, Posts(r, e)
    PROVE  \A p \in Positions : balance'[p].version >= balance[p].version
<1> SUFFICES ASSUME NEW p \in Positions PROVE balance'[p].version >= balance[p].version
  OBVIOUS
<1>1. balance[p].version \in Nat
  BY DEF StateTyped, Row
<1>2. CASE p \in DOMAIN e.lines
  <2>1. balance'[p].version \in Nat
    BY DEF StateTyped, Row
  <2>2. balance'[p].version > balance[p].version
    BY <1>2 DEF Posts, MovesRow
  <2> QED  BY <1>1, <2>1, <2>2
<1>3. CASE p \notin DOMAIN e.lines
  BY <1>1, <1>3 DEF Posts
<1> QED  BY <1>2, <1>3

\* Multiplying by a natural number keeps the order of two integers.
LEMMA Scaling ==
    ASSUME NEW a \in Nat, NEW b \in Int, NEW c \in Int, b <= c
    PROVE  a * b <= a * c /\ b * a <= c * a
OBVIOUS

\* An issue draws what the order holds.
LEMMA IssueFits ==
    ASSUME StockInv, StockInv', OrdersFit, NEW r \in Requests, NEW w \in Orders,
           w = request[r].order, IssueMaterials(r, balance)
    PROVE  OrderMoves(w)
<1> DEFINE P == DOMAIN request[r].lines
           consumed == [p \in P |-> Reserve(balance[p], -Quantity(r, p))]
           lines == [p \in P |-> PostedLine("ISSUE", Quantity(r, p), consumed[p])]
<1>1. StateTyped /\ StateTyped' /\ NeverOvercommitted /\ RequestsAreWhole
  BY DEF StockInv
<1>2. P \subseteq Positions /\ \A p \in P : Quantity(r, p) \in Nat
  BY <1>1, OrderRequestIsTyped DEF IssueMaterials
<1>3. /\ Running(w)
      /\ \A p \in P : Quantity(r, p) <= Owed(w, p)
      /\ hold' = [hold EXCEPT ![w] = [p \in Positions |->
                    IF p \in P THEN Draw(w, p, Quantity(r, p)) ELSE hold[w][p]]]
      /\ order' = [order EXCEPT ![w] = "IN_PROGRESS"] /\ work' = work
      /\ WriteLines(consumed, lines)
  BY DEF IssueMaterials, MayIssue
<1>4. PICK e : Posts(r, e)
  BY <1>1, IssueStep
<1>5. /\ order'[w] = "IN_PROGRESS" /\ work'[w] = work[w]
      /\ \A p \in Positions :
           hold'[w][p] = IF p \in P THEN Draw(w, p, Quantity(r, p)) ELSE hold[w][p]
  BY <1>1, <1>3 DEF StateTyped
<1>6. \A p \in Positions : balance'[p].reserved
        = IF p \in P THEN balance[p].reserved + (-Quantity(r, p)) ELSE balance[p].reserved
  <2> TAKE p \in Positions
  <2>1. balance'[p] = IF p \in P THEN Written(consumed[p], lines[p]) ELSE balance[p]
    BY <1>3 DEF WriteLines
  <2>2. p \in P => consumed[p].reserved = balance[p].reserved + (-Quantity(r, p))
    BY ReserveFields
  <2> HIDE DEF consumed, lines
  <2>3. Written(consumed[p], lines[p]).reserved = consumed[p].reserved
    BY DEF Written
  <2> QED  BY <2>1, <2>2, <2>3
<1> HIDE DEF consumed, lines, P
<1>7. OthersUntouched(w)
  BY <1>1, <1>3 DEF OthersUntouched, StateTyped
<1>8. CompletesOnly(w) /\ CompletionsStart(w)'
  BY <1>4, <1>5, PostingStarts DEF Started
<1>9. OrderFits(w)
  BY DEF OrdersFit
<1>10. ASSUME NEW p \in Positions
       PROVE  /\ balance'[p].reserved
                   = balance[p].reserved + (Owed(w, p)' - Owed(w, p))
              /\ HoldFits(w, p)' /\ MaterialsSuffice(w, p)'
  <2>1. PICK quantity \in Nat :
          quantity = IF p \in P THEN Quantity(r, p) ELSE 0
    BY <1>2
  <2>2. /\ HoldFits(w, p) /\ MaterialsSuffice(w, p)
        /\ hold[w][p].reserved \in Nat /\ hold[w][p].issued \in Int
        /\ hold[w][p].released \in Int /\ balance[p].reserved \in Int
        /\ balance[p].version \in Nat /\ balance'[p].version \in Nat
        /\ Planned[w] \in Nat
        /\ work[w].dispatched \in Nat /\ Required[w][p] \in Nat
    <3>1. /\ HoldFits(w, p) /\ MaterialsSuffice(w, p)
          /\ balance[p] \in Row /\ balance'[p] \in Row
      BY <1>1, <1>9 DEF OrderFits, StateTyped
    <3> QED  BY <1>1, <3>1, OrderIsTyped DEF Row
  <2>3. /\ hold'[w][p].reserved = hold[w][p].reserved
        /\ hold'[w][p].issued = hold[w][p].issued + quantity
        /\ hold'[w][p].released = hold[w][p].released
        /\ balance'[p].reserved = balance[p].reserved + (-quantity)
    <3>1. CASE p \in P
      <4>1. Quantity(r, p) = quantity
        BY <2>1, <3>1
      <4>2. /\ hold'[w][p] = Draw(w, p, quantity)
            /\ balance'[p].reserved = balance[p].reserved + (-quantity)
        BY <1>5, <1>6, <3>1, <4>1
      <4> QED  BY <4>2 DEF Draw
    <3>2. CASE p \notin P
      BY <1>5, <1>6, <2>1, <2>2, <3>2
    <3> QED  BY <3>1, <3>2
  <2>4. Owed(w, p)' = Owed(w, p) - quantity /\ Owed(w, p) \in Int
    BY <2>2, <2>3 DEF Owed
  <2>5. Owed(w, p)' >= 0
    BY <1>3, <2>1, <2>2, <2>4 DEF HoldFits
  <2>6. MaterialsSuffice(w, p)'
    <3>1. hold[w][p].issued * Planned[w] <= hold'[w][p].issued * Planned[w]
      BY <2>2, <2>3, Scaling
    <3>2. hold[w][p].issued * Planned[w] \in Int /\ hold'[w][p].issued * Planned[w] \in Int
      BY <2>2, <2>3
    <3>3. work[w].dispatched * Required[w][p] \in Int
      BY <2>2
    <3> QED  BY <1>5, <2>2, <3>1, <3>2, <3>3 DEF MaterialsSuffice
  <2>7. balance'[p].version >= balance[p].version
    BY <1>1, <1>4, PostingAges
  <2>8. Running(w)' /\ Needed(w)' = Needed(w)
    BY <1>5 DEF Running, Needed
  <2>9. p \in Needed(w) => balance'[p].version > 0
    BY <1>3, <2>2, <2>7 DEF HoldFits, Running, Started
  <2>10. HoldFits(w, p)'
    <3>1. hold'[w][p].issued >= 0 /\ hold'[w][p].released >= 0
          /\ hold'[w][p].reserved <= Required[w][p]
      BY <2>2, <2>3 DEF HoldFits
    <3>2. Owed(w, p)' > 0 => p \in Needed(w)
      BY <2>1, <2>2, <2>4 DEF HoldFits
    <3> QED  BY <1>5, <2>5, <2>8, <2>9, <3>1, <3>2 DEF HoldFits
  <2> QED  BY <2>2, <2>3, <2>4, <2>6, <2>10
<1>11. ReservedFollows(w) /\ OrderFits(w)'
  BY <1>8, <1>10 DEF ReservedFollows, OrderFits
<1> QED  BY <1>7, <1>8, <1>11 DEF OrderMoves

\* A return gives back to the order what it drew.
LEMMA ReturnFits ==
    ASSUME StockInv, StockInv', OrdersFit, NEW r \in Requests, NEW w \in Orders,
           w = request[r].order, ReturnMaterials(r, balance)
    PROVE  OrderMoves(w)
<1> DEFINE P == DOMAIN request[r].lines
           lines == [p \in P |-> PostedLine("RECEIPT", Quantity(r, p), balance[p])]
<1>1. StateTyped /\ StateTyped' /\ NeverOvercommitted /\ RequestsAreWhole
  BY DEF StockInv
<1>2. P \subseteq Positions /\ \A p \in P : Quantity(r, p) \in Nat
  BY <1>1, OrderRequestIsTyped DEF ReturnMaterials
<1>3. /\ Running(w)
      /\ \A p \in P : Quantity(r, p) <= hold[w][p].issued
                      /\ MayReturn(w, p, Quantity(r, p))
      /\ hold' = [hold EXCEPT ![w] = [p \in Positions |->
                    IF p \in P THEN Draw(w, p, -Quantity(r, p)) ELSE hold[w][p]]]
      /\ order' = order /\ work' = work
      /\ balance' = [p \in Positions |->
                       IF p \in P
                       THEN Reserve(Written(balance[p], lines[p]), Quantity(r, p))
                       ELSE balance[p]]
  BY DEF ReturnMaterials
<1>4. PICK e : Posts(r, e)
  BY <1>1, ReturnStep
<1>5. \A p \in Positions :
        hold'[w][p] = IF p \in P THEN Draw(w, p, -Quantity(r, p)) ELSE hold[w][p]
  BY <1>1, <1>3 DEF StateTyped
<1>6. \A p \in Positions : balance'[p].reserved
        = IF p \in P THEN balance[p].reserved + Quantity(r, p) ELSE balance[p].reserved
  <2> HIDE DEF lines
  <2> TAKE p \in Positions
  <2>1. Written(balance[p], lines[p]).reserved = balance[p].reserved
    BY DEF Written
  <2> QED  BY <1>3, <2>1, ReserveFields
<1>7. P \subseteq Needed(w) /\ request[r].operation # "COMPLETE"
  BY DEF OrdersFit, RequestsFitOrders, ReturnMaterials, Pending
<1> HIDE DEF lines, P
<1>8. OthersUntouched(w)
  BY <1>1, <1>3 DEF OthersUntouched, StateTyped
<1>9. CompletesOnly(w) /\ CompletionsStart(w)'
  BY <1>3, <1>4, <1>7, PostingStarts
<1>10. OrderFits(w)
  BY DEF OrdersFit
<1>11. ASSUME NEW p \in Positions
       PROVE  /\ balance'[p].reserved
                   = balance[p].reserved + (Owed(w, p)' - Owed(w, p))
              /\ HoldFits(w, p)' /\ MaterialsSuffice(w, p)'
  <2>1. PICK quantity \in Nat :
          quantity = IF p \in P THEN Quantity(r, p) ELSE 0
    BY <1>2
  <2>2. /\ HoldFits(w, p) /\ MaterialsSuffice(w, p)
        /\ hold[w][p].reserved \in Nat /\ hold[w][p].issued \in Int
        /\ hold[w][p].released \in Int /\ balance[p].reserved \in Int
        /\ balance[p].version \in Nat /\ balance'[p].version \in Nat
    BY <1>1, <1>10, OrderIsTyped DEF OrderFits, Row, StateTyped
  <2>3. /\ hold'[w][p].reserved = hold[w][p].reserved
        /\ hold'[w][p].issued = hold[w][p].issued - quantity
        /\ hold'[w][p].released = hold[w][p].released
        /\ balance'[p].reserved = balance[p].reserved + quantity
    <3>1. CASE p \in P
      <4>1. Quantity(r, p) = quantity
        BY <2>1, <3>1
      <4>2. /\ hold'[w][p] = Draw(w, p, -quantity)
            /\ balance'[p].reserved = balance[p].reserved + quantity
        BY <1>5, <1>6, <3>1, <4>1
      <4>3. /\ hold'[w][p].reserved = hold[w][p].reserved
            /\ hold'[w][p].issued = hold[w][p].issued + (-quantity)
            /\ hold'[w][p].released = hold[w][p].released
        BY <4>2 DEF Draw
      <4> QED  BY <2>2, <4>2, <4>3
    <3>2. CASE p \notin P
      BY <1>5, <1>6, <2>1, <2>2, <3>2
    <3> QED  BY <3>1, <3>2
  <2>4. Owed(w, p)' = Owed(w, p) + quantity /\ Owed(w, p) \in Int
    BY <2>2, <2>3 DEF Owed
  <2>5. hold'[w][p].issued >= 0
    <3>1. quantity <= hold[w][p].issued
      BY <1>3, <2>1, <2>2 DEF HoldFits
    <3>2. hold'[w][p].issued = hold[w][p].issued - quantity
      BY <2>3
    <3> QED  BY <2>2, <3>1, <3>2
  <2>6. MaterialsSuffice(w, p)'
    <3>1. work[w].dispatched * Required[w][p]
            <= (hold[w][p].issued - quantity) * Planned[w]
      <4>1. CASE p \in P
        BY <1>3, <2>1, <4>1 DEF MayReturn
      <4>2. CASE p \notin P
        <5>1. quantity = 0 /\ hold[w][p].issued - quantity = hold[w][p].issued
          BY <2>1, <2>2, <4>2
        <5> QED  BY <2>2, <5>1 DEF MaterialsSuffice
      <4> QED  BY <4>1, <4>2
    <3>2. hold'[w][p].issued = hold[w][p].issued - quantity /\ work' = work
      BY <1>3, <2>3
    <3> QED  BY <3>1, <3>2 DEF MaterialsSuffice
  <2>7. balance'[p].version >= balance[p].version
    BY <1>1, <1>4, PostingAges
  <2>8. Running(w)' /\ Needed(w)' = Needed(w)
    BY <1>3 DEF Running, Needed
  <2>9. p \in Needed(w) => balance'[p].version > 0
    BY <1>3, <2>2, <2>7 DEF HoldFits, Running, Started
  <2>10. Owed(w, p)' > 0 => p \in Needed(w)
    BY <1>7, <2>1, <2>2, <2>4 DEF HoldFits
  <2>11. order'[w] # "DRAFT"
    BY <1>3 DEF Running
  <2> QED
    BY <2>2, <2>3, <2>4, <2>5, <2>6, <2>8, <2>9, <2>10, <2>11 DEF HoldFits
<1>12. ReservedFollows(w) /\ OrderFits(w)'
  BY <1>9, <1>11 DEF ReservedFollows, OrderFits
<1> QED  BY <1>8, <1>9, <1>12 DEF OrderMoves

\* A step that neither reserves nor draws for w moves nothing it holds.
LEMMA HoldStays ==
    ASSUME StateTyped, StateTyped', NEW w \in Orders, OrderFits(w),
           hold'[w] = hold[w], work'[w].dispatched <= work[w].dispatched,
           order'[w] \in Started,
           \A p \in Positions : balance'[p].version >= balance[p].version,
           order[w] \in Started \cup {"RELEASED"},
           order'[w] # "IN_PROGRESS" => \A p \in Positions : Owed(w, p) = 0
    PROVE  \A p \in Positions : /\ Owed(w, p)' = Owed(w, p)
                                /\ HoldFits(w, p)' /\ MaterialsSuffice(w, p)'
<1> TAKE p \in Positions
<1>1. HoldFits(w, p) /\ MaterialsSuffice(w, p)
  BY DEF OrderFits
<1>2. Owed(w, p)' = Owed(w, p) /\ Needed(w)' = Needed(w)
  BY DEF Owed, Needed
<1>3. /\ work[w].dispatched \in Nat /\ work'[w].dispatched \in Nat
      /\ Required[w][p] \in Nat /\ hold[w][p].issued \in Int /\ Planned[w] \in Nat
      /\ balance[p].version \in Nat /\ balance'[p].version \in Nat
  <2>1. balance[p] \in Row /\ balance'[p] \in Row /\ work'[w] \in Progress
    BY DEF StateTyped
  <2> QED  BY <2>1, OrderIsTyped DEF Row, Progress
<1>4. MaterialsSuffice(w, p)'
  <2>1. work'[w].dispatched * Required[w][p] <= work[w].dispatched * Required[w][p]
    BY <1>3, Scaling
  <2>2. /\ work'[w].dispatched * Required[w][p] \in Int
        /\ work[w].dispatched * Required[w][p] \in Int
        /\ hold[w][p].issued * Planned[w] \in Int
    BY <1>3
  <2> QED  BY <1>1, <2>1, <2>2 DEF MaterialsSuffice
<1>5. p \in Needed(w) => balance'[p].version > 0
  BY <1>1, <1>3 DEF HoldFits
<1>6. Owed(w, p)' > 0 => Running(w)' /\ p \in Needed(w)
  BY <1>1, <1>2, <1>3 DEF HoldFits, Running, Started
<1>7. order'[w] # "DRAFT"
  BY DEF Started
<1> QED  BY <1>1, <1>2, <1>4, <1>5, <1>6, <1>7 DEF HoldFits

\* Everything dispatched of an order, its materials are all drawn.
LEMMA NothingOwed ==
    ASSUME StateTyped, NEW w \in Orders, OrderFits(w),
           work[w].dispatched >= Planned[w], NEW p \in Positions
    PROVE  Owed(w, p) = 0
<1>1. /\ work[w].dispatched \in Nat /\ Planned[w] \in Nat /\ Planned[w] > 0
      /\ Required[w][p] \in Nat /\ hold[w][p].reserved \in Int
      /\ hold[w][p].issued \in Int /\ hold[w][p].released \in Int
      /\ HoldFits(w, p) /\ MaterialsSuffice(w, p)
  BY OrderIsTyped DEF OrderFits
<1>2. PICK d \in Nat, n \in Nat, q \in Nat, i \in Int :
        /\ d = work[w].dispatched /\ n = Planned[w]
        /\ q = Required[w][p] /\ i = hold[w][p].issued
  BY <1>1
<1>3. n > 0 /\ d >= n /\ d * q <= i * n
  BY <1>1, <1>2 DEF MaterialsSuffice
<1>4. q <= i
  <2>1. n * q <= d * q
    BY <1>3, Scaling
  <2>2. d * q \in Int /\ n * q \in Int /\ i * n \in Int
    OBVIOUS
  <2>3. n * q <= i * n
    BY <1>3, <2>1, <2>2
  <2>4. SUFFICES ASSUME q > i PROVE FALSE
    OBVIOUS
  <2>5. n * (i + 1) <= n * q
    BY <2>4, Scaling
  <2>6. n * (i + 1) = i * n + n
    OBVIOUS
  <2> QED  BY <1>3, <2>2, <2>3, <2>5, <2>6
<1> QED  BY <1>1, <1>2, <1>4 DEF HoldFits, Owed

\* Steps of an order that leave its materials alone.
LEMMA ProductMoves ==
    ASSUME StockInv, StockInv', OrdersFit, NEW w \in Orders,
           OthersUntouched(w), CompletesOnly(w), CompletionsStart(w)',
           hold' = hold, work'[w].dispatched <= work[w].dispatched,
           order'[w] \in Started, order[w] \in Started \cup {"RELEASED"},
           \A p \in Positions : /\ balance'[p].version >= balance[p].version
                                /\ balance'[p].reserved = balance[p].reserved,
           order'[w] # "IN_PROGRESS" => \A p \in Positions : Owed(w, p) = 0
    PROVE  OrderMoves(w)
<1>1. OrderFits(w) /\ StateTyped /\ StateTyped'
  BY DEF OrdersFit, StockInv
<1>2. \A p \in Positions : /\ Owed(w, p)' = Owed(w, p)
                           /\ HoldFits(w, p)' /\ MaterialsSuffice(w, p)'
  BY <1>1, HoldStays
<1>3. OrderFits(w)'
  BY <1>2 DEF OrderFits
<1>4. ReservedFollows(w)
  <2> SUFFICES ASSUME NEW p \in Positions
               PROVE  balance'[p].reserved
                        = balance[p].reserved + (Owed(w, p)' - Owed(w, p))
    BY DEF ReservedFollows
  <2>1. Owed(w, p) \in Int /\ balance[p] \in Row
    BY <1>1, OrderIsTyped
  <2> QED  BY <1>2, <2>1 DEF Row
<1> QED  BY <1>3, <1>4 DEF OrderMoves

\* Written rows keep what is reserved of them.
LEMMA WritingReservesNothing ==
    ASSUME NEW lines, WriteLines(balance, lines)
    PROVE  \A p \in Positions : balance'[p].reserved = balance[p].reserved
BY DEF WriteLines, Written

\* Completing dispatched work keeps the order fitting.
LEMMA CompleteFits ==
    ASSUME StockInv, StockInv', OrdersFit, NEW r \in Requests, NEW w \in Orders,
           w = request[r].order, Complete(r, balance)
    PROVE  OrderMoves(w)
<1>1. StateTyped /\ StateTyped' /\ NeverOvercommitted /\ RequestsAreWhole
  BY DEF StockInv
<1>2. PICK total :
        /\ Running(w) /\ total <= work[w].dispatched /\ hold' = hold
        /\ work' = [work EXCEPT ![w] = [dispatched |-> work[w].dispatched,
                                        completed |-> total]]
        /\ order' = [order EXCEPT ![w] =
                        IF total = Planned[w] THEN "COMPLETED" ELSE "IN_PROGRESS"]
        /\ \E lines : WriteLines(balance, lines)
  BY DEF Complete
<1>3. PICK e : Posts(r, e)
  BY <1>1, CompleteStep
<1>4. /\ work'[w].dispatched = work[w].dispatched
      /\ order'[w] = IF total = Planned[w] THEN "COMPLETED" ELSE "IN_PROGRESS"
      /\ order[w] \in Started \cup {"RELEASED"}
  BY <1>1, <1>2 DEF StateTyped, Running, Started
<1>5. OthersUntouched(w)
  BY <1>1, <1>2 DEF OthersUntouched, StateTyped
<1>6. order'[w] \in Started
  BY <1>4 DEF Started
<1>7. CompletesOnly(w) /\ CompletionsStart(w)'
  BY <1>3, <1>6, PostingStarts
<1>8. \A p \in Positions : /\ balance'[p].version >= balance[p].version
                           /\ balance'[p].reserved = balance[p].reserved
  BY <1>1, <1>2, <1>3, PostingAges, WritingReservesNothing
<1>9. work'[w].dispatched <= work[w].dispatched
  BY <1>1, <1>4, OrderIsTyped
<1>10. order'[w] # "IN_PROGRESS" => \A p \in Positions : Owed(w, p) = 0
  <2> SUFFICES ASSUME total = Planned[w], NEW p \in Positions
               PROVE  Owed(w, p) = 0
    BY <1>4
  <2>1. work[w].dispatched >= Planned[w] /\ OrderFits(w)
    BY <1>1, <1>2, OrderIsTyped DEF OrdersFit
  <2> QED  BY <1>1, <2>1, NothingOwed
<1> QED
  BY <1>2, <1>4, <1>5, <1>6, <1>7, <1>8, <1>9, <1>10, ProductMoves

\* Taking a completion back keeps the order fitting.
LEMMA ReverseCompletionFits ==
    ASSUME StockInv, StockInv', OrdersFit, NEW r \in Requests, NEW w \in Orders,
           w = request[r].order, ReverseCompletion(r, balance)
    PROVE  OrderMoves(w)
<1>1. StateTyped /\ StateTyped' /\ NeverOvercommitted /\ RequestsAreWhole
  BY DEF StockInv
<1>2. PICK i \in Nat :
        /\ i = request[r].reversalOf /\ hold' = hold
        /\ work' = [work EXCEPT ![w] = [dispatched |-> work[w].dispatched,
                                        completed |-> CompletedWithout(w, i)]]
        /\ order' = [order EXCEPT ![w] = "IN_PROGRESS"]
        /\ ReverseAdjustment(r, i, balance)
  <2>1. Pending(r, {"REVERSE_COMPLETION"})
    BY DEF ReverseCompletion
  <2>2. request[r].reversalOf \in Nat
    BY <1>1, <2>1, PendingIsTyped DEF Request
  <2> QED  BY <2>2 DEF ReverseCompletion
<1>3. PICK e : Posts(r, e)
  BY <1>1, ReverseCompletionStep
<1>4. /\ work'[w].dispatched = work[w].dispatched
      /\ order'[w] = "IN_PROGRESS"
  BY <1>1, <1>2 DEF StateTyped
<1>5. order[w] \in Started
  <2>1. request[r] # None /\ request[r].operation = "REVERSE_COMPLETION"
    BY DEF ReverseCompletion, Pending
  <2>2. Completes(w, i)
    BY <1>2, <2>1 DEF OrdersFit, RequestsFitOrders
  <2>3. i \in 1..Len(journal)
    BY <1>1, <1>2, <2>1 DEF RequestsAreWhole, IsWhole
  <2> QED  BY <2>2, <2>3 DEF OrdersFit, OrderFits, CompletionsStart
<1>6. OthersUntouched(w)
  BY <1>1, <1>2 DEF OthersUntouched, StateTyped
<1>7. order'[w] \in Started
  BY <1>4 DEF Started
<1>8. CompletesOnly(w) /\ CompletionsStart(w)'
  BY <1>3, <1>7, PostingStarts
<1>9. \A p \in Positions : /\ balance'[p].version >= balance[p].version
                           /\ balance'[p].reserved = balance[p].reserved
  <2>1. \E lines : WriteLines(balance, lines)
    BY <1>2 DEF ReverseAdjustment
  <2> QED  BY <1>1, <1>3, <2>1, PostingAges, WritingReservesNothing
<1>10. work'[w].dispatched <= work[w].dispatched
  BY <1>1, <1>4, OrderIsTyped
<1> QED
  BY <1>2, <1>4, <1>5, <1>6, <1>7, <1>8, <1>9, <1>10, ProductMoves

\* Work on the first operation, and the closing of an order.
LEMMA WorkFits ==
    ASSUME StockInv, StockInv', OrdersFit, NEW w \in Orders, Work(w)
    PROVE  OrderMoves(w)
<1>1. StateTyped /\ StateTyped' /\ OrderFits(w) /\ NeverOvercommitted
  BY DEF StockInv, OrdersFit
<1>2. balance' = balance /\ hold' = hold /\ Keeps
  BY <1>1, WorkStep DEF Work, Dispatch, TakeBack, CloseOrder
<1>3. CompletesOnly(w)
  BY <1>2, KeepingCompletesNothing DEF CompletesOnly
<1>4. ReservedFollows(w)
  <2> SUFFICES ASSUME NEW p \in Positions
               PROVE  balance'[p].reserved
                        = balance[p].reserved + (Owed(w, p)' - Owed(w, p))
    BY DEF ReservedFollows
  <2>1. Owed(w, p) \in Int /\ balance[p] \in Row /\ Owed(w, p)' = Owed(w, p)
    BY <1>1, <1>2, OrderIsTyped DEF Owed
  <2> QED  BY <1>2, <2>1 DEF Row
<1>5. CASE CloseOrder(w)
  <2>1. order' = [order EXCEPT ![w] = "CLOSED"] /\ work' = work /\ order[w] = "COMPLETED"
    BY <1>5 DEF CloseOrder
  <2>2. OthersUntouched(w) /\ order'[w] = "CLOSED"
    BY <1>1, <1>2, <2>1 DEF OthersUntouched, StateTyped
  <2>3. CompletionsStart(w)'
    BY <2>2 DEF CompletionsStart, Started
  <2>4. ASSUME NEW p \in Positions PROVE HoldFits(w, p)' /\ MaterialsSuffice(w, p)'
    <3>1. HoldFits(w, p) /\ MaterialsSuffice(w, p) /\ Owed(w, p) \in Int
      BY <1>1, OrderIsTyped DEF OrderFits
    <3>2. MaterialsSuffice(w, p)' /\ Owed(w, p)' = Owed(w, p) /\ Needed(w)' = Needed(w)
      BY <1>2, <2>1, <3>1 DEF MaterialsSuffice, Owed, Needed
    <3>3. ~(Owed(w, p) > 0)
      BY <2>1, <3>1 DEF HoldFits, Running
    <3>4. p \in Needed(w) => balance[p].version > 0
      BY <2>1, <3>1 DEF HoldFits, Started
    <3> QED  BY <1>2, <2>2, <3>1, <3>2, <3>3, <3>4 DEF HoldFits
  <2> QED  BY <1>3, <1>4, <2>2, <2>3, <2>4 DEF OrderMoves, OrderFits
<1>6. ASSUME NEW total \in Nat, order' = order,
             work' = [work EXCEPT ![w] = [dispatched |-> total,
                                          completed |-> work[w].completed]],
             \A p \in Positions : total * Required[w][p] <= hold[w][p].issued * Planned[w]
      PROVE  OrderMoves(w)
  <2>1. OthersUntouched(w) /\ work'[w].dispatched = total
    BY <1>1, <1>2, <1>6 DEF OthersUntouched, StateTyped
  <2>2. CompletionsStart(w)'
    BY <1>1, <1>2, <1>6, KeepingCompletesNothing
       DEF CompletionsStart, OrderFits
  <2>3. ASSUME NEW p \in Positions PROVE HoldFits(w, p)' /\ MaterialsSuffice(w, p)'
    <3>1. HoldFits(w, p)
      BY <1>1 DEF OrderFits
    <3>2. HoldFits(w, p)'
      BY <1>2, <1>6, <3>1 DEF HoldFits, Owed, Needed, Running
    <3> QED  BY <1>2, <1>6, <2>1, <3>2 DEF MaterialsSuffice
  <2> QED  BY <1>3, <1>4, <2>1, <2>2, <2>3 DEF OrderMoves, OrderFits
<1>7. ASSUME NEW quantity \in Quantities, Dispatch(w, quantity)
      PROVE  OrderMoves(w)
  <2>1. quantity \in Nat /\ work[w].dispatched \in Nat
    BY <1>1, QuantitiesAssumption, OrderIsTyped
  <2>2. PICK total \in Nat : total = work[w].dispatched + quantity
    BY <2>1
  <2>3. /\ order' = order
        /\ work' = [work EXCEPT ![w] = [dispatched |-> total,
                                        completed |-> work[w].completed]]
        /\ \A p \in Needed(w) : total * Required[w][p] <= hold[w][p].issued * Planned[w]
    BY <1>7, <2>2 DEF Dispatch
  <2>4. ASSUME NEW p \in Positions
        PROVE  total * Required[w][p] <= hold[w][p].issued * Planned[w]
    <3>1. CASE p \in Needed(w)
      BY <2>3, <3>1
    <3>2. CASE p \notin Needed(w)
      <4>1. Required[w][p] = 0 /\ hold[w][p].issued \in Nat /\ Planned[w] \in Nat
        BY <1>1, <3>2, OrderIsTyped DEF Needed, OrderFits, HoldFits
      <4>2. hold[w][p].issued * Planned[w] >= 0
        BY <4>1
      <4> QED  BY <4>1, <4>2
    <3> QED  BY <3>1, <3>2
  <2> QED  BY <1>6, <2>3, <2>4
<1>8. ASSUME NEW quantity \in Quantities, TakeBack(w, quantity)
      PROVE  OrderMoves(w)
  <2>1. /\ quantity \in Nat /\ work[w].dispatched \in Nat /\ work[w].completed \in Nat
    BY <1>1, QuantitiesAssumption, OrderIsTyped
  <2>2. PICK total \in Nat : total = work[w].dispatched - quantity
    BY <1>8, <2>1 DEF TakeBack
  <2>3. /\ order' = order
        /\ work' = [work EXCEPT ![w] = [dispatched |-> total,
                                        completed |-> work[w].completed]]
    BY <1>8, <2>2 DEF TakeBack
  <2>4. ASSUME NEW p \in Positions
        PROVE  total * Required[w][p] <= hold[w][p].issued * Planned[w]
    <3>1. /\ Required[w][p] \in Nat /\ hold[w][p].issued \in Int /\ Planned[w] \in Nat
          /\ MaterialsSuffice(w, p)
      BY <1>1, OrderIsTyped DEF OrderFits
    <3>2. total * Required[w][p] <= work[w].dispatched * Required[w][p]
      BY <2>1, <2>2, <3>1, Scaling
    <3>3. /\ total * Required[w][p] \in Int /\ hold[w][p].issued * Planned[w] \in Int
          /\ work[w].dispatched * Required[w][p] \in Int
      BY <2>1, <3>1
    <3> QED  BY <3>1, <3>2, <3>3 DEF MaterialsSuffice
  <2> QED  BY <1>6, <2>3, <2>4
<1> QED  BY <1>5, <1>7, <1>8 DEF Work

\* Any other step leaves the orders and what is reserved alone.
LEMMA OthersFit ==
    ASSUME StockInv, StockInv', OrdersFit, ReservedAddsUp,
           UNCHANGED <<order, hold, work>>,
           \A p \in Positions : /\ balance'[p].version >= balance[p].version
                                /\ balance'[p].reserved = balance[p].reserved,
           \A w \in Orders : \A i \in 1..Len(journal') :
             Completes(w, i)' => i \in 1..Len(journal) /\ Completes(w, i)
    PROVE  (\A w \in Orders : OrderFits(w)') /\ ReservedAddsUp'
<1>1. ReservedAddsUp'
  <2> SUFFICES ASSUME NEW p \in Positions
               PROVE  balance'[p].reserved = SumFunction([v \in Orders |-> Owed(v, p)'])
    BY DEF ReservedAddsUp
  <2>1. \A v \in Orders : Owed(v, p)' = Owed(v, p)
    BY DEF Owed
  <2>2. [v \in Orders |-> Owed(v, p)'] = [v \in Orders |-> Owed(v, p)]
    BY <2>1
  <2> QED  BY <2>2 DEF ReservedAddsUp
<1>2. ASSUME NEW w \in Orders PROVE OrderFits(w)'
  <2>1. OrderFits(w) /\ StateTyped /\ StateTyped'
    BY DEF OrdersFit, StockInv
  <2>2. CompletionsStart(w)'
    BY <2>1 DEF OrderFits, CompletionsStart
  <2>3. ASSUME NEW p \in Positions PROVE HoldFits(w, p)' /\ MaterialsSuffice(w, p)'
    <3>1. HoldFits(w, p) /\ MaterialsSuffice(w, p)
      BY <2>1 DEF OrderFits
    <3>2. balance[p].version > 0 => balance'[p].version > 0
      <4>1. balance[p] \in Row /\ balance'[p] \in Row
        BY <2>1 DEF StateTyped
      <4> QED  BY <4>1 DEF Row
    <3>3. /\ Owed(w, p)' = Owed(w, p) /\ Needed(w)' = Needed(w)
          /\ Running(w)' = Running(w)
      BY DEF Owed, Needed, Running
    <3> QED  BY <3>1, <3>2, <3>3 DEF HoldFits, MaterialsSuffice
  <2> QED  BY <2>2, <2>3 DEF OrderFits
<1> QED  BY <1>1, <1>2

\* A request draws only materials the order needs, and takes back only a completion of
\* that order.
FitsOrder(q) ==
    /\ q.operation \in {"ISSUE_MATERIALS", "RETURN_MATERIALS"} =>
         DOMAIN q.lines \subseteq Needed(q.order)
    /\ q.operation = "REVERSE_COMPLETION" =>
         q.reversalOf \in 1..Len(journal) /\ Completes(q.order, q.reversalOf)

\* A client names materials its order needs and completions it sees.
LEMMA WritableFitsOrder ==
    ASSUME StockInv, NEW new \in Writable
    PROVE  FitsOrder(new)
<1> USE DEF FitsOrder
<1>1. CASE new \in StockRequests
  BY <1>1 DEF StockRequests, OperationTypes, OnHandSign
<1>2. CASE new \in Reversals
  BY <1>2 DEF Reversals
<1>3. CASE new \in OrderRequests
  <2>1. CASE \E type \in {"ISSUE_MATERIALS", "RETURN_MATERIALS"}, w \in Orders :
               \E P \in NonEmpty(Needed(w)), quantity \in Quantities :
               new = [operation |-> type, order |-> w, reversalOf |-> 0,
                      lines |-> Seen(P, quantity)]
    <3>1. PICK type \in {"ISSUE_MATERIALS", "RETURN_MATERIALS"}, w \in Orders :
            \E P \in NonEmpty(Needed(w)), quantity \in Quantities :
            new = [operation |-> type, order |-> w, reversalOf |-> 0,
                   lines |-> Seen(P, quantity)]
      BY <2>1
    <3>2. PICK P \in NonEmpty(Needed(w)), quantity \in Quantities :
            new = [operation |-> type, order |-> w, reversalOf |-> 0,
                   lines |-> Seen(P, quantity)]
      BY <3>1
    <3>3. DOMAIN new.lines = P /\ new.order = w /\ P \subseteq Needed(w)
      BY <3>2 DEF Seen, NonEmpty
    <3> QED  BY <3>2, <3>3
  <2>2. CASE new.operation \in {"RELEASE", "CANCEL"}
    BY <2>2
  <2> QED  BY <1>3, <2>1, <2>2 DEF OrderRequests
<1>4. CASE new \in CompletionRequests
  <2>1. PICK w \in Orders, quantity \in Quantities :
          new = [operation |-> "COMPLETE", order |-> w, reversalOf |-> 0,
                 lines |-> Seen({Finished[w]}, quantity)]
    BY <1>4 DEF CompletionRequests
  <2> QED  BY <2>1
<1>5. CASE new \in CompletionReversals
  <2>1. PICK w \in Orders, i \in 1..Len(journal) :
          /\ Completes(w, i)
          /\ new = [operation |-> "REVERSE_COMPLETION", order |-> w,
                    reversalOf |-> i, lines |-> Seen({Finished[w]}, 0)]
    BY <1>5 DEF CompletionReversals
  <2> QED  BY <2>1
<1> QED
  BY <1>1, <1>2, <1>3, <1>4, <1>5 DEF Writable

\* Only a client writes requests.
LEMMA OnlyClientsWrite ==
    ASSUME [Next]_vars
    PROVE  request' = request \/ \E r \in Requests : Write(r)
<1>1. ASSUME NEW r \in Requests, Apply(r, balance) PROVE request' = request
  BY <1>1 DEF Apply, Post, Reverse, ReleaseOrder, CancelOrder, IssueMaterials,
     ReturnMaterials, Complete, ReverseCompletion, Record, RecordOrder,
     ReverseAdjustment
<1>2. ASSUME NEW w \in Orders, Work(w) PROVE request' = request
  BY <1>2 DEF Work, Dispatch, TakeBack, CloseOrder
<1> QED  BY <1>1, <1>2 DEF Next, vars, ExpireKey

\* Requests, those just offered included, fit their orders.
LEMMA RequestsStayFit ==
    ASSUME StockInv, StockInv', RequestsFitOrders, [Next]_vars
    PROVE  RequestsFitOrders'
<1>1. \A i \in 1..Len(journal) : Len(journal') >= Len(journal) /\ journal'[i] = journal[i]
  <2>1. CASE \E r \in Requests : \E e : Posts(r, e)
    BY <2>1, JournalGrows DEF Posts, StockInv, StateTyped
  <2>2. CASE journal' = journal
    BY <2>2 DEF StockInv, StateTyped
  <2> QED  BY <2>1, <2>2, StepPostsOrKeeps DEF vars, Keeps
<1>2. \A r \in Requests : request[r] # None => request'[r] = request[r]
  <2>1. CASE \E r \in Requests : Write(r)
    BY <2>1 DEF Write, StockInv, StateTyped
  <2> QED  BY <2>1, OnlyClientsWrite
<1>3. ASSUME NEW w, NEW i \in 1..Len(journal), Completes(w, i) PROVE Completes(w, i)'
  BY <1>1, <1>2, <1>3, CompletesStays DEF StockInv
<1>4. ASSUME NEW q, FitsOrder(q)
      PROVE  /\ q.operation \in {"ISSUE_MATERIALS", "RETURN_MATERIALS"} =>
                  DOMAIN q.lines \subseteq Needed(q.order)
             /\ q.operation = "REVERSE_COMPLETION" => Completes(q.order, q.reversalOf)'
  BY <1>3, <1>4 DEF FitsOrder
<1>5. ASSUME NEW r \in Requests, request'[r] # None
      PROVE  FitsOrder(request'[r])
  <2>1. CASE request'[r] = request[r]
    BY <1>5, <2>1 DEF FitsOrder, RequestsFitOrders, StockInv, RequestsAreWhole, IsWhole
  <2>2. CASE request'[r] # request[r]
    <3>1. PICK x \in Requests : Write(x)
      BY <2>2, OnlyClientsWrite
    <3>2. PICK new \in Writable : request' = [request EXCEPT ![x] = new]
      BY <3>1 DEF Write
    <3>3. request'[r] = new
      BY <2>2, <3>2 DEF StockInv, StateTyped
    <3> QED  BY <3>3, WritableFitsOrder
  <2> QED  BY <2>1, <2>2
<1> HIDE DEF FitsOrder
<1> QED
  BY <1>4, <1>5 DEF RequestsFitOrders, Needed

-----------------------------------------------------------------------------
(* The invariant of the orders.                                            *)

\* All orders fit, and what is reserved of a material is what orders are owed of it.
OrdersInv == OrdersFit /\ ReservedAddsUp

\* A step of one order keeps all orders fitting.
LEMMA OrderStepFits ==
    ASSUME StockInv, StockInv', OrdersInv, NEW w \in Orders, OrderMoves(w),
           \A p \in Positions : balance'[p].version >= balance[p].version
    PROVE  (\A v \in Orders : OrderFits(v)') /\ ReservedAddsUp'
BY OthersStayFit, ReservedStaysAddedUp
   DEF OrderMoves, OrdersInv, OrdersFit, StockInv

\* No step takes a row back to an earlier version.
LEMMA RowsAge ==
    ASSUME StockInv, StockInv', [Next]_vars
    PROVE  \A p \in Positions : balance'[p].version >= balance[p].version
<1> SUFFICES ASSUME NEW p \in Positions PROVE balance'[p].version >= balance[p].version
  OBVIOUS
<1>1. balance[p].version \in Nat /\ balance'[p].version \in Nat
  BY DEF StockInv, StateTyped, Row
<1>2. balance'[p] # balance[p] => balance'[p].version > balance[p].version
  BY StepIsVisible DEF MovesAreVisible
<1> QED  BY <1>1, <1>2

\* Every step keeps the orders fitting.
LEMMA OrdersInvStep ==
    ASSUME StockInv, StockInv', OrdersInv, [Next]_vars
    PROVE  OrdersInv'
<1>1. RequestsFitOrders'
  BY RequestsStayFit DEF OrdersInv, OrdersFit
<1>2. \A p \in Positions : balance'[p].version >= balance[p].version
  BY RowsAge
<1> DEFINE Fit == (\A v \in Orders : OrderFits(v)') /\ ReservedAddsUp'
<1>3. ASSUME NEW w \in Orders, OrderMoves(w) PROVE Fit
  BY <1>2, <1>3, OrderStepFits
<1>4. ASSUME NEW r \in Requests, NEW operation \in OrderOperations,
             Pending(r, {operation}), 
             request[r].order \in Orders => OrderMoves(request[r].order)
      PROVE  Fit
  BY <1>3, <1>4, RequestNamesOrder
<1>5. ASSUME NEW r \in Requests,
             ReleaseOrder(r, balance) \/ CancelOrder(r, balance)
      PROVE  Fit
  <2>1. \E operation \in OrderOperations : Pending(r, {operation})
    BY <1>5 DEF ReleaseOrder, CancelOrder, OrderOperations
  <2>2. request[r].order \in Orders => OrderMoves(request[r].order)
    BY <1>5, ReleaseFits, CancelFits DEF OrdersInv
  <2> HIDE DEF Fit
  <2> QED  BY <1>4, <2>1, <2>2
<1>6. ASSUME NEW r \in Requests,
             IssueMaterials(r, balance) \/ ReturnMaterials(r, balance)
      PROVE  Fit
  <2>1. \E operation \in OrderOperations : Pending(r, {operation})
    BY <1>6 DEF IssueMaterials, ReturnMaterials, OrderOperations
  <2>2. request[r].order \in Orders => OrderMoves(request[r].order)
    BY <1>6, IssueFits, ReturnFits DEF OrdersInv
  <2> HIDE DEF Fit
  <2> QED  BY <1>4, <2>1, <2>2
<1>7. ASSUME NEW r \in Requests,
             Complete(r, balance) \/ ReverseCompletion(r, balance)
      PROVE  Fit
  <2>1. \E operation \in OrderOperations : Pending(r, {operation})
    BY <1>7 DEF Complete, ReverseCompletion, OrderOperations
  <2>2. request[r].order \in Orders => OrderMoves(request[r].order)
    BY <1>7, CompleteFits, ReverseCompletionFits DEF OrdersInv
  <2> HIDE DEF Fit
  <2> QED  BY <1>4, <2>1, <2>2
<1>8. ASSUME NEW r \in Requests, Post(r, balance) \/ Reverse(r, balance)
      PROVE  Fit
  <2>1. PICK e : Posts(r, e)
    BY <1>8, PostStep, ReverseStep DEF StockInv
  <2>2. request[r].operation # "COMPLETE"
    BY <1>8 DEF Post, Reverse, Pending, OperationTypes, OnHandSign
  <2>3. UNCHANGED <<order, hold, work>>
    BY <1>8 DEF Post, Reverse
  <2>4. \E lines : WriteLines(balance, lines)
    BY <1>8 DEF Post, Reverse, ReverseAdjustment
  <2>5. \A w \in Orders : \A i \in 1..Len(journal') :
          Completes(w, i)' => i \in 1..Len(journal) /\ Completes(w, i)
    BY <2>1, <2>2, PostingCompletes
  <2> QED  BY <1>2, <2>3, <2>4, <2>5, OthersFit, WritingReservesNothing DEF OrdersInv
<1>9. ASSUME NEW w \in Orders, Work(w) PROVE Fit
  BY <1>3, <1>9, WorkFits DEF OrdersInv
<1>10. ASSUME \/ \E r \in Requests : Write(r) \/ ExpireKey(r)
              \/ UNCHANGED vars
       PROVE  Fit
  <2>1. UNCHANGED <<balance, journal, order, hold, work>>
    BY <1>10 DEF Write, ExpireKey, vars
  <2>2. \A r \in Requests : request[r] # None => request'[r] = request[r]
    BY <1>10 DEF Write, ExpireKey, vars, StockInv, StateTyped
  <2>3. Keeps
    BY <2>1, <2>2 DEF Keeps
  <2>4. \A w \in Orders : \A i \in 1..Len(journal') :
          Completes(w, i)' => i \in 1..Len(journal) /\ Completes(w, i)
    BY <2>3, KeepingCompletesNothing
  <2>5. \A p \in Positions : balance'[p].reserved = balance[p].reserved
    BY <2>1
  <2> QED  BY <1>2, <2>1, <2>4, <2>5, OthersFit DEF OrdersInv
<1>11. Fit
  <2> HIDE DEF Fit
  <2> QED  BY <1>5, <1>6, <1>7, <1>8, <1>9, <1>10 DEF Next, Apply
<1> QED  BY <1>1, <1>11 DEF OrdersInv, OrdersFit

\* So do the initial states.
LEMMA InitOrdersInv == Init => OrdersInv
<1> SUFFICES ASSUME Init PROVE OrdersInv
  OBVIOUS
<1>1. StateTyped
  BY InitStockInv DEF StockInv
<1>2. RequestsFitOrders
  BY DEF Init, RequestsFitOrders
<1>3. ASSUME NEW w \in Orders PROVE OrderFits(w)
  <2>1. CompletionsStart(w)
    BY DEF Init, CompletionsStart, Completes, OpeningAdjustment
  <2>2. ASSUME NEW p \in Positions PROVE HoldFits(w, p) /\ MaterialsSuffice(w, p)
    <3>1. /\ hold[w][p] = NoHold /\ order[w] = "DRAFT" /\ work[w].dispatched = 0
          /\ Required[w][p] \in Nat /\ Planned[w] \in Nat
      BY <1>1, OrderIsTyped DEF Init
    <3>2. Owed(w, p) = 0
      BY <3>1 DEF Owed, NoHold
    <3> QED  BY <3>1, <3>2 DEF HoldFits, MaterialsSuffice, NoHold, Started
  <2> QED  BY <2>1, <2>2 DEF OrderFits
<1>4. ReservedAddsUp
  <2> SUFFICES ASSUME NEW p \in Positions
               PROVE  balance[p].reserved = SumFunction([w \in Orders |-> Owed(w, p)])
    BY DEF ReservedAddsUp
  <2> DEFINE f == [w \in Orders |-> Owed(w, p)]
  <2>1. \A w \in Orders : f[w] = 0
    BY DEF Init, Owed, NoHold
  <2>2. SumFunctionOnSet(f, Orders) = 0
    <3> HIDE DEF f
    <3> QED  BY <2>1, OrdersAssumption, SumOfZeroes
  <2>3. SumFunction(f) = SumFunctionOnSet(f, Orders)
    BY DEF SumFunction
  <2> QED  BY <2>2, <2>3 DEF Init
<1> QED  BY <1>2, <1>3, <1>4 DEF OrdersInv, OrdersFit

\* What is reserved of a material is what the running orders have not drawn of
\* their reservations, and no order draws more than it reserved
\* (reserveRequirements, consumeReservations, releaseUnusedReservations).
THEOREM ReservationsOwed == Spec => []ReservedIsOwed
<1>1. Init => StockInv /\ OrdersInv
  BY InitStockInv, InitOrdersInv
<1>2. StockInv /\ OrdersInv /\ [Next]_vars => (StockInv /\ OrdersInv)'
  BY StockInvStep, OrdersInvStep
<1>3. StockInv /\ OrdersInv => ReservedIsOwed
  BY DEF OrdersInv, OrdersFit, OrderFits, HoldFits, ReservedAddsUp, ReservedIsOwed
<1> QED  BY <1>1, <1>2, <1>3, PTL DEF Spec

-----------------------------------------------------------------------------
(* What an order has completed.                                            *)

\* A completion has a line for its product.
LEMMA CompletionIsTyped ==
    ASSUME StockInv, NEW w \in Orders, NEW i \in 1..Len(journal), Completes(w, i)
    PROVE  Brought(w, i) \in Int
<1> DEFINE a == journal[i].request
<1>1. journal[i] \in Adjustment /\ \A p \in DOMAIN journal[i].lines :
                                     journal[i].lines[p] \in Line
  BY EntryIsTyped DEF StockInv
<1>2. a \in Requests /\ request[a] # None /\ DOMAIN request[a].lines = DOMAIN journal[i].lines
      /\ request[a].operation = "COMPLETE" /\ request[a].order = w
  BY <1>1 DEF Completes, Adjustment, StockInv, AppliedIsStale
<1>3. DOMAIN journal[i].lines = {Finished[w]}
  BY <1>2 DEF StockInv, RequestsAreWhole, IsWhole
<1> QED  BY <1>1, <1>3 DEF Brought, Line

\* Completions bring whole quantities.
CompletionsTyped ==
    \A w \in Orders : \A i \in 1..Len(journal) : Completes(w, i) => Brought(w, i) \in Int

\* They do by what is known of the journal.
LEMMA CompletionsAreTyped == StockInv => CompletionsTyped
BY CompletionIsTyped DEF CompletionsTyped

\* An adjustment that reverses one was posted for a request.
LEMMA ReversalHasRequest ==
    ASSUME StockInv, NEW k \in 1..Len(journal), journal[k].reversalOf # 0
    PROVE  /\ journal[k].request \in Requests
           /\ request[journal[k].request] # None
           /\ journal[k].reversalOf \in 1..Len(journal) /\ journal[k].reversalOf < k
<1>1. journal[k] \in Adjustment /\ journal[k].reversalOf \in Nat /\ Len(journal) \in Nat
  BY EntryIsTyped DEF Adjustment, StockInv, StateTyped
<1>2. journal[k].reversalOf < k
  BY DEF StockInv, ReversalsNetOut
<1>3. journal[k].request # None
  BY <1>1, <1>2 DEF StockInv, EntriesAreWhole
<1> QED  BY <1>1, <1>2, <1>3 DEF Adjustment, StockInv, AppliedIsStale

\* Requests are not taken back, so what is taken back stays so.
LEMMA TakenBackStays ==
    ASSUME StockInv, StockInv', NEW i \in 1..Len(journal),
           Len(journal') >= Len(journal),
           \A k \in 1..Len(journal) : journal'[k] = journal[k],
           \A r \in Requests : request[r] # None => request'[r] = request[r]
    PROVE  TakenBack(i)' <=>
             \/ TakenBack(i)
             \/ \E k \in 1..Len(journal') \ 1..Len(journal) :
                  /\ journal'[k].reversalOf = i
                  /\ request'[journal'[k].request].operation = "REVERSE_COMPLETION"
<1>1. ASSUME NEW k \in 1..Len(journal), journal[k].reversalOf = i
      PROVE  request'[journal'[k].request] = request[journal[k].request]
  BY <1>1, ReversalHasRequest
<1>2. 1..Len(journal) \subseteq 1..Len(journal')
  BY DEF StockInv, StateTyped
<1> QED  BY <1>1, <1>2 DEF TakenBack

\* A posting adds a completion, or takes one back, or does neither.
LEMMA KeptAfterPosting ==
    ASSUME StockInv, StockInv', NEW r \in Requests, NEW e, Posts(r, e), NEW w
    PROVE  /\ request[r].operation = "COMPLETE" /\ request[r].order = w =>
                Kept(w)' = Kept(w) \cup {Len(journal) + 1}
           /\ request[r].operation = "COMPLETE" /\ request[r].order # w =>
                Kept(w)' = Kept(w)
           /\ request[r].operation = "REVERSE_COMPLETION" =>
                Kept(w)' = Kept(w) \ {e.reversalOf}
           /\ request[r].operation \notin {"COMPLETE", "REVERSE_COMPLETION"} =>
                Kept(w)' = Kept(w)
           /\ Len(journal) + 1 \notin Kept(w)
<1>0. PICK n \in Nat : n = Len(journal) + 1
  BY DEF StockInv, StateTyped
<1>1. /\ Len(journal) \in Nat /\ Len(journal') = n /\ journal'[n] = e
      /\ \A i \in 1..Len(journal) : journal'[i] = journal[i]
      /\ request' = request /\ e.request = r /\ request[r] # None
  BY <1>0, JournalGrows DEF Posts, StockInv, StateTyped
<1>2. 1..Len(journal') = 1..Len(journal) \cup {n} /\ n \notin 1..Len(journal)
  BY <1>0, <1>1
<1>3. \A i \in 1..Len(journal) : Completes(w, i)' <=> Completes(w, i)
  BY PostingCompletes
<1>4. Completes(w, n)' <=> request[r].operation = "COMPLETE" /\ request[r].order = w
  BY <1>1, <1>2, NoneAssumption DEF Completes
<1>5. \A i \in 1..Len(journal) : TakenBack(i)' <=>
        \/ TakenBack(i)
        \/ e.reversalOf = i /\ request[r].operation = "REVERSE_COMPLETION"
  <2> TAKE i \in 1..Len(journal)
  <2>1. TakenBack(i)' <=>
             \/ TakenBack(i)
             \/ \E k \in 1..Len(journal') \ 1..Len(journal) :
                  /\ journal'[k].reversalOf = i
                  /\ request'[journal'[k].request].operation = "REVERSE_COMPLETION"
    <3>1. Len(journal') >= Len(journal)
      BY <1>0, <1>1
    <3> QED  BY <1>1, <3>1, TakenBackStays
  <2>2. 1..Len(journal') \ 1..Len(journal) = {n}
    BY <1>2
  <2> QED  BY <1>1, <2>1, <2>2
<1>6. ~TakenBack(n)'
  <2>1. \A k \in 1..Len(journal') : journal'[k].reversalOf # 0 => journal'[k].reversalOf < k
    BY DEF StockInv, ReversalsNetOut
  <2>2. n \in Nat /\ n # 0
    BY <1>0, <1>1
  <2> QED  BY <1>1, <2>1, <2>2 DEF TakenBack
<1>7. \A i : i \in Kept(w)' <=>
        \/ i = n /\ request[r].operation = "COMPLETE" /\ request[r].order = w
        \/ /\ i \in Kept(w)
           /\ ~(e.reversalOf = i /\ request[r].operation = "REVERSE_COMPLETION")
  <2> TAKE i
  <2>1. CASE i \in 1..Len(journal)
    BY <1>2, <1>3, <1>5, <2>1 DEF Kept
  <2>2. CASE i = n
    BY <1>2, <1>4, <1>6, <2>2 DEF Kept
  <2>3. CASE i \notin 1..Len(journal) /\ i # n
    BY <1>2, <2>3 DEF Kept
  <2> QED  BY <2>1, <2>2, <2>3
<1>8. n \notin Kept(w)
  BY <1>2 DEF Kept
<1> QED  BY <1>0, <1>7, <1>8

\* Without a posting the same completions stand.
LEMMA KeptWithoutPosting ==
    ASSUME StockInv, StockInv', Keeps, NEW w
    PROVE  Kept(w)' = Kept(w)
<1>1. /\ journal' = journal /\ Len(journal) \in Nat
      /\ \A r \in Requests : request[r] # None => request'[r] = request[r]
  BY DEF Keeps, StockInv, StateTyped
<1>2. \A i \in 1..Len(journal) : Completes(w, i)' <=> Completes(w, i)
  BY <1>1, CompletesStays DEF StockInv
<1>3. \A i \in 1..Len(journal) : TakenBack(i)' <=> TakenBack(i)
  BY <1>1, TakenBackStays
<1> QED  BY <1>1, <1>2, <1>3 DEF Kept

\* Sums over the completions that stand.
LEMMA CompletionsMove ==
    ASSUME StockInv, StockInv', NEW w \in Orders, CompletionsAddUp,
           \A i \in 1..Len(journal) : journal'[i] = journal[i],
           Len(journal') >= Len(journal)
    PROVE  LET completed == SumFunction([i \in Kept(w)' |-> Brought(w, i)']) IN
           /\ Kept(w)' = Kept(w) => completed = work[w].completed
           /\ \A n \in 1..Len(journal') :
                n \notin Kept(w) /\ Kept(w)' = Kept(w) \cup {n} =>
                  completed = work[w].completed + Brought(w, n)'
           /\ \A n \in Kept(w) :
                Kept(w)' = Kept(w) \ {n} => completed = work[w].completed - Brought(w, n)
<1> DEFINE f == [i \in Kept(w) |-> Brought(w, i)]
           g == [i \in Kept(w)' |-> Brought(w, i)']
           K == Kept(w)
           L == Kept(w)'
<1>1. /\ SumFunction(f) = SumFunctionOnSet(f, K)
      /\ SumFunction(g) = SumFunctionOnSet(g, L)
      /\ work[w].completed = SumFunction(f)
  BY DEF SumFunction, CompletionsAddUp
<1>2. Len(journal) \in Nat /\ Len(journal') \in Nat
  BY DEF StockInv, StateTyped
<1>3. K \subseteq 1..Len(journal) /\ L \subseteq 1..Len(journal')
  BY DEF Kept
<1>4. IsFiniteSet(K) /\ IsFiniteSet(L)
  <2>1. IsFiniteSet(1..Len(journal)) /\ IsFiniteSet(1..Len(journal'))
    BY <1>2, FS_Interval
  <2> HIDE DEF K, L
  <2> QED  BY <1>3, <2>1, FS_Subset
<1>5. \A i \in K : f[i] = Brought(w, i) /\ f[i] \in Int
  BY CompletionIsTyped DEF Kept
<1>6. \A i \in L : g[i] = Brought(w, i)' /\ g[i] \in Int
  <2>1. \A i \in 1..Len(journal') : Completes(w, i)' => Brought(w, i)' \in Int
    <3>1. StockInv' => (CompletionsTyped)'
      BY CompletionsAreTyped, PTL
    <3> QED  BY <3>1 DEF CompletionsTyped
  <2> QED  BY <2>1 DEF Kept
<1>7. \A i \in K : Brought(w, i)' = Brought(w, i)
  BY <1>3 DEF Brought
<1>8. SumFunctionOnSet(f, K) \in Int
  BY <1>4, <1>5, SumIsInt
<1> HIDE DEF f, g, K, L
<1>9. L = K => SumFunction(g) = work[w].completed
  BY <1>1, <1>4, <1>5, <1>6, <1>7, SumOfSame
<1>10. ASSUME NEW n, n \notin K, L = K \cup {n}
       PROVE  SumFunction(g) = work[w].completed + Brought(w, n)'
  <2>1. n \in L /\ L \ {n} = K
    BY <1>10
  <2>2. SumFunctionOnSet(g, L) = g[n] + SumFunctionOnSet(g, K)
    BY <1>4, <1>6, <2>1, SumTakesOut
  <2>3. SumFunctionOnSet(g, K) = SumFunctionOnSet(f, K)
    BY <1>4, <1>5, <1>6, <1>7, <1>10, SumOfSame
  <2>4. g[n] = Brought(w, n)' /\ g[n] \in Int
    BY <1>6, <2>1
  <2> QED  BY <1>1, <1>8, <2>2, <2>3, <2>4
<1>11. ASSUME NEW n \in K, L = K \ {n}
       PROVE  SumFunction(g) = work[w].completed - Brought(w, n)
  <2>2. SumFunctionOnSet(f, K) = f[n] + SumFunctionOnSet(f, L)
    BY <1>4, <1>5, <1>11, SumTakesOut
  <2>3. SumFunctionOnSet(g, L) = SumFunctionOnSet(f, L)
    BY <1>4, <1>5, <1>6, <1>7, <1>11, SumOfSame
  <2>4. f[n] = Brought(w, n) /\ f[n] \in Int
    BY <1>5
  <2>5. SumFunctionOnSet(f, L) \in Int
    BY <1>4, <1>5, <1>11, SumIsInt
  <2> QED  BY <1>1, <2>2, <2>3, <2>4, <2>5
<1> QED  BY <1>9, <1>10, <1>11 DEF g, K, L

\* Every step keeps the record of what is completed.
LEMMA CompletionsStayAddedUp ==
    ASSUME StockInv, StockInv', OrdersFit, CompletionsAddUp, [Next]_vars
    PROVE  CompletionsAddUp'
<1> DEFINE Sum(w) == SumFunction([i \in Kept(w)' |-> Brought(w, i)'])
<1>1. SUFFICES \A w \in Orders : work'[w].completed = Sum(w)
  BY DEF CompletionsAddUp
<1>2. /\ \A i \in 1..Len(journal) : journal'[i] = journal[i]
      /\ Len(journal') >= Len(journal) /\ Len(journal) \in Nat
  <2>1. CASE \E r \in Requests : \E e : Posts(r, e)
    BY <2>1, JournalGrows DEF Posts, StockInv, StateTyped
  <2>2. CASE journal' = journal
    BY <2>2 DEF StockInv, StateTyped
  <2> QED  BY <2>1, <2>2, StepPostsOrKeeps DEF vars, Keeps
<1>3. \A w \in Orders :
        /\ Kept(w)' = Kept(w) => Sum(w) = work[w].completed
        /\ \A n \in 1..Len(journal') :
             n \notin Kept(w) /\ Kept(w)' = Kept(w) \cup {n} =>
               Sum(w) = work[w].completed + Brought(w, n)'
        /\ \A n \in Kept(w) :
             Kept(w)' = Kept(w) \ {n} => Sum(w) = work[w].completed - Brought(w, n)
  BY <1>2, CompletionsMove
<1> HIDE DEF Sum
<1>4. ASSUME NEW r \in Requests, NEW e, Posts(r, e), work' = work,
             request[r].operation \notin {"COMPLETE", "REVERSE_COMPLETION"}
      PROVE  \A w \in Orders : work'[w].completed = Sum(w)
  BY <1>3, <1>4, KeptAfterPosting
<1>5. ASSUME Keeps, \A w \in Orders : work'[w].completed = work[w].completed
      PROVE  \A w \in Orders : work'[w].completed = Sum(w)
  BY <1>3, <1>5, KeptWithoutPosting
<1>6. ASSUME NEW r \in Requests,
             \/ Post(r, balance) \/ Reverse(r, balance)
             \/ IssueMaterials(r, balance) \/ ReturnMaterials(r, balance)
      PROVE  \A w \in Orders : work'[w].completed = Sum(w)
  <2>1. PICK e : Posts(r, e)
    BY <1>6, PostStep, ReverseStep, IssueStep, ReturnStep DEF StockInv
  <2>2. work' = work
    BY <1>6 DEF Post, Reverse, IssueMaterials, ReturnMaterials
  <2>3. request[r].operation \notin {"COMPLETE", "REVERSE_COMPLETION"}
    BY <1>6 DEF Post, Reverse, IssueMaterials, ReturnMaterials, Pending,
       OperationTypes, OnHandSign
  <2> QED  BY <1>4, <2>1, <2>2, <2>3
<1>7. ASSUME \/ \E r \in Requests : \/ Write(r) \/ ExpireKey(r)
                                    \/ ReleaseOrder(r, balance) \/ CancelOrder(r, balance)
             \/ \E w \in Orders : Work(w)
             \/ UNCHANGED vars
      PROVE  \A w \in Orders : work'[w].completed = Sum(w)
  <2>1. \A w \in Orders : work'[w].completed = work[w].completed
    <3>1. CASE \E w \in Orders : Work(w)
      <4>1. PICK v \in Orders : Work(v)
        BY <3>1
      <4>2. work' = work \/ \E total : work' = [work EXCEPT ![v] =
              [dispatched |-> total, completed |-> work[v].completed]]
        BY <4>1 DEF Work, Dispatch, TakeBack, CloseOrder
      <4>3. CASE work' = work
        BY <4>3
      <4>4. ASSUME NEW total, work' = [work EXCEPT ![v] =
              [dispatched |-> total, completed |-> work[v].completed]]
            PROVE  \A w \in Orders : work'[w].completed = work[w].completed
        <5>1. work \in [Orders -> Progress]
          BY DEF StockInv, StateTyped
        <5>2. \A w \in Orders : w # v => work'[w] = work[w]
          BY <4>4, <5>1
        <5>3. work'[v].completed = work[v].completed
          BY <4>4, <5>1
        <5> QED  BY <5>2, <5>3
      <4> QED  BY <4>2, <4>3, <4>4
    <3>2. CASE work' = work
      BY <3>2
    <3> QED
      BY <1>7, <3>1, <3>2 DEF Write, ExpireKey, ReleaseOrder, CancelOrder,
         RecordOrder, vars
  <2>2. Keeps
    <3>1. CASE UNCHANGED vars
      BY <3>1 DEF vars, Keeps
    <3> QED
      BY <1>7, <3>1, WriteStep, ExpireStep, ReleaseStep, CancelStep, WorkStep DEF StockInv
  <2> QED  BY <1>5, <2>1, <2>2
<1>8. ASSUME NEW r \in Requests, Complete(r, balance)
      PROVE  \A w \in Orders : work'[w].completed = Sum(w)
  <2>1. PICK e : Posts(r, e)
    BY <1>8, CompleteStep DEF StockInv
  <2>2. PICK v \in Orders : v = request[r].order
    BY <1>8, RequestNamesOrder DEF Complete, OrderOperations
  <2>3. /\ request[r].operation = "COMPLETE"
        /\ DOMAIN request[r].lines = {Finished[v]} /\ Quantity(r, Finished[v]) \in Nat
        /\ Finished[v] \in Positions
    BY <1>8, <2>2, OrderRequestIsTyped, FinishedAssumption
       DEF Complete, Pending, StockInv
  <2>4. PICK q \in Nat : q = Quantity(r, Finished[v])
    BY <2>3
  <2>5. PICK n \in 1..Len(journal') : n = Len(journal) + 1 /\ journal'[n] = e
    BY <1>2, <2>1, JournalGrows DEF Posts, StockInv, StateTyped
  <2>6. /\ work' = [work EXCEPT ![v] = [dispatched |-> work[v].dispatched,
                                        completed |-> work[v].completed + q]]
        /\ journal'[n].lines = [p \in {Finished[v]} |->
                                  PostedLine("RECEIPT", q, balance[p])]
    <3>1. Record(r, "RECEIPT", 0, balance,
                 [p \in DOMAIN request[r].lines |->
                    PostedLine("RECEIPT", Quantity(r, p), balance[p])])
      BY <1>8 DEF Complete
    <3>2. journal' = Append(journal, [request |-> r, type |-> "RECEIPT", reversalOf |-> 0,
            lines |-> [p \in {Finished[v]} |->
                         PostedLine("RECEIPT", Quantity(r, p), balance[p])]])
      BY <2>3, <3>1 DEF Record
    <3>3. journal'[n].lines = [p \in {Finished[v]} |->
                         PostedLine("RECEIPT", Quantity(r, p), balance[p])]
      BY <2>5, <3>2, AppendProperties DEF StockInv, StateTyped
    <3> QED  BY <1>8, <2>2, <2>4, <3>3 DEF Complete
  <2>7. Brought(v, n)' = q
    <3>1. "RECEIPT" \in OperationTypes /\ balance[Finished[v]] \in Row
      BY <2>3 DEF OperationTypes, OnHandSign, StockInv, StateTyped
    <3>2. PostedLine("RECEIPT", q, balance[Finished[v]]).onHand = q
      BY <3>1, PostedIsLine
    <3> QED  BY <2>6, <3>2 DEF Brought
  <2>8. TAKE w \in Orders
  <2>9. CASE w = v
    <3>1. Kept(w)' = Kept(w) \cup {n} /\ n \notin Kept(w)
      BY <2>1, <2>2, <2>3, <2>5, <2>9, KeptAfterPosting
    <3>2. work'[w].completed = work[w].completed + q
      BY <2>6, <2>9 DEF StockInv, StateTyped
    <3> QED  BY <1>3, <2>7, <2>9, <3>1, <3>2
  <2>10. CASE w # v
    <3>1. Kept(w)' = Kept(w)
      BY <2>1, <2>2, <2>3, <2>10, KeptAfterPosting
    <3>2. work'[w] = work[w]
      BY <2>6, <2>10 DEF StockInv, StateTyped
    <3> QED  BY <1>3, <3>1, <3>2
  <2> QED  BY <2>9, <2>10
<1>9. ASSUME NEW r \in Requests, ReverseCompletion(r, balance)
      PROVE  \A w \in Orders : work'[w].completed = Sum(w)
  <2>1. PICK e : Posts(r, e)
    BY <1>9, ReverseCompletionStep DEF StockInv
  <2>2. PICK v \in Orders : v = request[r].order
    BY <1>9, RequestNamesOrder DEF ReverseCompletion, OrderOperations
  <2>3. request[r].operation = "REVERSE_COMPLETION" /\ request[r] # None
    BY <1>9 DEF ReverseCompletion, Pending
  <2>4. PICK n \in 1..Len(journal) : n = request[r].reversalOf /\ Completes(v, n)
    BY <2>2, <2>3 DEF OrdersFit, RequestsFitOrders, StockInv, RequestsAreWhole, IsWhole
  <2>5. /\ work' = [work EXCEPT ![v] = [dispatched |-> work[v].dispatched,
                                        completed |-> work[v].completed - Brought(v, n)]]
        /\ ~Reversed(n)
        /\ \E lines : Record(r, "REVERSAL", n, balance, lines)
    BY <1>9, <2>2, <2>4 DEF ReverseCompletion, ReverseAdjustment, CompletedWithout, Brought
  <2>6. e.reversalOf = n
    <3>1. journal'[Len(journal) + 1] = e
      BY <2>1, JournalGrows DEF Posts, StockInv, StateTyped
    <3>2. PICK lines : journal' = Append(journal, [request |-> r, type |-> "REVERSAL",
                                                   reversalOf |-> n, lines |-> lines])
      BY <2>5 DEF Record
    <3>3. journal'[Len(journal) + 1].reversalOf = n
      BY <3>2, AppendProperties DEF StockInv, StateTyped
    <3> QED  BY <3>1, <3>3
  <2>7. n \in Kept(v)
    BY <2>4, <2>5 DEF Kept, TakenBack, Reversed
  <2>8. \A w : w # v => n \notin Kept(w)
    BY <2>4 DEF Kept, Completes
  <2>9. TAKE w \in Orders
  <2>10. Kept(w)' = Kept(w) \ {n}
    BY <2>1, <2>3, <2>6, KeptAfterPosting
  <2>11. CASE w = v
    <3>1. work'[w].completed = work[w].completed - Brought(w, n)
      BY <2>5, <2>11 DEF StockInv, StateTyped
    <3> QED  BY <1>3, <2>7, <2>10, <2>11, <3>1
  <2>12. CASE w # v
    <3>1. Kept(w)' = Kept(w)
      BY <2>8, <2>10, <2>12
    <3>2. work'[w] = work[w]
      BY <2>5, <2>12 DEF StockInv, StateTyped
    <3> QED  BY <1>3, <3>1, <3>2
  <2> QED  BY <2>11, <2>12
<1> QED
  BY <1>6, <1>7, <1>8, <1>9 DEF Next, Apply

\* Nothing is completed at first.
LEMMA InitCompletions == Init => CompletionsAddUp
<1> SUFFICES ASSUME Init, NEW w \in Orders
             PROVE  work[w].completed = SumFunction([i \in Kept(w) |-> Brought(w, i)])
  BY DEF CompletionsAddUp
<1>1. OpeningAdjustment.request = None
  BY DEF OpeningAdjustment
<1>2. \A k \in 1..Len(journal) : journal[k] = OpeningAdjustment
  BY DEF Init
<1>3. Kept(w) = {}
  BY <1>1, <1>2 DEF Kept, Completes
<1>4. SumFunction([i \in Kept(w) |-> Brought(w, i)]) = 0
  BY <1>3, SumOfNone DEF SumFunction
<1>5. work[w].completed = 0
  BY DEF Init
<1> QED  BY <1>4, <1>5

\* What an order has completed is what its completions brought into stock, less
\* what reversed completions took out again (completeInTransaction,
\* reverseCompletion), whatever else is posted or reversed.
THEOREM CompletionsAreKept == Spec => []CompletionsAddUp
<1>1. Init => StockInv /\ OrdersInv /\ CompletionsAddUp
  BY InitStockInv, InitOrdersInv, InitCompletions
<1>2. StockInv /\ OrdersInv /\ CompletionsAddUp /\ [Next]_vars
        => (StockInv /\ OrdersInv /\ CompletionsAddUp)'
  BY StockInvStep, OrdersInvStep, CompletionsStayAddedUp DEF OrdersInv
<1> QED  BY <1>1, <1>2, PTL DEF Spec

-----------------------------------------------------------------------------
(* Sorting.                                                                *)

\* Among some natural numbers one is the smallest.
LEMMA SmallestNat ==
    ASSUME NEW B \in SUBSET Nat, B # {}
    PROVE  \E n \in B : \A m \in B : n <= m
<1>1. PICK n \in Nat : n \in B
  OBVIOUS
<1> DEFINE D == {0..m : m \in {k \in B : k <= n}}
<1>2. PICK T \in D : \A U \in D : U \subseteq T => U = T
  <2>0. PICK S : S = 0..n
    OBVIOUS
  <2>1. D \in SUBSET (SUBSET S) /\ D # {}
    BY <1>1, <2>0
  <2>2. IsFiniteSet(S)
    BY <2>0, FS_Interval
  <2> HIDE DEF D
  <2> QED  BY <2>1, <2>2, SmallestSet
<1>3. PICK m \in B : T = 0..m /\ m <= n
  BY <1>2
<1>4. ASSUME NEW k \in B, k < m PROVE FALSE
  <2>1. 0..k \in D /\ 0..k \subseteq T /\ m \notin 0..k /\ m \in T
    BY <1>3, <1>4
  <2> QED  BY <1>2, <2>1
<1> QED  BY <1>4

\* One step of the recursion of Sorted.
SortStep(line, P, kept, i) ==
    IF i = 0 THEN <<>>
    ELSE IF line[i] \in P THEN Append(kept[i - 1], line[i]) ELSE kept[i - 1]

\* kept[i] is what sorting keeps of the first i positions of the line.
IsSorting(line, P, kept, n) ==
    kept = [i \in 0..n |-> SortStep(line, P, kept, i)]

\* There is such a function: a recursive function over 0..n is defined.
LEMMA SortingExists ==
    ASSUME NEW line, NEW P, NEW n \in Nat
    PROVE  \E kept : IsSorting(line, P, kept, n)
<1> DEFINE B == {m \in Nat : ~\E kept : IsSorting(line, P, kept, m)}
<1>1. SUFFICES ASSUME B # {} PROVE FALSE
  OBVIOUS
<1>2. PICK m \in B : \A k \in B : m <= k
  <2>1. B \in SUBSET Nat
    OBVIOUS
  <2> HIDE DEF B
  <2> QED  BY <1>1, <2>1, SmallestNat
<1>3. CASE m = 0
  <2> DEFINE kept == [i \in 0..0 |-> <<>>]
  <2>1. \A i \in 0..0 : SortStep(line, P, kept, i) = <<>>
    BY DEF SortStep
  <2>2. kept = [i \in 0..0 |-> SortStep(line, P, kept, i)]
    BY <2>1
  <2> QED  BY <1>2, <1>3, <2>2 DEF IsSorting
<1>4. CASE m # 0
  <2>1. m - 1 \in Nat /\ m - 1 \notin B
    BY <1>2, <1>4
  <2>2. PICK kept : IsSorting(line, P, kept, m - 1)
    BY <2>1
  <2> DEFINE whole == [i \in 0..m |-> IF i = m THEN SortStep(line, P, kept, m) ELSE kept[i]]
  <2>3. ASSUME NEW i \in 0..m PROVE whole[i] = SortStep(line, P, whole, i)
    <3>1. i # 0 => whole[i - 1] = kept[i - 1]
      BY <1>2
    <3>2. SortStep(line, P, whole, i) = SortStep(line, P, kept, i)
      BY <3>1 DEF SortStep
    <3>3. i # m => kept[i] = SortStep(line, P, kept, i)
      BY <1>2, <2>2 DEF IsSorting
    <3> QED  BY <3>2, <3>3
  <2>4. whole = [i \in 0..m |-> SortStep(line, P, whole, i)]
    BY <2>3
  <2> HIDE DEF whole
  <2> QED  BY <1>2, <2>4 DEF IsSorting
<1> QED  BY <1>3, <1>4

\* s has the members of P that are among the first n of line, in its order.
SortsOut(line, P, s, n) ==
    /\ s \in Seq(P)
    /\ \A i \in 1..n : line[i] \in P => \E j \in 1..Len(s) : s[j] = line[i]
    /\ \A j \in 1..Len(s) : \E i \in 1..n : s[j] = line[i]
    /\ \A j, k \in 1..Len(s) : j < k =>
         \E a, b \in 1..n : a < b /\ s[j] = line[a] /\ s[k] = line[b]

\* One more position of the line keeps the sequence sorted out.
LEMMA SortsOutMore ==
    ASSUME NEW line, NEW P, NEW n \in Nat, n # 0, NEW s, SortsOut(line, P, s, n - 1)
    PROVE  SortsOut(line, P, IF line[n] \in P THEN Append(s, line[n]) ELSE s, n)
<1>1. 1..n = 1..(n - 1) \cup {n}
  OBVIOUS
<1>2. CASE line[n] \notin P
  <2>1. \A i \in 1..n : line[i] \in P => \E j \in 1..Len(s) : s[j] = line[i]
    BY <1>1, <1>2 DEF SortsOut
  <2>2. \A j \in 1..Len(s) : \E i \in 1..n : s[j] = line[i]
    BY <1>1 DEF SortsOut
  <2>3. \A j, k \in 1..Len(s) : j < k =>
          \E a, b \in 1..n : a < b /\ s[j] = line[a] /\ s[k] = line[b]
    BY <1>1 DEF SortsOut
  <2> QED  BY <1>2, <2>1, <2>2, <2>3 DEF SortsOut
<1>3. CASE line[n] \in P
  <2> DEFINE t == Append(s, line[n])
  <2>0. s \in Seq(P)
    BY DEF SortsOut
  <2>1. /\ t \in Seq(P) /\ Len(s) \in Nat /\ Len(t) = Len(s) + 1
        /\ \A i \in 1..Len(s) : t[i] = s[i]
        /\ t[Len(s) + 1] = line[n]
    BY <1>3, <2>0, AppendProperties
  <2> HIDE DEF t
  <2>2. 1..Len(t) = 1..Len(s) \cup {Len(s) + 1}
    BY <2>1
  <2>3. ASSUME NEW i \in 1..n, line[i] \in P
        PROVE  \E j \in 1..Len(t) : t[j] = line[i]
    <3>1. CASE i = n
      BY <2>1, <2>2, <3>1
    <3>2. CASE i \in 1..(n - 1)
      <4>1. PICK j \in 1..Len(s) : s[j] = line[i]
        BY <2>3, <3>2 DEF SortsOut
      <4> QED  BY <2>1, <2>2, <4>1
    <3> QED  BY <1>1, <3>1, <3>2
  <2>4. ASSUME NEW j \in 1..Len(t)
        PROVE  \E i \in 1..n : t[j] = line[i]
    <3>1. CASE j = Len(s) + 1
      BY <1>1, <2>1, <3>1
    <3>2. CASE j \in 1..Len(s)
      <4>1. PICK i \in 1..(n - 1) : s[j] = line[i]
        BY <3>2 DEF SortsOut
      <4> QED  BY <1>1, <2>1, <3>2, <4>1
    <3> QED  BY <2>2, <3>1, <3>2
  <2>5. ASSUME NEW j \in 1..Len(t), NEW k \in 1..Len(t), j < k
        PROVE  \E a, b \in 1..n : a < b /\ t[j] = line[a] /\ t[k] = line[b]
    <3>1. j \in 1..Len(s)
      BY <2>1, <2>5
    <3>2. CASE k \in 1..Len(s)
      <4>1. \E a, b \in 1..(n - 1) : a < b /\ s[j] = line[a] /\ s[k] = line[b]
        BY <2>5, <3>1, <3>2 DEF SortsOut
      <4> QED  BY <1>1, <2>1, <3>1, <3>2, <4>1
    <3>3. CASE k = Len(s) + 1
      <4>1. PICK a \in 1..(n - 1) : s[j] = line[a]
        BY <3>1 DEF SortsOut
      <4>2. a < n /\ a \in 1..n /\ n \in 1..n
        OBVIOUS
      <4> QED  BY <2>1, <3>1, <3>3, <4>1, <4>2
    <3> QED  BY <2>2, <3>2, <3>3
  <2>6. SortsOut(line, P, t, n)
    BY <2>1, <2>3, <2>4, <2>5 DEF SortsOut
  <2> QED  BY <1>3, <2>6 DEF t
<1> QED  BY <1>2, <1>3

\* Sorted returns the positions of P, each once and in the order of the line.
LEMMA SortedSortsOut ==
    ASSUME NEW line, Len(line) \in Nat, NEW P
    PROVE  SortsOut(line, P, Sorted(line, P), Len(line))
<1> DEFINE n == Len(line)
           kept == CHOOSE g : IsSorting(line, P, g, n)
<1>1. IsSorting(line, P, kept, n)
  BY SortingExists
<1>2. Sorted(line, P) = kept[n]
  BY DEF Sorted, IsSorting, SortStep
<1> HIDE DEF kept
<1>3. \A i \in 0..n : kept[i] = SortStep(line, P, kept, i)
  BY <1>1 DEF IsSorting
<1> DEFINE B == {m \in Nat : m <= n /\ ~SortsOut(line, P, kept[m], m)}
<1>4. SUFFICES ASSUME B # {} PROVE FALSE
  BY <1>2
<1>5. PICK m \in B : \A k \in B : m <= k
  <2>1. B \in SUBSET Nat
    OBVIOUS
  <2> HIDE DEF B
  <2> QED  BY <1>4, <2>1, SmallestNat
<1>6. CASE m = 0
  <2>1. kept[0] = <<>>
    BY <1>3 DEF SortStep
  <2>2. kept[0] \in Seq(P) /\ Len(kept[0]) = 0
    BY <2>1, EmptySeq
  <2>3. SortsOut(line, P, kept[0], 0)
    BY <2>2 DEF SortsOut
  <2> QED  BY <1>5, <1>6, <2>3
<1>7. CASE m # 0
  <2>1. SortsOut(line, P, kept[m - 1], m - 1)
    BY <1>5, <1>7
  <2>2. kept[m] = IF line[m] \in P THEN Append(kept[m - 1], line[m]) ELSE kept[m - 1]
    BY <1>3, <1>5, <1>7 DEF SortStep
  <2> QED  BY <1>5, <1>7, <2>1, <2>2, SortsOutMore
<1> QED  BY <1>6, <1>7

-----------------------------------------------------------------------------
(* The locks of a request.                                                 *)

\* The locks transactions take.
AnyLock == ({"key"} \X Requests) \cup ({"order"} \X Orders)
             \cup ({"position", "row"} \X Positions)
             \cup ({"adjustment"} \X Nat) \cup {<<"codes", None>>}

\* Where a position comes in the order of the keys.
Place(p) == CHOOSE i \in 1..Len(ByKey) : ByKey[i] = p

\* The order in which postings, reversals and releases take their locks.
Rank(lock) ==
    CASE lock[1] = "key" -> 0
      [] lock[1] = "order" -> 1
      [] lock[1] = "adjustment" -> 2
      [] lock[1] = "position" -> Place(lock[2]) + 2
      [] lock[1] = "row" -> Len(ByKey) + 3
      [] lock[1] = "codes" -> Len(ByKey) + 4

\* A transaction may take a before b; rows are the one kind it takes in any order.
Precedes(a, b) == Rank(a) < Rank(b) \/ (a[1] = "row" /\ b[1] = "row")

\* The locks of a sequence come in order.
Ordered(locks) ==
    \A i, j \in 1..Len(locks) : i < j => Precedes(locks[i], locks[j])

\* The three orders of positions list every position once.
LEMMA LinesAreTyped ==
    ASSUME NEW line \in {ByKey, ById, ByLine}
    PROVE  /\ line \in Seq(Positions) /\ Len(line) \in Nat
           /\ \A p \in Positions : \E i \in 1..Len(line) : line[i] = p
           /\ \A i, j \in 1..Len(line) : line[i] = line[j] => i = j
<1>1. line \in Seq(Positions) /\ Range(line) = Positions /\ IsInjective(line)
  BY SortingAssumption
<1>2. Len(line) \in Nat /\ DOMAIN line = 1..Len(line)
  BY <1>1, LenProperties
<1>3. Range(line) = {line[i] : i \in 1..Len(line)}
  BY <1>1, RangeEquality
<1> QED  BY <1>1, <1>2, <1>3 DEF IsInjective

\* The place of a position is where the order by key lists it.
LEMMA PlaceIsPlace ==
    ASSUME NEW i \in 1..Len(ByKey)
    PROVE  Place(ByKey[i]) = i
BY LinesAreTyped DEF Place

\* A place is a place in the order by key.
LEMMA PlacesAreTyped ==
    /\ Len(ByKey) \in Nat
    /\ \A p \in Positions : Place(p) \in Nat /\ 1 <= Place(p) /\ Place(p) <= Len(ByKey)
<1>1. Len(ByKey) \in Nat /\ \A p \in Positions : \E i \in 1..Len(ByKey) : ByKey[i] = p
  BY LinesAreTyped
<1> QED  BY <1>1 DEF Place

\* A kind of lock on each of some positions.
LEMMA EachIsTyped ==
    ASSUME NEW kind \in {"position", "row"}, NEW line \in {ByKey, ById, ByLine},
           NEW P \in SUBSET Positions, NEW locks, locks = Each(kind, Sorted(line, P))
    PROVE  /\ locks \in Seq(AnyLock)
           /\ \A j \in 1..Len(locks) : locks[j][1] = kind
           /\ Range(locks) = {<<kind, p>> : p \in P}
<1>0. PICK s : s = Sorted(line, P)
  OBVIOUS
<1>1. Len(line) \in Nat /\ \A p \in Positions : \E i \in 1..Len(line) : line[i] = p
  BY LinesAreTyped
<1>2. SortsOut(line, P, s, Len(line))
  BY <1>0, <1>1, SortedSortsOut
<1>3. s \in Seq(P) /\ Len(s) \in Nat /\ DOMAIN s = 1..Len(s) /\ \A j \in 1..Len(s) : s[j] \in P
  BY <1>2, LenProperties, ElementOfSeq DEF SortsOut
<1>4. locks = [j \in 1..Len(s) |-> <<kind, s[j]>>]
  BY <1>0, <1>3 DEF Each
<1>5. \A j \in 1..Len(s) : locks[j] = <<kind, s[j]>> /\ locks[j] \in AnyLock
  BY <1>3, <1>4 DEF AnyLock
<1>6. locks \in Seq(AnyLock) /\ Len(locks) = Len(s)
  BY <1>3, <1>4, <1>5
<1>7. Range(locks) = {<<kind, p>> : p \in P}
  <2>1. Range(locks) = {locks[j] : j \in 1..Len(s)}
    BY <1>6, RangeEquality
  <2>2. \A p \in P : \E j \in 1..Len(s) : s[j] = p
    BY <1>1, <1>2 DEF SortsOut
  <2>3. \A x \in Range(locks) : \E p \in P : x = <<kind, p>>
    BY <1>3, <1>5, <2>1
  <2>4. \A p \in P : <<kind, p>> \in Range(locks)
    BY <1>5, <2>1, <2>2
  <2> QED  BY <2>3, <2>4
<1> QED  BY <1>5, <1>6, <1>7

\* The positions are taken in the order of their keys.
LEMMA AdvisoryIsOrdered ==
    ASSUME NEW P \in SUBSET Positions
    PROVE  Ordered(Advisory(P))
<1>0. PICK s : s = Sorted(ByKey, P)
  OBVIOUS
<1>1. SortsOut(ByKey, P, s, Len(ByKey))
  BY <1>0, LinesAreTyped, SortedSortsOut
<1>2. s \in Seq(P) /\ Len(s) \in Nat /\ DOMAIN s = 1..Len(s)
  BY <1>1, LenProperties DEF SortsOut
<1>3. Advisory(P) = [k \in 1..Len(s) |-> <<"position", s[k]>>]
  BY <1>0, <1>2 DEF Advisory, Each
<1>4. Len(Advisory(P)) = Len(s)
      /\ \A k \in 1..Len(s) : Advisory(P)[k] = <<"position", s[k]>>
  BY <1>2, <1>3
<1>5. ASSUME NEW k \in 1..Len(s)
      PROVE  /\ Rank(Advisory(P)[k]) = Place(s[k]) + 2
             /\ Place(s[k]) \in Nat
  <2>1. s[k] \in Positions
    BY <1>2, ElementOfSeq
  <2>2. Place(s[k]) \in Nat
    BY <2>1, PlacesAreTyped
  <2>3. Rank(Advisory(P)[k]) = Place(s[k]) + 2
    BY <1>4 DEF Rank
  <2> QED  BY <2>2, <2>3
<1>6. ASSUME NEW i \in 1..Len(s), NEW j \in 1..Len(s), i < j
      PROVE  Precedes(Advisory(P)[i], Advisory(P)[j])
  <2>1. PICK a \in 1..Len(ByKey), b \in 1..Len(ByKey) :
          a < b /\ s[i] = ByKey[a] /\ s[j] = ByKey[b]
    BY <1>1, <1>6 DEF SortsOut
  <2>2. Place(s[i]) = a /\ Place(s[j]) = b
    BY <2>1, PlaceIsPlace
  <2> QED  BY <1>5, <2>1, <2>2 DEF Precedes
<1> QED  BY <1>4, <1>6 DEF Ordered

\* Row locks count as ordered whatever line sorted them.
LEMMA RowsAreOrdered ==
    ASSUME NEW line \in {ByKey, ById, ByLine}, NEW P \in SUBSET Positions
    PROVE  Ordered(Rows(line, P))
BY EachIsTyped DEF Ordered, Precedes, Rows

\* Two ordered sequences, the first before the second, make an ordered one.
LEMMA OrderedConcat ==
    ASSUME NEW s \in Seq(AnyLock), NEW t \in Seq(AnyLock), Ordered(s), Ordered(t),
           \A a \in Range(s) : \A b \in Range(t) : Precedes(a, b)
    PROVE  Ordered(s \o t)
<1>1. SUFFICES ASSUME NEW i \in 1..Len(s \o t), NEW j \in 1..Len(s \o t), i < j
               PROVE  Precedes((s \o t)[i], (s \o t)[j])
  BY DEF Ordered
<1>2. /\ Len(s) \in Nat /\ Len(t) \in Nat /\ Len(s \o t) = Len(s) + Len(t)
      /\ \A k \in 1..Len(s \o t) : (s \o t)[k] = IF k <= Len(s) THEN s[k] ELSE t[k - Len(s)]
  BY ConcatProperties
<1>3. Range(s) = {s[k] : k \in 1..Len(s)} /\ Range(t) = {t[k] : k \in 1..Len(t)}
  BY RangeEquality
<1>4. CASE j <= Len(s)
  BY <1>1, <1>2, <1>4 DEF Ordered
<1>5. CASE i <= Len(s) /\ j > Len(s)
  <2>1. i \in 1..Len(s) /\ j - Len(s) \in 1..Len(t)
    BY <1>1, <1>2, <1>5
  <2> QED  BY <1>2, <1>3, <1>5, <2>1
<1>6. CASE i > Len(s)
  <2>1. i - Len(s) \in 1..Len(t) /\ j - Len(s) \in 1..Len(t) /\ i - Len(s) < j - Len(s)
    BY <1>1, <1>2, <1>6
  <2> QED  BY <1>1, <1>2, <1>6, <2>1 DEF Ordered
<1> QED  BY <1>1, <1>2, <1>4, <1>5, <1>6
-----------------------------------------------------------------------------
(* The locks of a request.                                                 *)

\* One lock alone.
LEMMA OneOnly ==
    ASSUME NEW c \in Seq(AnyLock), Len(c) = 1
    PROVE  Range(c) = {c[1]} /\ Ordered(c)
<1>1. Range(c) = {c[i] : i \in 1..Len(c)}
  BY RangeEquality
<1> QED  BY <1>1 DEF Ordered

\* The same of the sequence of one lock.
LEMMA OneLock ==
    ASSUME NEW a \in AnyLock, NEW c, c = <<a>>
    PROVE  c \in Seq(AnyLock) /\ Len(c) = 1 /\ c[1] = a /\ Range(c) = {a} /\ Ordered(c)
<1>1. c \in Seq(AnyLock) /\ Len(c) = 1 /\ c[1] = a
  OBVIOUS
<1> QED  BY <1>1, OneOnly

\* A lock in front of others.
LEMMA Prepend ==
    ASSUME NEW a \in AnyLock, NEW t \in Seq(AnyLock), NEW s, s = <<a>> \o t
    PROVE  /\ s \in Seq(AnyLock) /\ Len(t) \in Nat /\ Len(s) = Len(t) + 1
           /\ s[1] = a
           /\ \A j \in 1..Len(s) : j # 1 => j - 1 \in 1..Len(t) /\ s[j] = t[j - 1]
           /\ \A x : x \in Range(s) <=> x = a \/ x \in Range(t)
<1>1. PICK c : c = <<a>>
  OBVIOUS
<1>2. c \in Seq(AnyLock) /\ Len(c) = 1 /\ c[1] = a /\ Range(c) = {a} /\ s = c \o t
  BY <1>1, OneLock
<1>3. /\ s \in Seq(AnyLock) /\ Len(t) \in Nat /\ Len(s) = 1 + Len(t)
      /\ \A i \in 1..Len(s) : s[i] = IF i <= 1 THEN c[i] ELSE t[i - 1]
  BY <1>2, ConcatProperties
<1>4. Range(s) = {a} \cup Range(t)
  BY <1>2, RangeConcatenation
<1> QED  BY <1>2, <1>3, <1>4

\* An ordered sequence stays so with an earlier lock in front.
LEMMA OrderedPrepend ==
    ASSUME NEW a \in AnyLock, NEW t \in Seq(AnyLock), NEW s, s = <<a>> \o t,
           Ordered(t), \A b \in Range(t) : Precedes(a, b)
    PROVE  Ordered(s)
<1>1. SUFFICES ASSUME NEW i \in 1..Len(s), NEW j \in 1..Len(s), i < j
               PROVE  Precedes(s[i], s[j])
  BY DEF Ordered
<1>2. /\ Len(t) \in Nat /\ s[1] = a
      /\ \A k \in 1..Len(s) : k # 1 => k - 1 \in 1..Len(t) /\ s[k] = t[k - 1]
  BY Prepend
<1>3. j - 1 \in 1..Len(t) /\ s[j] = t[j - 1] /\ Len(s) \in Nat
  BY <1>1, <1>2, Prepend
<1>4. CASE i = 1
  <2>1. s[j] \in Range(t)
    BY <1>3, RangeEquality
  <2> QED  BY <1>2, <1>4, <2>1
<1>5. CASE i # 1
  <2>1. i - 1 \in 1..Len(t) /\ s[i] = t[i - 1] /\ i - 1 < j - 1
    BY <1>1, <1>2, <1>3, <1>5
  <2> QED  BY <1>3, <2>1 DEF Ordered
<1> QED  BY <1>4, <1>5

\* The locks of one kind on the positions of P.
On(kind, P) == {<<kind, p>> : p \in P}

\* Advisory takes the position locks of P.
LEMMA AdvisoryTyped ==
    ASSUME NEW P \in SUBSET Positions
    PROVE  Advisory(P) \in Seq(AnyLock) /\ Range(Advisory(P)) = On("position", P)
BY EachIsTyped DEF Advisory, On

\* Rows takes the row locks of P.
LEMMA RowsTyped ==
    ASSUME NEW line \in {ByKey, ById, ByLine}, NEW P \in SUBSET Positions
    PROVE  Rows(line, P) \in Seq(AnyLock) /\ Range(Rows(line, P)) = On("row", P)
BY EachIsTyped DEF Rows, On

\* The lock on the code counters.
Codes == <<"codes", None>>

\* Which kinds of locks come before which.
LEMMA RanksInOrder ==
    /\ \A p \in Positions : \A q : Precedes(<<"position", p>>, <<"row", q>>)
    /\ \A p \in Positions : \A q : Precedes(<<"position", p>>, Codes)
    /\ \A q : Precedes(<<"row", q>>, Codes)
    /\ \A i : \A p \in Positions : Precedes(<<"adjustment", i>>, <<"position", p>>)
    /\ \A i, p : Precedes(<<"adjustment", i>>, <<"row", p>>)
    /\ \A i : Precedes(<<"adjustment", i>>, Codes)
    /\ \A w : \A p \in Positions : Precedes(<<"order", w>>, <<"position", p>>)
    /\ \A w, p : Precedes(<<"order", w>>, <<"row", p>>)
    /\ \A w : Precedes(<<"order", w>>, Codes)
    /\ \A w, i : Precedes(<<"order", w>>, <<"adjustment", i>>)
BY PlacesAreTyped DEF Precedes, Rank, Codes

\* Positions, then rows.
LEMMA PairsFit ==
    ASSUME NEW P \in SUBSET Positions, NEW line \in {ByKey, ById, ByLine},
           NEW t, t = Advisory(P) \o Rows(line, P)
    PROVE  /\ t \in Seq(AnyLock) /\ Ordered(t)
           /\ Range(t) = On("position", P) \cup On("row", P)
<1>1. t \in Seq(AnyLock) /\ Range(t) = On("position", P) \cup On("row", P)
  BY AdvisoryTyped, RowsTyped, ConcatProperties, RangeConcatenation
<1>2. \A a \in Range(Advisory(P)) : \A b \in Range(Rows(line, P)) : Precedes(a, b)
  <2>1. Range(Advisory(P)) = On("position", P) /\ Range(Rows(line, P)) = On("row", P)
    BY AdvisoryTyped, RowsTyped
  <2>2. \A p, q \in P : Precedes(<<"position", p>>, <<"row", q>>)
    BY RanksInOrder
  <2> QED  BY <2>1, <2>2 DEF On
<1>3. Ordered(t)
  BY <1>2, AdvisoryTyped, RowsTyped, AdvisoryIsOrdered, RowsAreOrdered, OrderedConcat
<1> QED  BY <1>1, <1>3

\* A posting takes the position locks, then the rows, then the codes.
LEMMA PostingFits ==
    ASSUME NEW P \in SUBSET Positions
    PROVE  /\ Posting(P) \in Seq(AnyLock) /\ Ordered(Posting(P))
           /\ Range(Posting(P)) = On("position", P) \cup On("row", P) \cup {Codes}
<1>0. PICK t, c, a, b :
        /\ t = a \o b /\ c = <<Codes>>
        /\ a = Advisory(P) /\ b = Rows(ByKey, P)
  OBVIOUS
<1>1. /\ t \in Seq(AnyLock) /\ Ordered(t)
      /\ Range(t) = On("position", P) \cup On("row", P)
  <2>1. ByKey \in {ByKey, ById, ByLine}
    OBVIOUS
  <2> QED  BY <1>0, <2>1, PairsFit
<1>2. Codes \in AnyLock
  BY DEF AnyLock, Codes
<1>3. c \in Seq(AnyLock) /\ Range(c) = {Codes} /\ Ordered(c)
  BY <1>0, <1>2, OneLock
<1>4. Posting(P) = t \o c
  <2>1. a \in Seq(AnyLock) /\ b \in Seq(AnyLock)
    BY <1>0, AdvisoryTyped, RowsTyped
  <2>2. Posting(P) = a \o (b \o c) \/ Posting(P) = (a \o b) \o c
    BY <1>0 DEF Posting, Codes
  <2>3. a \o (b \o c) = (a \o b) \o c
    BY <1>3, <2>1, ConcatAssociative
  <2> QED  BY <1>0, <2>2, <2>3
<1>5. \A x \in Range(t) : \A y \in Range(c) : Precedes(x, y)
  BY <1>1, <1>3, RanksInOrder DEF On
<1> QED
  BY <1>1, <1>3, <1>4, <1>5, OrderedConcat, ConcatProperties, RangeConcatenation

\* Issuing takes the same locks, but some rows before the position locks.
LEMMA IssuingFits ==
    ASSUME NEW P \in SUBSET Positions
    PROVE  /\ Issuing(P) \in Seq(AnyLock)
           /\ Range(Issuing(P)) = On("position", P) \cup On("row", P) \cup {Codes}
BY PostingFits, RowsTyped, ConcatProperties, RangeConcatenation DEF Issuing

\* Releasing takes the position locks, then the rows.
LEMMA ReleasingFits ==
    ASSUME NEW w
    PROVE  /\ Releasing(w) \in Seq(AnyLock) /\ Ordered(Releasing(w))
           /\ Range(Releasing(w)) = On("position", Needed(w)) \cup On("row", Needed(w))
<1>1. ById \in {ByKey, ById, ByLine} /\ Needed(w) \in SUBSET Positions
  BY DEF Needed
<1> QED  BY <1>1, PairsFit DEF Releasing

\* Locks on the balances of P, with those of an adjustment and of the codes.
Suffix(t, P) ==
    /\ P \in SUBSET Positions
    /\ t \in Seq(AnyLock)
    /\ On("position", P) \subseteq Range(t)
    /\ On("row", P) \subseteq Range(t)
    /\ Range(t) \subseteq On("position", P) \cup On("row", P) \cup {Codes}
                            \cup ({"adjustment"} \X Nat)

\* None of those locks is on a key or an order, and a row is locked with its position.
LEMMA SuffixKinds ==
    ASSUME NEW P, NEW t, Suffix(t, P)
    PROVE  /\ \A x \in Range(t) : x[1] \notin {"key", "order"}
           /\ \A p : <<"row", p>> \in Range(t) => p \in P /\ <<"position", p>> \in Range(t)
           /\ \A w : \A x \in Range(t) : Precedes(<<"order", w>>, x)
<1>1. ASSUME NEW x \in Range(t)
      PROVE  \/ \E p \in P : x = <<"position", p>>
             \/ \E p \in P : x = <<"row", p>>
             \/ x = Codes
             \/ \E i \in Nat : x = <<"adjustment", i>>
  BY DEF Suffix, On
<1>2. P \in SUBSET Positions /\ \A p \in P : <<"position", p>> \in Range(t)
  BY DEF Suffix, On
<1>3. ASSUME NEW x \in Range(t) PROVE x[1] \notin {"key", "order"}
  BY <1>1 DEF Codes
<1>4. ASSUME NEW p, <<"row", p>> \in Range(t) PROVE p \in P
  <2>1. PICK x \in Range(t) : x = <<"row", p>>
    BY <1>4
  <2>2. x[1] = "row" /\ x[2] = p
    BY <2>1
  <2>3. CASE \E y \in P : x = <<"position", y>>
    BY <2>2, <2>3
  <2>4. CASE \E y \in P : x = <<"row", y>>
    BY <2>2, <2>4
  <2>5. CASE x = Codes
    BY <2>2, <2>5 DEF Codes
  <2>6. CASE \E i \in Nat : x = <<"adjustment", i>>
    BY <2>2, <2>6
  <2> QED  BY <1>1, <2>3, <2>4, <2>5, <2>6
<1>5. ASSUME NEW w, NEW x \in Range(t) PROVE Precedes(<<"order", w>>, x)
  BY <1>1, <1>2, RanksInOrder
<1> QED  BY <1>2, <1>3, <1>4, <1>5

\* Posting and issuing take such locks.
LEMMA BalancesSuffix ==
    ASSUME NEW P \in SUBSET Positions
    PROVE  Suffix(Posting(P), P) /\ Suffix(Issuing(P), P)
BY PostingFits, IssuingFits DEF Suffix

\* So does releasing.
LEMMA ReleasingSuffix ==
    ASSUME NEW w
    PROVE  Suffix(Releasing(w), Needed(w))
BY ReleasingFits DEF Suffix, Needed

\* Posting with the lock of an adjustment before it.
LEMMA ReversalSuffix ==
    ASSUME NEW P \in SUBSET Positions, NEW i \in Nat,
           NEW s, s = <<<<"adjustment", i>>>> \o Posting(P)
    PROVE  Suffix(s, P) /\ Ordered(s)
<1>0. PICK t, a : t = Posting(P) /\ a = <<"adjustment", i>>
  OBVIOUS
<1>1. /\ t \in Seq(AnyLock) /\ Ordered(t)
      /\ Range(t) = On("position", P) \cup On("row", P) \cup {Codes}
  BY <1>0, PostingFits
<1>2. a \in AnyLock /\ a \in {"adjustment"} \X Nat
  BY <1>0 DEF AnyLock
<1>3. s \in Seq(AnyLock) /\ \A x : x \in Range(s) <=> x = a \/ x \in Range(t)
  <2>1. s = <<a>> \o t
    BY <1>0
  <2>2. s \in Seq(AnyLock)
    BY <1>1, <1>2, <2>1, Prepend
  <2>3. \A x : x \in Range(s) <=> x = a \/ x \in Range(t)
    BY <1>1, <1>2, <2>1, Prepend
  <2> QED  BY <2>2, <2>3
<1>4. \A b \in Range(t) : Precedes(a, b)
  <2>1. \A p \in P : Precedes(a, <<"position", p>>) /\ Precedes(a, <<"row", p>>)
    BY <1>0, RanksInOrder
  <2>2. Precedes(a, Codes)
    BY <1>0, RanksInOrder
  <2> QED  BY <1>1, <2>1, <2>2 DEF On
<1>5. Ordered(s)
  BY <1>0, <1>1, <1>2, <1>4, OrderedPrepend
<1> QED  BY <1>1, <1>2, <1>3, <1>5 DEF Suffix

\* What LocksOf promises of the locks of a request.
LocksFit(q, t) ==
    /\ t \in Seq(AnyLock)
    /\ \A j \in 1..Len(t) : t[j][1] # "key"
    /\ \A j \in 1..Len(t) : t[j][1] = "order" => j = 1 /\ t[j] = <<"order", q.order>>
    /\ q.operation \in OrderOperations => <<"order", q.order>> \in Range(t)
    /\ q.operation \notin {"RELEASE", "CANCEL"} =>
         On("row", DOMAIN q.lines) \subseteq Range(t)
    /\ q.operation = "RELEASE" => On("row", Needed(q.order)) \subseteq Range(t)
    /\ q.operation = "CANCEL" => \A p : <<"row", p>> \notin Range(t)
    /\ q.operation = "ISSUE_MATERIALS" =>
         \A p : <<"row", p>> \in Range(t) => p \in DOMAIN q.lines
    /\ q.operation \notin {"ISSUE_MATERIALS", "CANCEL"} =>
         /\ Ordered(t)
         /\ \A p : <<"row", p>> \in Range(t) => <<"position", p>> \in Range(t)

\* They fit a request that names no order.
LEMMA SuffixFits ==
    ASSUME NEW q, q.operation \notin OrderOperations,
           NEW t, Suffix(t, DOMAIN q.lines), Ordered(t)
    PROVE  LocksFit(q, t)
<1>1. t \in Seq(AnyLock) /\ On("row", DOMAIN q.lines) \subseteq Range(t)
  BY DEF Suffix
<1>2. \A j \in 1..Len(t) : t[j] \in Range(t)
  BY <1>1, RangeEquality
<1>3. \A j \in 1..Len(t) : t[j][1] \notin {"key", "order"}
  BY <1>2, SuffixKinds
<1>4. \A p : <<"row", p>> \in Range(t) => <<"position", p>> \in Range(t)
  BY SuffixKinds
<1>5. q.operation \notin {"RELEASE", "CANCEL", "ISSUE_MATERIALS"}
  BY DEF OrderOperations
<1> QED  BY <1>1, <1>3, <1>4, <1>5 DEF LocksFit

\* Behind the lock on its order they fit a request that names one.
LEMMA OrderFirst ==
    ASSUME NEW q, q.operation \in OrderOperations, q.order \in Orders,
           q.operation # "CANCEL",
           NEW t, NEW P, Suffix(t, P),
           NEW a, a = <<"order", q.order>>, NEW s, s = <<a>> \o t,
           q.operation = "RELEASE" => P = Needed(q.order),
           q.operation # "RELEASE" => P = DOMAIN q.lines,
           q.operation # "ISSUE_MATERIALS" => Ordered(t)
    PROVE  LocksFit(q, s)
<1>1. a \in AnyLock /\ a[1] = "order" /\ \A p : a # <<"row", p>>
  BY DEF AnyLock
<1>2. t \in Seq(AnyLock) /\ On("row", P) \subseteq Range(t)
  BY DEF Suffix
<1>3. /\ s \in Seq(AnyLock) /\ Len(t) \in Nat /\ Len(s) = Len(t) + 1
      /\ s[1] = a
      /\ \A j \in 1..Len(s) : j # 1 => j - 1 \in 1..Len(t) /\ s[j] = t[j - 1]
      /\ \A x : x \in Range(s) <=> x = a \/ x \in Range(t)
  <2>1. s \in Seq(AnyLock) /\ Len(t) \in Nat /\ Len(s) = Len(t) + 1 /\ s[1] = a
    BY <1>1, <1>2, Prepend
  <2>2. \A j \in 1..Len(s) : j # 1 => j - 1 \in 1..Len(t) /\ s[j] = t[j - 1]
    BY <1>1, <1>2, Prepend
  <2>3. \A x : x \in Range(s) <=> x = a \/ x \in Range(t)
    BY <1>1, <1>2, Prepend
  <2> QED  BY <2>1, <2>2, <2>3
<1>4. \A j \in 1..Len(t) : t[j] \in Range(t)
  BY <1>2, RangeEquality
<1>5. \A j \in 1..Len(s) : j # 1 => s[j][1] \notin {"key", "order"}
  BY <1>3, <1>4, SuffixKinds
<1>6. \A p : <<"row", p>> \in Range(s) => p \in P /\ <<"position", p>> \in Range(s)
  BY <1>1, <1>3, SuffixKinds
<1>7. Ordered(t) => Ordered(s)
  <2>1. \A b \in Range(t) : Precedes(a, b)
    BY SuffixKinds
  <2> QED  BY <1>1, <1>2, <2>1, OrderedPrepend
<1>8. s[1][1] = "order"
  BY <1>1, <1>3
<1> QED
  BY <1>2, <1>3, <1>5, <1>6, <1>7, <1>8 DEF LocksFit

\* The locks of a request that is whole.
LEMMA LocksOfFit ==
    ASSUME NEW q \in Request, IsWhole(q)
    PROVE  LocksFit(q, LocksOf(q))
<1>0. PICK P, a, i, w :
        /\ P = DOMAIN q.lines /\ a = <<"order", w>>
        /\ i = <<"adjustment", q.reversalOf>> /\ w = q.order
  OBVIOUS
<1>1. /\ q.operation \in RequestOperations /\ q.reversalOf \in Nat
      /\ P \in SUBSET Positions
  BY <1>0 DEF Request, LinesOf
<1>2. q.operation \in OrderOperations => w \in Orders
  BY <1>0 DEF IsWhole
<1>3. Suffix(Posting(P), P) /\ Suffix(Issuing(P), P) /\ Ordered(Posting(P))
  BY <1>1, BalancesSuffix, PostingFits
<1>4. CASE q.operation \in OperationTypes
  <2>1. q.operation \notin OrderOperations /\ LocksOf(q) = Posting(P)
    BY <1>0, <1>4 DEF LocksOf, OperationTypes, OnHandSign, OrderOperations
  <2> QED  BY <1>0, <1>3, <2>1, SuffixFits
<1>5. CASE q.operation = "REVERSAL"
  <2>1. q.operation \notin OrderOperations /\ LocksOf(q) = <<i>> \o Posting(P)
    BY <1>0, <1>5 DEF LocksOf, OperationTypes, OnHandSign, OrderOperations
  <2>2. Suffix(LocksOf(q), P) /\ Ordered(LocksOf(q))
    BY <1>0, <1>1, <2>1, ReversalSuffix
  <2> QED  BY <1>0, <2>1, <2>2, SuffixFits
<1>6. CASE q.operation = "RELEASE"
  <2>1. LocksOf(q) = <<a>> \o Releasing(w) /\ q.operation \in OrderOperations
    BY <1>0, <1>6 DEF LocksOf, OperationTypes, OnHandSign, OrderOperations
  <2>2. Suffix(Releasing(w), Needed(w)) /\ Ordered(Releasing(w))
    BY ReleasingSuffix, ReleasingFits
  <2> QED  BY <1>0, <1>2, <1>6, <2>1, <2>2, OrderFirst
<1>7. CASE q.operation = "CANCEL"
  <2>1. LocksOf(q) = <<a>> /\ q.operation \in OrderOperations
    BY <1>0, <1>7 DEF LocksOf, OperationTypes, OnHandSign, OrderOperations
  <2>2. a \in AnyLock /\ a[1] = "order" /\ \A p : a # <<"row", p>>
    BY <1>0, <1>2, <2>1 DEF AnyLock
  <2>3. PICK t : t = LocksOf(q)
    OBVIOUS
  <2>4. t \in Seq(AnyLock) /\ Len(t) = 1 /\ t[1] = a /\ Range(t) = {a}
    BY <2>1, <2>2, <2>3, OneLock
  <2> QED  BY <1>0, <1>7, <2>2, <2>3, <2>4 DEF LocksFit
<1>8. CASE q.operation = "ISSUE_MATERIALS"
  <2>1. LocksOf(q) = <<a>> \o Issuing(P) /\ q.operation \in OrderOperations
    BY <1>0, <1>8 DEF LocksOf, OperationTypes, OnHandSign, OrderOperations
  <2> QED  BY <1>0, <1>2, <1>3, <1>8, <2>1, OrderFirst
<1>9. CASE q.operation \in {"RETURN_MATERIALS", "COMPLETE"}
  <2>1. LocksOf(q) = <<a>> \o Posting(P) /\ q.operation \in OrderOperations
    BY <1>0, <1>9 DEF LocksOf, OperationTypes, OnHandSign, OrderOperations
  <2> QED  BY <1>0, <1>2, <1>3, <1>9, <2>1, OrderFirst
<1>10. CASE q.operation = "REVERSE_COMPLETION"
  <2>1. PICK t : t = <<i>> \o Posting(P)
    OBVIOUS
  <2>2. Suffix(t, P) /\ Ordered(t)
    BY <1>0, <1>1, <2>1, ReversalSuffix
  <2>3. LocksOf(q) = <<a>> \o t /\ q.operation \in OrderOperations
    <3>1. \/ LocksOf(q) = <<a>> \o (<<i>> \o Posting(P))
          \/ LocksOf(q) = (<<a>> \o <<i>>) \o Posting(P)
      BY <1>0, <1>10 DEF LocksOf, OperationTypes, OnHandSign, OrderOperations
    <3>2. <<a>> \in Seq(AnyLock) /\ <<i>> \in Seq(AnyLock) /\ Posting(P) \in Seq(AnyLock)
      <4>1. a \in AnyLock /\ i \in AnyLock
        BY <1>0, <1>1, <1>2, <1>10 DEF AnyLock, OrderOperations
      <4> QED  BY <1>3, <4>1 DEF Suffix
    <3>3. (<<a>> \o <<i>>) \o Posting(P) = <<a>> \o (<<i>> \o Posting(P))
      BY <3>2, ConcatAssociative
    <3> QED  BY <1>10, <2>1, <3>1, <3>3 DEF OrderOperations
  <2> QED  BY <1>0, <1>2, <1>10, <2>2, <2>3, OrderFirst
<1> QED
  BY <1>1, <1>4, <1>5, <1>6, <1>7, <1>8, <1>9, <1>10
     DEF RequestOperations, OrderOperations
-----------------------------------------------------------------------------
(* What a transaction reads.                                               *)

\* The positions whose rows request r reads and writes.
Touches(r, p) ==
    LET q == request[r] IN
    \/ q.operation \notin {"RELEASE", "CANCEL"} /\ p \in DOMAIN q.lines
    \/ q.operation = "RELEASE" /\ p \in Needed(q.order)
    \/ q.operation = "CANCEL" /\ Owed(q.order, p) > 0

\* The rows read of the positions of P are those of the table.
SameRows(rows, P) == \A p \in P : rows[p] = balance[p]

\* Recording and writing an adjustment depend on the rows of its lines only.
LEMMA WritingReads ==
    ASSUME NEW rows, NEW lines, SameRows(rows, DOMAIN lines), NEW r, NEW type, NEW i
    PROVE  /\ Record(r, type, i, rows, lines) => Record(r, type, i, balance, lines)
           /\ WriteLines(rows, lines) => WriteLines(balance, lines)
<1>1. Record(r, type, i, rows, lines) => Record(r, type, i, balance, lines)
  BY DEF SameRows, Record
<1>2. ASSUME WriteLines(rows, lines) PROVE WriteLines(balance, lines)
  <2> DEFINE f == [p \in Positions |-> IF p \in DOMAIN lines THEN Written(rows[p], lines[p])
                                       ELSE balance[p]]
             g == [p \in Positions |-> IF p \in DOMAIN lines THEN Written(balance[p], lines[p])
                                       ELSE balance[p]]
  <2>1. f = g
    BY DEF SameRows
  <2> QED  BY <1>2, <2>1 DEF WriteLines
<1> QED  BY <1>1, <1>2

\* So does refusing a request for its expected versions.
LEMMA StaleReads ==
    ASSUME NEW rows, NEW r, SameRows(rows, DOMAIN request[r].lines)
    PROVE  Stale(r, rows) <=> Stale(r, balance)
BY DEF SameRows, Stale

\* Posting depends on the rows of its lines.
LEMMA PostReads ==
    ASSUME NEW r, NEW rows, SameRows(rows, DOMAIN request[r].lines), Post(r, rows)
    PROVE  Post(r, balance)
<1> DEFINE P == DOMAIN request[r].lines
           f == [p \in P |-> PostedLine(request[r].operation, Quantity(r, p), rows[p])]
           g == [p \in P |-> PostedLine(request[r].operation, Quantity(r, p), balance[p])]
<1>1. f = g /\ DOMAIN g = P
  BY DEF SameRows
<1>2. /\ Record(r, request[r].operation, 0, rows, f) /\ WriteLines(rows, f)
      /\ Pending(r, OperationTypes) /\ ~Stale(r, rows)
      /\ UNCHANGED <<order, hold, work>>
  BY DEF Post
<1>3. Record(r, request[r].operation, 0, balance, g) /\ WriteLines(balance, g)
  <2> HIDE DEF f, g
  <2> QED  BY <1>1, <1>2, WritingReads
<1> QED  BY <1>2, <1>3, StaleReads DEF Post

\* Reversing depends on the rows of the lines it reverses.
LEMMA ReversalReads ==
    ASSUME NEW r, NEW i, NEW rows, SameRows(rows, DOMAIN journal[i].lines),
           ReverseAdjustment(r, i, rows)
    PROVE  ReverseAdjustment(r, i, balance)
<1> DEFINE P == DOMAIN journal[i].lines
           f == [p \in P |-> ReversedLine(journal[i].lines[p], rows[p])]
           g == [p \in P |-> ReversedLine(journal[i].lines[p], balance[p])]
<1>1. f = g /\ DOMAIN g = P
  BY DEF SameRows
<1>2. /\ Record(r, "REVERSAL", i, rows, f) /\ WriteLines(rows, f)
      /\ journal[i].type # "REVERSAL" /\ ~Reversed(i)
  BY DEF ReverseAdjustment
<1>3. Record(r, "REVERSAL", i, balance, g) /\ WriteLines(balance, g)
  <2> HIDE DEF f, g
  <2> QED  BY <1>1, <1>2, WritingReads
<1> QED  BY <1>2, <1>3 DEF ReverseAdjustment

\* Releasing depends on the rows of the materials needed.
LEMMA ReleaseReads ==
    ASSUME NEW r, NEW rows, SameRows(rows, Needed(request[r].order)), ReleaseOrder(r, rows)
    PROVE  ReleaseOrder(r, balance)
<1>0. PICK w : w = request[r].order
  OBVIOUS
<1> DEFINE f == [p \in Positions |->
                   IF p \in Needed(w) THEN Reserve(rows[p], Required[w][p]) ELSE balance[p]]
           g == [p \in Positions |->
                   IF p \in Needed(w) THEN Reserve(balance[p], Required[w][p]) ELSE balance[p]]
<1>1. f = g
  BY <1>0 DEF SameRows
<1>2. \A p \in Needed(w) : balance[p].version > 0 /\ Free(balance[p]) >= Required[w][p]
  BY <1>0 DEF ReleaseOrder, SameRows
<1>3. balance' = g
  BY <1>0, <1>1 DEF ReleaseOrder
<1> QED  BY <1>0, <1>2, <1>3 DEF ReleaseOrder

\* Cancelling depends on the rows of the materials owed.
LEMMA CancelReads ==
    ASSUME NEW r, NEW rows, NEW w, w = request[r].order,
           SameRows(rows, {p \in Positions : Owed(w, p) > 0}), CancelOrder(r, rows)
    PROVE  CancelOrder(r, balance)
<1> DEFINE f == [p \in Positions |->
                   IF Owed(w, p) > 0 THEN Reserve(rows[p], -Owed(w, p)) ELSE balance[p]]
           g == [p \in Positions |->
                   IF Owed(w, p) > 0 THEN Reserve(balance[p], -Owed(w, p)) ELSE balance[p]]
<1>1. f = g
  BY DEF SameRows
<1>2. balance' = g
  BY <1>1 DEF CancelOrder
<1> QED  BY <1>2 DEF CancelOrder

\* Issuing depends on the rows of its lines.
LEMMA IssueReads ==
    ASSUME NEW r, NEW rows, SameRows(rows, DOMAIN request[r].lines), IssueMaterials(r, rows)
    PROVE  IssueMaterials(r, balance)
<1> DEFINE P == DOMAIN request[r].lines
           c == [p \in P |-> Reserve(rows[p], -Quantity(r, p))]
           d == [p \in P |-> Reserve(balance[p], -Quantity(r, p))]
<1>1. c = d
  BY DEF SameRows
<1> QED  BY <1>1, StaleReads DEF IssueMaterials

\* Returning depends on the rows of its lines.
LEMMA ReturnReads ==
    ASSUME NEW r, NEW rows, SameRows(rows, DOMAIN request[r].lines), ReturnMaterials(r, rows)
    PROVE  ReturnMaterials(r, balance)
<1> DEFINE P == DOMAIN request[r].lines
           f == [p \in P |-> PostedLine("RECEIPT", Quantity(r, p), rows[p])]
           g == [p \in P |-> PostedLine("RECEIPT", Quantity(r, p), balance[p])]
           a == [p \in Positions |-> IF p \in P
                   THEN Reserve(Written(rows[p], f[p]), Quantity(r, p)) ELSE balance[p]]
           b == [p \in Positions |-> IF p \in P
                   THEN Reserve(Written(balance[p], g[p]), Quantity(r, p)) ELSE balance[p]]
<1>1. f = g /\ DOMAIN g = P
  BY DEF SameRows
<1>2. a = b
  <2> HIDE DEF f, g
  <2> QED  BY <1>1 DEF SameRows
<1>3. Record(r, "RECEIPT", 0, rows, f)
  BY DEF ReturnMaterials
<1>4. Record(r, "RECEIPT", 0, balance, g)
  <2> HIDE DEF f, g
  <2> QED  BY <1>1, <1>3, WritingReads
<1>5. balance' = b
  <2>1. balance' = a
    BY DEF ReturnMaterials
  <2> QED  BY <1>2, <2>1
<1> QED  BY <1>4, <1>5, StaleReads DEF ReturnMaterials

\* Completing depends on the rows of its lines.
LEMMA CompleteReads ==
    ASSUME NEW r, NEW rows, SameRows(rows, DOMAIN request[r].lines), Complete(r, rows)
    PROVE  Complete(r, balance)
<1> DEFINE P == DOMAIN request[r].lines
           f == [p \in P |-> PostedLine("RECEIPT", Quantity(r, p), rows[p])]
           g == [p \in P |-> PostedLine("RECEIPT", Quantity(r, p), balance[p])]
<1>1. f = g /\ DOMAIN g = P
  BY DEF SameRows
<1>2. Record(r, "RECEIPT", 0, rows, f) /\ WriteLines(rows, f)
  BY DEF Complete
<1>3. Record(r, "RECEIPT", 0, balance, g) /\ WriteLines(balance, g)
  <2> HIDE DEF f, g
  <2> QED  BY <1>1, <1>2, WritingReads
<1> QED  BY <1>3, StaleReads DEF Complete

\* A transaction whose rows are those of the table does what it would do at
\* once.
LEMMA ApplyReads ==
    ASSUME StockInv, NEW r \in Requests, NEW rows, Apply(r, rows),
           \A p \in Positions : Touches(r, p) => rows[p] = balance[p]
    PROVE  Apply(r, balance)
<1>0. PICK q : q = request[r]
  OBVIOUS
<1>1. q # None /\ q \in Request /\ IsWhole(q)
  BY <1>0 DEF Apply, Post, Reverse, ReleaseOrder, CancelOrder, IssueMaterials,
     ReturnMaterials, Complete, ReverseCompletion, Pending, StockInv, StateTyped,
     RequestsAreWhole
<1>2. DOMAIN q.lines \subseteq Positions
  BY <1>1 DEF Request, LinesOf
<1>3. q.operation \notin {"RELEASE", "CANCEL"} => SameRows(rows, DOMAIN q.lines)
  BY <1>0, <1>2 DEF SameRows, Touches
<1>4. q.operation \in {"REVERSAL", "REVERSE_COMPLETION"} =>
        SameRows(rows, DOMAIN journal[q.reversalOf].lines)
  BY <1>1, <1>3 DEF IsWhole
<1>5. q.operation = "RELEASE" => SameRows(rows, Needed(q.order))
  BY <1>0 DEF SameRows, Touches, Needed
<1>6. q.operation = "CANCEL" => SameRows(rows, {p \in Positions : Owed(q.order, p) > 0})
  BY <1>0 DEF SameRows, Touches
<1>7. ASSUME Post(r, rows) PROVE Post(r, balance)
  <2>1. q.operation \notin {"RELEASE", "CANCEL"}
    BY <1>0, <1>7 DEF Post, Pending, OperationTypes, OnHandSign
  <2> QED  BY <1>0, <1>3, <1>7, <2>1, PostReads
<1>8. ASSUME Reverse(r, rows) PROVE Reverse(r, balance)
  <2>1. q.operation = "REVERSAL"
    BY <1>0, <1>8 DEF Reverse, Pending
  <2>2. ReverseAdjustment(r, q.reversalOf, balance)
    BY <1>0, <1>4, <1>8, <2>1, ReversalReads DEF Reverse
  <2> QED  BY <1>0, <1>3, <1>8, <2>1, <2>2, StaleReads DEF Reverse
<1>9. ASSUME ReleaseOrder(r, rows) PROVE ReleaseOrder(r, balance)
  <2>1. q.operation = "RELEASE"
    BY <1>0, <1>9 DEF ReleaseOrder, Pending
  <2> QED  BY <1>0, <1>5, <1>9, <2>1, ReleaseReads
<1>10. ASSUME CancelOrder(r, rows) PROVE CancelOrder(r, balance)
  <2>1. q.operation = "CANCEL"
    BY <1>0, <1>10 DEF CancelOrder, Pending
  <2> QED  BY <1>0, <1>6, <1>10, <2>1, CancelReads
<1>11. ASSUME IssueMaterials(r, rows) PROVE IssueMaterials(r, balance)
  <2>1. q.operation = "ISSUE_MATERIALS"
    BY <1>0, <1>11 DEF IssueMaterials, Pending
  <2> QED  BY <1>0, <1>3, <1>11, <2>1, IssueReads
<1>12. ASSUME ReturnMaterials(r, rows) PROVE ReturnMaterials(r, balance)
  <2>1. q.operation = "RETURN_MATERIALS"
    BY <1>0, <1>12 DEF ReturnMaterials, Pending
  <2> QED  BY <1>0, <1>3, <1>12, <2>1, ReturnReads
<1>13. ASSUME Complete(r, rows) PROVE Complete(r, balance)
  <2>1. q.operation = "COMPLETE"
    BY <1>0, <1>13 DEF Complete, Pending
  <2> QED  BY <1>0, <1>3, <1>13, <2>1, CompleteReads
<1>14. ASSUME ReverseCompletion(r, rows) PROVE ReverseCompletion(r, balance)
  <2>1. q.operation = "REVERSE_COMPLETION"
    BY <1>0, <1>14 DEF ReverseCompletion, Pending
  <2>2. ReverseAdjustment(r, q.reversalOf, balance)
    BY <1>0, <1>4, <1>14, <2>1, ReversalReads DEF ReverseCompletion
  <2> QED  BY <1>0, <1>3, <1>14, <2>1, <2>2, StaleReads DEF ReverseCompletion
<1> QED
  BY <1>7, <1>8, <1>9, <1>10, <1>11, <1>12, <1>13, <1>14 DEF Apply

\* What a transaction writes: rows it has read, and holds of its own order.
LEMMA ApplyFrame ==
    ASSUME StockInv, NEW r \in Requests, Apply(r, balance)
    PROVE  /\ request[r] # None /\ request' = request
           /\ \A p \in Positions : balance'[p] # balance[p] => Touches(r, p)
           /\ \A w \in Orders : hold'[w] # hold[w] =>
                w = request[r].order /\ request[r].operation \in OrderOperations
<1>0. PICK q, w : q = request[r] /\ w = q.order
  OBVIOUS
<1>1. q # None /\ q \in Request /\ IsWhole(q)
  BY <1>0 DEF Apply, Post, Reverse, ReleaseOrder, CancelOrder, IssueMaterials,
     ReturnMaterials, Complete, ReverseCompletion, Pending, StockInv, StateTyped,
     RequestsAreWhole
<1>2. hold \in [Orders -> [Positions -> Hold]]
  BY DEF StockInv, StateTyped
<1> DEFINE Lines == \A p \in Positions : balance'[p] # balance[p] => p \in DOMAIN q.lines
           Frame == /\ request' = request
                    /\ \A p \in Positions : balance'[p] # balance[p] => Touches(r, p)
                    /\ \A v \in Orders : hold'[v] # hold[v] =>
                         v = w /\ q.operation \in OrderOperations
<1>3. ASSUME Post(r, balance) PROVE Frame
  <2>1. q.operation \notin {"RELEASE", "CANCEL"}
    BY <1>0, <1>3 DEF Post, Pending, OperationTypes, OnHandSign
  <2>2. Lines /\ hold' = hold /\ request' = request
    BY <1>0, <1>3 DEF Post, WriteLines, Record
  <2> QED  BY <1>0, <2>1, <2>2 DEF Touches
<1>4. ASSUME Reverse(r, balance) PROVE Frame
  <2>1. q.operation = "REVERSAL"
    BY <1>0, <1>4 DEF Reverse, Pending
  <2>2. DOMAIN q.lines = DOMAIN journal[q.reversalOf].lines
    BY <1>1, <2>1 DEF IsWhole
  <2>3. Lines /\ hold' = hold /\ request' = request
    BY <1>0, <1>4, <2>2 DEF Reverse, ReverseAdjustment, WriteLines, Record
  <2> QED  BY <1>0, <2>1, <2>3 DEF Touches
<1>5. ASSUME ReleaseOrder(r, balance) PROVE Frame
  <2>1. q.operation = "RELEASE"
    BY <1>0, <1>5 DEF ReleaseOrder, Pending
  <2>2. /\ \A p \in Positions : balance'[p] # balance[p] => p \in Needed(w)
        /\ request' = request
    BY <1>0, <1>5 DEF ReleaseOrder, RecordOrder
  <2>3. \A v \in Orders : v # w => hold'[v] = hold[v]
    BY <1>0, <1>2, <1>5 DEF ReleaseOrder
  <2> QED  BY <1>0, <2>1, <2>2, <2>3 DEF Touches, OrderOperations
<1>6. ASSUME CancelOrder(r, balance) PROVE Frame
  <2>1. q.operation = "CANCEL"
    BY <1>0, <1>6 DEF CancelOrder, Pending
  <2>2. /\ \A p \in Positions : balance'[p] # balance[p] => Owed(w, p) > 0
        /\ request' = request
    BY <1>0, <1>6 DEF CancelOrder, RecordOrder
  <2>3. \A v \in Orders : v # w => hold'[v] = hold[v]
    BY <1>0, <1>2, <1>6 DEF CancelOrder
  <2> QED  BY <1>0, <2>1, <2>2, <2>3 DEF Touches, OrderOperations
<1>7. ASSUME IssueMaterials(r, balance) PROVE Frame
  <2>1. q.operation = "ISSUE_MATERIALS"
    BY <1>0, <1>7 DEF IssueMaterials, Pending
  <2>2. Lines /\ request' = request
    BY <1>0, <1>7 DEF IssueMaterials, WriteLines, Record
  <2>3. \A v \in Orders : v # w => hold'[v] = hold[v]
    BY <1>0, <1>2, <1>7 DEF IssueMaterials
  <2> QED  BY <1>0, <2>1, <2>2, <2>3 DEF Touches, OrderOperations
<1>8. ASSUME ReturnMaterials(r, balance) PROVE Frame
  <2>1. q.operation = "RETURN_MATERIALS"
    BY <1>0, <1>8 DEF ReturnMaterials, Pending
  <2>2. Lines /\ request' = request
    BY <1>0, <1>8 DEF ReturnMaterials, Record
  <2>3. \A v \in Orders : v # w => hold'[v] = hold[v]
    BY <1>0, <1>2, <1>8 DEF ReturnMaterials
  <2> QED  BY <1>0, <2>1, <2>2, <2>3 DEF Touches, OrderOperations
<1>9. ASSUME Complete(r, balance) PROVE Frame
  <2>1. q.operation = "COMPLETE"
    BY <1>0, <1>9 DEF Complete, Pending
  <2>2. Lines /\ hold' = hold /\ request' = request
    BY <1>0, <1>9 DEF Complete, WriteLines, Record
  <2> QED  BY <1>0, <2>1, <2>2 DEF Touches
<1>10. ASSUME ReverseCompletion(r, balance) PROVE Frame
  <2>1. q.operation = "REVERSE_COMPLETION"
    BY <1>0, <1>10 DEF ReverseCompletion, Pending
  <2>2. DOMAIN q.lines = DOMAIN journal[q.reversalOf].lines
    BY <1>1, <2>1 DEF IsWhole
  <2>3. Lines /\ hold' = hold /\ request' = request
    BY <1>0, <1>10, <2>2 DEF ReverseCompletion, ReverseAdjustment, WriteLines, Record
  <2> QED  BY <1>0, <2>1, <2>3 DEF Touches
<1>11. Frame
  <2> HIDE DEF Frame
  <2> QED  BY <1>3, <1>4, <1>5, <1>6, <1>7, <1>8, <1>9, <1>10 DEF Apply
<1> QED  BY <1>0, <1>1, <1>11

-----------------------------------------------------------------------------
(* Sessions.                                                               *)

\* Everything session s may still need is ahead of it or in its hands: t are
\* the locks to come, h those held, d the positions read.
TakesInTurn(q, t, h) ==
    /\ t \in Seq(AnyLock)
    /\ \A j \in 1..Len(t) : t[j][1] = "order" =>
         t[j] = <<"order", q.order>> /\ \A i \in 1..(j - 1) : t[i][1] = "key"
    /\ q.operation \in OrderOperations => <<"order", q.order>> \in h \cup Range(t)

\* Every row request r will use is read, or is still to be locked.
ReadsEnough(r, t, d) ==
    \A p \in Positions : Touches(r, p) =>
      \/ p \in d
      \/ <<"row", p>> \in Range(t)
      \/ request[r].operation = "CANCEL" /\ <<"order", request[r].order>> \in Range(t)

\* Rows are locked that are there, or whose position is locked before.
RowsAreThere(q, t, h) ==
    /\ q.operation = "ISSUE_MATERIALS" =>
         /\ \A p : <<"row", p>> \in Range(t) => p \in Needed(q.order)
         /\ \/ <<"order", q.order>> \in Range(t)
            \/ \A p \in Needed(q.order) : balance[p].version > 0
    /\ q.operation = "CANCEL" =>
         \A p : <<"row", p>> \in Range(t) => balance[p].version > 0
    /\ q.operation \notin {"ISSUE_MATERIALS", "CANCEL"} =>
         \A p : <<"row", p>> \in h \cup Range(t) => <<"position", p>> \in h \cup Range(t)

\* Locks to come are in order, and behind those held.
KeepsOrder(q, t, h) ==
    q.operation \notin {"ISSUE_MATERIALS", "CANCEL"} =>
      Ordered(t) /\ \A a \in h : \A b \in Range(t) : Precedes(a, b)

\* The locks to come, those held and the rows read fit request r.
Fits(r, t, h, d) ==
    /\ TakesInTurn(request[r], t, h)
    /\ ReadsEnough(r, t, d)
    /\ RowsAreThere(request[r], t, h)
    /\ KeepsOrder(request[r], t, h)

\* A transaction that begins.
LEMMA BeginFits ==
    ASSUME StockInv, OrdersInv, NEW r \in Requests, request[r] # None,
           NEW t, t = <<<<"key", r>>>> \o LocksOf(request[r])
    PROVE  Fits(r, t, {}, {})
<1>0. PICK q, k, l : q = request[r] /\ k = <<"key", r>> /\ l = LocksOf(q)
  OBVIOUS
<1>1. q \in Request /\ IsWhole(q)
  BY <1>0 DEF StockInv, StateTyped, RequestsAreWhole
<1>2. LocksFit(q, l)
  BY <1>0, <1>1, LocksOfFit
<1>3. l \in Seq(AnyLock) /\ k \in AnyLock /\ k[1] = "key" /\ t = <<k>> \o l
  BY <1>0, <1>2 DEF LocksFit, AnyLock
<1>4. t \in Seq(AnyLock) /\ Len(l) \in Nat /\ Len(t) = Len(l) + 1 /\ t[1] = k
  <2>1. t \in Seq(AnyLock)
    BY <1>3, Prepend
  <2>2. Len(l) \in Nat /\ Len(t) = Len(l) + 1
    BY <1>3, Prepend
  <2>3. t[1] = k
    BY <1>3, Prepend
  <2> QED  BY <2>1, <2>2, <2>3
<1>5. \A j \in 1..Len(t) : j # 1 => j - 1 \in 1..Len(l) /\ t[j] = l[j - 1]
  BY <1>3, Prepend
<1>6. \A x : x \in Range(t) <=> x = k \/ x \in Range(l)
  BY <1>3, Prepend
<1>7. \A x : x[1] # "key" => (x \in Range(t) <=> x \in Range(l))
  BY <1>3, <1>6
<1>8. \A p : /\ <<"row", p>> \in Range(t) <=> <<"row", p>> \in Range(l)
             /\ <<"position", p>> \in Range(t) <=> <<"position", p>> \in Range(l)
             /\ <<"order", p>> \in Range(t) <=> <<"order", p>> \in Range(l)
  BY <1>7
<1>9. TakesInTurn(q, t, {})
  <2>1. ASSUME NEW j \in 1..Len(t), t[j][1] = "order"
        PROVE  t[j] = <<"order", q.order>> /\ \A i \in 1..(j - 1) : t[i][1] = "key"
    <3>1. j # 1
      BY <1>3, <1>4, <2>1
    <3>2. j - 1 \in 1..Len(l) /\ t[j] = l[j - 1]
      BY <1>5, <3>1
    <3>3. j - 1 = 1 /\ t[j] = <<"order", q.order>>
      BY <1>2, <2>1, <3>2 DEF LocksFit
    <3>4. \A i \in 1..(j - 1) : i = 1
      BY <3>3
    <3> QED  BY <1>3, <1>4, <3>3, <3>4
  <2> QED  BY <1>2, <1>4, <1>8, <2>1 DEF TakesInTurn, LocksFit
<1>10. ReadsEnough(r, t, {})
  <2>1. ASSUME NEW p \in Positions, Touches(r, p), q.operation # "CANCEL"
        PROVE  <<"row", p>> \in Range(l)
    BY <1>0, <1>2, <2>1 DEF Touches, LocksFit, On
  <2>2. q.operation = "CANCEL" => <<"order", q.order>> \in Range(t)
    BY <1>2, <1>8 DEF LocksFit, OrderOperations
  <2> QED  BY <1>0, <1>8, <2>1, <2>2 DEF ReadsEnough
<1>11. RowsAreThere(q, t, {})
  <2>1. q.operation = "ISSUE_MATERIALS" => DOMAIN q.lines \subseteq Needed(q.order)
    BY <1>0, <1>1 DEF OrdersInv, OrdersFit, RequestsFitOrders
  <2>2. q.operation = "ISSUE_MATERIALS" =>
          /\ \A p : <<"row", p>> \in Range(t) => p \in Needed(q.order)
          /\ <<"order", q.order>> \in Range(t)
    BY <1>2, <1>8, <2>1 DEF LocksFit, OrderOperations
  <2> QED  BY <1>2, <1>8, <2>2 DEF RowsAreThere, LocksFit
<1>12. KeepsOrder(q, t, {})
  <2>1. ASSUME Ordered(l) PROVE Ordered(t)
    <3>1. ASSUME NEW b \in Range(l) PROVE Precedes(k, b)
      <4>1. PICK j \in 1..Len(l) : b = l[j]
        BY <1>3, RangeEquality
      <4>2. b[1] # "key" /\ b \in AnyLock
        BY <1>2, <1>3, <4>1, ElementOfSeq DEF LocksFit
      <4>3. Rank(k) = 0
        BY <1>3 DEF Rank
      <4>4. Rank(b) > 0
        <5>1. b[1] = "position" => b[2] \in Positions
          BY <4>2 DEF AnyLock
        <5>2. b[1] \in {"order", "adjustment", "position", "row", "codes"}
          BY <4>2 DEF AnyLock
        <5> QED  BY <5>1, <5>2, PlacesAreTyped DEF Rank
      <4> QED  BY <4>3, <4>4 DEF Precedes
    <3> QED  BY <1>3, <2>1, <3>1, OrderedPrepend
  <2> QED  BY <1>2, <2>1 DEF KeepsOrder, LocksFit
<1> QED  BY <1>0, <1>9, <1>10, <1>11, <1>12 DEF Fits
-----------------------------------------------------------------------------
(* One session.                                                            *)

\* The first of the locks to come, and the others.
LEMMA Heads ==
    ASSUME NEW t \in Seq(AnyLock), t # <<>>
    PROVE  /\ Head(t) = t[1] /\ Head(t) \in AnyLock /\ Head(t) \in Range(t)
           /\ Tail(t) \in Seq(AnyLock) /\ Len(t) \in Nat /\ Len(t) > 0
           /\ Len(Tail(t)) = Len(t) - 1
           /\ \A j \in 1..Len(Tail(t)) : j + 1 \in 1..Len(t) /\ Tail(t)[j] = t[j + 1]
           /\ \A x : x \in Range(Tail(t)) <=> \E j \in 1..Len(Tail(t)) : x = Tail(t)[j]
           /\ \A x : x \in Range(t) <=> x = Head(t) \/ x \in Range(Tail(t))
<1>1. /\ Head(t) = t[1] /\ Head(t) \in AnyLock /\ Tail(t) \in Seq(AnyLock)
      /\ Len(t) \in Nat /\ Len(t) > 0 /\ Len(Tail(t)) = Len(t) - 1
      /\ \A j \in 1..Len(Tail(t)) : j + 1 \in 1..Len(t) /\ Tail(t)[j] = t[j + 1]
  BY HeadTailProperties, EmptySeq, LenProperties
<1>2. /\ \A x : x \in Range(t) <=> \E j \in 1..Len(t) : x = t[j]
      /\ \A x : x \in Range(Tail(t)) <=> \E j \in 1..Len(Tail(t)) : x = Tail(t)[j]
  <2>1. Range(t) = {t[j] : j \in 1..Len(t)}
    BY RangeEquality
  <2>2. ASSUME NEW u \in Seq(AnyLock) PROVE Range(u) = {u[j] : j \in 1..Len(u)}
    BY RangeEquality
  <2>3. ASSUME NEW u \in Seq(AnyLock), NEW x
        PROVE  x \in Range(u) <=> \E j \in 1..Len(u) : x = u[j]
    BY <2>2
  <2> QED  BY <1>1, <2>1, <2>3
<1>3. ASSUME NEW x \in Range(t), x # Head(t) PROVE x \in Range(Tail(t))
  <2>1. PICK j \in 1..Len(t) : x = t[j]
    BY <1>2
  <2>2. PICK i \in Int : i + 1 = j
    OBVIOUS
  <2>3. i \in 1..Len(Tail(t))
    BY <1>1, <1>3, <2>1, <2>2
  <2>4. x = Tail(t)[i]
    BY <1>1, <2>1, <2>2, <2>3
  <2> QED  BY <1>2, <2>3, <2>4
<1>4. \A x \in Range(Tail(t)) : x \in Range(t)
  BY <1>1, <1>2
<1>5. Head(t) \in Range(t)
  BY <1>1, <1>2
<1> QED  BY <1>1, <1>2, <1>3, <1>4, <1>5

\* No row lock comes before a position lock.
LEMMA RowsAfterPositions ==
    ASSUME NEW p \in Positions, NEW q
    PROVE  ~Precedes(<<"row", q>>, <<"position", p>>)
BY PlacesAreTyped DEF Precedes, Rank

\* Nothing that waits for an order waits behind a row.
LEMMA NoOrderBehind ==
    ASSUME NEW q, NEW t, NEW h, TakesInTurn(q, t, h), t # <<>>, Head(t)[1] # "key"
    PROVE  /\ \A w : <<"order", w>> \notin Range(Tail(t))
           /\ Head(t)[1] = "order" => Head(t) = <<"order", q.order>>
<1>1. t \in Seq(AnyLock)
  BY DEF TakesInTurn
<1>2. /\ Head(t) = t[1] /\ Len(t) \in Nat /\ Len(t) > 0 /\ Tail(t) \in Seq(AnyLock)
      /\ \A j \in 1..Len(Tail(t)) : j + 1 \in 1..Len(t) /\ Tail(t)[j] = t[j + 1]
  BY <1>1, Heads
<1>3. ASSUME NEW w, <<"order", w>> \in Range(Tail(t)) PROVE FALSE
  <2>1. PICK j \in 1..Len(Tail(t)) : Tail(t)[j] = <<"order", w>>
    BY <1>1, <1>3, Heads
  <2>2. t[j + 1][1] = "order" /\ j + 1 \in 1..Len(t) /\ 1 \in 1..((j + 1) - 1)
    BY <1>2, <2>1
  <2>3. t[1][1] = "key"
    BY <2>2 DEF TakesInTurn
  <2> QED  BY <1>2, <2>3
<1>4. Head(t)[1] = "order" => Head(t) = <<"order", q.order>>
  BY <1>2 DEF TakesInTurn
<1> QED  BY <1>3, <1>4

\* A row about to be locked is there, or its position is held.
LEMMA RowIsGuarded ==
    ASSUME StateTyped, NEW r, NEW t, NEW h, NEW d, Fits(r, t, h, d), t # <<>>,
           NEW p \in Positions, Head(t) = <<"row", p>>
    PROVE  balance[p].version > 0 \/ <<"position", p>> \in h
<1>0. PICK q : q = request[r]
  OBVIOUS
<1>1. /\ TakesInTurn(q, t, h) /\ RowsAreThere(q, t, h) /\ KeepsOrder(q, t, h)
      /\ t \in Seq(AnyLock)
  BY <1>0 DEF Fits, TakesInTurn
<1>2. Head(t) = t[1] /\ Head(t) \in Range(t) /\ Len(t) \in Nat /\ Len(t) > 0
  BY <1>1, Heads
<1>3. CASE q.operation = "ISSUE_MATERIALS"
  <2>1. <<"order", q.order>> \notin Range(Tail(t))
    BY <1>1, NoOrderBehind
  <2>2. <<"order", q.order>> \notin Range(t)
    BY <1>1, <2>1, Heads
  <2> QED  BY <1>1, <1>2, <1>3, <2>2 DEF RowsAreThere
<1>4. CASE q.operation = "CANCEL"
  BY <1>1, <1>2, <1>4 DEF RowsAreThere
<1>5. CASE q.operation \notin {"ISSUE_MATERIALS", "CANCEL"}
  <2>1. <<"position", p>> \in h \cup Range(t)
    BY <1>1, <1>2, <1>5 DEF RowsAreThere
  <2>2. ASSUME <<"position", p>> \in Range(t) PROVE FALSE
    <3>1. PICK j \in 1..Len(t) : t[j] = <<"position", p>>
      BY <1>1, <2>2, RangeEquality
    <3>2. 1 < j /\ 1 \in 1..Len(t)
      BY <1>2, <3>1
    <3>3. Precedes(t[1], t[j])
      BY <1>1, <1>5, <3>2 DEF KeepsOrder, Ordered
    <3> QED  BY <1>2, <3>1, <3>3, RowsAfterPositions
  <2> QED  BY <2>1, <2>2
<1> QED  BY <1>3, <1>4, <1>5

\* The next lock is taken.
LEMMA TakingFits ==
    ASSUME StockInv, OrdersInv, NEW r \in Requests, request[r] # None,
           NEW t, NEW h, NEW d, Fits(r, t, h, d), t # <<>>,
           NEW lock, lock = Head(t),
           lock[1] = "order" => Admits(lock[2], request[r].operation),
           lock[1] # "order" \/ request[r].operation # "CANCEL",
           NEW h2, h2 = IF Exists(lock) THEN h \cup {lock} ELSE h,
           NEW d2, d2 = IF lock[1] = "row" THEN d \cup {lock[2]} ELSE d
    PROVE  Fits(r, Tail(t), h2, d2)
<1>0. PICK q, u : q = request[r] /\ u = Tail(t)
  OBVIOUS
<1>1. /\ TakesInTurn(q, t, h) /\ RowsAreThere(q, t, h) /\ KeepsOrder(q, t, h)
      /\ ReadsEnough(r, t, d) /\ t \in Seq(AnyLock)
  BY <1>0 DEF Fits, TakesInTurn
<1>2. /\ lock = t[1] /\ lock \in AnyLock /\ lock \in Range(t)
      /\ u \in Seq(AnyLock) /\ Len(t) \in Nat /\ Len(t) > 0
      /\ Len(u) = Len(t) - 1
  BY <1>0, <1>1, Heads
<1>3. \A j \in 1..Len(u) : j + 1 \in 1..Len(t) /\ u[j] = t[j + 1]
  BY <1>0, <1>1, Heads
<1>4. \A x : x \in Range(t) <=> x = lock \/ x \in Range(u)
  BY <1>0, <1>1, Heads
<1>5. \A x : x[1] # "row" /\ x \in h \cup Range(t) => x \in h2 \cup Range(u)
  BY <1>4 DEF Exists
<1>6. h2 \cup Range(u) \subseteq h \cup Range(t)
  BY <1>4
<1>7. \A p : /\ <<"order", p>> \in h \cup Range(t) => <<"order", p>> \in h2 \cup Range(u)
             /\ <<"position", p>> \in h \cup Range(t) => <<"position", p>> \in h2 \cup Range(u)
  BY <1>5
<1>8. TakesInTurn(q, u, h2)
  <2>1. ASSUME NEW j \in 1..Len(u), u[j][1] = "order"
        PROVE  u[j] = <<"order", q.order>> /\ \A i \in 1..(j - 1) : u[i][1] = "key"
    <3>1. /\ t[j + 1] = <<"order", q.order>>
          /\ \A i \in 1..((j + 1) - 1) : t[i][1] = "key"
      BY <1>1, <1>3, <2>1 DEF TakesInTurn
    <3>2. ASSUME NEW i \in 1..(j - 1) PROVE u[i][1] = "key"
      <4>1. i \in 1..Len(u) /\ i + 1 \in 1..((j + 1) - 1)
        BY <1>2
      <4> QED  BY <1>3, <3>1, <4>1
    <3> QED  BY <1>3, <3>1, <3>2
  <2> QED  BY <1>1, <1>2, <1>7, <2>1 DEF TakesInTurn
<1>9. ReadsEnough(r, u, d2)
  <2>1. ASSUME NEW p \in Positions, Touches(r, p)
        PROVE  \/ p \in d2
               \/ <<"row", p>> \in Range(u)
               \/ q.operation = "CANCEL" /\ <<"order", q.order>> \in Range(u)
    <3>1. CASE p \in d
      BY <3>1
    <3>2. CASE <<"row", p>> \in Range(t)
      BY <1>4, <3>2
    <3>3. CASE q.operation = "CANCEL" /\ <<"order", q.order>> \in Range(t)
      BY <1>0, <1>4, <3>3
    <3> QED  BY <1>0, <1>1, <2>1, <3>1, <3>2, <3>3 DEF ReadsEnough
  <2> QED  BY <1>0, <2>1 DEF ReadsEnough
<1>10. RowsAreThere(q, u, h2)
  <2>1. ASSUME q.operation = "ISSUE_MATERIALS"
        PROVE  /\ \A p : <<"row", p>> \in Range(u) => p \in Needed(q.order)
               /\ \/ <<"order", q.order>> \in Range(u)
                  \/ \A p \in Needed(q.order) : balance[p].version > 0
    <3>1. \A p : <<"row", p>> \in Range(u) => p \in Needed(q.order)
      BY <1>1, <1>4, <2>1 DEF RowsAreThere
    <3>2. ASSUME lock = <<"order", q.order>>, NEW p \in Needed(q.order)
          PROVE  balance[p].version > 0
      <4>1. Running(q.order)
        BY <1>0, <2>1, <3>2 DEF Admits
      <4>2. q.order \in Orders
        BY <1>0, <2>1 DEF StockInv, RequestsAreWhole, IsWhole, OrderOperations
      <4>3. HoldFits(q.order, p) /\ p \in Positions
        BY <4>2, <3>2 DEF OrdersInv, OrdersFit, OrderFits, Needed
      <4> QED  BY <3>2, <4>1, <4>3 DEF HoldFits, Running, Started
    <3> QED  BY <1>1, <1>4, <2>1, <3>1, <3>2 DEF RowsAreThere
  <2>2. q.operation = "CANCEL" =>
          \A p : <<"row", p>> \in Range(u) => balance[p].version > 0
    BY <1>1, <1>4 DEF RowsAreThere
  <2>3. ASSUME q.operation \notin {"ISSUE_MATERIALS", "CANCEL"}, NEW p,
               <<"row", p>> \in h2 \cup Range(u)
        PROVE  <<"position", p>> \in h2 \cup Range(u)
    BY <1>1, <1>6, <1>7, <2>3 DEF RowsAreThere
  <2> QED  BY <2>1, <2>2, <2>3 DEF RowsAreThere
<1>11. KeepsOrder(q, u, h2)
  <2> SUFFICES ASSUME q.operation \notin {"ISSUE_MATERIALS", "CANCEL"}
               PROVE  Ordered(u) /\ \A a \in h2 : \A b \in Range(u) : Precedes(a, b)
    BY DEF KeepsOrder
  <2>1. Ordered(t) /\ \A a \in h : \A b \in Range(t) : Precedes(a, b)
    BY <1>1 DEF KeepsOrder
  <2>2. ASSUME NEW i \in 1..Len(u), NEW j \in 1..Len(u), i < j
        PROVE  Precedes(u[i], u[j])
    <3>1. i + 1 \in 1..Len(t) /\ j + 1 \in 1..Len(t) /\ i + 1 < j + 1
      BY <1>3, <2>2
    <3> QED  BY <1>3, <2>1, <3>1 DEF Ordered
  <2>3. ASSUME NEW b \in Range(u) PROVE Precedes(lock, b)
    <3>1. PICK j \in 1..Len(u) : u[j] = b
      BY <1>2, RangeEquality
    <3>2. 1 \in 1..Len(t) /\ j + 1 \in 1..Len(t) /\ 1 < j + 1 /\ t[j + 1] = b
      BY <1>2, <1>3, <3>1
    <3> QED  BY <1>2, <2>1, <3>2 DEF Ordered
  <2> QED  BY <1>4, <2>1, <2>2, <2>3 DEF Ordered
<1> QED  BY <1>0, <1>8, <1>9, <1>10, <1>11 DEF Fits

\* A cancellation has locked its order and goes on to the rows.
LEMMA CancelGoesOn ==
    ASSUME StockInv, OrdersInv, NEW r \in Requests, request[r] # None,
           request[r].operation = "CANCEL",
           NEW t, NEW h, NEW d, Fits(r, t, h, d), t # <<>>, Head(t)[1] = "order",
           NEW h2, h2 = h \cup {Head(t)},
           NEW u, u = Tail(t) \o Found(r, Head(t))
    PROVE  Fits(r, u, h2, d)
<1>0. PICK q, w, f, P :
        /\ q = request[r] /\ w = q.order /\ f = Found(r, Head(t))
        /\ P = {p \in Positions : Owed(w, p) > 0}
  OBVIOUS
<1>1. TakesInTurn(q, t, h) /\ RowsAreThere(q, t, h) /\ t \in Seq(AnyLock)
  BY <1>0 DEF Fits, TakesInTurn
<1>2. /\ Head(t) = <<"order", w>>
      /\ \A v : <<"order", v>> \notin Range(Tail(t))
  BY <1>0, <1>1, NoOrderBehind
<1>3. f = Rows(ById, P)
  <2>1. Head(t)[1] = "order" /\ Head(t)[2] = w
    BY <1>2
  <2> QED  BY <1>0, <2>1 DEF Found
<1>4. f \in Seq(AnyLock) /\ Range(f) = On("row", P)
  <2>1. P \in SUBSET Positions /\ ById \in {ByKey, ById, ByLine}
    BY <1>0
  <2> QED  BY <1>3, <2>1, RowsTyped
<1>5. Tail(t) \in Seq(AnyLock) /\ \A x : x \in Range(t) <=> x = Head(t) \/ x \in Range(Tail(t))
  BY <1>1, Heads
<1>6. u \in Seq(AnyLock) /\ Range(u) = Range(Tail(t)) \cup Range(f)
  <2>1. PICK v : v = Tail(t)
    OBVIOUS
  <2>2. v \in Seq(AnyLock) /\ u = v \o f
    BY <1>0, <1>5, <2>1
  <2>3. v \o f \in Seq(AnyLock) /\ Range(v \o f) = Range(v) \cup Range(f)
    BY <1>4, <2>2, ConcatProperties, RangeConcatenation
  <2> QED  BY <2>1, <2>2, <2>3
<1>7. ASSUME NEW x \in Range(u), x[1] = "order" PROVE FALSE
  <2>1. x \notin Range(f)
    BY <1>4, <1>7 DEF On
  <2>2. PICK j \in 1..Len(Tail(t)) : x = Tail(t)[j]
    BY <1>1, <1>6, <2>1, Heads
  <2>3. /\ j + 1 \in 1..Len(t) /\ Tail(t)[j] = t[j + 1]
        /\ Head(t) = t[1]
    BY <1>1, <2>2, Heads
  <2>4. t[1][1] = "key"
    <3>1. 1 \in 1..((j + 1) - 1)
      OBVIOUS
    <3> QED  BY <1>1, <1>7, <2>2, <2>3, <3>1 DEF TakesInTurn
  <2> QED  BY <1>2, <2>3, <2>4
<1>8. TakesInTurn(q, u, h2)
  <2>1. \A j \in 1..Len(u) : u[j] \in Range(u)
    BY <1>6, RangeEquality
  <2>2. \A j \in 1..Len(u) : u[j][1] # "order"
    BY <1>7, <2>1
  <2>3. <<"order", q.order>> \in h2
    BY <1>0, <1>2
  <2> QED  BY <1>6, <2>2, <2>3 DEF TakesInTurn
<1>9. ReadsEnough(r, u, d)
  BY <1>0, <1>4, <1>6 DEF ReadsEnough, Touches, On
<1>10. RowsAreThere(q, u, h2)
  <2>1. ASSUME NEW p, <<"row", p>> \in Range(u) PROVE balance[p].version > 0
    <3>1. CASE <<"row", p>> \in Range(Tail(t))
      BY <1>0, <1>1, <1>5, <3>1 DEF RowsAreThere
    <3>2. CASE <<"row", p>> \in Range(f)
      <4>1. p \in Positions /\ Owed(w, p) > 0
        <5>1. PICK y \in P : <<"row", p>> = <<"row", y>>
          BY <1>4, <3>2 DEF On
        <5> QED  BY <1>0, <5>1
      <4>2. w \in Orders
        BY <1>0 DEF StockInv, RequestsAreWhole, IsWhole, OrderOperations
      <4>3. HoldFits(w, p)
        BY <4>1, <4>2 DEF OrdersInv, OrdersFit, OrderFits
      <4> QED  BY <4>1, <4>3 DEF HoldFits, Running, Started
    <3> QED  BY <1>6, <2>1, <3>1, <3>2
  <2> QED  BY <1>0, <2>1 DEF RowsAreThere
<1>11. KeepsOrder(q, u, h2)
  BY <1>0 DEF KeepsOrder
<1> QED  BY <1>0, <1>8, <1>9, <1>10, <1>11 DEF Fits

\* What other sessions do leaves a session as it is.
LEMMA FitsStays ==
    ASSUME StockInv, StockInv', NEW r \in Requests, request[r] # None,
           request'[r] = request[r],
           \A p \in Positions : balance'[p].version >= balance[p].version,
           NEW t, NEW h, NEW d, Fits(r, t, h, d),
           \/ request[r].operation # "CANCEL"
           \/ <<"order", request[r].order>> \in Range(t)
           \/ hold'[request[r].order] = hold[request[r].order]
    PROVE  Fits(r, t, h, d)'
<1>0. PICK q : q = request[r]
  OBVIOUS
<1>1. /\ TakesInTurn(q, t, h) /\ RowsAreThere(q, t, h) /\ KeepsOrder(q, t, h)
      /\ ReadsEnough(r, t, d)
  BY <1>0 DEF Fits
<1>2. \A p \in Positions : balance[p].version > 0 => balance'[p].version > 0
  <2> TAKE p \in Positions
  <2>1. balance[p].version \in Nat /\ balance'[p].version \in Nat
        /\ balance'[p].version >= balance[p].version
    BY DEF StockInv, StateTyped, Row
  <2> QED  BY <2>1
<1>3. \A w : Needed(w) \in SUBSET Positions /\ Needed(w)' = Needed(w)
  BY DEF Needed
<1>4. \A p : <<"row", p>> \in Range(t) => p \in Positions
  <2> SUFFICES ASSUME NEW p, <<"row", p>> \in Range(t) PROVE p \in Positions
    OBVIOUS
  <2>1. t \in Seq(AnyLock)
    BY <1>1 DEF TakesInTurn
  <2>2. <<"row", p>> \in AnyLock
    BY <2>1, RangeEquality
  <2> QED  BY <2>2 DEF AnyLock
<1>5. RowsAreThere(q, t, h)'
  BY <1>1, <1>2, <1>3, <1>4 DEF RowsAreThere
<1>6. ReadsEnough(r, t, d)'
  <2>1. ASSUME NEW p \in Positions, Touches(r, p)'
        PROVE  \/ Touches(r, p)
               \/ q.operation = "CANCEL" /\ <<"order", q.order>> \in Range(t)
    <3>1. hold'[q.order] = hold[q.order] => Owed(q.order, p)' = Owed(q.order, p)
      BY DEF Owed
    <3> QED  BY <1>0, <1>3, <2>1, <3>1 DEF Touches
  <2> QED  BY <1>0, <1>1, <2>1 DEF ReadsEnough
<1>7. TakesInTurn(q, t, h)' /\ KeepsOrder(q, t, h)'
  BY <1>1 DEF TakesInTurn, KeepsOrder, Ordered, Precedes, Rank, Place
<1> QED  BY <1>0, <1>5, <1>6, <1>7 DEF Fits
-----------------------------------------------------------------------------
(* All sessions.                                                           *)

\* The variables of sessions have their types.
SessionsTyped ==
    /\ running \in [Sessions -> Requests \cup {None}]
    /\ todo \in [Sessions -> Seq(AnyLock)]
    /\ held \in [Sessions -> SUBSET AnyLock]
    /\ DOMAIN read = Sessions

\* No lock has two holders.
LocksExclusive ==
    \A s, t \in Sessions : s # t => held[s] \cap held[t] = {}

\* What session s read is so, and cannot change before it ends.
Guarded(s) ==
    \A p \in DOMAIN read[s] :
      /\ p \in Positions
      /\ read[s][p] = balance[p]
      /\ IF balance[p].version > 0 THEN <<"row", p>> \in held[s]
         ELSE <<"position", p>> \in held[s]

\* An idle session has nothing; another one holds what its request needs next.
SessionFits(s) ==
    /\ Idle(s) => todo[s] = <<>> /\ held[s] = {} /\ DOMAIN read[s] = {}
    /\ ~Idle(s) => /\ request[running[s]] # None
                   /\ Fits(running[s], todo[s], held[s], DOMAIN read[s])
    /\ Guarded(s)

\* What is inductive about sessions.
SessionsInv ==
    /\ SessionsTyped
    /\ LocksExclusive
    /\ \A s \in Sessions : SessionFits(s)

\* A session that writes has read every row it writes.
LEMMA WriterHasRead ==
    ASSUME SessionsInv, NEW s \in Sessions, ~Idle(s), todo[s] = <<>>
    PROVE  /\ running[s] \in Requests
           /\ \A p \in Positions : Touches(running[s], p) => p \in DOMAIN read[s]
           /\ request[running[s]].operation \in OrderOperations =>
                <<"order", request[running[s]].order>> \in held[s]
<1>0. PICK r, q : r = running[s] /\ q = request[r]
  OBVIOUS
<1>1. r \in Requests /\ Fits(r, <<>>, held[s], DOMAIN read[s])
  BY <1>0 DEF SessionsInv, SessionsTyped, SessionFits, Idle
<1>2. Range(<<>>) = {}
  BY DEF Range
<1>3. \A p \in Positions : Touches(r, p) => p \in DOMAIN read[s]
  BY <1>1, <1>2 DEF Fits, ReadsEnough
<1>4. q.operation \in OrderOperations => <<"order", q.order>> \in held[s]
  BY <1>0, <1>1, <1>2 DEF Fits, TakesInTurn
<1> QED  BY <1>0, <1>1, <1>3, <1>4

\* What a session commits is what its request does at once.
LEMMA CommitApplies ==
    ASSUME StockInv, SessionsInv, NEW s \in Sessions, Commit(s)
    PROVE  running[s] \in Requests /\ Apply(running[s], balance)
<1>1. /\ running[s] \in Requests
      /\ \A p \in Positions : Touches(running[s], p) => p \in DOMAIN read[s]
  BY WriterHasRead DEF Commit
<1>2. \A p \in Positions : Touches(running[s], p) => read[s][p] = balance[p]
  BY <1>1 DEF SessionsInv, SessionFits, Guarded
<1> QED  BY <1>1, <1>2, ApplyReads DEF Commit

\* A step of the sessions is a step of the ledger.
LEMMA SessionStepIsStep ==
    ASSUME StockInv, SessionsInv, [NextTransactions]_allVars
    PROVE  [Next]_vars
<1>1. ASSUME NEW s \in Sessions, NEW r \in Requests, Begin(s, r) PROVE UNCHANGED vars
  BY <1>1 DEF Begin
<1>2. ASSUME NEW s \in Sessions, Replay(s) \/ Acquire(s) \/ Rollback(s) \/ Deadlock(s)
      PROVE  UNCHANGED vars
  BY <1>2 DEF Replay, Acquire, Rollback, Deadlock
<1>3. ASSUME NEW s \in Sessions, Commit(s) PROVE Next
  BY <1>3, CommitApplies DEF Next
<1>4. ASSUME NEW w \in Orders, WorkBetween(w) PROVE Next
  BY <1>4 DEF Next, WorkBetween
<1>5. ASSUME NEW r \in Requests, Write(r) \/ ExpireKey(r) PROVE Next
  BY <1>5 DEF Next
<1>6. ASSUME UNCHANGED allVars PROVE UNCHANGED vars
  BY <1>6 DEF allVars
<1> QED  BY <1>1, <1>2, <1>3, <1>4, <1>5, <1>6 DEF NextTransactions

\* A session that takes no part in a step.
LEMMA OthersStay ==
    ASSUME StockInv, StockInv', SessionsInv,
           \A r \in Requests : request[r] # None => request'[r] = request[r],
           \A p \in Positions : balance'[p].version >= balance[p].version,
           NEW s \in Sessions,
           running'[s] = running[s], todo'[s] = todo[s], held'[s] = held[s],
           read'[s] = read[s],
           \A p \in DOMAIN read[s] : balance'[p] = balance[p],
           \A w \in Orders : <<"order", w>> \in held[s] => hold'[w] = hold[w]
    PROVE  SessionFits(s)'
<1>1. SessionFits(s)
  BY DEF SessionsInv
<1>2. Guarded(s)'
  BY <1>1 DEF SessionFits, Guarded
<1>3. Idle(s)' <=> Idle(s)
  BY DEF Idle
<1>4. ASSUME ~Idle(s)
      PROVE  /\ request'[running'[s]] # None
             /\ Fits(running[s], todo[s], held[s], DOMAIN read[s])'
  <2>1. PICK r, t, h, d : /\ r = running[s] /\ t = todo[s]
                          /\ h = held[s] /\ d = DOMAIN read[s]
    OBVIOUS
  <2>2. r \in Requests /\ request[r] # None /\ Fits(r, t, h, d)
    BY <1>1, <1>4, <2>1 DEF SessionFits, Idle, SessionsInv, SessionsTyped
  <2>3. PICK w : w = request[r].order
    OBVIOUS
  <2>4. \/ request[r].operation # "CANCEL"
        \/ <<"order", w>> \in Range(t)
        \/ hold'[w] = hold[w]
    <3>1. request[r].operation = "CANCEL" =>
            w \in Orders /\ <<"order", w>> \in h \cup Range(t)
      BY <2>2, <2>3 DEF Fits, TakesInTurn, StockInv, RequestsAreWhole, IsWhole,
         OrderOperations
    <3> QED  BY <2>1, <3>1
  <2>5. Fits(r, t, h, d)'
    BY <2>2, <2>3, <2>4, FitsStays
  <2>6. /\ r = running'[s] /\ t = todo'[s] /\ h = held'[s] /\ d = DOMAIN read'[s]
    BY <2>1
  <2>7. Fits(running[s], todo[s], held[s], DOMAIN read[s])'
    BY <2>5, <2>6
  <2> QED  BY <2>2, <2>6, <2>7
<1> QED  BY <1>1, <1>2, <1>3, <1>4 DEF SessionFits

\* A session that has ended.
LEMMA EndedFits ==
    ASSUME SessionsTyped, NEW s \in Sessions, End(s)
    PROVE  /\ SessionFits(s)'
           /\ SessionsTyped'
           /\ LocksExclusive => LocksExclusive'
           /\ \A t \in Sessions \ {s} :
                /\ running'[t] = running[t] /\ todo'[t] = todo[t]
                /\ held'[t] = held[t] /\ read'[t] = read[t]
<1>1. /\ running'[s] = None /\ todo'[s] = <<>> /\ held'[s] = {} /\ read'[s] = <<>>
      /\ \A t \in Sessions \ {s} :
           /\ running'[t] = running[t] /\ todo'[t] = todo[t]
           /\ held'[t] = held[t] /\ read'[t] = read[t]
  BY DEF End, SessionsTyped
<1>2. <<>> \in Seq(AnyLock) /\ DOMAIN <<>> = {}
  BY EmptySeq
<1>3. SessionsTyped'
  BY <1>2 DEF End, SessionsTyped
<1>4. SessionFits(s)'
  BY <1>1, <1>2 DEF SessionFits, Idle, Guarded
<1>5. LocksExclusive => LocksExclusive'
  BY <1>1 DEF LocksExclusive
<1> QED  BY <1>1, <1>3, <1>4, <1>5

\* Nothing of the ledger changes and the other sessions rest.
LEMMA OneSessionMoves ==
    ASSUME StockInv, StockInv', SessionsInv, UNCHANGED vars, NEW s \in Sessions,
           \A t \in Sessions \ {s} :
             /\ running'[t] = running[t] /\ todo'[t] = todo[t]
             /\ held'[t] = held[t] /\ read'[t] = read[t],
           SessionFits(s)'
    PROVE  \A t \in Sessions : SessionFits(t)'
<1>1. /\ balance' = balance /\ hold' = hold /\ request' = request
  BY DEF vars
<1>2. \A p \in Positions : balance'[p].version >= balance[p].version
  BY <1>1 DEF StockInv, StateTyped, Row
<1>3. ASSUME NEW t \in Sessions \ {s} PROVE SessionFits(t)'
  BY <1>1, <1>2, OthersStay
<1> QED  BY <1>3

\* A transaction begins.
LEMMA BeginStep ==
    ASSUME StockInv, StockInv', OrdersInv, SessionsInv,
           NEW s \in Sessions, NEW r \in Requests, Begin(s, r)
    PROVE  SessionsInv'
<1>0. PICK t : t = <<<<"key", r>>>> \o LocksOf(request[r])
  OBVIOUS
<1>1. /\ running' = [running EXCEPT ![s] = r]
      /\ todo' = [todo EXCEPT ![s] = t]
      /\ UNCHANGED vars /\ held' = held /\ read' = read
      /\ Idle(s) /\ request[r] # None
  BY <1>0 DEF Begin
<1>2. SessionsTyped
  BY DEF SessionsInv
<1>3. Fits(r, t, {}, {})
  BY <1>0, <1>1, BeginFits
<1>4. t \in Seq(AnyLock)
  BY <1>3 DEF Fits, TakesInTurn
<1>5. SessionsTyped' /\ LocksExclusive'
  BY <1>1, <1>2, <1>4 DEF SessionsTyped, SessionsInv, LocksExclusive
<1>6. held[s] = {} /\ DOMAIN read[s] = {}
  BY <1>1 DEF SessionsInv, SessionFits
<1>7. Fits(r, t, {}, {})'
  <2>1. /\ balance' = balance /\ hold' = hold /\ request' = request
    BY <1>1 DEF vars
  <2> QED  BY <1>3, <2>1 DEF Fits, TakesInTurn, ReadsEnough, RowsAreThere, KeepsOrder,
           Touches, Owed, Ordered, Precedes, Rank, Place, Needed
<1>8. SessionFits(s)'
  <2>1. /\ running'[s] = r /\ todo'[s] = t /\ held'[s] = {} /\ DOMAIN read'[s] = {}
        /\ request'[r] # None /\ r # None
    BY <1>1, <1>2, <1>6, NoneAssumption DEF SessionsTyped, vars
  <2>2. Fits(running[s], todo[s], held[s], DOMAIN read[s])'
    BY <1>7, <2>1
  <2> QED  BY <2>1, <2>2 DEF SessionFits, Idle, Guarded
<1>9. \A u \in Sessions \ {s} :
        /\ running'[u] = running[u] /\ todo'[u] = todo[u]
        /\ held'[u] = held[u] /\ read'[u] = read[u]
  BY <1>1, <1>2 DEF SessionsTyped
<1>10. \A u \in Sessions : SessionFits(u)'
  BY <1>1, <1>8, <1>9, OneSessionMoves
<1> QED  BY <1>5, <1>10 DEF SessionsInv

\* The next lock is taken.
LEMMA AcquireStep ==
    ASSUME StockInv, StockInv', OrdersInv, SessionsInv,
           NEW s \in Sessions, Acquire(s)
    PROVE  SessionsInv'
<1>0. PICK lock, r, t, h, rows, f, h2, rows2 :
        /\ lock = Head(todo[s]) /\ r = running[s] /\ t = todo[s] /\ h = held[s]
        /\ rows = read[s] /\ f = Found(r, lock)
        /\ h2 = (IF Exists(lock) THEN h \cup {lock} ELSE h)
        /\ rows2 = (IF lock[1] = "row" THEN With(rows, lock[2]) ELSE rows)
  OBVIOUS
<1>1. SessionsTyped /\ SessionFits(s) /\ LocksExclusive
  BY DEF SessionsInv
<1>2. /\ t # <<>> /\ \A u \in Sessions : ~Waits(s, u)
      /\ lock[1] = "order" => Admits(lock[2], request[r].operation)
      /\ todo' = [todo EXCEPT ![s] = Tail(t) \o f]
      /\ held' = [held EXCEPT ![s] = h2]
      /\ read' = [read EXCEPT ![s] = rows2]
      /\ UNCHANGED vars /\ running' = running
  BY <1>0 DEF Acquire, Grantable
<1>3. ~Idle(s) /\ r \in Requests /\ request[r] # None /\ Fits(r, t, h, DOMAIN rows)
  BY <1>0, <1>1, <1>2 DEF SessionFits, Idle, SessionsTyped
<1>4. /\ t \in Seq(AnyLock) /\ Tail(t) \in Seq(AnyLock) /\ lock \in AnyLock
      /\ lock = Head(t)
  <2>1. t \in Seq(AnyLock)
    BY <1>0, <1>1 DEF SessionsTyped
  <2> QED  BY <1>0, <1>2, <2>1, Heads
<1>5. DOMAIN rows2 = IF lock[1] = "row" THEN DOMAIN rows \cup {lock[2]} ELSE DOMAIN rows
  BY <1>0 DEF With
<1>6. Fits(r, Tail(t) \o f, h2, DOMAIN rows2)
  <2>1. CASE lock[1] # "order" \/ request[r].operation # "CANCEL"
    <3>1. f = <<>>
      BY <1>0, <2>1 DEF Found
    <3>2. Tail(t) \o f = Tail(t)
      BY <1>4, <3>1, ConcatEmptySeq
    <3>3. PICK d2 : d2 = DOMAIN rows2
      OBVIOUS
    <3>4. Fits(r, Tail(t), h2, d2)
      BY <1>0, <1>2, <1>3, <1>4, <1>5, <2>1, <3>3, TakingFits
    <3> QED  BY <3>2, <3>3, <3>4
  <2>2. CASE lock[1] = "order" /\ request[r].operation = "CANCEL"
    <3>1. h2 = h \cup {Head(t)} /\ DOMAIN rows2 = DOMAIN rows
      BY <1>0, <1>4, <1>5, <2>2 DEF Exists
    <3>2. f = Found(r, Head(t))
      BY <1>0, <1>4
    <3>3. PICK d : d = DOMAIN rows
      OBVIOUS
    <3>4. Fits(r, Tail(t) \o f, h2, d)
      BY <1>2, <1>3, <1>4, <2>2, <3>1, <3>2, <3>3, CancelGoesOn
    <3> QED  BY <3>1, <3>3, <3>4
  <2> QED  BY <2>1, <2>2
<1>7. Tail(t) \o f \in Seq(AnyLock) /\ h2 \in SUBSET AnyLock
  <2>1. h \in SUBSET AnyLock
    BY <1>0, <1>1 DEF SessionsTyped
  <2> QED  BY <1>0, <1>4, <1>6, <2>1 DEF Fits, TakesInTurn
<1>8. SessionsTyped'
  BY <1>1, <1>2, <1>7 DEF SessionsTyped
<1>9. LocksExclusive'
  <2>1. ASSUME NEW u \in Sessions, u # s PROVE lock \notin held[u]
    BY <1>0, <1>2, <2>1 DEF Waits
  <2>2. \A u \in Sessions \ {s} : held'[u] = held[u] /\ h2 \cap held[u] = {}
    <3>1. \A u \in Sessions \ {s} : h \cap held[u] = {}
      BY <1>0, <1>1 DEF LocksExclusive
    <3>2. \A u \in Sessions \ {s} : held'[u] = held[u]
      BY <1>1, <1>2 DEF SessionsTyped
    <3> QED  BY <1>0, <2>1, <3>1, <3>2
  <2>3. held'[s] = h2
    BY <1>1, <1>2 DEF SessionsTyped
  <2> QED  BY <1>1, <2>2, <2>3 DEF LocksExclusive
<1>10. /\ todo'[s] = Tail(t) \o f /\ held'[s] = h2 /\ read'[s] = rows2 /\ running'[s] = r
       /\ balance' = balance /\ request' = request /\ hold' = hold
  BY <1>0, <1>1, <1>2 DEF SessionsTyped, vars
<1>11. ASSUME NEW p \in DOMAIN rows2
       PROVE  /\ p \in Positions /\ rows2[p] = balance[p]
              /\ IF balance[p].version > 0 THEN <<"row", p>> \in h2
                 ELSE <<"position", p>> \in h2
  <2>1. CASE lock[1] = "row" /\ p = lock[2]
    <3>1. lock = <<"row", p>> /\ p \in Positions
      BY <1>4, <2>1 DEF AnyLock
    <3>2. rows2[p] = balance[p]
      BY <1>0, <2>1 DEF With
    <3>3. balance[p].version > 0 => <<"row", p>> \in h2
      BY <1>0, <3>1 DEF Exists
    <3>4. balance[p].version > 0 \/ <<"position", p>> \in h
      <4>1. PICK d : d = DOMAIN rows
        OBVIOUS
      <4> QED  BY <1>2, <1>3, <1>4, <3>1, <4>1, RowIsGuarded DEF StockInv
    <3> QED  BY <1>0, <3>1, <3>2, <3>3, <3>4
  <2>2. CASE ~(lock[1] = "row" /\ p = lock[2])
    <3>1. p \in DOMAIN rows /\ rows2[p] = rows[p]
      BY <1>0, <1>5, <1>11, <2>2 DEF With
    <3>2. /\ p \in Positions /\ rows[p] = balance[p]
          /\ IF balance[p].version > 0 THEN <<"row", p>> \in h ELSE <<"position", p>> \in h
      BY <1>0, <1>1, <3>1 DEF SessionFits, Guarded
    <3> QED  BY <1>0, <3>1, <3>2
  <2> QED  BY <2>1, <2>2
<1>12. SessionFits(s)'
  <2>1. Guarded(s)'
    BY <1>10, <1>11 DEF Guarded
  <2>2. PICK u, d2 : u = Tail(t) \o f /\ d2 = DOMAIN rows2
    OBVIOUS
  <2>3. Fits(r, u, h2, d2)'
    <3>1. Fits(r, u, h2, d2)
      BY <1>6, <2>2
    <3> QED  BY <1>10, <3>1 DEF Fits, TakesInTurn, ReadsEnough, RowsAreThere, KeepsOrder,
             Touches, Owed, Ordered, Precedes, Rank, Place, Needed
  <2>4. Fits(running[s], todo[s], held[s], DOMAIN read[s])'
    BY <1>10, <2>2, <2>3
  <2>5. ~Idle(s)' /\ request'[running'[s]] # None
    BY <1>3, <1>10, NoneAssumption DEF Idle
  <2> QED  BY <2>1, <2>4, <2>5 DEF SessionFits
<1>13. \A u \in Sessions \ {s} :
        /\ running'[u] = running[u] /\ todo'[u] = todo[u]
        /\ held'[u] = held[u] /\ read'[u] = read[u]
  BY <1>1, <1>2 DEF SessionsTyped
<1>14. \A u \in Sessions : SessionFits(u)'
  BY <1>2, <1>12, <1>13, OneSessionMoves
<1> QED  BY <1>8, <1>9, <1>14 DEF SessionsInv

\* A transaction ends and changes nothing.
LEMMA EndStep ==
    ASSUME StockInv, StockInv', SessionsInv, NEW s \in Sessions, End(s), UNCHANGED vars
    PROVE  SessionsInv'
<1>1. /\ SessionFits(s)' /\ SessionsTyped' /\ LocksExclusive'
      /\ \A t \in Sessions \ {s} :
           /\ running'[t] = running[t] /\ todo'[t] = todo[t]
           /\ held'[t] = held[t] /\ read'[t] = read[t]
  BY EndedFits DEF SessionsInv
<1>2. \A t \in Sessions : SessionFits(t)'
  BY <1>1, OneSessionMoves
<1> QED  BY <1>1, <1>2 DEF SessionsInv

\* A transaction commits: nobody else read a row it writes or holds its order.
LEMMA CommitStep ==
    ASSUME StockInv, StockInv', SessionsInv, [Next]_vars, NEW s \in Sessions, Commit(s)
    PROVE  SessionsInv'
<1>0. PICK r : r = running[s]
  OBVIOUS
<1>1. r \in Requests /\ Apply(r, balance)
  BY <1>0, CommitApplies
<1>2. /\ \A p \in Positions : balance'[p] # balance[p] => p \in DOMAIN read[s]
      /\ \A w \in Orders : hold'[w] # hold[w] => <<"order", w>> \in held[s]
      /\ request' = request
  <2>1. /\ \A p \in Positions : Touches(r, p) => p \in DOMAIN read[s]
        /\ request[r].operation \in OrderOperations =>
             <<"order", request[r].order>> \in held[s]
    BY <1>0, WriterHasRead DEF Commit
  <2> QED  BY <1>1, <2>1, ApplyFrame
<1>3. /\ SessionFits(s)' /\ SessionsTyped' /\ LocksExclusive'
      /\ \A t \in Sessions \ {s} :
           /\ running'[t] = running[t] /\ todo'[t] = todo[t]
           /\ held'[t] = held[t] /\ read'[t] = read[t]
  BY EndedFits DEF SessionsInv, Commit
<1>4. \A p \in Positions : balance'[p].version >= balance[p].version
  BY RowsAge
<1>5. ASSUME NEW t \in Sessions \ {s} PROVE SessionFits(t)'
  <2>1. held[t] \cap held[s] = {} /\ Guarded(t) /\ Guarded(s)
    BY DEF SessionsInv, LocksExclusive, SessionFits
  <2>2. ASSUME NEW p \in DOMAIN read[t], balance'[p] # balance[p] PROVE FALSE
    <3>1. p \in Positions /\ p \in DOMAIN read[s]
      BY <1>2, <2>1, <2>2 DEF Guarded
    <3>2. IF balance[p].version > 0 THEN <<"row", p>> \in held[t]
          ELSE <<"position", p>> \in held[t]
      BY <2>1 DEF Guarded
    <3>3. IF balance[p].version > 0 THEN <<"row", p>> \in held[s]
          ELSE <<"position", p>> \in held[s]
      BY <2>1, <3>1 DEF Guarded
    <3> QED  BY <2>1, <3>2, <3>3
  <2>3. \A w \in Orders : <<"order", w>> \in held[t] => hold'[w] = hold[w]
    BY <1>2, <2>1
  <2> QED  BY <1>2, <1>3, <1>4, <2>2, <2>3, OthersStay
<1> QED  BY <1>3, <1>5 DEF SessionsInv

\* What happens outside the sessions changes no balance and no hold.
LEMMA OutsideStep ==
    ASSUME StockInv, StockInv', SessionsInv, UNCHANGED sessionVars,
           \/ \E r \in Requests : Write(r) \/ ExpireKey(r)
           \/ \E w \in Orders : WorkBetween(w)
           \/ UNCHANGED vars
    PROVE  SessionsInv'
<1>1. balance' = balance /\ hold' = hold
  BY DEF Write, ExpireKey, WorkBetween, Work, Dispatch, TakeBack, CloseOrder, vars
<1>2. \A r \in Requests : request[r] # None => request'[r] = request[r]
  BY DEF Write, ExpireKey, WorkBetween, Work, Dispatch, TakeBack, CloseOrder, vars,
     StockInv, StateTyped
<1>3. running' = running /\ todo' = todo /\ held' = held /\ read' = read
  BY DEF sessionVars
<1>4. \A p \in Positions : balance'[p].version >= balance[p].version
  BY <1>1 DEF StockInv, StateTyped, Row
<1>5. ASSUME NEW t \in Sessions PROVE SessionFits(t)'
  BY <1>1, <1>2, <1>3, <1>4, OthersStay
<1>6. SessionsTyped' /\ LocksExclusive'
  BY <1>3 DEF SessionsInv, SessionsTyped, LocksExclusive
<1> QED  BY <1>5, <1>6 DEF SessionsInv

\* Every step of every session keeps it.
LEMMA SessionsInvStep ==
    ASSUME StockInv, StockInv', OrdersInv, SessionsInv, [NextTransactions]_allVars
    PROVE  SessionsInv'
<1>1. [Next]_vars
  BY SessionStepIsStep
<1>2. ASSUME NEW s \in Sessions, NEW r \in Requests, Begin(s, r) PROVE SessionsInv'
  BY <1>2, BeginStep
<1>3. ASSUME NEW s \in Sessions, Acquire(s) PROVE SessionsInv'
  BY <1>3, AcquireStep
<1>4. ASSUME NEW s \in Sessions, Commit(s) PROVE SessionsInv'
  BY <1>1, <1>4, CommitStep
<1>5. ASSUME NEW s \in Sessions, Replay(s) \/ Rollback(s) \/ Deadlock(s)
      PROVE  SessionsInv'
  <2>1. End(s) /\ UNCHANGED vars
    BY <1>5 DEF Replay, Rollback, Deadlock
  <2> QED  BY <2>1, EndStep
<1>6. ASSUME UNCHANGED sessionVars,
             \/ \E r \in Requests : Write(r) \/ ExpireKey(r)
             \/ \E w \in Orders : WorkBetween(w)
             \/ UNCHANGED vars
      PROVE  SessionsInv'
  BY <1>6, OutsideStep
<1>7. UNCHANGED allVars => UNCHANGED vars /\ UNCHANGED sessionVars
  BY DEF allVars
<1> QED  BY <1>2, <1>3, <1>4, <1>5, <1>6, <1>7 DEF NextTransactions

\* Idle sessions satisfy it.
LEMMA InitSessionsInv == InitTransactions => SessionsInv
<1> SUFFICES ASSUME InitTransactions PROVE SessionsInv
  OBVIOUS
<1>1. <<>> \in Seq(AnyLock) /\ DOMAIN <<>> = {}
  BY EmptySeq
<1>2. SessionsTyped /\ LocksExclusive
  BY <1>1 DEF InitTransactions, SessionsTyped, LocksExclusive
<1>3. \A s \in Sessions : SessionFits(s)
  BY <1>1 DEF InitTransactions, SessionFits, Idle, Guarded
<1> QED  BY <1>2, <1>3 DEF SessionsInv

\* In a cycle of postings, reversals and releases two of them would hold the
\* same position.
LEMMA CyclesIssueOrCancel ==
    ASSUME SessionsInv
    PROVE  PostingsWaitInOrder
<1> SUFFICES ASSUME NEW S \in (SUBSET Sessions) \ {{}}, Cycle(S),
                    \A s \in S : request[running[s]].operation
                                   \notin {"ISSUE_MATERIALS", "CANCEL"}
             PROVE  FALSE
  BY DEF PostingsWaitInOrder
<1>1. ASSUME NEW s \in S
      PROVE  /\ todo[s] # <<>> /\ todo[s] \in Seq(AnyLock) /\ s \in Sessions
             /\ Fits(running[s], todo[s], held[s], DOMAIN read[s])
             /\ Ordered(todo[s])
             /\ \A a \in held[s] : Precedes(a, Head(todo[s]))
  <2>1. todo[s] # <<>> /\ s \in Sessions
    BY DEF Cycle, Waits
  <2>2. /\ todo[s] \in Seq(AnyLock)
        /\ Fits(running[s], todo[s], held[s], DOMAIN read[s])
    BY <2>1 DEF SessionsInv, SessionsTyped, SessionFits
  <2>3. Ordered(todo[s]) /\ \A a \in held[s] : \A b \in Range(todo[s]) : Precedes(a, b)
    BY <2>2 DEF Fits, KeepsOrder
  <2>4. Head(todo[s]) \in Range(todo[s])
    BY <2>1, <2>2, Heads
  <2> QED  BY <2>1, <2>2, <2>3, <2>4
<1> DEFINE Last(s) == Rank(Head(todo[s]))
<1>2. ASSUME NEW s \in S PROVE Last(s) \in Nat /\ Last(s) <= Len(ByKey) + 4
  <2>1. Head(todo[s]) \in AnyLock
    BY <1>1, Heads
  <2>2. PICK x \in AnyLock : x = Head(todo[s])
    BY <2>1
  <2>3. /\ x[1] \in {"key", "order", "position", "row", "adjustment", "codes"}
        /\ x[1] = "position" => x[2] \in Positions
    BY DEF AnyLock
  <2>4. Rank(x) \in Nat /\ Rank(x) <= Len(ByKey) + 4
    BY <2>3, PlacesAreTyped DEF Rank
  <2> QED  BY <2>2, <2>4
<1>3. PICK s \in S : \A u \in S : Last(u) <= Last(s)
  <2> DEFINE B == {(Len(ByKey) + 4) - Last(u) : u \in S}
  <2>1. B \in SUBSET Nat /\ B # {}
    BY <1>2, PlacesAreTyped
  <2>2. PICK n \in B : \A m \in B : n <= m
    <3> HIDE DEF B
    <3> QED  BY <2>1, SmallestNat
  <2>3. PICK s \in S : n = (Len(ByKey) + 4) - Last(s)
    BY <2>2
  <2>4. ASSUME NEW u \in S PROVE Last(u) <= Last(s)
    <3>1. (Len(ByKey) + 4) - Last(s) <= (Len(ByKey) + 4) - Last(u)
      BY <2>2, <2>3
    <3>2. Last(u) \in Nat /\ Last(s) \in Nat /\ Len(ByKey) \in Nat
      BY <1>2, PlacesAreTyped
    <3> HIDE DEF Last
    <3> QED  BY <3>1, <3>2
  <2> QED  BY <2>4
<1>4. PICK u \in S : s # u /\ Head(todo[s]) \in held[u]
  BY DEF Cycle, Waits
<1>5. Precedes(Head(todo[s]), Head(todo[u]))
  BY <1>1, <1>4
<1>6. Head(todo[s])[1] = "row" /\ Head(todo[u])[1] = "row"
  <2>1. ~(Last(s) < Last(u))
    <3>1. Last(u) <= Last(s) /\ Last(u) \in Nat /\ Last(s) \in Nat
      BY <1>2, <1>3
    <3> HIDE DEF Last
    <3> QED  BY <3>1
  <2> QED  BY <1>5, <2>1 DEF Precedes
<1>7. PICK p \in Positions : Head(todo[s]) = <<"row", p>>
  <2>1. Head(todo[s]) \in AnyLock
    BY <1>1, Heads
  <2>2. PICK x \in AnyLock : x = Head(todo[s])
    BY <2>1
  <2>3. x[1] = "row" => \E p \in Positions : x = <<"row", p>>
    BY DEF AnyLock
  <2> QED  BY <1>6, <2>2, <2>3
<1>8. ASSUME NEW t \in S, <<"row", p>> \in held[t] \cup Range(todo[t]),
             Head(todo[t])[1] = "row"
      PROVE  <<"position", p>> \in held[t]
  <2>1. <<"position", p>> \in held[t] \cup Range(todo[t])
    BY <1>1, <1>8 DEF Fits, RowsAreThere
  <2>2. ASSUME <<"position", p>> \in Range(todo[t]) PROVE FALSE
    <3>1. PICK v : v = todo[t]
      OBVIOUS
    <3>2. v \in Seq(AnyLock) /\ v # <<>> /\ Ordered(v) /\ Head(v)[1] = "row"
      BY <1>1, <1>8, <3>1
    <3>3. /\ Head(v) = v[1] /\ Len(v) \in Nat /\ Len(v) > 0 /\ Head(v) \in AnyLock
      BY <3>2, Heads
    <3>4. PICK j \in 1..Len(v) : v[j] = <<"position", p>>
      BY <2>2, <3>1, <3>2, RangeEquality
    <3>5. 1 < j /\ 1 \in 1..Len(v)
      BY <3>2, <3>3, <3>4
    <3>6. Precedes(v[1], v[j])
      BY <3>2, <3>5 DEF Ordered
    <3>7. \E q : v[1] = <<"row", q>>
      BY <3>2, <3>3 DEF AnyLock
    <3> QED  BY <3>4, <3>6, <3>7, RowsAfterPositions
  <2> QED  BY <2>1, <2>2
<1>9. <<"row", p>> \in Range(todo[s])
  BY <1>1, <1>7, Heads
<1>10. <<"position", p>> \in held[s] /\ <<"position", p>> \in held[u]
  BY <1>4, <1>6, <1>7, <1>8, <1>9
<1>11. held[s] \cap held[u] = {}
  BY <1>1, <1>4 DEF SessionsInv, LocksExclusive
<1> QED  BY <1>10, <1>11

-----------------------------------------------------------------------------
\* The invariant of the sessions with that of the ledger.
LEMMA TransactionsInvariant ==
    TransactionSpec => [](StockInv /\ OrdersInv /\ SessionsInv) /\ [][Next]_vars
<1>1. InitTransactions => StockInv /\ OrdersInv /\ SessionsInv
  BY InitStockInv, InitOrdersInv, InitSessionsInv DEF InitTransactions
<1>2. StockInv /\ SessionsInv /\ [NextTransactions]_allVars => [Next]_vars
  BY SessionStepIsStep
<1>3. StockInv /\ OrdersInv /\ SessionsInv /\ [NextTransactions]_allVars
        => (StockInv /\ OrdersInv /\ SessionsInv)'
  BY <1>2, StockInvStep, OrdersInvStep, SessionsInvStep
<1> QED  BY <1>1, <1>2, <1>3, PTL DEF TransactionSpec

\* What a transaction read under its locks is still so when it writes
\* (lockPositions, lockBalances, reserveRequirements, consumeReservations).
THEOREM ReadsStayTrue == TransactionSpec => []ReadStaysTrue
<1>1. SessionsInv => ReadStaysTrue
  BY DEF SessionsInv, SessionFits, Guarded, ReadStaysTrue
<1> QED  BY <1>1, TransactionsInvariant, PTL

\* Postings, reversals and releases alone never wait in a cycle.
THEOREM PostingsInOrder == TransactionSpec => []PostingsWaitInOrder
BY CyclesIssueOrCancel, TransactionsInvariant, PTL

\* The transactions, lock by lock, implement the ledger, one request a step.
THEOREM TransactionsImplementLedger == TransactionSpec => ImplementsLedger
<1>1. InitTransactions => Init
  BY DEF InitTransactions
<1> QED  BY <1>1, TransactionsInvariant, PTL DEF TransactionSpec, ImplementsLedger, Spec
=============================================================================
