------------------------------ MODULE StockLedger ------------------------------
(***************************************************************************)
(* The stock ledger (inventory-selfhost/service.ts) and the production     *)
(* work orders that reserve, draw and return its materials and put their   *)
(* product in stock (production-selfhost/service.ts), one database         *)
(* transaction an action.                                                  *)
(* StockTransactions opens these transactions up, lock by lock, and shows  *)
(* that they behave as they do here.                                       *)
(*                                                                         *)
(* A position is a material in the one warehouse; a position without a row *)
(* has version 0.  A request is what a client sends under one              *)
(* Idempotency-Key: it is written once, from the versions the client then  *)
(* sees, and may be sent any number of times.  A request that is refused   *)
(* rolls back and changes nothing, so only its acceptance is an action.    *)
(* Quantities are whole numbers, standing for millionths.                  *)
(***************************************************************************)
EXTENDS Integers, Sequences, FiniteSets, Functions

CONSTANTS
    Positions,
    Orders,      \* production work orders
    Requests,
    Required,    \* Required[w][p]: what order w needs of p, 0 if it needs none
    Planned,     \* Planned[w]: the quantity order w is to make
    Finished,    \* Finished[w]: the position its product goes to
    Opening,     \* Opening[p]: stock taken over when the system starts
    Quantities,  \* quantities a request may name
    Operations,  \* operations the clients use
    None

ASSUME OrdersAssumption == IsFiniteSet(Orders)
ASSUME RequiredAssumption == Required \in [Orders -> [Positions -> Nat]]
ASSUME PlannedAssumption == Planned \in [Orders -> Nat \ {0}]
ASSUME FinishedAssumption == Finished \in [Orders -> Positions]
ASSUME OpeningAssumption == Opening \in [Positions -> Nat]
ASSUME QuantitiesAssumption == Quantities \subseteq Nat
ASSUME NoneAssumption == None \notin Requests \cup Orders

VARIABLES
    balance,  \* inventory_stock_balances
    journal,  \* inventory_adjustments with their lines and ledger entries
    keys,     \* requests whose idempotency key is stored and has not expired
    request,  \* what each client has written
    order,    \* status of each work order
    hold,     \* production_inventory_reservations, by order and position
    work      \* what each order has dispatched to its first operation and
              \* completed into stock

vars == <<balance, journal, keys, request, order, hold, work>>

Row == [onHand : Nat, reserved : Int, frozen : Nat, version : Nat]

Line == [onHand : Int, frozen : Int, beforeOnHand : Int, beforeFrozen : Int,
         version : Nat]

Hold == [reserved : Nat, issued : Int, released : Int]

NoHold == [reserved |-> 0, issued |-> 0, released |-> 0]

\* How an operation of one quantity moves the two balances of its position.
OnHandSign == [RECEIPT |-> 1, IQC_RECEIPT |-> 1, ISSUE |-> -1,
               FREEZE |-> 0, UNFREEZE |-> 0]

FrozenSign == [RECEIPT |-> 0, IQC_RECEIPT |-> 1, ISSUE |-> 0,
               FREEZE |-> 1, UNFREEZE |-> -1]

OperationTypes == DOMAIN OnHandSign \cup {"ADJUSTMENT"}

OrderOperations == {"RELEASE", "ISSUE_MATERIALS", "RETURN_MATERIALS", "CANCEL",
                    "COMPLETE", "REVERSE_COMPLETION"}

OrderStatus == {"DRAFT", "RELEASED", "IN_PROGRESS", "COMPLETED", "CLOSED",
                "CANCELLED"}

Progress == [dispatched : Nat, completed : Nat]

RequestOperations == OperationTypes \cup OrderOperations \cup {"REVERSAL"}

\* A request: what it asks for each of its positions, and the version of the
\* position's row its author saw.
IsRequest(q) ==
    /\ q.operation \in RequestOperations
    /\ q.order \in Orders \cup {None}
    /\ q.reversalOf \in Nat
    /\ DOMAIN q.lines \subseteq Positions
    /\ \A p \in DOMAIN q.lines :
          q.lines[p].quantity \in Quantities \cup {0} /\ q.lines[p].version \in Nat

\* An adjustment and the ledger entry of each of its lines.
IsAdjustment(a) ==
    /\ a.request \in Requests \cup {None}
    /\ a.type \in OperationTypes \cup {"REVERSAL"}
    /\ a.reversalOf \in Nat
    /\ DOMAIN a.lines \subseteq Positions
    /\ \A p \in DOMAIN a.lines : a.lines[p] \in Line

TypeOK ==
    /\ balance \in [Positions -> Row]
    /\ \A i \in 1..Len(journal) : IsAdjustment(journal[i])
    /\ keys \subseteq Requests
    /\ DOMAIN request = Requests
    /\ \A r \in Requests : request[r] = None \/ IsRequest(request[r])
    /\ order \in [Orders -> OrderStatus]
    /\ hold \in [Orders -> [Positions -> Hold]]
    /\ work \in [Orders -> Progress]

Stocked == {p \in Positions : Opening[p] > 0}

\* The opening stock, if any, is one receipt posted before any request.
OpeningAdjustment ==
    [request |-> None, type |-> "RECEIPT", reversalOf |-> 0,
     lines |-> [p \in Stocked |->
                  [onHand |-> Opening[p], frozen |-> 0, beforeOnHand |-> 0,
                   beforeFrozen |-> 0, version |-> 0]]]

Init ==
    /\ balance = [p \in Positions |->
                    [onHand |-> Opening[p], reserved |-> 0, frozen |-> 0,
                     version |-> IF p \in Stocked THEN 1 ELSE 0]]
    /\ journal = IF Stocked = {} THEN <<>> ELSE <<OpeningAdjustment>>
    /\ keys = {}
    /\ request = [r \in Requests |-> None]
    /\ order = [w \in Orders |-> "DRAFT"]
    /\ hold = [w \in Orders |-> [p \in Positions |-> NoHold]]
    /\ work = [w \in Orders |-> [dispatched |-> 0, completed |-> 0]]

-----------------------------------------------------------------------------
(* What a transaction computes from the rows it has read.                  *)

Free(row) == row.onHand - row.reserved - row.frozen

\* Fault: reserved stock may be taken.
AllowedFromReserve(row, line) ==
    /\ line.onHand # 0 \/ line.frozen # 0
    /\ row.frozen + line.frozen >= 0
    /\ row.onHand + line.onHand >= row.frozen + line.frozen

\* calculate: a line moves something and leaves no balance negative and no
\* reserved or frozen stock uncovered.
Allowed(row, line) ==
    /\ line.onHand # 0 \/ line.frozen # 0
    /\ row.onHand + line.onHand >= 0
    /\ row.frozen + line.frozen >= 0
    /\ row.onHand + line.onHand >= row.reserved + row.frozen + line.frozen

PostedLine(type, quantity, row) ==
    [onHand |-> IF type = "ADJUSTMENT" THEN quantity - row.onHand
                ELSE OnHandSign[type] * quantity,
     frozen |-> IF type = "ADJUSTMENT" THEN 0 ELSE FrozenSign[type] * quantity,
     beforeOnHand |-> row.onHand, beforeFrozen |-> row.frozen,
     version |-> row.version]

ReversedLine(original, row) ==
    [onHand |-> -original.onHand, frozen |-> -original.frozen,
     beforeOnHand |-> row.onHand, beforeFrozen |-> row.frozen,
     version |-> row.version]

\* Fault: only the quantity on hand is written back.
WrittenOnHandOnly(row, line) ==
    [onHand |-> row.onHand + line.onHand, reserved |-> row.reserved,
     frozen |-> row.frozen, version |-> row.version + 1]

\* persistLine: the row after the line.
Written(row, line) ==
    [onHand |-> row.onHand + line.onHand, reserved |-> row.reserved,
     frozen |-> row.frozen + line.frozen, version |-> row.version + 1]

\* The row after quantity more (or less) of it is reserved.
Reserve(row, quantity) ==
    [onHand |-> row.onHand, reserved |-> row.reserved + quantity,
     frozen |-> row.frozen, version |-> row.version + 1]

-----------------------------------------------------------------------------
(* The transactions.  rows holds the rows as the transaction read them.    *)

\* Fault: the balance versions a request was written for are not compared.
NeverStale(r, rows) == FALSE

\* A row of the request has moved on since the request was written.
Stale(r, rows) ==
    \E p \in DOMAIN request[r].lines :
        rows[p].version # request[r].lines[p].version

Pending(r, operations) ==
    request[r] # None /\ r \notin keys /\ request[r].operation \in operations

Quantity(r, p) == request[r].lines[p].quantity

\* The adjustment, its lines and their ledger entries, and the stored key.
Record(r, type, original, rows, lines) ==
    /\ \A p \in DOMAIN lines : Allowed(rows[p], lines[p])
    /\ journal' = Append(journal, [request |-> r, type |-> type,
                                   reversalOf |-> original, lines |-> lines])
    /\ keys' = keys \cup {r}
    /\ UNCHANGED request

WriteLines(rows, lines) ==
    balance' = [p \in Positions |->
                  IF p \in DOMAIN lines THEN Written(rows[p], lines[p])
                  ELSE balance[p]]

\* post, postLot and issuePositions.
Post(r, rows) ==
    /\ Pending(r, OperationTypes)
    /\ ~Stale(r, rows)
    /\ LET lines == [p \in DOMAIN request[r].lines |->
                       PostedLine(request[r].operation, Quantity(r, p), rows[p])]
       IN  /\ Record(r, request[r].operation, 0, rows, lines)
           /\ WriteLines(rows, lines)
    /\ UNCHANGED <<order, hold, work>>

\* Fault: a second reversal is not noticed.
NeverReversed(i) == FALSE

Reversed(i) == \E k \in 1..Len(journal) : journal[k].reversalOf = i

\* reverseParsedInTransaction: the whole of adjustment i, once, and never a
\* reversal.
ReverseAdjustment(r, i, rows) ==
    LET lines == [p \in DOMAIN journal[i].lines |->
                    ReversedLine(journal[i].lines[p], rows[p])]
    IN  /\ journal[i].type # "REVERSAL"
        /\ ~Reversed(i)
        /\ Record(r, "REVERSAL", i, rows, lines)
        /\ WriteLines(rows, lines)

\* reverse: of any adjustment, whatever business document it belongs to.
Reverse(r, rows) ==
    /\ Pending(r, {"REVERSAL"})
    /\ ~Stale(r, rows)
    /\ ReverseAdjustment(r, request[r].reversalOf, rows)
    /\ UNCHANGED <<order, hold, work>>

\* An operation of a work order that stores its key and posts nothing.
RecordOrder(r, status) ==
    /\ keys' = keys \cup {r}
    /\ order' = [order EXCEPT ![request[r].order] = status]
    /\ UNCHANGED <<journal, request, work>>

Needed(w) == {p \in Positions : Required[w][p] > 0}

\* releaseInTransaction, reserveRequirements: all materials or none.
ReleaseOrder(r, rows) ==
    LET w == request[r].order IN
    /\ Pending(r, {"RELEASE"})
    /\ order[w] = "DRAFT"
    /\ \A p \in Needed(w) :
          rows[p].version > 0 /\ Free(rows[p]) >= Required[w][p]
    /\ balance' = [p \in Positions |->
                     IF p \in Needed(w) THEN Reserve(rows[p], Required[w][p])
                     ELSE balance[p]]
    /\ hold' = [hold EXCEPT ![w] = [p \in Positions |->
                  [reserved |-> Required[w][p], issued |-> 0, released |-> 0]]]
    /\ RecordOrder(r, "RELEASED")

Running(w) == order[w] \in {"RELEASED", "IN_PROGRESS"}

Owed(w, p) == hold[w][p].reserved - hold[w][p].issued - hold[w][p].released

Draw(w, p, quantity) ==
    [reserved |-> hold[w][p].reserved, issued |-> hold[w][p].issued + quantity,
     released |-> hold[w][p].released]

MayIssue(w, p, quantity) == quantity <= Owed(w, p)

\* issueInTransaction: the quantity leaves the reservation (consumeReservations)
\* and then the stock, two changes of the row in one transaction.  The version
\* of the requirement changes only with the row's and is not kept.
IssueMaterials(r, rows) ==
    LET w == request[r].order
        P == DOMAIN request[r].lines
        consumed == [p \in P |-> Reserve(rows[p], -Quantity(r, p))]
        lines == [p \in P |-> PostedLine("ISSUE", Quantity(r, p), consumed[p])]
    IN  /\ Pending(r, {"ISSUE_MATERIALS"})
        /\ ~Stale(r, rows)
        /\ Running(w)
        /\ \A p \in P : MayIssue(w, p, Quantity(r, p))
        /\ Record(r, "ISSUE", 0, consumed, lines)
        /\ WriteLines(consumed, lines)
        /\ hold' = [hold EXCEPT ![w] = [p \in Positions |->
                      IF p \in P THEN Draw(w, p, Quantity(r, p)) ELSE @[p]]]
        /\ order' = [order EXCEPT ![w] = "IN_PROGRESS"]
        /\ UNCHANGED work

\* Fault: materials go back although work that needs them is under way.
ReturnUnchecked(w, p, quantity) == TRUE

\* The materials drawn for w still suffice for the quantity dispatched when
\* quantity of p goes back (refreshOperationProjections).
MayReturn(w, p, quantity) ==
    work[w].dispatched * Required[w][p]
      <= (hold[w][p].issued - quantity) * Planned[w]

\* returnMaterials: a receipt, and what was returned is reserved again.
ReturnMaterials(r, rows) ==
    LET w == request[r].order
        P == DOMAIN request[r].lines
        lines == [p \in P |-> PostedLine("RECEIPT", Quantity(r, p), rows[p])]
    IN  /\ Pending(r, {"RETURN_MATERIALS"})
        /\ ~Stale(r, rows)
        /\ Running(w)
        /\ \A p \in P : /\ Quantity(r, p) <= hold[w][p].issued
                        /\ MayReturn(w, p, Quantity(r, p))
        /\ Record(r, "RECEIPT", 0, rows, lines)
        /\ balance' = [p \in Positions |->
                         IF p \in P
                         THEN Reserve(Written(rows[p], lines[p]), Quantity(r, p))
                         ELSE balance[p]]
        /\ hold' = [hold EXCEPT ![w] = [p \in Positions |->
                      IF p \in P THEN Draw(w, p, -Quantity(r, p)) ELSE @[p]]]
        /\ UNCHANGED <<order, work>>

\* cancel, releaseUnusedReservations: only an order that never drew materials.
CancelOrder(r, rows) ==
    LET w == request[r].order IN
    /\ Pending(r, {"CANCEL"})
    /\ order[w] \in {"DRAFT", "RELEASED"}
    /\ balance' = [p \in Positions |->
                     IF Owed(w, p) > 0 THEN Reserve(rows[p], -Owed(w, p))
                     ELSE balance[p]]
    /\ hold' = [hold EXCEPT ![w] = [p \in Positions |->
                  [reserved |-> @[p].reserved, issued |-> @[p].issued,
                   released |-> @[p].released + Owed(w, p)]]]
    /\ RecordOrder(r, "CANCELLED")

\* dispatch of the first operation: no more than the materials drawn support.
Dispatch(w, quantity) ==
    LET total == work[w].dispatched + quantity IN
    /\ Running(w)
    /\ quantity > 0
    /\ total <= Planned[w]
    /\ \A p \in Needed(w) :
          total * Required[w][p] <= hold[w][p].issued * Planned[w]
    /\ work' = [work EXCEPT ![w] = [dispatched |-> total, completed |-> @.completed]]
    /\ UNCHANGED <<balance, journal, keys, request, order, hold>>

\* cancel and reverse of an operation run: only work nothing was made of.
TakeBack(w, quantity) ==
    LET total == work[w].dispatched - quantity IN
    /\ quantity > 0
    /\ total >= work[w].completed
    /\ work' = [work EXCEPT ![w] = [dispatched |-> total, completed |-> @.completed]]
    /\ UNCHANGED <<balance, journal, keys, request, order, hold>>

\* completeInTransaction: a receipt of the product.  How far the dispatched
\* quantity got is not kept: any part of it may be ready.
Complete(r, rows) ==
    LET w == request[r].order
        lines == [p \in DOMAIN request[r].lines |->
                    PostedLine("RECEIPT", Quantity(r, p), rows[p])]
        total == work[w].completed + Quantity(r, Finished[w])
    IN  /\ Pending(r, {"COMPLETE"})
        /\ ~Stale(r, rows)
        /\ Running(w)
        /\ total <= work[w].dispatched
        /\ total <= Planned[w]
        /\ Record(r, "RECEIPT", 0, rows, lines)
        /\ WriteLines(rows, lines)
        /\ work' = [work EXCEPT ![w] = [dispatched |-> @.dispatched, completed |-> total]]
        /\ order' = [order EXCEPT ![w] =
                        IF total = Planned[w] THEN "COMPLETED" ELSE "IN_PROGRESS"]
        /\ UNCHANGED hold

\* Fault: the order stays as complete as it was.
StillCompleted(w, i) == work[w].completed

\* What is left of the completed quantity without adjustment i.
CompletedWithout(w, i) == work[w].completed - journal[i].lines[Finished[w]].onHand

\* reverseCompletion: the receipt of a completion is reversed and the order is
\* in progress again.
ReverseCompletion(r, rows) ==
    LET w == request[r].order
        i == request[r].reversalOf
    IN  /\ Pending(r, {"REVERSE_COMPLETION"})
        /\ ~Stale(r, rows)
        /\ order[w] # "CLOSED"
        /\ work[w].completed >= journal[i].lines[Finished[w]].onHand
        /\ ReverseAdjustment(r, i, rows)
        /\ work' = [work EXCEPT ![w] = [dispatched |-> @.dispatched,
                                       completed |-> CompletedWithout(w, i)]]
        /\ order' = [order EXCEPT ![w] = "IN_PROGRESS"]
        /\ UNCHANGED hold

\* close
CloseOrder(w) ==
    /\ order[w] = "COMPLETED"
    /\ order' = [order EXCEPT ![w] = "CLOSED"]
    /\ UNCHANGED <<balance, journal, keys, request, hold, work>>

Apply(r, rows) ==
    \/ Post(r, rows) \/ Reverse(r, rows)
    \/ ReleaseOrder(r, rows) \/ CancelOrder(r, rows)
    \/ IssueMaterials(r, rows) \/ ReturnMaterials(r, rows)
    \/ Complete(r, rows) \/ ReverseCompletion(r, rows)

Work(w) ==
    \/ \E quantity \in Quantities : Dispatch(w, quantity) \/ TakeBack(w, quantity)
    \/ CloseOrder(w)

-----------------------------------------------------------------------------
(* The clients.  The lines of one request name one quantity (a bound).     *)

Seen(P, quantity) ==
    [p \in P |-> [quantity |-> quantity, version |-> balance[p].version]]

NonEmpty(P) == (SUBSET P) \ {{}}

StockRequests ==
    {[operation |-> type, order |-> None, reversalOf |-> 0,
      lines |-> Seen(P, quantity)] :
        type \in OperationTypes, P \in NonEmpty(Positions),
        quantity \in Quantities \ {0}}
    \cup
    {[operation |-> "ADJUSTMENT", order |-> None, reversalOf |-> 0,
      lines |-> Seen(P, 0)] : P \in NonEmpty(Positions)}

Reversals ==
    {[operation |-> "REVERSAL", order |-> None, reversalOf |-> i,
      lines |-> Seen(DOMAIN journal[i].lines, 0)] : i \in 1..Len(journal)}

OrderRequests ==
    {[operation |-> type, order |-> w, reversalOf |-> 0, lines |-> Seen({}, 0)] :
        type \in {"RELEASE", "CANCEL"}, w \in Orders}
    \cup
    UNION {{[operation |-> type, order |-> w, reversalOf |-> 0,
             lines |-> Seen(P, quantity)] :
               type \in {"ISSUE_MATERIALS", "RETURN_MATERIALS"},
               P \in NonEmpty(Needed(w)), quantity \in Quantities \ {0}} :
           w \in Orders}

CompletionRequests ==
    {[operation |-> "COMPLETE", order |-> w, reversalOf |-> 0,
      lines |-> Seen({Finished[w]}, quantity)] :
        w \in Orders, quantity \in Quantities \ {0}}

\* Adjustment i is the receipt of a completion of w.
Completes(w, i) ==
    /\ journal[i].request # None
    /\ request[journal[i].request].operation = "COMPLETE"
    /\ request[journal[i].request].order = w

CompletionReversals ==
    UNION {{[operation |-> "REVERSE_COMPLETION", order |-> w, reversalOf |-> i,
             lines |-> Seen({Finished[w]}, 0)] :
               i \in {k \in 1..Len(journal) : Completes(w, k)}} : w \in Orders}

Writable == StockRequests \cup Reversals \cup OrderRequests
              \cup CompletionRequests \cup CompletionReversals

\* A client reads the balances and writes its request.
Write(r) ==
    /\ request[r] = None
    /\ \E new \in Writable :
          /\ new.operation \in Operations
          /\ request' = [request EXCEPT ![r] = new]
    /\ UNCHANGED <<balance, journal, keys, order, hold, work>>

\* A key is forgotten 24 hours after it was stored.
ExpireKey(r) ==
    /\ r \in keys
    /\ keys' = keys \ {r}
    /\ UNCHANGED <<balance, journal, request, order, hold, work>>

Next ==
    \/ \E r \in Requests : Write(r) \/ Apply(r, balance) \/ ExpireKey(r)
    \/ \E w \in Orders : Work(w)

Spec == Init /\ [][Next]_vars

-----------------------------------------------------------------------------
\* The adjustments with a line for p.
Entries(p) == {i \in 1..Len(journal) : p \in DOMAIN journal[i].lines}

AfterOnHand(i, p) ==
    journal[i].lines[p].beforeOnHand + journal[i].lines[p].onHand

AfterFrozen(i, p) ==
    journal[i].lines[p].beforeFrozen + journal[i].lines[p].frozen

\* The ledger of every position is one unbroken chain that ends in its
\* balance: each entry starts from the quantities the one before it left.
\* This is what GET /api/inventory/reconciliation and the deferred trigger of
\* migration 0032 look for after the fact.
LedgerChain ==
    \A p \in Positions :
      /\ Entries(p) = {} => balance[p].onHand = 0 /\ balance[p].frozen = 0
      /\ \A i \in Entries(p) :
           \/ \E k \in Entries(p) :
                /\ k > i
                /\ \A m \in Entries(p) : m > i => m >= k
                /\ journal[k].lines[p].beforeOnHand = AfterOnHand(i, p)
                /\ journal[k].lines[p].beforeFrozen = AfterFrozen(i, p)
           \/ /\ \A m \in Entries(p) : m <= i
              /\ balance[p].onHand = AfterOnHand(i, p)
              /\ balance[p].frozen = AfterFrozen(i, p)

\* What is reserved or frozen is really there, whatever mix of postings,
\* reversals and work orders ran before.  inventory_stock_balances checks the
\* same of a row; here it holds without that check ever refusing a write.
NeverOvercommitted ==
    \A p \in Positions :
      balance[p].onHand >= balance[p].reserved + balance[p].frozen

\* A request takes effect at most once, also when it is sent again after its
\* idempotency key has expired: the versions it was written for refuse it.
AppliedOnce ==
    \A i, k \in 1..Len(journal) :
      journal[i].request = journal[k].request => i = k

\* An adjustment is reversed at most once, by an adjustment that takes back
\* exactly what it moved, and a reversal is final.
ReversalsNetOut ==
    \A k \in 1..Len(journal) :
      LET i == journal[k].reversalOf IN
      i # 0 =>
        /\ i < k
        /\ journal[i].reversalOf = 0
        /\ \A m \in 1..Len(journal) : journal[m].reversalOf = i => m = k
        /\ DOMAIN journal[i].lines = DOMAIN journal[k].lines
        /\ \A p \in DOMAIN journal[i].lines :
             /\ journal[i].lines[p].onHand + journal[k].lines[p].onHand = 0
             /\ journal[i].lines[p].frozen + journal[k].lines[p].frozen = 0

\* Every reserved unit is owed to a work order that may still draw it: an order
\* never draws more than it reserved, and one that is complete, closed or
\* cancelled leaves no stock reserved that nobody can ever draw or release.
ReservedIsOwed ==
    /\ \A p \in Positions :
         balance[p].reserved = SumFunction([w \in Orders |-> Owed(w, p)])
    /\ \A w \in Orders : \A p \in Positions :
         /\ Owed(w, p) >= 0
         /\ hold[w][p].issued >= 0
         /\ Owed(w, p) > 0 => Running(w)

\* Adjustment i was taken back by the reversal of a completion.
TakenBack(i) ==
    \E k \in 1..Len(journal) :
      /\ journal[k].reversalOf = i
      /\ request[journal[k].request].operation = "REVERSE_COMPLETION"

\* The completions of w that stand.
Kept(w) == {i \in 1..Len(journal) : Completes(w, i) /\ ~TakenBack(i)}

\* What completion i of w brought into stock.
Brought(w, i) == journal[i].lines[Finished[w]].onHand

\* What an order records as completed is what the adjustments of its
\* completions brought into stock, less those that reversing a completion took
\* back: no other reversal, not even of such an adjustment, moves the order, and
\* none is counted twice.
CompletionsAddUp ==
    \A w \in Orders :
      work[w].completed = SumFunction([i \in Kept(w) |-> Brought(w, i)])

\* A row that changes gets a new version, so that whoever still works with the
\* old one is refused; and no adjustment is ever changed or removed.
NothingChangesSilently ==
    [][/\ \A p \in Positions :
            balance'[p] # balance[p] => balance'[p].version > balance[p].version
       /\ SubSeq(journal', 1, Len(journal)) = journal]_vars
=============================================================================
