----------------------------- MODULE SalesDelivery -----------------------------
(***************************************************************************)
(* From finished goods to the receivable, for one line of one sales order: *)
(* the allocation of completed goods to the line and its final inspection  *)
(* (quality-selfhost/service.ts), the delivery instructions, shipments and *)
(* their reversal (sales-selfhost/service.ts), the receivable of a         *)
(* shipment and its settlement (finance-selfhost/service.ts).              *)
(*                                                                         *)
(* An action is one database transaction, except where the service works   *)
(* under the advisory lock FINANCE_SOURCE: posting a receivable and        *)
(* reversing the shipment it is for are a transaction that begins and one  *)
(* that ends, so that other transactions come between.  A request whose    *)
(* versions are stale, or that is refused, rolls back and changes nothing. *)
(* Stock and its postings are in StockLedger.  Quantities are whole        *)
(* numbers and the unit price is one, so an amount is a quantity.          *)
(***************************************************************************)
EXTENDS Integers, FiniteSets, Functions

CONSTANTS
    Ordered,       \* the quantity of the order line
    Completions,   \* completions of the ordered product
    Completed,     \* Completed[c]: the quantity completion c put in stock
    Lots,          \* the completions whose goods are an inventory lot
    Inspections,   \* ids of final inspections, in the order they are made
    Instructions,
    Shipments,
    Settlements,
    None

ASSUME OrderedAssumption == Ordered \in Nat \ {0}
ASSUME CompletedAssumption == Completed \in [Completions -> Nat \ {0}]
ASSUME LotsAssumption == Lots \subseteq Completions
ASSUME InspectionsAssumption == Inspections \subseteq Nat
ASSUME RecordsAssumption ==
    /\ IsFiniteSet(Completions) /\ IsFiniteSet(Inspections)
    /\ IsFiniteSet(Instructions) /\ IsFiniteSet(Shipments)
    /\ IsFiniteSet(Settlements)
ASSUME NoneAssumption ==
    None \notin Completions \cup Instructions \cup Shipments

VARIABLES
    order,        \* the sales order and its line
    reversed,     \* completions that are reversed
    allocation,   \* finished_goods_sales_allocations, one for each completion
    inspection,   \* quality_inspections of type FQC
    instruction,  \* sales_delivery_instructions with their one line
    shipment,     \* sales_shipments
    takes,        \* takes[s][i]: sales_shipment_line_fqc_allocations, what
                  \* shipment s took of the release of inspection i
    receivable,   \* finance_documents, by the shipment of their source
    settlement,   \* finance_settlements
    posting,      \* shipments a transaction is posting the receivable of
    reversing     \* shipments a transaction is reversing

goods == <<reversed, allocation, inspection>>
sent == <<shipment, takes>>
money == <<receivable, settlement>>
open == <<posting, reversing>>

vars == <<order, goods, instruction, sent, money, open>>

OrderStatus == {"OPEN", "PARTIALLY_SHIPPED", "SHIPPED", "CLOSED", "CANCELLED"}

InstructionStatus == {"NONE", "DRAFT", "SUBMITTED", "ACCEPTED", "RETURNED",
                      "PARTIAL", "COMPLETED", "CANCELLED"}

LiveUnlessReturned == {"DRAFT", "SUBMITTED", "ACCEPTED", "PARTIAL"}

Live == {"DRAFT", "SUBMITTED", "ACCEPTED", "RETURNED", "PARTIAL"}

TypeOK ==
    /\ order \in [status : OrderStatus, shipped : 0..Ordered]
    /\ reversed \subseteq Completions
    /\ allocation \in [Completions -> [status : {"NONE", "ACTIVE", "CANCELLED"},
                                       quantity : Nat]]
    /\ inspection \in [Inspections ->
                          [of : Completions \cup {None},
                           life : {"NONE", "OPEN", "CLOSED"},
                           decision : {"PENDING", "HOLD", "RELEASED"},
                           inspected : Nat, released : Nat]]
    /\ instruction \in [Instructions ->
                          [status : InstructionStatus, quantity : Nat,
                           executed : Nat]]
    /\ shipment \in [Shipments ->
                          [status : {"NONE", "POSTED", "REVERSED"},
                           of : Instructions \cup {None}, quantity : Nat]]
    /\ takes \in [Shipments -> [Inspections -> Nat]]
    /\ receivable \in [Shipments ->
                          [status : {"NONE", "OPEN", "PARTIALLY_SETTLED",
                                     "SETTLED"},
                           settled : Nat]]
    /\ settlement \in [Settlements ->
                          [status : {"NONE", "POSTED", "REVERSED"},
                           of : Shipments \cup {None}, amount : Nat]]
    /\ posting \subseteq Shipments /\ reversing \subseteq Shipments

Init ==
    /\ order = [status |-> "OPEN", shipped |-> 0]
    /\ reversed = {}
    /\ allocation = [c \in Completions |-> [status |-> "NONE", quantity |-> 0]]
    /\ inspection = [i \in Inspections |->
                        [of |-> None, life |-> "NONE", decision |-> "PENDING",
                         inspected |-> 0, released |-> 0]]
    /\ instruction = [d \in Instructions |->
                        [status |-> "NONE", quantity |-> 0, executed |-> 0]]
    /\ shipment = [s \in Shipments |->
                     [status |-> "NONE", of |-> None, quantity |-> 0]]
    /\ takes = [s \in Shipments |-> [i \in Inspections |-> 0]]
    /\ receivable = [s \in Shipments |-> [status |-> "NONE", settled |-> 0]]
    /\ settlement = [p \in Settlements |->
                       [status |-> "NONE", of |-> None, amount |-> 0]]
    /\ posting = {} /\ reversing = {}

-----------------------------------------------------------------------------
(* What the services compute.                                              *)

\* Inspections of completion c.
Of(c) == {i \in Inspections : inspection[i].of = c}

\* A closed release of an allocation that stands.
Eligible(i) ==
    /\ inspection[i].life = "CLOSED" /\ inspection[i].decision = "RELEASED"
    /\ allocation[inspection[i].of].status = "ACTIVE"

Standing == {s \in Shipments : shipment[s].status = "POSTED"}

\* The releases of completion c that stand.
EligibleOf(c) == {i \in Of(c) : Eligible(i)}

\* What the shipments that stand have taken of a release.
Consumed(i) == SumFunctionOnSet([s \in Shipments |-> takes[s][i]], Standing)

ReleasedBy == [i \in Inspections |-> inspection[i].released]

Released == SumFunctionOnSet(ReleasedBy, {i \in Inspections : Eligible(i)})

\* Releases that are not yet shipped.
Shippable ==
    Released
      - SumFunctionOnSet([i \in Inspections |-> Consumed(i)], Inspections)

StillDue ==
    [d \in Instructions |-> instruction[d].quantity - instruction[d].executed]

\* What the instructions of D still reserve.
Reserved(D) ==
    SumFunctionOnSet(StillDue, {d \in D : instruction[d].status \in Live})

Undelivered == Ordered - order.shipped

Deliverable == order.status \in {"OPEN", "PARTIALLY_SHIPPED"}

StatusFor(shipped) ==
    IF shipped = Ordered THEN "SHIPPED"
    ELSE IF shipped > 0 THEN "PARTIALLY_SHIPPED" ELSE "OPEN"

\* A reversal holds the rows of the order, of its line and of the instruction
\* until it ends.  What is allocated or inspected does not wait for it.
OrderIsFree == reversing = {}

-----------------------------------------------------------------------------
(* Allocation and final inspection.                                        *)

Active == {c \in Completions : allocation[c].status = "ACTIVE"}

Allocated == [c \in Completions |-> allocation[c].quantity]

\* A completion is allocated to the line once: the pair is unique.
CreateAllocation(c, q) ==
    /\ OrderIsFree /\ Deliverable
    /\ c \notin reversed /\ allocation[c].status = "NONE"
    /\ q <= Completed[c]
    /\ q + SumFunctionOnSet(Allocated, Active) <= Ordered
    /\ allocation' = [allocation EXCEPT ![c] = [status |-> "ACTIVE",
                                                quantity |-> q]]
    /\ UNCHANGED <<order, reversed, inspection, instruction, sent, money,
                   open>>

CancelAllocation(c) ==
    /\ allocation[c].status = "ACTIVE" /\ Of(c) = {}
    /\ allocation' = [allocation EXCEPT ![c].status = "CANCELLED"]
    /\ UNCHANGED <<order, reversed, inspection, instruction, sent, money,
                   open>>

\* production-selfhost: refused once the completion is inspected, and by a
\* trigger while it is allocated.
ReverseCompletion(c) ==
    /\ c \notin reversed /\ Of(c) = {} /\ allocation[c].status # "ACTIVE"
    /\ reversed' = reversed \cup {c}
    /\ UNCHANGED <<order, allocation, inspection, instruction, sent, money,
                   open>>

InspectedBy == [i \in Inspections |-> inspection[i].inspected]

CreateInspection(i, c, q) ==
    /\ OrderIsFree /\ Deliverable
    /\ inspection[i].life = "NONE"
    /\ \A j \in Inspections : j < i => inspection[j].life # "NONE"
    /\ allocation[c].status = "ACTIVE" /\ c \notin reversed
    /\ q + SumFunctionOnSet(InspectedBy, Of(c)) <= allocation[c].quantity
    /\ inspection' = [inspection EXCEPT ![i] =
                         [of |-> c, life |-> "OPEN", decision |-> "PENDING",
                          inspected |-> q, released |-> 0]]
    /\ UNCHANGED <<order, reversed, allocation, instruction, sent, money,
                   open>>

\* Whatever the disposition, up to the inspected quantity: a concession may
\* release what did not pass.
Disposition(i, q) ==
    /\ inspection[i].life = "OPEN" /\ q <= inspection[i].inspected
    /\ inspection' = [inspection EXCEPT
                         ![i].decision = IF q = 0 THEN "HOLD" ELSE "RELEASED",
                         ![i].released = q]
    /\ UNCHANGED <<order, reversed, allocation, instruction, sent, money,
                   open>>

CloseInspection(i) ==
    /\ OrderIsFree
    /\ inspection[i].life = "OPEN" /\ inspection[i].decision # "PENDING"
    /\ allocation[inspection[i].of].status = "ACTIVE"
    /\ inspection[i].decision = "RELEASED" =>
          inspection[i].released
          + SumFunctionOnSet(ReleasedBy, EligibleOf(inspection[i].of))
             <= allocation[inspection[i].of].quantity
    /\ inspection' = [inspection EXCEPT ![i].life = "CLOSED"]
    /\ UNCHANGED <<order, reversed, allocation, instruction, sent, money,
                   open>>

MayReopenAlways(i) == TRUE

MayReopen(i) == inspection[i].decision = "RELEASED" => Consumed(i) = 0

ReopenInspection(i) ==
    /\ OrderIsFree
    /\ inspection[i].life = "CLOSED"
    /\ allocation[inspection[i].of].status = "ACTIVE"
    /\ MayReopen(i)
    /\ inspection' = [inspection EXCEPT ![i].life = "OPEN",
                                        ![i].decision = "PENDING",
                                        ![i].released = 0]
    /\ UNCHANGED <<order, reversed, allocation, instruction, sent, money,
                   open>>

-----------------------------------------------------------------------------
(* Delivery instructions.                                                  *)

CreateInstruction(d, q) ==
    /\ OrderIsFree /\ Deliverable
    /\ instruction[d].status = "NONE"
    /\ q <= Undelivered - Reserved(Instructions)
    /\ q <= Shippable - Reserved(Instructions)
    /\ instruction' = [instruction EXCEPT ![d] =
                          [status |-> "DRAFT", quantity |-> q, executed |-> 0]]
    /\ UNCHANGED <<order, goods, sent, money, open>>

\* The locks of an open reversal keep its instruction from changing.
Untouched(d) ==
    \A s \in reversing : shipment[s].of # d

StillExecuted(d) == instruction[d].executed > 0

EverExecuted(d) == \E s \in Shipments : shipment[s].of = d

AllowedFrom ==
    [SUBMITTED |-> {"DRAFT", "RETURNED"}, ACCEPTED |-> {"SUBMITTED"},
     RETURNED |-> {"SUBMITTED", "ACCEPTED"},
     CANCELLED |-> {"DRAFT", "RETURNED", "SUBMITTED"}]

\* On submission a trigger checks the two limits again.
TransitionInstruction(d, target) ==
    /\ Untouched(d)
    /\ instruction[d].status \in AllowedFrom[target]
    /\ target \in {"RETURNED", "CANCELLED"} => ~EverExecuted(d)
    /\ target = "SUBMITTED" =>
          /\ OrderIsFree /\ Deliverable
          /\ instruction[d].quantity + Reserved(Instructions \ {d})
                <= Undelivered
          /\ instruction[d].quantity + Reserved(Instructions \ {d})
                <= Shippable
    /\ instruction' = [instruction EXCEPT ![d].status = target]
    /\ UNCHANGED <<order, goods, sent, money, open>>

-----------------------------------------------------------------------------
(* Shipments.                                                              *)

\* The inspections a shipment may draw on: those of the lot it names, or,
\* when no release is in a lot, all of them.
Pools ==
    {EligibleOf(c) : c \in Lots} \cup
    (IF \E i \in Inspections : Eligible(i) /\ inspection[i].of \in Lots
     THEN {} ELSE {{i \in Inspections : Eligible(i)}})

Available(i) == inspection[i].released - Consumed(i)

\* What the releases of pool before i still have.
Before(pool, i) ==
    SumFunctionOnSet([j \in Inspections |-> Available(j)], {j \in pool : j < i})

\* allocateFqc: the releases in order, each as far as it goes.
Plan(pool, q) ==
    [i \in Inspections |->
       IF i \notin pool THEN 0
       ELSE IF Before(pool, i) >= q THEN 0
       ELSE IF Available(i) <= q - Before(pool, i) THEN Available(i)
       ELSE q - Before(pool, i)]

ExecuteInstruction(d, s, pool, q) ==
    /\ OrderIsFree /\ Deliverable
    /\ shipment[s].status = "NONE"
    /\ instruction[d].status \in {"ACCEPTED", "PARTIAL"}
    /\ q <= instruction[d].quantity - instruction[d].executed
    /\ q <= Undelivered
    /\ SumFunctionOnSet(Plan(pool, q), Inspections) = q
    /\ shipment' = [shipment EXCEPT ![s] =
                       [status |-> "POSTED", of |-> d, quantity |-> q]]
    /\ takes' = [takes EXCEPT ![s] = Plan(pool, q)]
    /\ order' = [shipped |-> order.shipped + q,
                 status |-> StatusFor(order.shipped + q)]
    /\ instruction' = [instruction EXCEPT
          ![d].executed = @ + q,
          ![d].status = IF instruction[d].executed + q = instruction[d].quantity
                        THEN "COMPLETED" ELSE "PARTIAL"]
    /\ UNCHANGED <<goods, money, open>>

\* The lock FINANCE_SOURCE of a shipment; a receivable and a reversal of it take
\* turns.
SourceUnlocked(s) == TRUE

SourceIsFree(s) == s \notin posting \cup reversing

Reversible(s) == shipment[s].status = "POSTED"

\* The checks are made under FINANCE_SOURCE and the locks of the rows.
BeginReversal(s) ==
    /\ SourceIsFree(s) /\ OrderIsFree /\ Reversible(s)
    /\ order.status # "CLOSED"
    /\ receivable[s].status = "NONE"
    /\ reversing' = reversing \cup {s}
    /\ UNCHANGED <<order, goods, instruction, sent, money, posting>>

CommitReversal(s) ==
    LET d == shipment[s].of
        q == shipment[s].quantity
    IN  /\ s \in reversing
        /\ reversing' = reversing \ {s}
        /\ shipment' = [shipment EXCEPT ![s].status = "REVERSED"]
        /\ order' = [shipped |-> order.shipped - q,
                     status |-> StatusFor(order.shipped - q)]
        /\ instruction' = [instruction EXCEPT
              ![d].executed = @ - q,
              ![d].status = IF instruction[d].executed = q
                            THEN "ACCEPTED" ELSE "PARTIAL"]
        /\ UNCHANGED <<goods, takes, money, posting>>

CloseOrder ==
    /\ OrderIsFree /\ order.status = "SHIPPED"
    /\ order' = [order EXCEPT !.status = "CLOSED"]
    /\ UNCHANGED <<goods, instruction, sent, money, open>>

CancelOrder ==
    /\ OrderIsFree /\ order.status = "OPEN" /\ order.shipped = 0
    /\ order' = [order EXCEPT !.status = "CANCELLED"]
    /\ UNCHANGED <<goods, instruction, sent, money, open>>

-----------------------------------------------------------------------------
(* Receivables.                                                            *)

BeginReceivable(s) ==
    /\ SourceIsFree(s)
    /\ shipment[s].status = "POSTED" /\ receivable[s].status = "NONE"
    /\ posting' = posting \cup {s}
    /\ UNCHANGED <<order, goods, instruction, sent, money, reversing>>

CommitReceivable(s) ==
    /\ s \in posting
    /\ posting' = posting \ {s}
    /\ receivable' = [receivable EXCEPT ![s].status = "OPEN"]
    /\ UNCHANGED <<order, goods, instruction, sent, settlement, reversing>>

\* An error or a lost connection: nothing is written, the locks are gone.
Rollback(s) ==
    /\ s \in posting \cup reversing
    /\ posting' = posting \ {s} /\ reversing' = reversing \ {s}
    /\ UNCHANGED <<order, goods, instruction, sent, money>>

Settle(p, s, a) ==
    /\ settlement[p].status = "NONE"
    /\ receivable[s].status # "NONE"
    /\ a <= shipment[s].quantity - receivable[s].settled
    /\ settlement' = [settlement EXCEPT ![p] =
                         [status |-> "POSTED", of |-> s, amount |-> a]]
    /\ receivable' = [receivable EXCEPT ![s] =
          [settled |-> @.settled + a,
           status |-> IF @.settled + a = shipment[s].quantity
                      THEN "SETTLED" ELSE "PARTIALLY_SETTLED"]]
    /\ UNCHANGED <<order, goods, instruction, sent, open>>

ReverseSettlement(p) ==
    LET s == settlement[p].of
        a == settlement[p].amount
    IN  /\ settlement[p].status = "POSTED"
        /\ settlement' = [settlement EXCEPT ![p].status = "REVERSED"]
        /\ receivable' = [receivable EXCEPT ![s] =
              [settled |-> @.settled - a,
               status |-> IF @.settled = a THEN "OPEN"
                          ELSE "PARTIALLY_SETTLED"]]
        /\ UNCHANGED <<order, goods, instruction, sent, open>>

-----------------------------------------------------------------------------
Next ==
    \/ \E c \in Completions, q \in 1..Ordered : CreateAllocation(c, q)
    \/ \E c \in Completions : CancelAllocation(c) \/ ReverseCompletion(c)
    \/ \E i \in Inspections, c \in Completions, q \in 1..Ordered :
          CreateInspection(i, c, q)
    \/ \E i \in Inspections, q \in 0..Ordered : Disposition(i, q)
    \/ \E i \in Inspections : CloseInspection(i) \/ ReopenInspection(i)
    \/ \E d \in Instructions, q \in 1..Ordered : CreateInstruction(d, q)
    \/ \E d \in Instructions, t \in DOMAIN AllowedFrom :
          TransitionInstruction(d, t)
    \/ \E d \in Instructions, s \in Shipments, pool \in Pools,
          q \in 1..Ordered : ExecuteInstruction(d, s, pool, q)
    \/ \E s \in Shipments : BeginReversal(s) \/ CommitReversal(s)
    \/ CloseOrder \/ CancelOrder
    \/ \E s \in Shipments :
          BeginReceivable(s) \/ CommitReceivable(s) \/ Rollback(s)
    \/ \E p \in Settlements, s \in Shipments, a \in 1..Ordered : Settle(p, s, a)
    \/ \E p \in Settlements : ReverseSettlement(p)

Spec == Init /\ [][Next]_vars

-----------------------------------------------------------------------------
(* Properties.                                                             *)

PostedOf(d) == {s \in Standing : shipment[s].of = d}

Executed == [d \in Instructions |-> instruction[d].executed]

Shipped == [s \in Shipments |-> shipment[s].quantity]

SettledOf(s) ==
    {p \in Settlements : settlement[p].of = s /\ settlement[p].status = "POSTED"}

Amounts == [p \in Settlements |-> settlement[p].amount]

\* What is shipped and what the instructions still promise never exceed the
\* order, through returns, resubmissions and reversals that make a completed
\* instruction live again (service.ts createDeliveryInstruction, the
\* submission trigger, reverseShipment).
ReservationsFit ==
    order.shipped
    + SumFunctionOnSet(StillDue,
                       {d \in Instructions : instruction[d].status # "CANCELLED"})
       <= Ordered

\* Every quantity shipped was released by a final inspection that is still
\* closed and released, of goods that were completed and not taken back, and
\* no release is shipped twice (allocateFqc, reopen, reverseCompletion).
ShippedWasReleased ==
    /\ \A i \in Inspections : Consumed(i) > 0 =>
          /\ Eligible(i) /\ Consumed(i) <= inspection[i].released
          /\ inspection[i].of \notin reversed
    /\ \A c \in Completions :
          SumFunctionOnSet(ReleasedBy, EligibleOf(c)) <= Completed[c]

\* Order, instructions and shipments tell the same story: the order's shipped
\* quantity and status, each instruction's executed quantity and status, and
\* what the shipments took, which the deferred triggers of 0023 would refuse to
\* commit otherwise.  An instruction that was ever executed is never returned
\* or cancelled, and a closed order stays shipped in full.
ShipmentsAddUp ==
    /\ order.shipped = SumFunctionOnSet(Executed, Instructions)
    /\ order.status = "CLOSED" => order.shipped = Ordered
    /\ order.status = "CANCELLED" => order.shipped = 0
    /\ order.status \notin {"CLOSED", "CANCELLED"} =>
          order.status = StatusFor(order.shipped)
    /\ \A d \in Instructions :
          /\ instruction[d].executed = SumFunctionOnSet(Shipped, PostedOf(d))
          /\ instruction[d].status = "COMPLETED" <=>
                instruction[d].executed = instruction[d].quantity
                /\ instruction[d].quantity > 0
          /\ instruction[d].status = "PARTIAL" <=>
                instruction[d].executed \in 1..(instruction[d].quantity - 1)
          /\ (\E s \in Shipments : shipment[s].of = d) =>
                instruction[d].status \in {"ACCEPTED", "PARTIAL", "COMPLETED"}
    /\ \A s \in Shipments :
          shipment[s].quantity = SumFunctionOnSet(takes[s], Inspections)

\* What is settled of a receivable is the sum of the settlements that stand, at
\* most its total, and its status says so (finance settle, reverseSettlement).
SettlementsAddUp ==
    \A s \in Shipments : receivable[s].status # "NONE" =>
       /\ receivable[s].settled = SumFunctionOnSet(Amounts, SettledOf(s))
       /\ receivable[s].settled <= shipment[s].quantity
       /\ receivable[s].status =
             IF receivable[s].settled = shipment[s].quantity THEN "SETTLED"
             ELSE IF receivable[s].settled > 0 THEN "PARTIALLY_SETTLED"
                  ELSE "OPEN"

\* The books of the order and of its receivables agree with the documents they
\* sum up, after any sequence of postings and reversals.
BooksAddUp == ShipmentsAddUp /\ SettlementsAddUp

\* A receivable is always of a shipment that stands: a posting and a reversal of
\* one shipment exclude each other whichever comes first (finance create, sales
\* reverseShipment).
ReceivableStands ==
    \A s \in Shipments : receivable[s].status # "NONE" =>
       shipment[s].status = "POSTED"

=============================================================================
