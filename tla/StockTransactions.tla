-------------------------- MODULE StockTransactions --------------------------
(***************************************************************************)
(* The transactions of StockLedger opened up, lock by lock.  A session is  *)
(* one PostgreSQL transaction at READ COMMITTED that carries out one       *)
(* request: it takes the locks the code takes, in the order the code takes *)
(* them, keeps them to its end, and works with the balance rows it read    *)
(* when it locked them.  Its writes become visible when it commits.        *)
(*                                                                         *)
(* A lock is an advisory lock (on an idempotency key or a stock position)  *)
(* or the lock of a row (work order, adjustment, balance, and the sequence *)
(* adjustments draw their code from).  A session that waits in a cycle is  *)
(* rolled back by PostgreSQL's deadlock detector.                          *)
(***************************************************************************)
EXTENDS StockLedger

CONSTANTS
    Sessions,
    ByKey,     \* the positions in the order of their lock keys, strings
    ById,      \* the positions in the order of their material ids, numbers
    ByLine     \* the positions in the order of an order's requirements

ASSUME SortingAssumption ==
    \A line \in {ByKey, ById, ByLine} :
      line \in Seq(Positions) /\ Range(line) = Positions /\ IsInjective(line)

VARIABLES
    running,  \* running[s]: the request session s carries out
    todo,     \* todo[s]: the locks s has yet to take
    held,     \* held[s]: the locks s holds
    read      \* read[s]: the balance rows s has read, by position

sessionVars == <<running, todo, held, read>>

allVars == <<vars, sessionVars>>

Idle(s) == running[s] = None

Locks ==
    ({"key"} \X Requests) \cup ({"order"} \X Orders)
      \cup ({"position", "row"} \X Positions)
      \cup ({"adjustment"} \X (1..Len(journal))) \cup {<<"codes", None>>}

-----------------------------------------------------------------------------
(* The locks of a request, in the order the code takes them.               *)

\* The members of P in the order of line.
Sorted(line, P) ==
    LET kept[i \in 0..Len(line)] ==
          IF i = 0 THEN <<>>
          ELSE IF line[i] \in P THEN Append(kept[i - 1], line[i]) ELSE kept[i - 1]
    IN  kept[Len(line)]

Each(kind, positions) ==
    [i \in DOMAIN positions |-> <<kind, positions[i]>>]

\* lockPositions
Advisory(P) == Each("position", Sorted(ByKey, P))

Rows(line, P) == Each("row", Sorted(line, P))

\* Fault: rows only; a position without a row is locked by nobody.
PostingUnguarded(P) == Rows(ByKey, P) \o <<<<"codes", None>>>>

\* postParsedInTransaction: positions, rows, code.
Posting(P) == Advisory(P) \o Rows(ByKey, P) \o <<<<"codes", None>>>>

\* Fault: a release locks the rows first and the positions after them.
ReleasingRowsFirst(w) == Rows(ById, Needed(w)) \o Advisory(Needed(w))

\* reserveRequirements: positions by key, rows by number.
Releasing(w) == Advisory(Needed(w)) \o Rows(ById, Needed(w))

\* consumeReservations locks the rows in the order of the requirements before
\* the posting of the issue comes to the positions.
Issuing(P) == Rows(ByLine, P) \o Posting(P)

\* The locks after the one on the idempotency key.
LocksOf(q) ==
    LET P == DOMAIN q.lines
        its == <<<<"order", q.order>>>>
        original == <<<<"adjustment", q.reversalOf>>>>
    IN  CASE q.operation \in OperationTypes -> Posting(P)
          [] q.operation = "REVERSAL" -> original \o Posting(P)
          [] q.operation = "RELEASE" -> its \o Releasing(q.order)
          [] q.operation = "CANCEL" -> its
          [] q.operation = "ISSUE_MATERIALS" -> its \o Issuing(P)
          [] q.operation \in {"RETURN_MATERIALS", "COMPLETE"} -> its \o Posting(P)
          [] q.operation = "REVERSE_COMPLETION" -> its \o original \o Posting(P)

\* releaseUnusedReservations: a cancellation that has locked its order goes on
\* to the rows that are to be given stock back.
Found(r, lock) ==
    IF request[r].operation = "CANCEL" /\ lock[1] = "order"
    THEN Rows(ById, {p \in Positions : Owed(lock[2], p) > 0})
    ELSE <<>>

\* The status of an order is looked at as soon as its row is locked.
Admits(w, operation) ==
    \/ operation = "RELEASE" /\ order[w] = "DRAFT"
    \/ operation = "CANCEL" /\ order[w] \in {"DRAFT", "RELEASED"}
    \/ operation = "REVERSE_COMPLETION" /\ order[w] # "CLOSED"
    \/ operation \in {"ISSUE_MATERIALS", "RETURN_MATERIALS", "COMPLETE"} /\ Running(w)

\* A row that is not there cannot be locked.
Exists(lock) == lock[1] = "row" => balance[lock[2]].version > 0

-----------------------------------------------------------------------------

InitTransactions ==
    /\ Init
    /\ running = [s \in Sessions |-> None]
    /\ todo = [s \in Sessions |-> <<>>]
    /\ held = [s \in Sessions |-> {}]
    /\ read = [s \in Sessions |-> <<>>]

\* A client sends its request, again perhaps, or twice at the same time.
Begin(s, r) ==
    /\ Idle(s)
    /\ request[r] # None
    /\ running' = [running EXCEPT ![s] = r]
    /\ todo' = [todo EXCEPT ![s] = <<<<"key", r>>>> \o LocksOf(request[r])]
    /\ UNCHANGED <<vars, held, read>>

Waits(s, t) == t # s /\ todo[s] # <<>> /\ Head(todo[s]) \in held[t]

Grantable(s) == todo[s] # <<>> /\ \A t \in Sessions : ~Waits(s, t)

\* The end of a transaction releases all its locks.
End(s) ==
    /\ running' = [running EXCEPT ![s] = None]
    /\ todo' = [todo EXCEPT ![s] = <<>>]
    /\ held' = [held EXCEPT ![s] = {}]
    /\ read' = [read EXCEPT ![s] = <<>>]

\* The stored answer is sent again.
Replay(s) ==
    /\ Grantable(s)
    /\ Head(todo[s]) = <<"key", running[s]>>
    /\ running[s] \in keys
    /\ End(s)
    /\ UNCHANGED vars

\* The rows read so far and the row of p as it is now.
With(rows, p) ==
    [x \in DOMAIN rows \cup {p} |-> IF x = p THEN balance[p] ELSE rows[x]]

\* The next lock is taken, and a balance row read under its lock.
Acquire(s) ==
    LET lock == Head(todo[s]) IN
    /\ Grantable(s)
    /\ lock = <<"key", running[s]>> => running[s] \notin keys
    /\ lock[1] = "order" => Admits(lock[2], request[running[s]].operation)
    /\ todo' = [todo EXCEPT ![s] = Tail(@) \o Found(running[s], lock)]
    /\ held' = [held EXCEPT ![s] = IF Exists(lock) THEN @ \cup {lock} ELSE @]
    /\ read' = [read EXCEPT ![s] =
                  IF lock[1] = "row" THEN With(@, lock[2]) ELSE @]
    /\ UNCHANGED <<vars, running>>

\* All locks are held: the transaction writes and commits.
Commit(s) ==
    /\ ~Idle(s)
    /\ todo[s] = <<>>
    /\ Apply(running[s], read[s])
    /\ End(s)

\* Fault: the key was stored by a transaction of its own.
RollbackKeepingKey(s) ==
    /\ ~Idle(s)
    /\ keys' = keys \cup {running[s]}
    /\ End(s)
    /\ UNCHANGED <<balance, journal, request, order, hold, work>>

\* The request is refused, or the connection is lost.
Rollback(s) ==
    /\ ~Idle(s)
    /\ End(s)
    /\ UNCHANGED vars

\* The sessions of S wait for one another.
Cycle(S) ==
    /\ \A t \in S : \E u \in S : Waits(t, u)
    /\ \A t \in S : \E u \in S : Waits(u, t)

InCycle(s) == \E S \in SUBSET Sessions : s \in S /\ Cycle(S)

\* The deadlock detector picks s.
Deadlock(s) == InCycle(s) /\ Rollback(s)

\* Work of an order outside these requests changes it under the order's lock.
WorkBetween(w) ==
    /\ \A s \in Sessions : <<"order", w>> \notin held[s]
    /\ Work(w)

NextTransactions ==
    \/ \E s \in Sessions :
         \/ \E r \in Requests : Begin(s, r)
         \/ Replay(s) \/ Acquire(s) \/ Commit(s) \/ Rollback(s) \/ Deadlock(s)
    \/ /\ \/ \E r \in Requests : Write(r) \/ ExpireKey(r)
          \/ \E w \in Orders : WorkBetween(w)
       /\ UNCHANGED sessionVars

TransactionSpec == InitTransactions /\ [][NextTransactions]_allVars

-----------------------------------------------------------------------------
\* What a transaction read is still true when it writes: nobody changed a row
\* it read, and nobody made one it found missing.
ReadStaysTrue ==
    \A s \in Sessions : \A p \in DOMAIN read[s] : read[s][p] = balance[p]

\* Postings, reversals and releases take their locks in one order: whenever
\* sessions wait in a cycle, one of them issues materials or cancels an order,
\* the operations that lock balance rows before positions.
PostingsWaitInOrder ==
    \A S \in (SUBSET Sessions) \ {{}} :
      Cycle(S) =>
        \E s \in S : request[running[s]].operation \in {"ISSUE_MATERIALS", "CANCEL"}

\* The transactions together do what StockLedger does, one request at a time.
ImplementsLedger == Spec
=============================================================================
