--------------------------- MODULE JobQueueProofs ---------------------------
(***************************************************************************)
(* Theorems about the job queue, for any set of jobs, any number of        *)
(* attempts, any lease length and any batch limit.                         *)
(*                                                                         *)
(* The inductive invariant QueueInv says what a row looks like in each     *)
(* status: how its attempts relate to the tokens drawn, what its token is, *)
(* and what has been published for it.  The invariants of JobQueue follow. *)
(***************************************************************************)
EXTENDS JobQueue, FiniteSetTheorems, TLAPS

\* A row that has not reached the table has never been claimed, a running one
\* has.
ClaimsCounted ==
    \A j \in Jobs : /\ jobs[j].status = "NONE" => issued[j] = 0
                    /\ jobs[j].status = "RUNNING" => issued[j] > 0

\* A row reaches background_jobs only through the outbox.
RowsComeFromOutbox ==
    \A j \in Jobs : jobs[j].status # "NONE" =>
        outbox[j] \in {"PUBLISHED", "CANCELLED"}

\* The history of publications, row by row: the newest token and only it,
\* and only for a SUCCEEDED job.
PublishedByNewest ==
    \A j \in Jobs :
      published[j] = IF jobs[j].status = "SUCCEEDED" THEN {issued[j]} ELSE {}

BuriedOnce ==
    \A j \in Jobs : buried[j] = IF jobs[j].status = "DEAD" THEN 1 ELSE 0

QueueInv ==
    /\ TypeOK
    /\ ClaimsCounted
    /\ RowsComeFromOutbox
    /\ OnlyNewestLeaseIsValid
    /\ RetryBudget
    /\ OpenCompletionOwnsRow
    /\ PublishedByNewest
    /\ BuriedOnce

\* The delay after any attempt is a number of seconds (the table in Backoff
\* is never read outside its eight entries).
LEMMA BackoffIsNat == \A n \in Nat \ {0} : Backoff(n) \in Nat
BY DEF Backoff, BackoffSeconds

\* The initial database: no rows, no leases, nothing published.
LEMMA InitEstablishesQueueInv == Init => QueueInv
BY MaxAttemptsAssumption, LeaseAssumption
   DEF Init, QueueInv, TypeOK, ClaimsCounted, RowsComeFromOutbox,
       OnlyNewestLeaseIsValid, RetryBudget, OpenCompletionOwnsRow,
       PublishedByNewest, BuriedOnce, NoJob, NoToken, JobRow, JobStatus,
       OutboxStatus

\* Every way a row is rewritten yields a row of the table.
LEMMA RowsAreTyped ==
    ASSUME TypeOK, NEW j \in Jobs
    PROVE  /\ \A s \in JobStatus, d \in Nat : Unleased(j, s, d) \in JobRow
           /\ \A a \in 0..MaxAttempts, t \in Nat : Leased(a, t) \in JobRow
           /\ Aged(j) \in JobRow
<1>1. jobs[j] \in JobRow /\ 0 \in 0..Lease /\ Lease \in 0..Lease
  BY LeaseAssumption DEF TypeOK
<1>2. \A s \in JobStatus, d \in Nat : Unleased(j, s, d) \in JobRow
  BY <1>1 DEF Unleased, JobRow, NoToken
<1>3. \A a \in 0..MaxAttempts, t \in Nat : Leased(a, t) \in JobRow
  BY <1>1 DEF Leased, JobRow, JobStatus
<1>4. Aged(j) \in JobRow
  BY <1>1, LeaseAssumption DEF Aged, Countdown, JobRow
<1> QED
  BY <1>2, <1>3, <1>4

\* Dispatch touches only rows that do not exist yet.
LEMMA DispatchPreserves ==
    ASSUME QueueInv, NEW S \in SUBSET Jobs, DispatchOutbox(S)
    PROVE  QueueInv'
<1> USE DEF QueueInv, DispatchOutbox
<1>1. TypeOK'
  BY RowsAreTyped DEF TypeOK, JobStatus, OutboxStatus
<1>2. \A j \in Jobs : \/ jobs'[j] = jobs[j]
                      \/ /\ jobs[j].status = "NONE"
                         /\ jobs'[j] = Unleased(j, "QUEUED", 0)
  BY DEF TypeOK
<1> QED
  BY <1>1, <1>2, MaxAttemptsAssumption
     DEF TypeOK, ClaimsCounted, RowsComeFromOutbox, OnlyNewestLeaseIsValid,
         RetryBudget, Unleased, OpenCompletionOwnsRow, PublishedByNewest,
         BuriedOnce, NoToken

\* The steps of one job: each rewrites the row of j and leaves the others.
LEMMA EnqueuePreserves ==
    ASSUME QueueInv, NEW j \in Jobs, Enqueue(j)
    PROVE  QueueInv'
BY DEF QueueInv, Enqueue, TypeOK, OutboxStatus, ClaimsCounted,
       RowsComeFromOutbox, OnlyNewestLeaseIsValid, RetryBudget,
       OpenCompletionOwnsRow, PublishedByNewest, BuriedOnce

\* A claim counts one attempt and one token, and the token goes into the row.
LEMMA ClaimPreserves ==
    ASSUME QueueInv, NEW j \in Jobs, Claim(j)
    PROVE  QueueInv'
<1> USE DEF QueueInv, Claim, Available, Unlocked
<1>1. jobs[j].attempts + 1 \in 0..MaxAttempts /\ issued[j] + 1 \in Nat
  BY MaxAttemptsAssumption DEF TypeOK, RetryBudget, JobRow
<1>2. Leased(jobs[j].attempts + 1, issued[j] + 1) \in JobRow
  BY <1>1, RowsAreTyped
<1>3. TypeOK'
  BY <1>1, <1>2 DEF TypeOK
<1> QED
  BY <1>3 DEF TypeOK, ClaimsCounted, RowsComeFromOutbox,
              OnlyNewestLeaseIsValid, RetryBudget, Leased,
              OpenCompletionOwnsRow, PublishedByNewest, BuriedOnce, NoToken

\* A heartbeat gives the row a new lease under the same token.
LEMMA HeartbeatPreserves ==
    ASSUME QueueInv, NEW j \in Jobs, NEW t \in Nat, Heartbeat(j, t)
    PROVE  QueueInv'
<1> USE DEF QueueInv, Heartbeat, Active, Unlocked
<1>1. Leased(jobs[j].attempts, t) \in JobRow
  BY RowsAreTyped DEF TypeOK, JobRow
<1>2. TypeOK'
  BY <1>1 DEF TypeOK
<1> QED
  BY <1>2 DEF TypeOK, ClaimsCounted, RowsComeFromOutbox,
              OnlyNewestLeaseIsValid, RetryBudget, Leased,
              OpenCompletionOwnsRow, PublishedByNewest, BuriedOnce, NoToken

\* Locking the row of a completion changes no row.
LEMMA BeginCompletePreserves ==
    ASSUME QueueInv, NEW j \in Jobs, NEW t \in Nat, BeginComplete(j, t)
    PROVE  QueueInv'
BY DEF QueueInv, BeginComplete, Active, Unlocked, TypeOK, ClaimsCounted,
       RowsComeFromOutbox, OnlyNewestLeaseIsValid, RetryBudget,
       OpenCompletionOwnsRow, PublishedByNewest, BuriedOnce

\* A completion that is rolled back leaves only the lock released.
LEMMA RollbackCompletePreserves ==
    ASSUME QueueInv, NEW j \in Jobs, RollbackComplete(j)
    PROVE  QueueInv'
BY DEF QueueInv, RollbackComplete, TypeOK, ClaimsCounted, RowsComeFromOutbox,
       NoToken, OnlyNewestLeaseIsValid, RetryBudget, OpenCompletionOwnsRow,
       PublishedByNewest, BuriedOnce

\* The commit publishes under the token in the row, which is the newest one.
LEMMA CommitCompletePreserves ==
    ASSUME QueueInv, NEW j \in Jobs, NEW t \in Nat, CommitComplete(j, t)
    PROVE  QueueInv'
<1> USE DEF QueueInv, CommitComplete
<1>1. Unleased(j, "SUCCEEDED", 0) \in JobRow
  BY RowsAreTyped DEF JobStatus
<1>2. TypeOK'
  BY <1>1 DEF TypeOK, NoToken
<1>3. t = issued[j] /\ published[j] = {}
  BY DEF OnlyNewestLeaseIsValid, PublishedByNewest
<1>4. published[j] \cup {t} = {issued[j]}
  BY <1>3
<1>5. published' = [published EXCEPT ![j] = {issued[j]}]
  BY <1>4
<1>6. PublishedByNewest'
  BY <1>5 DEF TypeOK, PublishedByNewest, Unleased
<1>7. (ClaimsCounted /\ RowsComeFromOutbox /\ OnlyNewestLeaseIsValid
        /\ RetryBudget)'
  BY DEF TypeOK, ClaimsCounted, RowsComeFromOutbox, OnlyNewestLeaseIsValid,
         RetryBudget, Unleased
<1>8. (OpenCompletionOwnsRow /\ BuriedOnce)'
  BY DEF TypeOK, OpenCompletionOwnsRow, BuriedOnce, Unleased
<1> QED
  BY <1>2, <1>6, <1>7, <1>8

\* A failed or expired attempt leaves a row that is DEAD, or QUEUED with an
\* attempt left.
LEMMA AfterFailureRow ==
    ASSUME TypeOK, NEW j \in Jobs, NEW terminal \in BOOLEAN, NEW d \in Nat
    PROVE  /\ AfterFailure(j, terminal, d) \in JobRow
           /\ AfterFailure(j, terminal, d).status =
                 IF terminal THEN "DEAD" ELSE "QUEUED"
           /\ AfterFailure(j, terminal, d).attempts = jobs[j].attempts
           /\ AfterFailure(j, terminal, d).token = NoToken
<1>1. AfterFailure(j, terminal, d) \in JobRow
  BY RowsAreTyped DEF AfterFailure, JobStatus
<1> QED
  BY <1>1 DEF AfterFailure, Unleased

\* A failure queues the job again or buries it, by the attempts it has left.
LEMMA FailPreserves ==
    ASSUME QueueInv, NEW j \in Jobs, NEW t \in Nat, NEW force \in BOOLEAN,
           Fail(j, t, force)
    PROVE  QueueInv'
<1> DEFINE terminal == force \/ Exhausted(j)
           row == AfterFailure(j, terminal, Backoff(jobs[j].attempts))
<1> USE DEF QueueInv
<1>1. /\ jobs[j].status = "RUNNING"
      /\ lock[j] = NoToken
      /\ jobs' = [jobs EXCEPT ![j] = row]
      /\ buried' = [buried EXCEPT ![j] = IF terminal THEN @ + 1 ELSE @]
      /\ UNCHANGED <<outbox, issued, lock, published>>
  BY DEF Fail, Active, Unlocked
<1>2. jobs[j].attempts = issued[j] /\ jobs[j].attempts \in 1..MaxAttempts
  BY <1>1 DEF RetryBudget, TypeOK, JobRow, ClaimsCounted
<1>3. /\ terminal \in BOOLEAN
      /\ ~terminal => jobs[j].attempts < MaxAttempts
  BY <1>2, MaxAttemptsAssumption DEF Exhausted
<1>4. /\ row \in JobRow
      /\ row.status = IF terminal THEN "DEAD" ELSE "QUEUED"
      /\ row.attempts = jobs[j].attempts
      /\ row.token = NoToken
  <2>1. Backoff(jobs[j].attempts) \in Nat
    BY <1>2, BackoffIsNat
  <2> HIDE DEF terminal
  <2> QED
    BY <1>3, <2>1, AfterFailureRow
<1> HIDE DEF terminal, row
<1>5. TypeOK'
  BY <1>1, <1>4 DEF TypeOK
<1>6. (ClaimsCounted /\ RowsComeFromOutbox /\ OnlyNewestLeaseIsValid
        /\ RetryBudget)'
  BY <1>1, <1>2, <1>3, <1>4
     DEF TypeOK, ClaimsCounted, RowsComeFromOutbox, OnlyNewestLeaseIsValid,
         RetryBudget
<1>7. (OpenCompletionOwnsRow /\ PublishedByNewest)'
  BY <1>1, <1>4 DEF TypeOK, OpenCompletionOwnsRow, PublishedByNewest
<1>8. BuriedOnce'
  BY <1>1, <1>4 DEF TypeOK, BuriedOnce
<1> QED
  BY <1>5, <1>6, <1>7, <1>8

\* Recovery rewrites expired rows that nobody holds.
LEMMA RecoverExpiredPreserves ==
    ASSUME QueueInv, NEW S \in SUBSET Jobs, RecoverExpired(S)
    PROVE  QueueInv'
<1> DEFINE row(j) == AfterFailure(j, Exhausted(j), 0)
<1> USE DEF QueueInv
<1>1. /\ \A j \in S : jobs[j].status = "RUNNING" /\ lock[j] = NoToken
      /\ jobs' = [j \in Jobs |-> IF j \in S THEN row(j) ELSE jobs[j]]
      /\ buried' = [j \in Jobs |-> IF j \in S /\ Exhausted(j)
                                   THEN buried[j] + 1 ELSE buried[j]]
      /\ UNCHANGED <<outbox, issued, lock, published>>
  BY DEF RecoverExpired, Expired, Unlocked
<1>2. \A j \in Jobs : Exhausted(j) \in BOOLEAN
  BY DEF Exhausted
<1>3. \A j \in S : ~Exhausted(j) => jobs[j].attempts < MaxAttempts
  BY MaxAttemptsAssumption DEF Exhausted, TypeOK, JobRow
<1>4. \A j \in S : /\ row(j) \in JobRow
                   /\ row(j).status = IF Exhausted(j) THEN "DEAD" ELSE "QUEUED"
                   /\ row(j).attempts = jobs[j].attempts
                   /\ row(j).token = NoToken
  BY <1>2, AfterFailureRow
<1> HIDE DEF row
<1>5. TypeOK'
  BY <1>1, <1>4 DEF TypeOK
<1> QED
  BY <1>1, <1>3, <1>4, <1>5
     DEF TypeOK, ClaimsCounted, RowsComeFromOutbox, OnlyNewestLeaseIsValid,
         RetryBudget, OpenCompletionOwnsRow, PublishedByNewest, BuriedOnce,
         NoToken

\* Both cancellations touch the row only while no completion holds it.
LEMMA CancelPreserves ==
    ASSUME QueueInv, NEW j \in Jobs, CancelRunning(j) \/ CancelQueued(j)
    PROVE  QueueInv'
<1> USE DEF QueueInv
<1>1. /\ lock[j] = NoToken
      /\ \/ jobs' = [jobs EXCEPT ![j] = Unleased(j, "CANCELLED", 0)]
            /\ jobs[j].status \in {"QUEUED", "RUNNING"}
         \/ jobs' = jobs
      /\ UNCHANGED <<issued, lock, published, buried>>
  BY DEF CancelRunning, CancelQueued, Unlocked, TypeOK
<1>2. /\ outbox' \in [Jobs -> OutboxStatus]
      /\ \A k \in Jobs : outbox'[k] = outbox[k] \/ outbox'[k] = "CANCELLED"
  BY DEF CancelRunning, CancelQueued, TypeOK, OutboxStatus
<1>3. Unleased(j, "CANCELLED", 0) \in JobRow
  BY RowsAreTyped DEF JobStatus
<1>4. TypeOK'
  BY <1>1, <1>2, <1>3 DEF TypeOK
<1>5. (ClaimsCounted /\ RowsComeFromOutbox /\ OnlyNewestLeaseIsValid
        /\ RetryBudget)'
  BY <1>1, <1>2
     DEF TypeOK, ClaimsCounted, RowsComeFromOutbox, OnlyNewestLeaseIsValid,
         RetryBudget, Unleased
<1>6. (OpenCompletionOwnsRow /\ PublishedByNewest /\ BuriedOnce)'
  BY <1>1
     DEF TypeOK, OpenCompletionOwnsRow, PublishedByNewest, BuriedOnce, Unleased
<1> QED
  BY <1>4, <1>5, <1>6

\* Time shortens leases and waits and changes no status.
LEMMA TickPreserves ==
    ASSUME QueueInv, Tick
    PROVE  QueueInv'
<1> USE DEF QueueInv, Tick
<1>1. TypeOK'
  BY RowsAreTyped DEF TypeOK
<1> QED
  BY <1>1 DEF TypeOK, ClaimsCounted, RowsComeFromOutbox,
              OnlyNewestLeaseIsValid, RetryBudget, Aged, OpenCompletionOwnsRow,
              PublishedByNewest, BuriedOnce

\* Every step of the queue preserves the inductive invariant.
LEMMA StepPreservesQueueInv == QueueInv /\ [Next]_vars => QueueInv'
<1> SUFFICES ASSUME QueueInv, [Next]_vars
             PROVE  QueueInv'
  OBVIOUS
<1>1. CASE \E j \in Jobs : \/ Enqueue(j) \/ Claim(j) \/ RollbackComplete(j)
                           \/ CancelRunning(j) \/ CancelQueued(j)
  BY <1>1, EnqueuePreserves, ClaimPreserves, RollbackCompletePreserves,
     CancelPreserves
<1>2. CASE \E j \in Jobs : \E t \in 1..issued[j] :
             \/ Heartbeat(j, t) \/ BeginComplete(j, t) \/ CommitComplete(j, t)
             \/ \E force \in BOOLEAN : Fail(j, t, force)
  <2>1. \A j \in Jobs : 1..issued[j] \subseteq Nat
    BY DEF QueueInv, TypeOK
  <2> QED
    BY <1>2, <2>1, HeartbeatPreserves, BeginCompletePreserves,
       CommitCompletePreserves, FailPreserves
<1>3. CASE \E S \in SUBSET Jobs : DispatchOutbox(S) \/ RecoverExpired(S)
  BY <1>3, DispatchPreserves, RecoverExpiredPreserves
<1>4. CASE Tick
  BY <1>4, TickPreserves
<1>5. CASE UNCHANGED vars
  BY <1>5 DEF vars, QueueInv, TypeOK, ClaimsCounted, RowsComeFromOutbox,
              OnlyNewestLeaseIsValid, RetryBudget, OpenCompletionOwnsRow,
              PublishedByNewest, BuriedOnce
<1> QED
  BY <1>1, <1>2, <1>3, <1>4, <1>5 DEF Next

\* The inductive invariant holds in every reachable state of the queue: what
\* complete, fail and recoverExpired rely on when they compare lease tokens.
THEOREM QueueInvariant == Spec => []QueueInv
BY InitEstablishesQueueInv, StepPreservesQueueInv, PTL DEF Spec

-----------------------------------------------------------------------------
\* In every reachable state each table and each history has its type: in
\* particular attempt_count never passes max_attempts, the check constraint
\* of background_jobs.
THEOREM TypeCorrect == Spec => []TypeOK
<1>1. QueueInv => TypeOK
  BY DEF QueueInv
<1> QED
  BY <1>1, QueueInvariant, PTL

\* One valid lease per job (the newest), and a retry budget that is never
\* overrun, whatever stale workers do.
THEOREM LeaseSafety == Spec => [](OnlyNewestLeaseIsValid /\ RetryBudget)
<1>1. QueueInv => OnlyNewestLeaseIsValid /\ RetryBudget
  BY DEF QueueInv
<1> QED
  BY <1>1, QueueInvariant, PTL

\* While a completion is open its worker keeps the job, expired lease or not.
THEOREM CompletionSafety == Spec => []OpenCompletionOwnsRow
<1>1. QueueInv => OpenCompletionOwnsRow
  BY DEF QueueInv
<1> QED
  BY <1>1, QueueInvariant, PTL

\* The business outcome and the row of the job always agree, and the outcome
\* is published once.
THEOREM OutcomeSafety == Spec => []OutcomeMatchesRow
<1>1. QueueInv => OutcomeMatchesRow
  BY FS_EmptySet, FS_Singleton
     DEF QueueInv, PublishedByNewest, BuriedOnce, OutcomeMatchesRow
<1> QED
  BY <1>1, QueueInvariant, PTL

\* No result is ever published by a worker whose job has been claimed again.
THEOREM Fencing == Spec => FencedPublication
<1> DEFINE Fenced == \A j \in Jobs : published'[j] # published[j] =>
                        /\ published'[j] \ published[j] = {issued[j]}
                        /\ jobs[j].status = "RUNNING"
<1>1. QueueInv /\ [Next]_vars => [Fenced]_vars
  <2> SUFFICES ASSUME QueueInv, Next, NEW k \in Jobs,
                      published'[k] # published[k]
               PROVE  /\ published'[k] \ published[k] = {issued[k]}
                      /\ jobs[k].status = "RUNNING"
    BY Zenon DEF vars
  <2>1. PICK j \in Jobs : \E t \in 1..issued[j] : CommitComplete(j, t)
    BY DEF Next, Enqueue, Claim, RollbackComplete, CancelRunning, CancelQueued,
           Heartbeat, BeginComplete, Fail, DispatchOutbox, RecoverExpired, Tick
  <2> PICK t \in 1..issued[j] : CommitComplete(j, t)
    BY <2>1
  <2>2. k = j /\ jobs[k].status = "RUNNING" /\ t = issued[k] /\ published[k] = {}
    BY DEF CommitComplete, QueueInv, TypeOK, OnlyNewestLeaseIsValid,
           PublishedByNewest
  <2>3. published'[k] = {t}
    BY <2>2 DEF CommitComplete, QueueInv, TypeOK
  <2> QED
    BY <2>2, <2>3
<1> QED
  BY <1>1, QueueInvariant, PTL DEF Spec, FencedPublication

\* A job that has succeeded, died or been cancelled stays so.
THEOREM Finality == Spec => TerminalIsFinal
<1> DEFINE Final == \A j \in Jobs : jobs[j].status \in Terminal =>
                        jobs'[j].status = jobs[j].status
<1>1. QueueInv /\ [Next]_vars => [Final]_vars
  <2> SUFFICES ASSUME QueueInv, Next, NEW k \in Jobs,
                      jobs[k].status \in Terminal
               PROVE  jobs'[k].status = jobs[k].status
    BY Zenon DEF vars
  <2>1. CASE \E j \in Jobs : \/ Enqueue(j) \/ Claim(j) \/ RollbackComplete(j)
                             \/ CancelRunning(j) \/ CancelQueued(j)
    BY <2>1 DEF Enqueue, Claim, RollbackComplete, CancelRunning, CancelQueued,
                Available, QueueInv, TypeOK, Terminal
  <2>2. CASE \E j \in Jobs : \E t \in 1..issued[j] :
               \/ Heartbeat(j, t) \/ BeginComplete(j, t) \/ CommitComplete(j, t)
               \/ \E force \in BOOLEAN : Fail(j, t, force)
    BY <2>2 DEF Heartbeat, BeginComplete, CommitComplete, Fail, Active,
                QueueInv, TypeOK, Terminal
  <2>3. CASE \E S \in SUBSET Jobs : DispatchOutbox(S) \/ RecoverExpired(S)
    BY <2>3 DEF DispatchOutbox, RecoverExpired, Expired, Terminal
  <2>4. CASE Tick
    BY <2>4 DEF Tick, Aged
  <2> QED
    BY <2>1, <2>2, <2>3, <2>4 DEF Next
<1> QED
  BY <1>1, QueueInvariant, PTL DEF Spec, TerminalIsFinal

-----------------------------------------------------------------------------
\* The refinement of JobOutcome: what a step does to what clients observe.

o == [j \in Jobs |-> Outcome(j)]

e == [j \in Jobs |-> Cardinality(published[j])]

EffectsMatch == e = [j \in Jobs |-> IF o[j] = "SUCCEEDED" THEN 1 ELSE 0]

\* The effects counted in the published history are the successes.
LEMMA EffectsAreOutcomes == QueueInv => EffectsMatch
<1> SUFFICES ASSUME QueueInv, NEW j \in Jobs
             PROVE  e[j] = IF o[j] = "SUCCEEDED" THEN 1 ELSE 0
  BY DEF e, EffectsMatch
<1>1. o[j] = "SUCCEEDED" <=> jobs[j].status = "SUCCEEDED"
  BY DEF o, Outcome, Terminal
<1>2. Cardinality({}) = 0 /\ Cardinality({issued[j]}) = 1
  BY FS_EmptySet, FS_Singleton
<1> QED
  BY <1>1, <1>2 DEF QueueInv, PublishedByNewest, e

\* A step that touches the published history of no job leaves the effects.
LEMMA SameEffects == published' = published => e' = e
BY DEF e

\* Enqueue is the contract's Submit.
LEMMA SubmitStep ==
    ASSUME QueueInv, NEW j \in Jobs, Enqueue(j)
    PROVE  Contract!Submit(j)
<1>1. jobs[j].status = "NONE" /\ jobs' = jobs /\ published' = published
  BY DEF QueueInv, RowsComeFromOutbox, Enqueue
<1>2. o[j] = "NONE"
  BY <1>1 DEF Enqueue, o, Outcome, Terminal
<1>3. o' = [o EXCEPT ![j] = "WAITING"]
  BY <1>1 DEF Enqueue, o, Outcome, QueueInv, TypeOK, Terminal
<1> QED
  BY <1>1, <1>2, <1>3, SameEffects DEF Contract!Submit, o, e

\* Steps no client can see: o and e stay as they are.
LEMMA InternalStep ==
    ASSUME QueueInv, NEW j \in Jobs, NEW t \in Nat,
           \/ Claim(j) \/ RollbackComplete(j)
           \/ Heartbeat(j, t) \/ BeginComplete(j, t)
    PROVE  o' = o /\ e' = e
<1>1. published' = published /\ outbox' = outbox
  BY DEF Claim, RollbackComplete, Heartbeat, BeginComplete
<1>2. \A k \in Jobs : jobs'[k].status = jobs[k].status
                      \/ /\ jobs[k].status = "QUEUED"
                         /\ jobs'[k].status = "RUNNING"
  BY DEF Claim, RollbackComplete, Heartbeat, BeginComplete, Available, Active,
         Leased, QueueInv, TypeOK
<1>3. \A k \in Jobs : Outcome(k)' = Outcome(k)
  BY <1>1, <1>2 DEF Outcome, Terminal
<1> QED
  BY <1>1, <1>3, SameEffects DEF o

\* Dispatch and the passing of time are stutters of the contract.
LEMMA DispatchOrTickStep ==
    ASSUME QueueInv, NEW S \in SUBSET Jobs, DispatchOutbox(S) \/ Tick
    PROVE  o' = o /\ e' = e
<1>1. \A k \in Jobs : Outcome(k)' = Outcome(k)
  <2>1. CASE DispatchOutbox(S)
    BY <2>1 DEF DispatchOutbox, Outcome, Terminal, Unleased, QueueInv, TypeOK,
                RowsComeFromOutbox
  <2>2. CASE Tick
    BY <2>2 DEF Tick, Outcome, Aged
  <2> QED
    BY <2>1, <2>2
<1>2. published' = published
  BY DEF DispatchOutbox, Tick
<1> QED
  BY <1>1, <1>2, SameEffects DEF o

\* The commit of a completion is the one step that applies an effect.
LEMMA SucceedStep ==
    ASSUME QueueInv, QueueInv', NEW j \in Jobs, NEW t \in Nat,
           CommitComplete(j, t)
    PROVE  Contract!Succeed(j)
<1>1. jobs' = [jobs EXCEPT ![j] = Unleased(j, "SUCCEEDED", 0)]
      /\ outbox' = outbox /\ jobs[j].status = "RUNNING"
  BY DEF CommitComplete
<1>2. o[j] = "WAITING"
  BY <1>1 DEF o, Outcome, Terminal
<1>3. o' = [o EXCEPT ![j] = "SUCCEEDED"]
  BY <1>1 DEF o, Outcome, Terminal, Unleased, QueueInv, TypeOK
<1>4. e' = [e EXCEPT ![j] = @ + 1]
  <2>1. EffectsMatch /\ EffectsMatch'
    BY EffectsAreOutcomes, PTL
  <2>2. e = [k \in Jobs |-> IF o[k] = "SUCCEEDED" THEN 1 ELSE 0]
    BY <2>1 DEF EffectsMatch
  <2>3. \A k \in Jobs : o'[k] = IF k = j THEN "SUCCEEDED" ELSE o[k]
    BY <1>3 DEF o
  <2> QED
    BY <1>2, <2>1, <2>2, <2>3 DEF EffectsMatch
<1> QED
  BY <1>2, <1>3, <1>4 DEF Contract!Succeed, o, e

\* A cancellation is the contract's Cancel, or a stutter once it is settled.
LEMMA CancelStep ==
    ASSUME QueueInv, NEW j \in Jobs, CancelRunning(j) \/ CancelQueued(j)
    PROVE  Contract!Cancel(j) \/ (o' = o /\ e' = e)
<1>1. \A k \in Jobs \ {j} : Outcome(k)' = Outcome(k)
  BY DEF CancelRunning, CancelQueued, Outcome, QueueInv, TypeOK
<1>2. \/ Outcome(j)' = Outcome(j)
      \/ Outcome(j) = "WAITING" /\ Outcome(j)' = "CANCELLED"
  BY DEF CancelRunning, CancelQueued, Outcome, Terminal, Unleased, QueueInv,
         TypeOK
<1>3. e' = e
  BY SameEffects DEF CancelRunning, CancelQueued
<1>4. CASE Outcome(j)' = Outcome(j)
  BY <1>1, <1>3, <1>4 DEF o
<1>5. CASE Outcome(j) = "WAITING" /\ Outcome(j)' = "CANCELLED"
  <2>1. o[j] = "WAITING" /\ o' = [o EXCEPT ![j] = "CANCELLED"]
    BY <1>1, <1>5 DEF o
  <2> QED
    BY <1>3, <2>1 DEF Contract!Cancel, o, e
<1> QED
  BY <1>2, <1>4, <1>5

\* A failure and a recovery bury the jobs that have no attempt left.
LEMMA BuryStep ==
    ASSUME QueueInv, NEW S \in SUBSET Jobs, NEW D \in SUBSET S,
           \A j \in S : jobs[j].status = "RUNNING",
           \A j \in D : jobs'[j].status = "DEAD",
           \A j \in S \ D : jobs'[j].status = "QUEUED",
           \A j \in Jobs \ S : jobs'[j] = jobs[j],
           outbox' = outbox, published' = published
    PROVE  Contract!Bury(D)
<1>1. \A j \in D : o[j] = "WAITING"
  BY DEF o, Outcome, Terminal
<1>2. \A j \in D : Outcome(j)' = "DEAD"
  BY DEF Outcome, Terminal
<1>3. \A j \in S \ D : Outcome(j)' = Outcome(j)
  BY DEF Outcome, Terminal
<1>4. \A j \in Jobs \ S : Outcome(j)' = Outcome(j)
  BY DEF Outcome
<1>5. o' = [j \in Jobs |-> IF j \in D THEN "DEAD" ELSE o[j]]
  BY <1>2, <1>3, <1>4 DEF o
<1> QED
  BY <1>1, <1>5, SameEffects DEF Contract!Bury, o, e

\* A failure buries its job or is a stutter.
LEMMA FailStep ==
    ASSUME QueueInv, NEW j \in Jobs, NEW t \in Nat, NEW force \in BOOLEAN,
           Fail(j, t, force)
    PROVE  \E D \in SUBSET Jobs : Contract!Bury(D)
<1> DEFINE D == IF force \/ Exhausted(j) THEN {j} ELSE {}
<1>1. /\ jobs[j].status = "RUNNING"
      /\ outbox' = outbox /\ published' = published
      /\ \A k \in Jobs \ {j} : jobs'[k] = jobs[k]
      /\ jobs'[j].status = IF force \/ Exhausted(j) THEN "DEAD" ELSE "QUEUED"
  BY DEF Fail, Active, AfterFailure, Unleased, QueueInv, TypeOK
<1>2. \A k \in D : jobs'[k].status = "DEAD"
  BY <1>1
<1>3. \A k \in {j} \ D : jobs'[k].status = "QUEUED"
  BY <1>1
<1>4. D \in SUBSET {j} /\ {j} \in SUBSET Jobs
  OBVIOUS
<1> HIDE DEF D
<1>5. Contract!Bury(D)
  BY <1>1, <1>2, <1>3, <1>4, BuryStep
<1> QED
  BY <1>4, <1>5

\* A recovery buries the exhausted jobs among those it takes up.
LEMMA RecoverStep ==
    ASSUME QueueInv, NEW S \in SUBSET Jobs, RecoverExpired(S)
    PROVE  \E D \in SUBSET Jobs : Contract!Bury(D)
<1> DEFINE D == {j \in S : Exhausted(j)}
<1>1. /\ \A j \in S : jobs[j].status = "RUNNING"
      /\ outbox' = outbox /\ published' = published
      /\ \A k \in Jobs \ S : jobs'[k] = jobs[k]
  BY DEF RecoverExpired, Expired
<1>2. \A j \in D : jobs'[j].status = "DEAD"
  BY DEF RecoverExpired, AfterFailure, Unleased
<1>3. \A j \in S \ D : jobs'[j].status = "QUEUED"
  BY DEF RecoverExpired, AfterFailure, Unleased
<1>4. D \in SUBSET S /\ D \in SUBSET Jobs
  OBVIOUS
<1> HIDE DEF D
<1>5. Contract!Bury(D)
  BY <1>1, <1>2, <1>3, <1>4, BuryStep
<1> QED
  BY <1>4, <1>5

\* Every step of the queue is a step of the contract or invisible in it.
LEMMA StepRefines ==
    QueueInv /\ QueueInv' /\ [Next]_vars => [Contract!Next]_<<o, e>>
<1> SUFFICES ASSUME QueueInv, QueueInv', [Next]_vars
             PROVE  Contract!Next \/ (o' = o /\ e' = e)
  BY DEF o, e
<1>1. CASE \E j \in Jobs : \/ Enqueue(j) \/ Claim(j) \/ RollbackComplete(j)
                           \/ CancelRunning(j) \/ CancelQueued(j)
  <2> PICK j \in Jobs : \/ Enqueue(j) \/ Claim(j) \/ RollbackComplete(j)
                        \/ CancelRunning(j) \/ CancelQueued(j)
    BY <1>1
  <2>1. CASE Enqueue(j)
    BY <2>1, SubmitStep DEF Contract!Next
  <2>2. CASE Claim(j) \/ RollbackComplete(j)
    <3>1. 0 \in Nat
      OBVIOUS
    <3> QED
      BY <2>2, <3>1, InternalStep
  <2>3. CASE CancelRunning(j) \/ CancelQueued(j)
    BY <2>3, CancelStep DEF Contract!Next
  <2> QED
    BY <2>1, <2>2, <2>3
<1>2. CASE \E j \in Jobs : \E t \in 1..issued[j] :
             \/ Heartbeat(j, t) \/ BeginComplete(j, t) \/ CommitComplete(j, t)
             \/ \E force \in BOOLEAN : Fail(j, t, force)
  <2>1. PICK j \in Jobs : \E t \in 1..issued[j] :
             \/ Heartbeat(j, t) \/ BeginComplete(j, t) \/ CommitComplete(j, t)
             \/ \E force \in BOOLEAN : Fail(j, t, force)
    BY <1>2
  <2>2. PICK t \in 1..issued[j] :
             \/ Heartbeat(j, t) \/ BeginComplete(j, t) \/ CommitComplete(j, t)
             \/ \E force \in BOOLEAN : Fail(j, t, force)
    BY <2>1
  <2>3. t \in Nat
    BY DEF QueueInv, TypeOK
  <2>4. CASE Heartbeat(j, t) \/ BeginComplete(j, t)
    BY <2>3, <2>4, InternalStep
  <2>5. CASE CommitComplete(j, t)
    BY <2>3, <2>5, SucceedStep DEF Contract!Next
  <2>6. CASE \E force \in BOOLEAN : Fail(j, t, force)
    BY <2>3, <2>6, FailStep DEF Contract!Next
  <2> QED
    BY <2>2, <2>4, <2>5, <2>6
<1>3. CASE \E S \in SUBSET Jobs : DispatchOutbox(S) \/ RecoverExpired(S)
  BY <1>3, DispatchOrTickStep, RecoverStep DEF Contract!Next
<1>4. CASE Tick
  BY <1>4, DispatchOrTickStep
<1>5. CASE UNCHANGED vars
  BY <1>5 DEF vars, o, e, Outcome
<1> QED
  BY <1>1, <1>2, <1>3, <1>4, <1>5 DEF Next

\* The queue implements the contract of JobOutcome: one outcome per job, and
\* exactly one business effect, at the moment the outcome becomes SUCCEEDED.
THEOREM Refinement == Spec => ImplementsContract
<1>1. Init => Contract!Init
  BY FS_EmptySet DEF Init, Contract!Init, Outcome, Terminal, NoJob
<1>2. QueueInv /\ QueueInv' /\ [Next]_vars => [Contract!Next]_Contract!vars
  BY StepRefines DEF Contract!vars, o, e
<1> QED
  BY <1>1, <1>2, QueueInvariant, PTL DEF Spec, ImplementsContract, Contract!Spec

=============================================================================
