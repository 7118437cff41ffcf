-------------------------- MODULE NormalizationProofs --------------------------
(***************************************************************************)
(* What NormalizationJobs promises of runs, batch and jobs, for any number *)
(* of runs, retries, workers, attempts and crashes.                        *)
(*                                                                         *)
(* As in ParseJobsProofs every step is a step of the queue, because a      *)
(* worker presents a token drawn for its job.  The jobs of a run follow    *)
(* one another (JobsInTurn): before the latest all have ended, after it    *)
(* none exists, so a job that is not over is the latest of its run, and    *)
(* what a worker does to a run under the lock of its job it does to the    *)
(* run that job is for.  A worker that has seen its run settled is right   *)
(* for as long as its job is the latest (SettlersAreRight).                *)
(***************************************************************************)
EXTENDS NormalizationJobs, FiniteSetTheorems, TLAPS

QP == INSTANCE JobQueueProofs

AtWork == Steps \ {"poll"}

\* A worker at work has a job and a token that was drawn for it, and no other
\* worker has that token.
WorkersHold ==
    \A w \in Workers : pc[w] \in AtWork =>
        held[w] \in Jobs /\ token[w] \in 1..issued[held[w]]

TokensDiffer ==
    \A w, v \in Workers :
      pc[w] \in AtWork /\ pc[v] \in AtWork /\ w # v /\ held[w] = held[v]
        => token[w] # token[v]

\* Who is in its commit has the row of its job locked.
CommitterHasLock ==
    \A w \in Workers : pc[w] \in {"commit", "settling"} => lock[held[w]] = token[w]

WorkerPart == WorkersHold /\ TokensDiffer /\ CommitterHasLock

\* The runs of the batch, without counting them.
OneActiveRun ==
    \A r, s \in Runs : status[r] \in Active /\ status[s] \in Active => r = s

BatchIsBusy ==
    /\ batch \in Busy <=> \E r \in Runs : status[r] \in Active
    /\ batch = "QUEUED_FOR_NORMALIZATION" <=> \E r \in Runs : status[r] = "QUEUED"

\* Before the latest job of a run all have ended, after it none exists; a run
\* that was not created has none, one that failed has a dead one.
JobsInTurn ==
    \A r \in Runs :
      /\ \A k \in 0..(retries[r] - 1) : jobs[<<r, k>>].status \in Q!Terminal
      /\ \A k \in (retries[r] + 1)..MaxRetries : outbox[<<r, k>>] = "NONE"
      /\ status[r] = "NONE" => outbox[JobOf(r)] = "NONE"
      /\ status[r] = "FAILED" => jobs[JobOf(r)].status = "DEAD"

\* The latest job of an active run can still be worked on.
LatestIsLive ==
    \A r \in Runs : status[r] \in Active =>
      /\ outbox[JobOf(r)] \in {"PENDING", "PUBLISHED"}
      /\ jobs[JobOf(r)].status \in {"NONE", "QUEUED", "RUNNING"}

\* What a worker has seen of its run is true for as long as its job is the
\* latest.
IsRight(w) ==
    held[w] = JobOf(Run(w)) =>
      /\ pc[w] \in {"settle", "settling"} => status[Run(w)] \in Settled
      /\ pc[w] = "cancel" => status[Run(w)] \in Settled \cup {"CANCEL_REQUESTED"}

SettlersAreRight == \A w \in Workers : pc[w] \in AtWork => IsRight(w)

RunPart ==
    /\ OneActiveRun /\ BatchIsBusy /\ CurrentRunIsTheOnlySuccess
    /\ JobsInTurn /\ LatestIsLive

\* The inductive invariant.
IInv == TypeOK /\ QP!QueueInv /\ WorkerPart /\ RunPart /\ SettlersAreRight

-----------------------------------------------------------------------------
(* The queue of NormalizationJobs is the queue the theorems of             *)
(* JobQueueProofs are about.                                               *)

\* The insert of the outbox row: the two instances agree.
LEMMA SameEnqueue == ASSUME NEW j PROVE Q!Enqueue(j) <=> QP!Enqueue(j)
  BY DEF Q!Enqueue, QP!Enqueue

\* claim: the two instances agree.
LEMMA SameClaim == ASSUME NEW j PROVE Q!Claim(j) <=> QP!Claim(j)
  BY DEF Q!Claim, QP!Claim, Q!Available, QP!Available, Q!Unlocked,
       QP!Unlocked, Q!Leased, QP!Leased, Q!NoToken, QP!NoToken

\* The rollback of complete: the two instances agree.
LEMMA SameRollbackComplete ==
  ASSUME NEW j
  PROVE Q!RollbackComplete(j) <=> QP!RollbackComplete(j)
  BY DEF Q!RollbackComplete, QP!RollbackComplete, Q!NoToken, QP!NoToken

\* cancelBatch: the two instances agree.
LEMMA SameCancelRunning == ASSUME NEW j PROVE Q!CancelRunning(j) <=> QP!CancelRunning(j)
  BY DEF Q!CancelRunning, QP!CancelRunning, Q!Unlocked, QP!Unlocked,
       Q!Unleased, QP!Unleased, Q!NoToken, QP!NoToken

\* The cancellation of a waiting run: the two instances agree.
LEMMA SameCancelQueued == ASSUME NEW j PROVE Q!CancelQueued(j) <=> QP!CancelQueued(j)
  BY DEF Q!CancelQueued, QP!CancelQueued, Q!Unlocked, QP!Unlocked, Q!Unleased,
       QP!Unleased, Q!NoToken, QP!NoToken

\* heartbeat: the two instances agree.
LEMMA SameHeartbeat == ASSUME NEW j, NEW t PROVE Q!Heartbeat(j, t) <=> QP!Heartbeat(j, t)
  BY DEF Q!Heartbeat, QP!Heartbeat, Q!Unlocked, QP!Unlocked, Q!Active,
       QP!Active, Q!Leased, QP!Leased, Q!NoToken, QP!NoToken

\* The row lock of complete: the two instances agree.
LEMMA SameBeginComplete ==
  ASSUME NEW j, NEW t
  PROVE Q!BeginComplete(j, t) <=> QP!BeginComplete(j, t)
  BY DEF Q!BeginComplete, QP!BeginComplete, Q!Unlocked, QP!Unlocked, Q!Active,
       QP!Active, Q!NoToken, QP!NoToken

\* The commit of complete: the two instances agree.
LEMMA SameCommitComplete ==
  ASSUME NEW j, NEW t
  PROVE Q!CommitComplete(j, t) <=> QP!CommitComplete(j, t)
  BY DEF Q!CommitComplete, QP!CommitComplete, Q!Unleased, QP!Unleased,
       Q!NoToken, QP!NoToken

\* fail: the two instances agree.
LEMMA SameFail == ASSUME NEW j, NEW t, NEW f PROVE Q!Fail(j, t, f) <=> QP!Fail(j, t, f)
  BY DEF Q!Fail, QP!Fail, Q!Unlocked, QP!Unlocked, Q!Active, QP!Active,
       Q!Exhausted, QP!Exhausted, Q!AfterFailure, QP!AfterFailure, Q!Unleased,
       QP!Unleased, Q!NoToken, QP!NoToken, Q!Backoff, QP!Backoff,
       Q!BackoffSeconds, QP!BackoffSeconds

\* dispatchOutbox: the two instances agree.
LEMMA SameDispatchOutbox == ASSUME NEW S PROVE Q!DispatchOutbox(S) <=> QP!DispatchOutbox(S)
  BY DEF Q!DispatchOutbox, QP!DispatchOutbox, Q!Cardinality, QP!Cardinality,
       Q!Unleased, QP!Unleased, Q!NoToken, QP!NoToken

\* recoverExpired: the two instances agree.
LEMMA SameRecoverExpired == ASSUME NEW S PROVE Q!RecoverExpired(S) <=> QP!RecoverExpired(S)
  BY DEF Q!RecoverExpired, QP!RecoverExpired, Q!Cardinality, QP!Cardinality,
       Q!Expired, QP!Expired, Q!Unlocked, QP!Unlocked, Q!Exhausted,
       QP!Exhausted, Q!AfterFailure, QP!AfterFailure, Q!Unleased, QP!Unleased,
       Q!NoToken, QP!NoToken

\* The clock: the two instances agree.
LEMMA SameTick == Q!Tick <=> QP!Tick
  BY DEF Q!Tick, QP!Tick, Q!Aged, QP!Aged, Q!Countdown, QP!Countdown

\* So every step of the queue keeps what JobQueueProofs proves of it.
LEMMA QueueStep == ASSUME QP!QueueInv, [Q!Next]_(Q!vars) PROVE QP!QueueInv'
<1>1. [QP!Next]_(QP!vars)
  BY SameEnqueue, SameClaim, SameRollbackComplete, SameCancelRunning,
     SameCancelQueued, SameHeartbeat, SameBeginComplete, SameCommitComplete,
     SameFail, SameDispatchOutbox, SameRecoverExpired, SameTick DEF Q!Next,
     QP!Next, Q!vars, QP!vars
<1>2. QED
  BY <1>1, QP!StepPreservesQueueInv, BoundsAssumption
     DEF QP!StepPreservesQueueInv, QP!MaxAttemptsAssumption, QP!LeaseAssumption,
         QP!BatchLimitAssumption

\* What the runs need to know of a row of the queue.
LEMMA QueueFacts ==
  ASSUME QP!QueueInv
  PROVE  /\ Q!TypeOK
         /\ \A j \in Jobs : /\ jobs[j].status = "RUNNING" => jobs[j].token = issued[j]
                            /\ lock[j] # 0 => jobs[j].status = "RUNNING"
                            /\ lock[j] # 0 => lock[j] = jobs[j].token
                            /\ jobs[j].status = "NONE" => issued[j] = 0
                            /\ jobs[j].status # "NONE" =>
                                 outbox[j] \in {"PUBLISHED", "CANCELLED"}
<1>1. Q!TypeOK
  <2>1. QP!TypeOK
    BY DEF QP!QueueInv
  <2>2. QED
    BY <2>1 DEF QP!TypeOK, Q!TypeOK, Q!OutboxStatus, QP!OutboxStatus, Q!JobRow,
       QP!JobRow, Q!JobStatus, QP!JobStatus
<1>2. /\ QP!OnlyNewestLeaseIsValid /\ QP!OpenCompletionOwnsRow
      /\ QP!RowsComeFromOutbox /\ QP!ClaimsCounted
  BY DEF QP!QueueInv
<1>3. QED
  BY <1>1, <1>2 DEF QP!OnlyNewestLeaseIsValid, QP!OpenCompletionOwnsRow,
     QP!RowsComeFromOutbox, QP!ClaimsCounted, QP!NoToken

-----------------------------------------------------------------------------
(* What each operation of the queue does to the status of its rows.        *)

\* claim.
LEMMA ClaimEffect ==
  ASSUME Q!TypeOK, NEW j \in Jobs, Q!Claim(j)
  PROVE  /\ jobs[j].status = "QUEUED"
         /\ issued' = [issued EXCEPT ![j] = issued[j] + 1]
         /\ \A k \in Jobs : jobs'[k].status = IF k = j THEN "RUNNING" ELSE jobs[k].status
         /\ UNCHANGED <<outbox, lock>>
  BY DEF Q!TypeOK, Q!Claim, Q!Available, Q!Leased

\* heartbeat.
LEMMA HeartbeatEffect ==
  ASSUME Q!TypeOK, NEW j \in Jobs, NEW t, Q!Heartbeat(j, t)
  PROVE  /\ \A k \in Jobs : jobs'[k].status = jobs[k].status
         /\ UNCHANGED <<outbox, lock, issued>>
  BY DEF Q!TypeOK, Q!Heartbeat, Q!Active, Q!Leased

\* The clock.
LEMMA TickEffect ==
  ASSUME Q!Tick
  PROVE  /\ \A k \in Jobs : jobs'[k].status = jobs[k].status
         /\ UNCHANGED <<outbox, lock, issued>>
  BY DEF Q!Tick, Q!Aged

\* The commit of complete.
LEMMA CommitEffect ==
  ASSUME Q!TypeOK, NEW j \in Jobs, NEW t, Q!CommitComplete(j, t)
  PROVE  /\ jobs[j].status = "RUNNING"
         /\ \A k \in Jobs : jobs'[k].status = IF k = j THEN "SUCCEEDED" ELSE jobs[k].status
         /\ lock' = [lock EXCEPT ![j] = 0]
         /\ UNCHANGED <<outbox, issued>>
  BY DEF Q!TypeOK, Q!CommitComplete, Q!Unleased, Q!NoToken

\* fail, after the error the worker caught.
LEMMA FailEffect ==
  ASSUME Q!TypeOK, NEW w \in Workers, held[w] \in Jobs,
         Q!Fail(held[w], token[w], fault[w] # "RETRYABLE")
  PROVE  /\ jobs[held[w]].status = "RUNNING"
         /\ \A k \in Jobs : jobs'[k].status =
                              IF k # held[w] THEN jobs[k].status
                              ELSE IF fault[w] # "RETRYABLE" \/ Q!Exhausted(held[w])
                                   THEN "DEAD" ELSE "QUEUED"
         /\ UNCHANGED <<outbox, lock, issued>>
<1> DEFINE j == held[w]
<1>1. /\ jobs[j].status = "RUNNING"
      /\ UNCHANGED <<outbox, lock, issued>>
  BY DEF Q!Fail, Q!Active
<1>2. CASE fault[w] # "RETRYABLE" \/ Q!Exhausted(j)
  <2>1. jobs' = [jobs EXCEPT ![j] = Q!Unleased(j, "DEAD", 0)]
    BY <1>2 DEF Q!Fail, Q!AfterFailure
  <2>2. QED
    BY <1>1, <1>2, <2>1 DEF Q!TypeOK, Q!Unleased
<1>3. CASE ~(fault[w] # "RETRYABLE" \/ Q!Exhausted(j))
  <2>1. jobs' = [jobs EXCEPT ![j] = Q!Unleased(j, "QUEUED", Q!Backoff(jobs[j].attempts))]
    BY <1>3 DEF Q!Fail, Q!AfterFailure
  <2>2. QED
    BY <1>1, <1>3, <2>1 DEF Q!TypeOK, Q!Unleased
<1>4. QED
  BY <1>2, <1>3

\* recoverExpired.
LEMMA RecoverEffect ==
  ASSUME NEW S \in SUBSET Jobs, Q!RecoverExpired(S)
  PROVE  /\ \A k \in S : jobs[k].status = "RUNNING"
         /\ \A k \in Jobs : jobs'[k].status =
                              IF k \notin S THEN jobs[k].status
                              ELSE IF Q!Exhausted(k) THEN "DEAD" ELSE "QUEUED"
         /\ UNCHANGED <<outbox, lock, issued>>
  BY DEF Q!RecoverExpired, Q!Expired, Q!AfterFailure, Q!Unleased

\* dispatchOutbox.
LEMMA DispatchEffect ==
  ASSUME NEW S \in SUBSET Jobs, Q!DispatchOutbox(S)
  PROVE  /\ \A k \in S : outbox[k] = "PENDING"
         /\ \A k \in Jobs : outbox'[k] = IF k \in S THEN "PUBLISHED" ELSE outbox[k]
         /\ \A k \in Jobs : jobs'[k].status =
                              IF k \in S /\ jobs[k].status = "NONE"
                              THEN "QUEUED" ELSE jobs[k].status
         /\ UNCHANGED <<lock, issued>>
  BY DEF Q!DispatchOutbox, Q!Unleased

\* The cancellation of a waiting run.
LEMMA CancelEffect ==
  ASSUME Q!TypeOK, NEW j \in Jobs, Q!CancelQueued(j)
  PROVE  /\ \A k \in Jobs : outbox'[k] =
                              IF k = j /\ outbox[k] = "PENDING"
                              THEN "CANCELLED" ELSE outbox[k]
         /\ \A k \in Jobs : jobs'[k].status =
                              IF k = j /\ jobs[k].status = "QUEUED"
                              THEN "CANCELLED" ELSE jobs[k].status
         /\ UNCHANGED <<lock, issued>>
  BY DEF Q!TypeOK, Q!CancelQueued, Q!Unleased

-----------------------------------------------------------------------------
(* Every step is a step of the queue.                                      *)

\* The jobs of a run.
LEMMA JobsOfRuns ==
  ASSUME TypeOK, NEW r \in Runs
  PROVE  /\ JobOf(r) \in Jobs /\ JobOf(r)[1] = r
         /\ \A k \in 0..MaxRetries : <<r, k>> \in Jobs
         /\ retries[r] \in 0..MaxRetries
  BY DEF TypeOK, JobOf, Jobs

\* The steps of the service.
LEMMA ServiceIsQueueStep ==
  ASSUME TypeOK, NEW r \in Runs,
         Create(r) \/ Retry(r) \/ CancelWaiting(r) \/ RequestCancel(r)
  PROVE  [Q!Next]_(Q!vars)
<1>1. CASE Create(r)
  BY <1>1, JobsOfRuns DEF Create, Q!Next
<1>2. CASE Retry(r)
  <2>1. <<r, retries[r] + 1>> \in Jobs
    BY <1>2, BoundsAssumption DEF Retry, Jobs, TypeOK
  <2>2. QED
    BY <1>2, <2>1 DEF Retry, Q!Next
<1>3. CASE CancelWaiting(r)
  BY <1>3, JobsOfRuns DEF CancelWaiting, Q!Next
<1>4. CASE RequestCancel(r)
  BY <1>4 DEF RequestCancel, queueVars, Q!vars
<1>5. QED
  BY <1>1, <1>2, <1>3, <1>4

\* The steps of a worker.
LEMMA WorkerIsQueueStep ==
  ASSUME WorkersHold, NEW w \in Workers,
         \/ Recover(w) \/ Dispatch(w) \/ ClaimJob(w)
         \/ WorkerStep(w) \/ Heartbeat(w) \/ Crash(w)
  PROVE  [Q!Next]_(Q!vars)
<1>1. pc[w] \in AtWork => held[w] \in Jobs /\ token[w] \in 1..issued[held[w]]
  BY DEF WorkersHold
<1>2. CASE Recover(w)
  BY <1>2 DEF Recover, Q!Next
<1>3. CASE Dispatch(w)
  BY <1>3 DEF Dispatch, Q!Next
<1>4. CASE ClaimJob(w)
  BY <1>4 DEF ClaimJob, Q!Next
<1>5. CASE Heartbeat(w)
  BY <1>1, <1>5 DEF Heartbeat, AtWork, Steps, Q!Next
<1>6. CASE Crash(w)
  BY <1>1, <1>6 DEF Crash, AtWork, Steps, queueVars, Q!vars, Q!Next
<1>7. CASE VerifyJobLease(w) \/ CancelAtCheckpoint(w) \/ PrepareThrows(w)
  BY <1>7 DEF VerifyJobLease, CancelAtCheckpoint, PrepareThrows, queueVars, Q!vars
<1>8. CASE TakeRun(w)
  BY <1>8 DEF TakeRun, queueVars, Q!vars
<1>9. CASE Stage(w) \/ VerifyStaged(w)
  BY <1>9 DEF Stage, VerifyStaged, Checkpoint, queueVars, Q!vars
<1>10. CASE BeginComplete(w)
  BY <1>1, <1>10 DEF BeginComplete, AtWork, Steps, queueVars, Q!vars, Q!Next
<1>11. CASE Publish(w)
  BY <1>1, <1>11 DEF Publish, AtWork, Steps, Q!Next
<1>12. CASE SettleJob(w)
  BY <1>1, <1>12 DEF SettleJob, AtWork, Steps, Q!Next
<1>13. CASE PublishThrows(w)
  BY <1>1, <1>13 DEF PublishThrows, AtWork, Steps, Q!Next
<1>14. CASE Fail(w)
  <2>1. CASE UNCHANGED queueVars
    BY <2>1 DEF queueVars, Q!vars
  <2>2. CASE Q!Fail(held[w], token[w], fault[w] # "RETRYABLE")
    BY <1>1, <1>14, <2>2 DEF Fail, AtWork, Steps, Q!Next
  <2>3. QED
    BY <1>14, <2>1, <2>2 DEF Fail
<1>15. QED
  BY <1>2, <1>3, <1>4, <1>5, <1>6, <1>7, <1>8, <1>9, <1>10, <1>11, <1>12,
     <1>13, <1>14 DEF WorkerStep

\* Together: what the theorem on refinement needs, and the invariant too.
LEMMA StepIsQueueStep ==
  ASSUME TypeOK, WorkersHold, [Next]_vars
  PROVE  [Q!Next]_(Q!vars)
<1>1. CASE UNCHANGED vars
  BY <1>1 DEF vars, queueVars, Q!vars
<1>2. CASE Tick
  BY <1>2 DEF Tick, Q!Next
<1>3. QED
  BY <1>1, <1>2, ServiceIsQueueStep, WorkerIsQueueStep DEF Next

-----------------------------------------------------------------------------
(* The workers.                                                            *)

\* A worker goes from one step of its job to another and does not enter its
\* commit.
LEMMA QuietMove ==
  ASSUME TypeOK, WorkerPart, NEW w \in Workers,
         NEW s \in Steps \ {"commit", "settling"}, pc[w] \in AtWork,
         pc' = [pc EXCEPT ![w] = s], UNCHANGED <<held, token, issued>>,
         \/ UNCHANGED lock
         \/ pc[w] \in {"commit", "settling"} /\ lock' = [lock EXCEPT ![held[w]] = 0]
  PROVE  WorkerPart'
<1> USE DEF WorkerPart, TypeOK
<1>1. WorkersHold'
  BY DEF WorkersHold, AtWork, Steps
<1>2. TokensDiffer'
  BY DEF TokensDiffer, AtWork, Steps
<1>3. CommitterHasLock'
  BY DEF WorkersHold, TokensDiffer, CommitterHasLock, AtWork, Steps, Q!TypeOK
<1>4. QED
  BY <1>1, <1>2, <1>3

\* A worker lets its job go.
LEMMA LetGo ==
  ASSUME TypeOK, WorkerPart, NEW w \in Workers, Poll(w), UNCHANGED issued,
         \/ UNCHANGED lock
         \/ pc[w] \in {"commit", "settling"} /\ lock' = [lock EXCEPT ![held[w]] = 0]
  PROVE  WorkerPart'
<1> USE DEF WorkerPart, TypeOK, Poll
<1>1. WorkersHold'
  BY DEF WorkersHold, AtWork, Steps
<1>2. TokensDiffer'
  BY DEF TokensDiffer, AtWork, Steps
<1>3. CommitterHasLock'
  BY DEF WorkersHold, TokensDiffer, CommitterHasLock, AtWork, Steps, Q!TypeOK
<1>4. QED
  BY <1>1, <1>2, <1>3

\* What the steps that concern no worker leave alone.
LEMMA WorkersStay ==
  ASSUME WorkerPart, UNCHANGED <<pc, held, token, issued, lock>>
  PROVE  WorkerPart'
  BY DEF WorkerPart, WorkersHold, TokensDiffer, CommitterHasLock

\* A claim gives its worker a token nobody has.
LEMMA ClaimKeepsWorkers ==
  ASSUME TypeOK, WorkerPart, NEW w \in Workers, ClaimJob(w)
  PROVE  WorkerPart'
<1>1. PICK j \in Jobs : /\ Q!Claim(j)
                        /\ held' = [held EXCEPT ![w] = j]
                        /\ token' = [token EXCEPT ![w] = issued'[j]]
  BY DEF ClaimJob
<1>2. /\ issued' = [issued EXCEPT ![j] = issued[j] + 1]
      /\ UNCHANGED lock
  BY <1>1, ClaimEffect DEF TypeOK
<1>3. issued \in [Jobs -> Nat]
  BY DEF TypeOK, Q!TypeOK
<1>4. WorkersHold'
  BY <1>1, <1>2, <1>3 DEF ClaimJob, WorkerPart, WorkersHold, TypeOK, AtWork
<1>5. TokensDiffer'
  BY <1>1, <1>2, <1>3
     DEF ClaimJob, WorkerPart, WorkersHold, TokensDiffer, TypeOK, AtWork
<1>6. CommitterHasLock'
  BY <1>1, <1>2 DEF ClaimJob, WorkerPart, CommitterHasLock, TypeOK
<1>7. QED
  BY <1>4, <1>5, <1>6 DEF WorkerPart

\* Who enters its commit locks a row that nobody had locked.
LEMMA BeginCompleteKeepsWorkers ==
  ASSUME TypeOK, WorkerPart, NEW w \in Workers, BeginComplete(w)
  PROVE  WorkerPart'
<1>1. CASE /\ Q!BeginComplete(held[w], token[w])
           /\ Goto(w, IF pc[w] = "complete" THEN "commit" ELSE "settling")
  <2>1. /\ lock[held[w]] = 0
        /\ lock' = [lock EXCEPT ![held[w]] = token[w]]
        /\ UNCHANGED <<issued, held, token>>
    BY <1>1 DEF Goto, Q!BeginComplete, Q!Unlocked, Q!NoToken
  <2>2. PICK s \in {"commit", "settling"} : pc' = [pc EXCEPT ![w] = s]
    BY <1>1 DEF Goto
  <2>3. WorkersHold' /\ TokensDiffer'
    BY <2>1, <2>2 DEF BeginComplete, WorkerPart, WorkersHold, TokensDiffer,
       TypeOK, AtWork, Steps
  <2>4. CommitterHasLock'
    BY <2>1, <2>2 DEF BeginComplete, WorkerPart, WorkersHold, CommitterHasLock,
       TypeOK, Q!TypeOK, AtWork, Steps
  <2>5. QED
    BY <2>3, <2>4 DEF WorkerPart
<1>2. CASE Throw(w, "TEMPORARY") /\ UNCHANGED queueVars
  BY <1>2, QuietMove DEF BeginComplete, Throw, AtWork, Steps, queueVars
<1>3. QED
  BY <1>1, <1>2 DEF BeginComplete

\* A commit and a rollback release the row.
LEMMA CommitKeepsWorkers ==
  ASSUME TypeOK, WorkerPart, NEW w \in Workers, Publish(w) \/ SettleJob(w)
  PROVE  WorkerPart'
<1>1. Q!CommitComplete(held[w], token[w]) /\ Poll(w) /\ pc[w] \in {"commit", "settling"}
  BY DEF Publish, SettleJob
<1>2. held[w] \in Jobs
  BY <1>1 DEF WorkerPart, WorkersHold, AtWork, Steps
<1>3. lock' = [lock EXCEPT ![held[w]] = 0] /\ UNCHANGED issued
  BY <1>1, <1>2, CommitEffect DEF TypeOK
<1>4. QED
  BY <1>1, <1>3, LetGo

\* The steps that throw.
LEMMA ThrowKeepsWorkers ==
  ASSUME TypeOK, WorkerPart, NEW w \in Workers,
         PublishThrows(w) \/ PrepareThrows(w)
  PROVE  WorkerPart'
<1>1. /\ pc[w] \in AtWork
      /\ pc' = [pc EXCEPT ![w] = "fail"]
      /\ UNCHANGED <<held, token>>
  BY DEF PublishThrows, PrepareThrows, Throw, AtWork, Steps
<1>2. /\ UNCHANGED issued
      /\ \/ UNCHANGED lock
         \/ /\ pc[w] \in {"commit", "settling"}
            /\ lock' = [lock EXCEPT ![held[w]] = 0]
  BY DEF PublishThrows, PrepareThrows, Q!RollbackComplete, Q!NoToken, queueVars
<1>3. QED
  BY <1>1, <1>2, QuietMove DEF Steps

\* The steps that end a job or the process.
LEMMA EndKeepsWorkers ==
  ASSUME TypeOK, WorkerPart, NEW w \in Workers, Fail(w) \/ Crash(w)
  PROVE  WorkerPart'
<1>1. /\ UNCHANGED issued
      /\ \/ UNCHANGED lock
         \/ /\ pc[w] \in {"commit", "settling"}
            /\ lock' = [lock EXCEPT ![held[w]] = 0]
  BY DEF Fail, Crash, Q!Fail, Q!RollbackComplete, Q!NoToken, queueVars
<1>2. QED
  BY <1>1, LetGo DEF Fail, Crash

\* The steps of prepare.
LEMMA PrepareKeepsWorkers ==
  ASSUME TypeOK, WorkerPart, NEW w \in Workers,
         \/ VerifyJobLease(w) \/ TakeRun(w) \/ CancelAtCheckpoint(w)
         \/ Stage(w) \/ VerifyStaged(w)
  PROVE  WorkerPart'
<1>1. pc[w] \in AtWork /\ UNCHANGED <<held, token, issued, lock>>
  BY DEF VerifyJobLease, TakeRun, CancelAtCheckpoint, Stage, VerifyStaged,
     Checkpoint, Goto, Throw, AtWork, Steps, queueVars
<1>2. \/ UNCHANGED pc
      \/ \E s \in Steps \ {"commit", "settling"} : pc' = [pc EXCEPT ![w] = s]
  BY DEF VerifyJobLease, TakeRun, CancelAtCheckpoint, Stage, VerifyStaged,
     Checkpoint, Goto, Throw, Steps
<1>3. QED
  BY <1>1, <1>2, QuietMove, WorkersStay

\* The rest concerns no worker.
LEMMA WorkerPartKept ==
  ASSUME TypeOK, WorkerPart, [Next]_vars
  PROVE  WorkerPart'
<1>1. CASE UNCHANGED vars
  BY <1>1, WorkersStay DEF vars, queueVars, workerVars
<1>2. CASE Tick
  BY <1>2, WorkersStay DEF Tick, Q!Tick, workerVars
<1>3. CASE \E r \in Runs : Create(r) \/ Retry(r) \/ CancelWaiting(r) \/ RequestCancel(r)
  BY <1>3, WorkersStay DEF Create, Retry, CancelWaiting, RequestCancel,
     Q!Enqueue, Q!CancelQueued, queueVars, workerVars
<1>4. CASE \E w \in Workers : Recover(w) \/ Dispatch(w) \/ Heartbeat(w)
  BY <1>4, WorkersStay DEF Recover, Dispatch, Heartbeat, Q!RecoverExpired,
     Q!DispatchOutbox, Q!Heartbeat, workerVars
<1>5. QED
  BY <1>1, <1>2, <1>3, <1>4, ClaimKeepsWorkers, BeginCompleteKeepsWorkers,
     CommitKeepsWorkers, ThrowKeepsWorkers, EndKeepsWorkers,
     PrepareKeepsWorkers DEF Next, WorkerStep

-----------------------------------------------------------------------------
(* The runs, the batch and the jobs.                                       *)

\* What the lemmas below take for granted.
Known == TypeOK /\ QP!QueueInv /\ WorkerPart /\ RunPart

\* A job that is not over is the latest of its run.
LEMMA LiveIsLatest ==
  ASSUME Known, NEW j \in Jobs, jobs[j].status \in {"QUEUED", "RUNNING"}
  PROVE  j[1] \in Runs /\ j = JobOf(j[1])
<1>1. PICK r \in Runs, k \in 0..MaxRetries : j = <<r, k>>
  BY DEF Jobs
<1>2. outbox[j] # "NONE"
  BY QueueFacts DEF Known
<1>3. retries[r] \in 0..MaxRetries /\ MaxRetries \in Nat
  BY BoundsAssumption DEF Known, TypeOK
<1>4. ~(k < retries[r])
  BY <1>1, <1>3 DEF Known, RunPart, JobsInTurn, Q!Terminal
<1>5. ~(k > retries[r])
  BY <1>1, <1>2, <1>3 DEF Known, RunPart, JobsInTurn
<1>6. k = retries[r]
  BY <1>3, <1>4, <1>5
<1>7. QED
  BY <1>1, <1>6 DEF JobOf

\* What is over stays over, and what was not queued is not queued.
Steady ==
    /\ \A j \in Jobs : jobs[j].status \in Q!Terminal => jobs'[j].status = jobs[j].status
    /\ \A j \in Jobs : outbox[j] = "NONE" => outbox'[j] = "NONE"

\* The latest job of r stays one that can be worked on.
StaysLive(r) ==
    /\ outbox'[JobOf(r)] \in {"PENDING", "PUBLISHED"}
    /\ jobs'[JobOf(r)].status \in {"NONE", "QUEUED", "RUNNING"}

\* No run moves.
LEMMA NoRunMoves ==
  ASSUME Known, Steady, UNCHANGED <<status, retries, batch, current>>,
         \A r \in Runs : status[r] \in Active => StaysLive(r)
  PROVE  RunPart'
<1>1. \A r \in Runs : JobOf(r)' = JobOf(r) /\ JobOf(r) \in Jobs
  BY JobsOfRuns DEF JobOf, Known
<1>2. JobsInTurn'
  <2> SUFFICES ASSUME NEW r \in Runs
               PROVE  /\ \A k \in 0..(retries[r] - 1) : jobs'[<<r, k>>].status \in Q!Terminal
                      /\ \A k \in (retries[r] + 1)..MaxRetries : outbox'[<<r, k>>] = "NONE"
                      /\ status[r] = "NONE" => outbox'[JobOf(r)] = "NONE"
                      /\ status[r] = "FAILED" => jobs'[JobOf(r)].status = "DEAD"
    BY <1>1 DEF JobsInTurn, Q!Terminal
  <2>1. retries[r] \in 0..MaxRetries /\ MaxRetries \in Nat
    BY BoundsAssumption DEF Known, TypeOK
  <2>2. /\ \A k \in 0..(retries[r] - 1) : <<r, k>> \in Jobs
        /\ \A k \in (retries[r] + 1)..MaxRetries : <<r, k>> \in Jobs
    BY <2>1 DEF Jobs
  <2>3. QED
    BY <1>1, <2>2 DEF Steady, Known, RunPart, JobsInTurn, Q!Terminal
<1>3. LatestIsLive'
  BY <1>1 DEF StaysLive, LatestIsLive
<1>4. OneActiveRun' /\ BatchIsBusy' /\ CurrentRunIsTheOnlySuccess'
  BY DEF Known, RunPart, OneActiveRun, BatchIsBusy, CurrentRunIsTheOnlySuccess,
     Restored
<1>5. QED
  BY <1>2, <1>3, <1>4 DEF RunPart

\* The run at work moves on.
LEMMA RunMovesOn ==
  ASSUME Known, NEW r \in Runs, status[r] \in Active,
         NEW s \in Active \ {"QUEUED"}, status' = [status EXCEPT ![r] = s],
         UNCHANGED <<jobs, outbox, retries, current>>,
         batch' = IF status[r] = "QUEUED" THEN "NORMALIZING" ELSE batch
  PROVE  RunPart'
<1> USE DEF Known, RunPart
<1>1. \A t \in Runs : status'[t] \in Active <=> status[t] \in Active
  BY DEF TypeOK
<1>2. \A t \in Runs : JobOf(t)' = JobOf(t)
  BY DEF JobOf
<1>3. OneActiveRun' /\ LatestIsLive'
  BY <1>1, <1>2 DEF OneActiveRun, LatestIsLive
<1>4. BatchIsBusy'
  <2>1. \A t \in Runs : status'[t] # "QUEUED"
    BY DEF OneActiveRun, TypeOK, Active
  <2>2. batch' \in Busy /\ batch' # "QUEUED_FOR_NORMALIZATION"
    BY DEF OneActiveRun, BatchIsBusy, Busy, Active
  <2>3. QED
    BY <1>1, <2>1, <2>2 DEF BatchIsBusy
<1>5. CurrentRunIsTheOnlySuccess'
  <2>1. batch' \notin Idle
    BY DEF BatchIsBusy, Busy, Idle
  <2>2. QED
    BY <2>1 DEF TypeOK, CurrentRunIsTheOnlySuccess, Active
<1>6. JobsInTurn'
  BY <1>2 DEF TypeOK, JobsInTurn, Active, Q!Terminal
<1>7. QED
  BY <1>3, <1>4, <1>5, <1>6

\* The run at work ends: in failure or cancellation, or in a result.
LEMMA RunEnds ==
  ASSUME Known, Steady, NEW r \in Runs, status[r] \in Active, UNCHANGED retries,
         \/ /\ \E s \in {"FAILED", "CANCELLED"} :
                 /\ status' = [status EXCEPT ![r] = s]
                 /\ s = "FAILED" => jobs'[JobOf(r)].status = "DEAD"
            /\ batch' = Restored
            /\ UNCHANGED current
         \/ /\ status' = [t \in Runs |-> IF t = r THEN "SUCCEEDED"
                                         ELSE IF t = current /\ status[t] = "SUCCEEDED"
                                         THEN "SUPERSEDED" ELSE status[t]]
            /\ batch' = "NORMALIZED"
            /\ current' = r
  PROVE  RunPart'
<1>1. \A t \in Runs : JobOf(t)' = JobOf(t) /\ JobOf(t) \in Jobs
  BY JobsOfRuns DEF JobOf, Known
<1>2. \A t \in Runs : status'[t] \notin Active
  BY DEF Known, TypeOK, RunPart, OneActiveRun, Active
<1>3. \A t \in Runs : /\ status'[t] = "NONE" => status[t] = "NONE"
                      /\ status'[t] = "FAILED" =>
                           status[t] = "FAILED" \/ jobs'[JobOf(t)].status = "DEAD"
  BY DEF Known, TypeOK
<1>4. batch' \in Idle
  BY DEF Restored, Idle
<1>5. OneActiveRun' /\ BatchIsBusy' /\ LatestIsLive'
  BY <1>2, <1>4
     DEF OneActiveRun, BatchIsBusy, LatestIsLive, Idle, Busy, Active
<1>6. JobsInTurn'
  <2> SUFFICES ASSUME NEW t \in Runs
               PROVE  /\ \A k \in 0..(retries[t] - 1) : jobs'[<<t, k>>].status \in Q!Terminal
                      /\ \A k \in (retries[t] + 1)..MaxRetries : outbox'[<<t, k>>] = "NONE"
                      /\ status'[t] = "NONE" => outbox'[JobOf(t)] = "NONE"
                      /\ status'[t] = "FAILED" => jobs'[JobOf(t)].status = "DEAD"
    BY <1>1 DEF JobsInTurn, Q!Terminal
  <2>1. retries[t] \in 0..MaxRetries /\ MaxRetries \in Nat
    BY BoundsAssumption DEF Known, TypeOK
  <2>2. /\ \A k \in 0..(retries[t] - 1) : <<t, k>> \in Jobs
        /\ \A k \in (retries[t] + 1)..MaxRetries : <<t, k>> \in Jobs
    BY <2>1 DEF Jobs
  <2>3. QED
    BY <1>1, <1>3, <2>2 DEF Steady, Known, RunPart, JobsInTurn, Q!Terminal
<1>7. CurrentRunIsTheOnlySuccess'
  <2>1. current # r /\ status[r] # "SUCCEEDED"
    BY DEF Known, RunPart, CurrentRunIsTheOnlySuccess, Active
  <2>2. CASE UNCHANGED current
    BY <2>1, <2>2, NoneAssumption
       DEF Known, TypeOK, RunPart, CurrentRunIsTheOnlySuccess, Restored, Active
  <2>3. CASE /\ current' = r /\ batch' = "NORMALIZED"
             /\ status' = [t \in Runs |-> IF t = r THEN "SUCCEEDED"
                                          ELSE IF t = current /\ status[t] = "SUCCEEDED"
                                          THEN "SUPERSEDED" ELSE status[t]]
    BY <2>1, <2>3, NoneAssumption
       DEF Known, RunPart, CurrentRunIsTheOnlySuccess, Restored
  <2>4. QED
    BY <2>2, <2>3
<1>8. QED
  BY <1>5, <1>6, <1>7 DEF RunPart

\* A run is queued: a new one, or one that failed, with a job that did not
\* exist.
LEMMA RunIsQueued ==
  ASSUME Known, NEW r \in Runs, NEW k \in 0..MaxRetries,
         \/ status[r] = "NONE" /\ k = retries[r]
         \/ status[r] = "FAILED" /\ k = retries[r] + 1,
         batch \in Idle, batch' = "QUEUED_FOR_NORMALIZATION",
         status' = [status EXCEPT ![r] = "QUEUED"],
         retries' = [retries EXCEPT ![r] = k], UNCHANGED current,
         Q!Enqueue(<<r, k>>)
  PROVE  RunPart'
<1>1. <<r, k>> \in Jobs
  BY DEF Jobs
<1>2. /\ outbox[<<r, k>>] = "NONE"
      /\ outbox' = [outbox EXCEPT ![<<r, k>>] = "PENDING"]
      /\ UNCHANGED jobs
      /\ outbox \in [Jobs -> Q!OutboxStatus]
  BY DEF Q!Enqueue, Known, TypeOK, Q!TypeOK
<1>3. jobs[<<r, k>>].status = "NONE"
  BY <1>1, <1>2, QueueFacts DEF Known
<1>4. /\ status \in [Runs -> RunStatus]
      /\ retries \in [Runs -> 0..MaxRetries] /\ MaxRetries \in Nat
  BY BoundsAssumption DEF Known, TypeOK
<1>5. JobOf(r)' = <<r, k>> /\ \A t \in Runs \ {r} : JobOf(t)' = JobOf(t)
  BY <1>4 DEF JobOf
<1>6. \A t \in Runs : status[t] \notin Active
  BY DEF Known, RunPart, BatchIsBusy, Idle, Busy
<1>7. OneActiveRun' /\ BatchIsBusy'
  BY <1>4, <1>6 DEF OneActiveRun, BatchIsBusy, Busy, Active
<1>8. LatestIsLive'
  BY <1>1, <1>2, <1>3, <1>4, <1>5, <1>6 DEF LatestIsLive, Active
<1>9. CurrentRunIsTheOnlySuccess'
  BY <1>4 DEF Known, RunPart, CurrentRunIsTheOnlySuccess, Idle
<1>10. JobsInTurn'
  <2> SUFFICES ASSUME NEW t \in Runs
               PROVE  /\ \A i \in 0..(retries'[t] - 1) : jobs[<<t, i>>].status \in Q!Terminal
                      /\ \A i \in (retries'[t] + 1)..MaxRetries : outbox'[<<t, i>>] = "NONE"
                      /\ status'[t] = "NONE" => outbox'[JobOf(t)'] = "NONE"
                      /\ status'[t] = "FAILED" => jobs[JobOf(t)'].status = "DEAD"
    BY <1>2 DEF JobsInTurn, Q!Terminal
  <2>1. CASE t = r
    <3>1. \A i \in 0..(k - 1) : jobs[<<r, i>>].status \in Q!Terminal
      <4> TAKE i \in 0..(k - 1)
      <4>1. CASE i \in 0..(retries[r] - 1)
        BY <4>1 DEF Known, RunPart, JobsInTurn
      <4>2. CASE status[r] = "FAILED" /\ i = retries[r]
        BY <4>2 DEF Known, RunPart, JobsInTurn, JobOf, Q!Terminal
      <4>3. QED
        BY <1>4, <4>1, <4>2
    <3>2. \A i \in (k + 1)..MaxRetries : outbox'[<<r, i>>] = "NONE"
      <4> TAKE i \in (k + 1)..MaxRetries
      <4>1. i \in (retries[r] + 1)..MaxRetries /\ <<r, i>> # <<r, k>> /\ <<r, i>> \in Jobs
        BY <1>4 DEF Jobs
      <4>2. outbox[<<r, i>>] = "NONE"
        BY <4>1 DEF Known, RunPart, JobsInTurn
      <4>3. QED
        BY <1>2, <4>1, <4>2
    <3>3. QED
      BY <1>4, <2>1, <3>1, <3>2
  <2>2. CASE t # r
    <3>1. /\ retries'[t] = retries[t] /\ status'[t] = status[t]
          /\ JobOf(t)' = JobOf(t) /\ JobOf(t) \in Jobs /\ JobOf(t) # <<r, k>>
      BY <1>4, <1>5, <2>2, JobsOfRuns DEF JobOf, Known
    <3>2. \A i \in (retries[t] + 1)..MaxRetries :
             <<t, i>> \in Jobs /\ <<t, i>> # <<r, k>>
      BY <1>4, <2>2 DEF Jobs
    <3>3. QED
      BY <1>2, <3>1, <3>2 DEF Known, RunPart, JobsInTurn
  <2>3. QED
    BY <2>1, <2>2
<1>11. QED
  BY <1>7, <1>8, <1>9, <1>10 DEF RunPart

\* Jobs of running workers are given up or requeued: if the job of the active
\* run is among the first, the run ends with it.
LEMMA GivenUp ==
  ASSUME Known, NEW S \in SUBSET Jobs, NEW D \in SUBSET S, UNCHANGED outbox,
         \A j \in S : jobs[j].status = "RUNNING",
         \A j \in Jobs : jobs'[j].status =
                           IF j \notin S THEN jobs[j].status
                           ELSE IF j \in D THEN "DEAD" ELSE "QUEUED",
         PublishTerminalFailure(D)
  PROVE  RunPart'
<1>1. Steady
  BY DEF Steady, Q!Terminal
<1>2. \A j \in S : j[1] \in Runs /\ j = JobOf(j[1])
  BY LiveIsLatest
<1>3. \A r \in Runs : JobOf(r) \in Jobs
  BY JobsOfRuns DEF Known
<1>4. CASE \E r \in Runs : status[r] \in Active /\ \E j \in D : j[1] = r
  <2>1. PICK r \in Runs : status[r] \in Active /\ \E j \in D : j[1] = r
    BY <1>4
  <2>2. jobs'[JobOf(r)].status = "DEAD"
    BY <1>2, <1>3, <2>1
  <2>3. \A t \in Runs : (status[t] \in Active /\ \E j \in D : j[1] = t) <=> t = r
    BY <2>1 DEF Known, RunPart, OneActiveRun
  <2>4. PICK s \in {"FAILED", "CANCELLED"} :
           s = IF status[r] = "CANCEL_REQUESTED" THEN "CANCELLED" ELSE "FAILED"
    OBVIOUS
  <2>5. status' = [status EXCEPT ![r] = s]
    <3> DEFINE failed == {t \in Runs : status[t] \in Active /\ \E j \in D : j[1] = t}
    <3>1. \A t \in Runs : t \in failed <=> t = r
      BY <2>3
    <3>2. status' = [t \in Runs |->
                       IF t \notin failed THEN status[t]
                       ELSE IF status[t] = "CANCEL_REQUESTED" THEN "CANCELLED"
                       ELSE "FAILED"]
      BY DEF PublishTerminalFailure
    <3>3. status \in [Runs -> RunStatus]
      BY DEF Known, TypeOK
    <3> HIDE DEF failed
    <3>4. \A t \in Runs : status'[t] = IF t = r THEN s ELSE status[t]
      BY <2>4, <3>1, <3>2
    <3>5. DOMAIN status' = Runs
      BY <3>2
    <3>6. status' = [t \in Runs |-> status'[t]]
      BY <3>2, <3>5
    <3>7. QED
      BY <3>3, <3>4, <3>6
  <2>6. batch \in Busy
    BY <2>1 DEF Known, RunPart, BatchIsBusy
  <2>7. batch' = Restored /\ UNCHANGED <<retries, current>>
    BY <2>1, <2>6 DEF PublishTerminalFailure
  <2>8. QED
    BY <1>1, <2>1, <2>2, <2>5, <2>7, RunEnds
<1>5. CASE ~ \E r \in Runs : status[r] \in Active /\ \E j \in D : j[1] = r
  <2>1. UNCHANGED <<status, retries, batch, current>>
    BY <1>5 DEF PublishTerminalFailure, Known, TypeOK
  <2>2. \A r \in Runs : status[r] \in Active => StaysLive(r)
    BY <1>2, <1>3, <1>5, JobsOfRuns DEF StaysLive, Known, RunPart, LatestIsLive
  <2>3. QED
    BY <1>1, <2>1, <2>2, NoRunMoves
<1>6. QED
  BY <1>4, <1>5

\* Recovery, dispatch, claim.
LEMMA RecoverKeepsRuns ==
  ASSUME Known, NEW w \in Workers, Recover(w)
  PROVE  RunPart'
<1>1. PICK S \in SUBSET Jobs :
         /\ Q!RecoverExpired(S)
         /\ PublishTerminalFailure({j \in S : Q!Exhausted(j)})
  BY DEF Recover
<1>2. /\ \A k \in S : jobs[k].status = "RUNNING"
      /\ \A k \in Jobs : jobs'[k].status =
                           IF k \notin S THEN jobs[k].status
                           ELSE IF Q!Exhausted(k) THEN "DEAD" ELSE "QUEUED"
      /\ UNCHANGED outbox
  BY <1>1, RecoverEffect
<1>3. QED
  BY <1>1, <1>2, GivenUp

\* Dispatch makes the job of a run that waits.
LEMMA DispatchKeepsRuns ==
  ASSUME Known, NEW w \in Workers, Dispatch(w)
  PROVE  RunPart'
<1>1. PICK S \in SUBSET Jobs : Q!DispatchOutbox(S)
  BY DEF Dispatch
<1>2. /\ \A k \in S : outbox[k] = "PENDING"
      /\ \A k \in Jobs : outbox'[k] = IF k \in S THEN "PUBLISHED" ELSE outbox[k]
      /\ \A k \in Jobs : jobs'[k].status =
                           IF k \in S /\ jobs[k].status = "NONE"
                           THEN "QUEUED" ELSE jobs[k].status
  BY <1>1, DispatchEffect
<1>3. Steady
  BY <1>2 DEF Steady, Q!Terminal
<1>4. \A r \in Runs : status[r] \in Active => StaysLive(r)
  BY <1>2, JobsOfRuns DEF StaysLive, Known, RunPart, LatestIsLive
<1>5. QED
  BY <1>3, <1>4, NoRunMoves DEF Dispatch, runVars

\* Steps that change no status of a job.
LEMMA JobsStay ==
  ASSUME Known, UNCHANGED <<outbox, status, retries, batch, current>>,
         \A j \in Jobs : \/ jobs'[j].status = jobs[j].status
                         \/ jobs[j].status = "QUEUED" /\ jobs'[j].status = "RUNNING"
  PROVE  RunPart'
<1>1. Steady
  BY DEF Steady, Q!Terminal
<1>2. \A r \in Runs : status[r] \in Active => StaysLive(r)
  BY JobsOfRuns DEF StaysLive, Known, RunPart, LatestIsLive
<1>3. QED
  BY <1>1, <1>2, NoRunMoves

\* The claim of a job, the heartbeat, the lock of complete, what throws, what
\* crashes.
LEMMA QuietKeepsRuns ==
  ASSUME Known, NEW w \in Workers,
         \/ ClaimJob(w) \/ Heartbeat(w) \/ VerifyJobLease(w) \/ BeginComplete(w)
         \/ PublishThrows(w) \/ PrepareThrows(w) \/ Crash(w)
  PROVE  RunPart'
<1>1. UNCHANGED <<status, retries, batch, current>>
  BY DEF ClaimJob, Heartbeat, VerifyJobLease, BeginComplete, PublishThrows,
     PrepareThrows, Crash, runVars
<1>2. Q!TypeOK
  BY DEF Known, TypeOK
<1>3. CASE ClaimJob(w)
  BY <1>1, <1>2, <1>3, ClaimEffect, JobsStay DEF ClaimJob
<1>4. CASE Heartbeat(w)
  <2>1. held[w] \in Jobs
    BY <1>4 DEF Heartbeat, Known, WorkerPart, WorkersHold, AtWork, Steps
  <2>2. QED
    BY <1>1, <1>2, <1>4, <2>1, HeartbeatEffect, JobsStay DEF Heartbeat
<1>5. CASE \/ VerifyJobLease(w) \/ BeginComplete(w) \/ PublishThrows(w)
           \/ PrepareThrows(w) \/ Crash(w)
  <2>1. UNCHANGED <<outbox, jobs>>
    BY <1>5 DEF VerifyJobLease, BeginComplete, PublishThrows, PrepareThrows,
       Crash, Q!BeginComplete, Q!RollbackComplete, queueVars
  <2>2. QED
    BY <1>1, <2>1, JobsStay
<1>6. QED
  BY <1>3, <1>4, <1>5

\* The cancellation of a run at a checkpoint.
LEMMA CancellationKeepsRuns ==
  ASSUME Known, Steady, NEW r \in Runs, status[r] = "CANCEL_REQUESTED",
         FinalizeCancellation(r)
  PROVE  RunPart'
<1>1. status[r] \in Active /\ batch \in Busy
  BY DEF Known, RunPart, BatchIsBusy, Active
<1>2. QED
  BY <1>1, RunEnds DEF FinalizeCancellation, RestoreBatch, SetRun

\* The run a worker at work is for.
LEMMA RunOfWorker ==
  ASSUME Known, NEW w \in Workers, pc[w] \in AtWork
  PROVE  held[w] \in Jobs /\ Run(w) \in Runs
  BY DEF Known, WorkerPart, WorkersHold, Run, Jobs

\* The steps of prepare that may move the run.
LEMMA PrepareKeepsRuns ==
  ASSUME Known, NEW w \in Workers,
         TakeRun(w) \/ CancelAtCheckpoint(w) \/ Stage(w) \/ VerifyStaged(w)
  PROVE  RunPart'
<1>1. pc[w] \in AtWork /\ UNCHANGED <<jobs, outbox>>
  BY DEF TakeRun, CancelAtCheckpoint, Stage, VerifyStaged, Checkpoint, AtWork,
     Steps, queueVars
<1>2. Run(w) \in Runs /\ Steady
  BY <1>1, RunOfWorker DEF Steady
<1>3. CASE UNCHANGED runVars
  BY <1>1, <1>3, JobsStay DEF runVars
<1>4. CASE status[Run(w)] = "CANCEL_REQUESTED" /\ FinalizeCancellation(Run(w))
  BY <1>2, <1>4, CancellationKeepsRuns
<1>5. CASE /\ TakeRun(w)
           /\ status[Run(w)] \in {"QUEUED", "RUNNING"}
           /\ SetRun(Run(w), "RUNNING", LeaseOf(w))
           /\ batch' = IF batch = "QUEUED_FOR_NORMALIZATION"
                       THEN "NORMALIZING" ELSE batch
           /\ UNCHANGED <<retries, current>>
  <2>1. status[Run(w)] \in Active /\ "RUNNING" \in Active \ {"QUEUED"}
    BY <1>5 DEF Active
  <2>2. batch = "QUEUED_FOR_NORMALIZATION" <=> status[Run(w)] = "QUEUED"
    BY <1>2, <1>5, <2>1 DEF Known, RunPart, BatchIsBusy, OneActiveRun, Active
  <2>3. QED
    BY <1>1, <1>2, <1>5, <2>1, <2>2, RunMovesOn DEF SetRun
<1>6. ASSUME NEW s \in {"RUNNING", "PUBLISHING"}, status[Run(w)] = "RUNNING",
             SetRun(Run(w), s, owner[Run(w)]), UNCHANGED <<retries, batch, current>>
      PROVE  RunPart'
  <2>1. status[Run(w)] \in Active /\ s \in Active \ {"QUEUED"}
    BY <1>6 DEF Active
  <2>2. QED
    BY <1>1, <1>2, <1>6, <2>1, RunMovesOn DEF SetRun
<1>7. CASE TakeRun(w)
  BY <1>3, <1>5, <1>7 DEF TakeRun
<1>8. CASE CancelAtCheckpoint(w)
  BY <1>3, <1>4, <1>8 DEF CancelAtCheckpoint
<1>9. CASE Stage(w)
  BY <1>3, <1>4, <1>6, <1>9 DEF Stage, Checkpoint
<1>10. CASE VerifyStaged(w)
  BY <1>3, <1>4, <1>6, <1>10 DEF VerifyStaged, Checkpoint
<1>11. QED
  BY <1>7, <1>8, <1>9, <1>10

\* The commit of a completion: its job is the latest of its run.
LEMMA CommitKeepsRuns ==
  ASSUME Known, SettlersAreRight, NEW w \in Workers, Publish(w) \/ SettleJob(w)
  PROVE  RunPart'
<1>1. pc[w] \in {"commit", "settling"} /\ pc[w] \in AtWork
  BY DEF Publish, SettleJob, AtWork, Steps
<1>2. held[w] \in Jobs /\ Run(w) \in Runs
  BY <1>1, RunOfWorker
<1>3. /\ jobs[held[w]].status = "RUNNING"
      /\ \A k \in Jobs : jobs'[k].status =
                           IF k = held[w] THEN "SUCCEEDED" ELSE jobs[k].status
      /\ UNCHANGED outbox
  BY <1>2, CommitEffect DEF Publish, SettleJob, Known, TypeOK
<1>4. Steady
  BY <1>3 DEF Steady, Q!Terminal
<1>5. held[w] = JobOf(Run(w))
  BY <1>2, <1>3, LiveIsLatest DEF Run
<1>6. CASE status[Run(w)] = "CANCEL_REQUESTED" /\ FinalizeCancellation(Run(w))
  BY <1>2, <1>4, <1>6, CancellationKeepsRuns
<1>7. CASE Publish(w) /\ status[Run(w)] # "CANCEL_REQUESTED"
  <2>1. status[Run(w)] \in Active
    BY <1>7 DEF Publish, Active
  <2>2. QED
    BY <1>2, <1>4, <1>7, <2>1, RunEnds DEF Publish
<1>8. CASE SettleJob(w)
  <2>1. status[Run(w)] \in Settled
    BY <1>1, <1>5, <1>8 DEF SettlersAreRight, IsRight, SettleJob
  <2>2. \A r \in Runs : status[r] \in Active => JobOf(r) # held[w] /\ JobOf(r) \in Jobs
    BY <2>1, JobsOfRuns DEF Known, Run, Active, Settled
  <2>3. \A r \in Runs : status[r] \in Active => StaysLive(r)
    BY <1>3, <2>2 DEF StaysLive, Known, RunPart, LatestIsLive
  <2>4. QED
    BY <1>4, <1>8, <2>3, NoRunMoves DEF SettleJob, runVars
<1>9. QED
  BY <1>6, <1>7, <1>8 DEF Publish

\* A failed attempt.
LEMMA FailKeepsRuns ==
  ASSUME Known, NEW w \in Workers, Fail(w)
  PROVE  RunPart'
<1>1. held[w] \in Jobs /\ Q!TypeOK
  BY RunOfWorker DEF Fail, AtWork, Steps, Known, TypeOK
<1>2. CASE UNCHANGED <<queueVars, runVars>>
  BY <1>2, JobsStay DEF queueVars, runVars
<1>3. CASE /\ Q!Fail(held[w], token[w], fault[w] # "RETRYABLE")
           /\ PublishTerminalFailure(
                {held[w]} \cap {j \in Jobs : fault[w] # "RETRYABLE" \/ Q!Exhausted(j)})
  <2> DEFINE D == {held[w]} \cap {j \in Jobs : fault[w] # "RETRYABLE" \/ Q!Exhausted(j)}
  <2>1. /\ jobs[held[w]].status = "RUNNING"
        /\ \A k \in Jobs : jobs'[k].status =
                             IF k # held[w] THEN jobs[k].status
                             ELSE IF fault[w] # "RETRYABLE" \/ Q!Exhausted(held[w])
                                  THEN "DEAD" ELSE "QUEUED"
        /\ UNCHANGED outbox
    BY <1>1, <1>3, FailEffect
  <2>2. D \in SUBSET {held[w]} /\ {held[w]} \in SUBSET Jobs
    BY <1>1
  <2>3. held[w] \in D <=> fault[w] # "RETRYABLE" \/ Q!Exhausted(held[w])
    BY <1>1
  <2>4. \A k \in Jobs : jobs'[k].status =
                          IF k \notin {held[w]} THEN jobs[k].status
                          ELSE IF k \in D THEN "DEAD" ELSE "QUEUED"
    <3> HIDE DEF D
    <3>1. QED
      BY <2>1, <2>3
  <2>5. PublishTerminalFailure(D)
    BY <1>3
  <2> HIDE DEF D
  <2>6. \A j \in {held[w]} : jobs[j].status = "RUNNING"
    BY <2>1
  <2>7. QED
    BY <2>1, <2>2, <2>4, <2>5, <2>6, GivenUp
<1>4. QED
  BY <1>2, <1>3 DEF Fail

\* The steps of the service.
LEMMA ServiceKeepsRuns ==
  ASSUME Known, NEW r \in Runs,
         Create(r) \/ Retry(r) \/ CancelWaiting(r) \/ RequestCancel(r)
  PROVE  RunPart'
<1>1. status \in [Runs -> RunStatus] /\ retries \in [Runs -> 0..MaxRetries]
  BY DEF Known, TypeOK
<1>2. CASE Create(r)
  <2>1. retries' = [retries EXCEPT ![r] = retries[r]] /\ retries[r] \in 0..MaxRetries
    BY <1>1, <1>2 DEF Create
  <2>2. QED
    BY <1>2, <2>1, RunIsQueued DEF Create, SetRun, JobOf
<1>3. CASE Retry(r)
  <2>1. retries[r] + 1 \in 0..MaxRetries
    BY <1>1, <1>3, BoundsAssumption DEF Retry
  <2>2. QED
    BY <1>3, <2>1, RunIsQueued DEF Retry, SetRun
<1>4. CASE CancelWaiting(r)
  <2>1. JobOf(r) \in Jobs
    BY JobsOfRuns DEF Known
  <2>2. Steady
    BY <1>4, <2>1, CancelEffect
       DEF CancelWaiting, Known, TypeOK, Steady, Q!Terminal
  <2>3. QED
    BY <1>4, <2>2, RunEnds DEF CancelWaiting, SetRun, Active
<1>5. CASE RequestCancel(r)
  <2>1. status[r] \in Active /\ status[r] # "QUEUED"
        /\ "CANCEL_REQUESTED" \in Active \ {"QUEUED"}
    BY <1>5 DEF RequestCancel, Active
  <2>2. QED
    BY <1>5, <2>1, RunMovesOn DEF RequestCancel, SetRun, queueVars
<1>6. QED
  BY <1>2, <1>3, <1>4, <1>5

\* Together.
LEMMA RunPartKept ==
  ASSUME Known, SettlersAreRight, [Next]_vars
  PROVE  RunPart'
<1>1. CASE UNCHANGED vars
  BY <1>1, JobsStay DEF vars, queueVars, runVars
<1>2. CASE Tick
  BY <1>2, TickEffect, JobsStay DEF Tick, runVars
<1>3. QED
  BY <1>1, <1>2, RecoverKeepsRuns, DispatchKeepsRuns, QuietKeepsRuns,
     PrepareKeepsRuns, CommitKeepsRuns, FailKeepsRuns, ServiceKeepsRuns
     DEF Next, WorkerStep

-----------------------------------------------------------------------------
(* What a worker has seen of its run.                                      *)

\* A run that is settled stays so, one asked to stop settles or waits.
SettledStays ==
    /\ UNCHANGED retries
    /\ \A r \in Runs :
         /\ status[r] \in Settled => status'[r] \in Settled
         /\ status[r] = "CANCEL_REQUESTED" =>
              status'[r] \in Settled \cup {"CANCEL_REQUESTED"}

\* A worker that goes on with its job sees what it saw.
LEMMA SettlersStay ==
  ASSUME Known, SettlersAreRight, SettledStays,
         \A v \in Workers :
            \/ pc'[v] \notin {"cancel", "settle", "settling"}
            \/ /\ held'[v] = held[v]
               /\ pc'[v] = pc[v] \/ (pc[v] = "settle" /\ pc'[v] = "settling")
            \/ IsRight(v)'
  PROVE  SettlersAreRight'
<1> SUFFICES ASSUME NEW v \in Workers, pc'[v] \in AtWork PROVE IsRight(v)'
  BY DEF SettlersAreRight, AtWork, Steps
<1>1. CASE pc'[v] \notin {"cancel", "settle", "settling"}
  BY <1>1 DEF IsRight
<1>2. CASE /\ pc'[v] \in {"cancel", "settle", "settling"}
           /\ held'[v] = held[v]
           /\ pc'[v] = pc[v] \/ (pc[v] = "settle" /\ pc'[v] = "settling")
  <2>1. pc[v] \in AtWork
    BY <1>2 DEF AtWork, Steps
  <2>2. IsRight(v) /\ Run(v) \in Runs
    BY <2>1, RunOfWorker DEF SettlersAreRight
  <2>3. Run(v)' = Run(v) /\ JobOf(Run(v))' = JobOf(Run(v))
    BY <1>2 DEF Run, JobOf, SettledStays
  <2>4. QED
    BY <1>2, <2>2, <2>3 DEF IsRight, SettledStays
<1>3. QED
  BY <1>1, <1>2

\* A new job of a run is nobody's job.
LEMMA NewJobIsFree ==
  ASSUME Known, NEW j \in Jobs, Q!Enqueue(j), NEW v \in Workers, pc[v] \in AtWork
  PROVE  held[v] # j
<1>1. jobs[j].status = "NONE"
  BY QueueFacts DEF Q!Enqueue, Known
<1>2. issued[j] = 0
  BY <1>1, QueueFacts DEF Known
<1>3. QED
  BY <1>2 DEF Known, WorkerPart, WorkersHold

\* Creation and retry.
LEMMA QueuedKeepsSettlers ==
  ASSUME Known, SettlersAreRight, NEW r \in Runs, Create(r) \/ Retry(r)
  PROVE  SettlersAreRight'
<1>1. /\ status' = [status EXCEPT ![r] = "QUEUED"]
      /\ UNCHANGED <<pc, held>>
      /\ \A t \in Runs \ {r} : retries'[t] = retries[t]
      /\ Q!Enqueue(<<r, retries'[r]>>)
      /\ <<r, retries'[r]>> \in Jobs
  <2>1. status \in [Runs -> RunStatus] /\ retries \in [Runs -> 0..MaxRetries]
    BY DEF Known, TypeOK
  <2>2. CASE Create(r)
    BY <2>1, <2>2 DEF Create, SetRun, JobOf, workerVars, Jobs
  <2>3. CASE Retry(r)
    BY <2>1, <2>3, BoundsAssumption DEF Retry, SetRun, workerVars, Jobs
  <2>4. QED
    BY <2>2, <2>3
<1> SUFFICES ASSUME NEW v \in Workers, pc[v] \in AtWork,
                    held[v] = <<Run(v), retries'[Run(v)]>>
             PROVE  /\ pc[v] \in {"settle", "settling"} => status'[Run(v)] \in Settled
                    /\ pc[v] = "cancel" =>
                         status'[Run(v)] \in Settled \cup {"CANCEL_REQUESTED"}
  BY <1>1 DEF SettlersAreRight, IsRight, Run, JobOf
<1>2. Run(v) \in Runs
  BY RunOfWorker
<1>3. Run(v) # r
  BY <1>1, NewJobIsFree
<1>4. held[v] = JobOf(Run(v)) /\ status'[Run(v)] = status[Run(v)]
  BY <1>1, <1>2, <1>3 DEF JobOf, Known, TypeOK
<1>5. QED
  BY <1>4 DEF SettlersAreRight, IsRight

\* What ends with its job.
LEMMA FailureSettles ==
  ASSUME NEW D, PublishTerminalFailure(D)
  PROVE  SettledStays
  BY DEF PublishTerminalFailure, SettledStays, Settled, Active

\* What a cancellation does.
LEMMA CancellationSettles ==
  ASSUME Known, NEW r \in Runs, status[r] = "CANCEL_REQUESTED", FinalizeCancellation(r)
  PROVE  SettledStays /\ status'[r] \in Settled
  BY DEF FinalizeCancellation, SetRun, SettledStays, Settled, Known, TypeOK

\* The steps of prepare.
LEMMA PrepareKeepsSettlers ==
  ASSUME Known, SettlersAreRight, NEW w \in Workers,
         TakeRun(w) \/ CancelAtCheckpoint(w) \/ Stage(w) \/ VerifyStaged(w)
  PROVE  SettlersAreRight'
<1>1. /\ pc[w] \in AtWork /\ pc[w] \notin {"settle", "settling"}
      /\ UNCHANGED held
      /\ \E s \in Steps : pc' = [pc EXCEPT ![w] = s]
  BY DEF TakeRun, CancelAtCheckpoint, Stage, VerifyStaged, Checkpoint, Goto,
     Throw, AtWork, Steps
<1>2. /\ Run(w) \in Runs /\ IsRight(w) /\ Run(w)' = Run(w)
      /\ \A v \in Workers \ {w} : pc'[v] = pc[v] /\ held'[v] = held[v]
      /\ status \in [Runs -> RunStatus]
  BY <1>1, RunOfWorker DEF SettlersAreRight, Run, Known, TypeOK
<1>3. SettledStays
  <2>1. CASE UNCHANGED runVars
    BY <2>1 DEF runVars, SettledStays
  <2>2. CASE status[Run(w)] = "CANCEL_REQUESTED" /\ FinalizeCancellation(Run(w))
    BY <1>2, <2>2, CancellationSettles
  <2>3. CASE /\ status[Run(w)] \in {"QUEUED", "RUNNING"}
             /\ \E s \in {"RUNNING", "PUBLISHING"} :
                  status' = [status EXCEPT ![Run(w)] = s]
             /\ UNCHANGED retries
    BY <1>2, <2>3 DEF SettledStays, Settled
  <2>4. QED
    BY <2>1, <2>2, <2>3 DEF TakeRun, CancelAtCheckpoint, Stage, VerifyStaged,
       Checkpoint, SetRun
<1>4. pc'[w] \in {"cancel", "settle", "settling"} => IsRight(w)'
  <2> SUFFICES ASSUME pc'[w] \in {"cancel", "settle", "settling"},
                      held[w] = JobOf(Run(w))
               PROVE  /\ pc'[w] \in {"settle", "settling"} => status'[Run(w)] \in Settled
                      /\ pc'[w] = "cancel" =>
                           status'[Run(w)] \in Settled \cup {"CANCEL_REQUESTED"}
    BY <1>1, <1>2, <1>3 DEF IsRight, JobOf, SettledStays
  <2>1. CASE TakeRun(w)
    BY <1>2, <2>1 DEF TakeRun, Goto, Throw, runVars, Known, TypeOK
  <2>2. CASE CancelAtCheckpoint(w)
    <3>1. status[Run(w)] \in Settled \cup {"CANCEL_REQUESTED"} /\ pc'[w] = "settle"
      BY <1>2, <2>2 DEF CancelAtCheckpoint, IsRight, Goto, Known, TypeOK
    <3>2. QED
      BY <1>2, <1>3, <2>2, <3>1, CancellationSettles
         DEF CancelAtCheckpoint, SettledStays
  <2>3. ASSUME NEW n \in {"verify", "complete"}, NEW s, NEW k,
               Checkpoint(w, k, n, s)
        PROVE  pc'[w] = "settle" /\ status'[Run(w)] \in Settled
    <3>1. /\ status[Run(w)] = "CANCEL_REQUESTED"
          /\ FinalizeCancellation(Run(w)) /\ Goto(w, "settle")
      BY <2>3 DEF Checkpoint, Goto, Throw, Known, TypeOK
    <3>2. QED
      BY <1>2, <3>1, CancellationSettles DEF Goto, Known, TypeOK
  <2>4. CASE Stage(w) \/ VerifyStaged(w)
    BY <2>3, <2>4 DEF Stage, VerifyStaged
  <2>5. QED
    BY <2>1, <2>2, <2>4
<1>5. QED
  BY <1>2, <1>3, <1>4, SettlersStay

\* The steps that change runs and let a job go, or none at all.
LEMMA OthersKeepSettlers ==
  ASSUME Known, SettlersAreRight, NEW w \in Workers,
         \/ Recover(w) \/ Dispatch(w) \/ ClaimJob(w) \/ Heartbeat(w)
         \/ VerifyJobLease(w) \/ BeginComplete(w) \/ Publish(w) \/ SettleJob(w)
         \/ PublishThrows(w) \/ PrepareThrows(w) \/ Fail(w) \/ Crash(w)
  PROVE  SettlersAreRight'
<1>1. SettledStays
  <2>1. CASE UNCHANGED runVars
    BY <2>1 DEF runVars, SettledStays
  <2>2. CASE Recover(w) \/ Fail(w)
    BY <2>1, <2>2, FailureSettles DEF Recover, Fail
  <2>3. CASE Publish(w)
    <3>1. Run(w) \in Runs
      BY <2>3, RunOfWorker DEF Publish, AtWork, Steps
    <3>2. CASE status[Run(w)] = "CANCEL_REQUESTED" /\ FinalizeCancellation(Run(w))
      BY <3>1, <3>2, CancellationSettles
    <3>3. CASE status[Run(w)] # "CANCEL_REQUESTED"
      BY <2>3, <3>3 DEF Publish, SettledStays, Settled
    <3>4. QED
      BY <2>3, <3>2, <3>3 DEF Publish
  <2>4. QED
    BY <2>1, <2>2, <2>3 DEF Dispatch, ClaimJob, Heartbeat, VerifyJobLease,
       BeginComplete, SettleJob, PublishThrows, PrepareThrows, Crash
<1>2. \A v \in Workers :
         \/ pc'[v] \notin {"cancel", "settle", "settling"}
         \/ /\ held'[v] = held[v]
            /\ pc'[v] = pc[v] \/ (pc[v] = "settle" /\ pc'[v] = "settling")
  <2>1. pc \in [Workers -> Steps] /\ held \in [Workers -> Jobs \cup {None}]
    BY DEF Known, TypeOK
  <2>2. CASE UNCHANGED <<pc, held>>
    BY <2>2
  <2>3. CASE Poll(w)
    BY <2>1, <2>3 DEF Poll
  <2>4. CASE \E kind \in Faults : Throw(w, kind)
    BY <2>1, <2>4 DEF Throw
  <2>5. CASE ClaimJob(w)
    BY <2>1, <2>5 DEF ClaimJob
  <2>6. CASE BeginComplete(w)
    BY <2>1, <2>6 DEF BeginComplete, Goto, Throw
  <2>7. QED
    BY <2>2, <2>3, <2>4, <2>5, <2>6 DEF Recover, Dispatch, Heartbeat,
       VerifyJobLease, Publish, SettleJob, PublishThrows, PrepareThrows, Fail,
       Crash, workerVars, Faults
<1>3. QED
  BY <1>1, <1>2, SettlersStay

\* Together.
LEMMA SettlersKept ==
  ASSUME Known, SettlersAreRight, [Next]_vars
  PROVE  SettlersAreRight'
<1>1. CASE UNCHANGED runVars /\ UNCHANGED workerVars
  BY <1>1, SettlersStay DEF runVars, workerVars, SettledStays
<1>2. CASE \E r \in Runs : CancelWaiting(r) \/ RequestCancel(r)
  <2>1. SettledStays
    BY <1>2 DEF CancelWaiting, RequestCancel, SetRun, SettledStays, Settled,
       Known, TypeOK
  <2>2. QED
    BY <1>2, <2>1, SettlersStay DEF CancelWaiting, RequestCancel, workerVars
<1>3. CASE UNCHANGED vars \/ Tick
  BY <1>1, <1>3 DEF vars, Tick
<1>4. QED
  BY <1>2, <1>3, QueuedKeepsSettlers, PrepareKeepsSettlers, OthersKeepSettlers
     DEF Next, WorkerStep
-----------------------------------------------------------------------------
(* The theorems.                                                           *)

\* The jobs workers hold stay jobs or None, their tokens numbers.
LEMMA HeldKeepsTypes ==
  ASSUME TypeOK, NEW w \in Workers, Q!TypeOK',
         \/ UNCHANGED <<held, token, fault>>
         \/ Poll(w)
         \/ UNCHANGED <<held, token>> /\ \E k \in Faults : fault' = [fault EXCEPT ![w] = k]
         \/ /\ \E j \in Jobs : /\ held' = [held EXCEPT ![w] = j]
                               /\ token' = [token EXCEPT ![w] = issued'[j]]
            /\ UNCHANGED fault
  PROVE  /\ held' \in [Workers -> Jobs \cup {None}]
         /\ token' \in [Workers -> Nat]
         /\ fault' \in [Workers -> Faults \cup {None}]
<1>1. CASE \E j \in Jobs : /\ held' = [held EXCEPT ![w] = j]
                           /\ token' = [token EXCEPT ![w] = issued'[j]]
                           /\ UNCHANGED fault
  BY <1>1 DEF TypeOK, Q!TypeOK
<1>2. CASE Poll(w)
  BY <1>2 DEF TypeOK, Poll, Q!NoToken
<1>3. QED
  BY <1>1, <1>2 DEF TypeOK

\* The steps of the service keep the types.
LEMMA TypesKeptByServices ==
  ASSUME TypeOK, NEW r \in Runs, Q!TypeOK',
         Create(r) \/ Retry(r) \/ CancelWaiting(r) \/ RequestCancel(r)
  PROVE  TypeOK'
<1>1. (owner' \in [Runs -> (Jobs \X Nat) \cup {None}])
  BY DEF TypeOK, Create, Retry, CancelWaiting, RequestCancel, SetRun
<1>2. status' \in [Runs -> RunStatus] /\ batch' \in Idle \cup Busy
  BY DEF TypeOK, Create, Retry, CancelWaiting, RequestCancel, SetRun, Restored,
     RunStatus, Active, Settled, Idle, Busy
<1>3. retries' \in [Runs -> 0..MaxRetries]
  BY BoundsAssumption DEF TypeOK, Create, Retry, CancelWaiting, RequestCancel
<1>4. UNCHANGED <<current, workerVars, crashes>>
  BY DEF Create, Retry, CancelWaiting, RequestCancel
<1>5. QED
  BY <1>1, <1>2, <1>3, <1>4 DEF TypeOK, workerVars

\* What the workers do to the runs keeps their types.
LEMMA RunsKeepTypes ==
  ASSUME TypeOK, WorkersHold, NEW w \in Workers, WorkerStep(w) \/ Recover(w)
  PROVE  /\ status' \in [Runs -> RunStatus]
         /\ owner' \in [Runs -> (Jobs \X Nat) \cup {None}]
         /\ batch' \in Idle \cup Busy
         /\ current' \in Runs \cup {None}
         /\ UNCHANGED retries
<1> USE DEF TypeOK
<1>1. CASE UNCHANGED runVars
  BY <1>1 DEF runVars
<1>2. CASE \E D \in SUBSET Jobs : PublishTerminalFailure(D)
  BY <1>2 DEF PublishTerminalFailure, Restored, RunStatus, Settled, Idle
<1>3. CASE FinalizeCancellation(Run(w))
  BY <1>3 DEF FinalizeCancellation, SetRun, RestoreBatch, Restored, RunStatus,
     Settled, Idle
<1>4. CASE TakeRun(w) \/ Stage(w) \/ VerifyStaged(w)
  <2>1. LeaseOf(w) \in Jobs \X Nat
    BY <1>4 DEF TakeRun, Stage, VerifyStaged, Checkpoint, WorkersHold, AtWork,
       Steps, LeaseOf
  <2>2. QED
    BY <1>1, <1>3, <1>4, <2>1 DEF TakeRun, Stage, VerifyStaged, Checkpoint, SetRun,
       RunStatus, Active, Busy
<1>5. CASE Publish(w)
  <2>1. Run(w) \in Runs
    BY <1>5 DEF Publish, WorkersHold, AtWork, Steps, Run, Jobs
  <2>2. QED
    BY <1>3, <1>5, <2>1 DEF Publish, RunStatus, Settled, Idle
<1>6. CASE CancelAtCheckpoint(w)
  BY <1>1, <1>3, <1>6 DEF CancelAtCheckpoint
<1>7. CASE Recover(w)
  <2>1. PICK S \in SUBSET Jobs : PublishTerminalFailure({j \in S : Q!Exhausted(j)})
    BY <1>7 DEF Recover
  <2>2. {j \in S : Q!Exhausted(j)} \in SUBSET Jobs
    OBVIOUS
  <2>3. QED
    BY <1>2, <2>1, <2>2
<1>8. CASE Fail(w)
  <2>1. {held[w]} \cap {j \in Jobs : fault[w] # "RETRYABLE" \/ Q!Exhausted(j)} \in SUBSET Jobs
    OBVIOUS
  <2>2. QED
    BY <1>1, <1>2, <1>8, <2>1 DEF Fail, runVars
<1>9. QED
  BY <1>1, <1>4, <1>5, <1>6, <1>7, <1>8 DEF WorkerStep, VerifyJobLease,
     BeginComplete, SettleJob, PublishThrows, PrepareThrows

\* The steps of the workers keep the types.
LEMMA TypesKeptByWorkers ==
  ASSUME TypeOK, WorkersHold, NEW w \in Workers, Q!TypeOK',
         \/ Recover(w) \/ Dispatch(w) \/ ClaimJob(w)
         \/ WorkerStep(w) \/ Heartbeat(w) \/ Crash(w)
  PROVE  TypeOK'
<1>1. (pc' \in [Workers -> Steps])
  <2>1. \E s \in Steps : pc' = [pc EXCEPT ![w] = s] \/ UNCHANGED pc
    BY DEF WorkerStep, Recover, Dispatch, ClaimJob, Heartbeat, Crash,
       VerifyJobLease, TakeRun, CancelAtCheckpoint, Stage, VerifyStaged,
       Checkpoint, BeginComplete, Publish, SettleJob, PublishThrows,
       PrepareThrows, Fail, Poll, Goto, Throw, Steps, workerVars
  <2>2. QED
    BY <2>1 DEF TypeOK
<1>2. (checked' \in [Workers -> BOOLEAN])
  <2>1. \E c \in BOOLEAN : checked' = [checked EXCEPT ![w] = c] \/ UNCHANGED checked
    BY DEF WorkerStep, Recover, Dispatch, ClaimJob, Heartbeat, Crash,
       VerifyJobLease, TakeRun, CancelAtCheckpoint, Stage, VerifyStaged,
       Checkpoint, BeginComplete, Publish, SettleJob, PublishThrows,
       PrepareThrows, Fail, Poll, Goto, Throw, workerVars
  <2>2. QED
    BY <2>1 DEF TypeOK
<1>3. /\ held' \in [Workers -> Jobs \cup {None}]
      /\ token' \in [Workers -> Nat]
      /\ fault' \in [Workers -> Faults \cup {None}]
  <2>1. \/ UNCHANGED <<held, token, fault>>
        \/ Poll(w)
        \/ UNCHANGED <<held, token>> /\ \E k \in Faults : fault' = [fault EXCEPT ![w] = k]
        \/ /\ \E j \in Jobs : /\ held' = [held EXCEPT ![w] = j]
                              /\ token' = [token EXCEPT ![w] = issued'[j]]
           /\ UNCHANGED fault
    BY DEF WorkerStep, Recover, Dispatch, ClaimJob, Heartbeat, Crash,
       VerifyJobLease, TakeRun, CancelAtCheckpoint, Stage, VerifyStaged,
       Checkpoint, BeginComplete, Publish, SettleJob, PublishThrows,
       PrepareThrows, Fail, Goto, Throw, workerVars, Faults
  <2>2. QED
    BY <2>1, HeldKeepsTypes
<1>4. /\ status' \in [Runs -> RunStatus]
      /\ owner' \in [Runs -> (Jobs \X Nat) \cup {None}]
      /\ batch' \in Idle \cup Busy
      /\ current' \in Runs \cup {None}
      /\ retries' \in [Runs -> 0..MaxRetries]
  <2>1. CASE WorkerStep(w) \/ Recover(w)
    BY <2>1, RunsKeepTypes DEF TypeOK
  <2>2. CASE UNCHANGED runVars
    BY <2>2 DEF TypeOK, runVars
  <2>3. QED
    BY <2>1, <2>2 DEF Dispatch, ClaimJob, Heartbeat, Crash
<1>5. crashes' \in 0..MaxCrashes
  <2>1. UNCHANGED crashes \/ (crashes < MaxCrashes /\ crashes' = crashes + 1)
    BY DEF WorkerStep, Recover, Dispatch, ClaimJob, Heartbeat, Crash,
       VerifyJobLease, TakeRun, CancelAtCheckpoint, Stage, VerifyStaged,
       Checkpoint, BeginComplete, Publish, SettleJob, PublishThrows,
       PrepareThrows, Fail
  <2>2. crashes \in 0..MaxCrashes /\ MaxCrashes \in Nat
    BY BoundsAssumption DEF TypeOK
  <2>3. QED
    BY <2>1, <2>2
<1>6. QED
  BY <1>1, <1>2, <1>3, <1>4, <1>5 DEF TypeOK

\* The initial state: no runs, no jobs, no worker at work.
LEMMA InitEstablishes == Init => IInv /\ Q!Init
<1> SUFFICES ASSUME Init PROVE IInv /\ Q!Init
  OBVIOUS
<1>1. Q!Init
  BY DEF Init
<1>2. QP!Init
  BY <1>1 DEF Q!Init, QP!Init, Q!NoToken, QP!NoToken, Q!NoJob, QP!NoJob
<1>3. QP!QueueInv
  BY <1>2, QP!InitEstablishesQueueInv, BoundsAssumption
     DEF QP!InitEstablishesQueueInv, QP!MaxAttemptsAssumption,
         QP!LeaseAssumption, QP!BatchLimitAssumption
<1>4. Q!TypeOK
  BY <1>3, QueueFacts
<1>5. TypeOK
  BY <1>4, BoundsAssumption
     DEF Init, TypeOK, RunStatus, Idle, Steps, Q!NoToken
<1>6. WorkerPart /\ SettlersAreRight
  BY DEF Init, WorkerPart, WorkersHold, TokensDiffer, CommitterHasLock,
     SettlersAreRight, AtWork
<1>7. JobsInTurn
  <2>1. \A r \in Runs : /\ JobOf(r) \in Jobs
                        /\ \A k \in 0..MaxRetries : <<r, k>> \in Jobs
    BY <1>5, JobsOfRuns
  <2>2. QED
    BY <1>1, <2>1, BoundsAssumption DEF Init, Q!Init, JobsInTurn
<1>8. RunPart
  BY <1>7, NoneAssumption DEF Init, RunPart, OneActiveRun, BatchIsBusy,
     CurrentRunIsTheOnlySuccess, LatestIsLive, Restored, Active, Busy
<1>9. QED
  BY <1>1, <1>3, <1>5, <1>6, <1>8 DEF IInv

\* Every step preserves the invariant and is a step of the queue.
LEMMA StepKeeps == IInv /\ [Next]_vars => IInv' /\ [Q!Next]_(Q!vars)
<1> SUFFICES ASSUME IInv, [Next]_vars PROVE IInv' /\ [Q!Next]_(Q!vars)
  OBVIOUS
<1>1. [Q!Next]_(Q!vars)
  BY StepIsQueueStep DEF IInv, WorkerPart
<1>2. QP!QueueInv'
  BY <1>1, QueueStep DEF IInv
<1>3. Q!TypeOK'
  <2>1. QP!TypeOK'
    BY <1>2 DEF QP!QueueInv
  <2>2. QED
    BY <2>1 DEF QP!TypeOK, Q!TypeOK, Q!OutboxStatus, QP!OutboxStatus, Q!JobRow,
       QP!JobRow, Q!JobStatus, QP!JobStatus
<1>4. WorkerPart' /\ RunPart' /\ SettlersAreRight'
  BY WorkerPartKept, RunPartKept, SettlersKept DEF IInv, Known
<1>5. TypeOK'
  <2>1. CASE UNCHANGED vars \/ Tick
    BY <1>3, <2>1 DEF IInv, TypeOK, vars, Tick, runVars, workerVars
  <2>2. QED
    BY <1>3, <2>1, TypesKeptByServices, TypesKeptByWorkers DEF IInv, WorkerPart, Next
<1>6. QED
  BY <1>1, <1>2, <1>4, <1>5 DEF IInv

\* The inductive invariant of the normalization runs.
THEOREM RunInvariant == Spec => []IInv
<1>1. Init => IInv
  BY InitEstablishes
<1>2. IInv /\ [Next]_vars => IInv'
  BY StepKeeps
<1>3. QED
  BY <1>1, <1>2, PTL DEF Spec

\* Runs, batch, workers and queue are well typed.
THEOREM TypeCorrect == Spec => []TypeOK
<1>1. IInv => TypeOK
  BY DEF IInv
<1>2. QED
  BY <1>1, RunInvariant, PTL

\* Whatever users, workers and crashes do to the jobs of runs is something
\* the queue allows, so its theorems hold here too.
THEOREM QueueRefinement == Spec => ImplementsQueue
<1>1. Init => Q!Init
  BY InitEstablishes
<1>2. IInv /\ [Next]_vars => [Q!Next]_(Q!vars)
  BY StepKeeps
<1>3. QED
  BY <1>1, <1>2, RunInvariant, PTL DEF Spec, ImplementsQueue, Q!Spec

\* The batch is busy exactly while one run of it is active.
THEOREM OneRunAtATime == Spec => []BatchReflectsRuns
<1>1. IInv => BatchReflectsRuns
  <2> SUFFICES ASSUME IInv
               PROVE  Cardinality({r \in Runs : status[r] \in Active}) =
                        IF batch \in Busy THEN 1 ELSE 0
    BY DEF IInv, RunPart, BatchIsBusy, BatchReflectsRuns
  <2>1. CASE batch \in Busy
    <3>1. PICK r \in Runs : status[r] \in Active
      BY <2>1 DEF IInv, RunPart, BatchIsBusy
    <3>2. {s \in Runs : status[s] \in Active} = {r}
      BY <3>1 DEF IInv, RunPart, OneActiveRun
    <3>3. QED
      BY <2>1, <3>2, FS_Singleton
  <2>2. CASE batch \notin Busy
    <3>1. {s \in Runs : status[s] \in Active} = {}
      BY <2>2 DEF IInv, RunPart, BatchIsBusy
    <3>2. QED
      BY <2>2, <3>1, FS_EmptySet
  <2>3. QED
    BY <2>1, <2>2
<1>2. QED
  BY <1>1, RunInvariant, PTL

\* The pointer of the batch names its one published run.
THEOREM PointerIsRight == Spec => []CurrentRunIsTheOnlySuccess
<1>1. IInv => CurrentRunIsTheOnlySuccess
  BY DEF IInv, RunPart
<1>2. QED
  BY <1>1, RunInvariant, PTL

\* No active run is left without a job that can still be worked on.
THEOREM NoOrphans == Spec => []ActiveRunHasLiveJob
<1>1. IInv => ActiveRunHasLiveJob
  BY DEF IInv, RunPart, LatestIsLive, JobsInTurn, ActiveRunHasLiveJob
<1>2. QED
  BY <1>1, RunInvariant, PTL

\* What publishTerminalFailure, a cancellation and a publication do to a run is
\* in the table of state-machine.ts.
LEMMA MovesAreLegal ==
  ASSUME IInv, Next, NEW r \in Runs, status'[r] # status[r]
  PROVE  <<status[r], status'[r]>> \in Transitions
<1> DEFINE Legal == <<status[r], status'[r]>> \in Transitions
<1>1. status \in [Runs -> RunStatus]
  BY DEF IInv, TypeOK
<1>2. ASSUME NEW D, PublishTerminalFailure(D) PROVE Legal
  BY <1>2 DEF PublishTerminalFailure, Transitions, Active
<1>3. ASSUME NEW s \in Runs, status[s] = "CANCEL_REQUESTED", FinalizeCancellation(s)
      PROVE  Legal
  BY <1>1, <1>3 DEF FinalizeCancellation, SetRun, Transitions
<1>4. CASE \E s \in Runs : Create(s) \/ Retry(s) \/ CancelWaiting(s) \/ RequestCancel(s)
  BY <1>1, <1>4 DEF Create, Retry, CancelWaiting, RequestCancel, SetRun, Transitions
<1>5. ASSUME NEW w \in Workers, Recover(w) \/ WorkerStep(w) PROVE Legal
  <2>1. CASE Recover(w) \/ Fail(w)
    BY <1>2, <2>1 DEF Recover, Fail, runVars
  <2>2. CASE \/ TakeRun(w) \/ CancelAtCheckpoint(w) \/ Stage(w)
             \/ VerifyStaged(w) \/ Publish(w)
    <3>1. Run(w) \in Runs
      BY <2>2, RunOfWorker DEF TakeRun, CancelAtCheckpoint, Stage,
         VerifyStaged, Checkpoint, Publish, AtWork, Steps, IInv, Known
    <3>2. CASE status[Run(w)] = "CANCEL_REQUESTED" /\ FinalizeCancellation(Run(w))
      BY <1>3, <3>1, <3>2
    <3>3. CASE Publish(w) /\ status[Run(w)] # "CANCEL_REQUESTED"
      BY <3>3 DEF Publish, Transitions
    <3>4. CASE \E s \in {"RUNNING", "PUBLISHING"} :
                 /\ status[Run(w)] = "RUNNING"
                    \/ (status[Run(w)] = "QUEUED" /\ s = "RUNNING")
                 /\ status' = [status EXCEPT ![Run(w)] = s]
      BY <1>1, <3>4 DEF Transitions
    <3>5. QED
      BY <2>2, <3>2, <3>3, <3>4 DEF TakeRun, CancelAtCheckpoint, Stage,
         VerifyStaged, Checkpoint, Publish, SetRun, runVars
  <2>3. QED
    BY <1>5, <2>1, <2>2 DEF WorkerStep, VerifyJobLease, BeginComplete,
       SettleJob, PublishThrows, PrepareThrows, runVars
<1>6. QED
  BY <1>4, <1>5 DEF Next, Dispatch, ClaimJob, Heartbeat, Crash, Tick, runVars

\* Runs move only along the table; a run whose cancellation was accepted never
\* succeeds.
THEOREM LegalMoves == Spec => LegalTransitions
<1>1. IInv /\ [Next]_vars =>
        [\A r \in Runs : status'[r] # status[r] =>
           <<status[r], status'[r]>> \in Transitions]_vars
  BY MovesAreLegal
<1>2. QED
  BY <1>1, RunInvariant, PTL DEF Spec, LegalTransitions

\* A run becomes SUCCEEDED only in the commit of the holder of its newest
\* lease.
LEMMA SuccessIsLeased ==
  ASSUME IInv, Next, NEW r \in Runs, status'[r] = "SUCCEEDED", status[r] # "SUCCEEDED"
  PROVE  /\ owner[r] = <<JobOf(r), issued[JobOf(r)]>>
         /\ jobs'[JobOf(r)].status = "SUCCEEDED"
<1>1. status \in [Runs -> RunStatus] /\ Known /\ Q!TypeOK
  BY DEF IInv, TypeOK, Known
<1>2. PICK w \in Workers : Publish(w) /\ ~FinalizeCancellation(Run(w)) /\ r = Run(w)
  <2>1. CASE \E w \in Workers : Publish(w)
    <3>1. PICK w \in Workers : Publish(w)
      BY <2>1
    <3>2. ~FinalizeCancellation(Run(w))
      BY <1>1 DEF FinalizeCancellation, SetRun
    <3>3. QED
      BY <3>1, <3>2 DEF Publish
  <2>2. CASE \E D : PublishTerminalFailure(D)
    BY <2>2 DEF PublishTerminalFailure
  <2>3. CASE \E s \in Runs : Create(s) \/ Retry(s) \/ CancelWaiting(s) \/ RequestCancel(s)
    BY <1>1, <2>3 DEF Create, Retry, CancelWaiting, RequestCancel, SetRun
  <2>4. CASE \E w \in Workers : TakeRun(w) \/ CancelAtCheckpoint(w)
                                \/ Stage(w) \/ VerifyStaged(w)
    BY <1>1, <2>4 DEF TakeRun, CancelAtCheckpoint, Stage, VerifyStaged,
       Checkpoint, FinalizeCancellation, SetRun, runVars
  <2>5. QED
    BY <2>1, <2>2, <2>3, <2>4 DEF Next, WorkerStep, Recover, Dispatch,
       ClaimJob, Heartbeat, Crash, Tick, VerifyJobLease, BeginComplete,
       SettleJob, PublishThrows, PrepareThrows, Fail, runVars
<1>3. held[w] \in Jobs /\ token[w] = lock[held[w]] /\ token[w] # 0
  BY <1>2, RunOfWorker DEF Publish, AtWork, Steps, Q!CommitComplete, Q!NoToken, Known,
     IInv
<1>4. /\ jobs[held[w]].status = "RUNNING"
      /\ jobs'[held[w]].status = "SUCCEEDED"
  BY <1>1, <1>2, <1>3, CommitEffect DEF Publish
<1>5. held[w] = JobOf(r)
  BY <1>1, <1>2, <1>3, <1>4, LiveIsLatest DEF Run
<1>6. token[w] = issued[held[w]]
  BY <1>3, <1>4, QueueFacts DEF IInv
<1>7. owner[r] = LeaseOf(w)
  BY <1>2 DEF Publish
<1>8. QED
  BY <1>4, <1>5, <1>6, <1>7 DEF LeaseOf

\* A run is published under the newest lease of its job, with the job.
THEOREM LeasedPublication == Spec => PublishedUnderLease
<1>1. IInv /\ [Next]_vars =>
        [\A r \in Runs : status'[r] = "SUCCEEDED" /\ status[r] # "SUCCEEDED" =>
           /\ owner[r] = <<JobOf(r), issued[JobOf(r)]>>
           /\ jobs'[JobOf(r)].status = "SUCCEEDED"]_vars
  BY SuccessIsLeased
<1>2. QED
  BY <1>1, RunInvariant, PTL DEF Spec, PublishedUnderLease
=============================================================================
