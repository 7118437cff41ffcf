---------------------------- MODULE ParseJobsProofs ----------------------------
(***************************************************************************)
(* That the workers and services of ParseJobs use the queue as JobQueue    *)
(* specifies, for any number of batches, workers, attempts and crashes,    *)
(* and what follows for the batches.                                       *)
(*                                                                         *)
(* A worker presents a token that was drawn for its job (WorkersHold), so  *)
(* each of its steps is a step of the queue, and the invariant proved of   *)
(* the queue holds here as well.  From it follows that the worker inside   *)
(* its commit has the newest token.  A batch and its job agree because     *)
(* every transaction that ends one ends the other, and because the locked  *)
(* batch of a cancellation is not moved by anybody else (LockedIsOpen).    *)
(*                                                                         *)
(* Two facts of the attempts make the rest: a job is DEAD only after its   *)
(* last attempt (AttemptsMade), and what a worker still works on has not   *)
(* been published under its token (WorkIsUnpublished).  An attempt whose   *)
(* heartbeat was missed is then Hopeless, and stays so.                    *)
(***************************************************************************)
EXTENDS ParseJobs, TLAPS

QP == INSTANCE JobQueueProofs

Busy == {"handle", "verify", "complete", "commit", "fail"}

\* A worker at work has a job and a token that was drawn for it, and no other
\* worker has that token.
WorkersHold ==
    \A w \in Workers :
      IF pc[w] \in Busy THEN held[w] \in Jobs /\ token[w] \in 1..issued[held[w]]
                        ELSE held[w] = None

TokensDiffer ==
    \A w, v \in Workers :
      pc[w] \in Busy /\ pc[v] \in Busy /\ w # v /\ held[w] = held[v]
        => token[w] # token[v]

\* Who publishes has the row locked.
CommitterHasLock ==
    \A w \in Workers : pc[w] = "commit" => lock[held[w]] = token[w]

\* A batch whose row a cancellation holds stays as the cancellation found it.
LockedIsOpen ==
    \A b \in Jobs : batchLock[b] => batch[b] \in {"FILE_READY", "QUEUED_FOR_PARSING"}

\* A batch that was never queued has no outbox row, and a job that was not
\* cancelled came from one.
RowsFollowBatch ==
    \A b \in Jobs :
      /\ batch[b] = "FILE_READY" => outbox[b] = "NONE"
      /\ jobs[b].status \in {"QUEUED", "RUNNING", "SUCCEEDED", "DEAD"}
           => outbox[b] = "PUBLISHED"

\* A job is given up only after its last attempt.
AttemptsMade == \A b \in Jobs : jobs[b].status = "DEAD" => issued[b] = MaxAttempts

\* What a worker is still at work on has not been published under its token.
WorkIsUnpublished ==
    \A w \in Workers : pc[w] \in Busy \ {"fail"} => token[w] \notin published[held[w]]

\* The attempt with token t was not published, and no worker will: the one
\* that made it has failed, or has missed a heartbeat and is going to.
Hopeless(b, t) ==
    /\ t \in 1..issued[b]
    /\ t \notin published[b]
    /\ \A w \in Workers :
         pc[w] \in Busy /\ held[w] = b /\ token[w] = t
           => \/ pc[w] = "fail"
              \/ lost[w] /\ pc[w] \in {"handle", "verify"}

WorkerPart == WorkersHold /\ TokensDiffer /\ CommitterHasLock

BatchPart == LockedIsOpen /\ RowsFollowBatch /\ BatchMatchesJob

\* The inductive invariant.
IInv ==
    /\ TypeOK /\ QP!QueueInv /\ WorkerPart /\ BatchPart
    /\ AttemptsMade /\ WorkIsUnpublished

-----------------------------------------------------------------------------
(* The queue of ParseJobs is the queue the theorems of JobQueueProofs are  *)
(* about.                                                                  *)

\* The insert of the outbox row: the two instances agree.
LEMMA SameEnqueue == ASSUME NEW j PROVE Q!Enqueue(j) <=> QP!Enqueue(j)
  BY DEF Q!Enqueue, QP!Enqueue

\* claim: the two instances agree.
LEMMA SameClaim == ASSUME NEW j PROVE Q!Claim(j) <=> QP!Claim(j)
  BY DEF Q!Claim, QP!Claim, Q!Available, QP!Available, Q!Unlocked,
       QP!Unlocked, Q!Leased, QP!Leased, Q!NoToken, QP!NoToken

\* The rollback of complete: the two instances agree.
LEMMA SameRollbackComplete ==
  ASSUME NEW j
  PROVE Q!RollbackComplete(j) <=> QP!RollbackComplete(j)
  BY DEF Q!RollbackComplete, QP!RollbackComplete, Q!NoToken, QP!NoToken

\* cancelBatch: the two instances agree.
LEMMA SameCancelRunning == ASSUME NEW j PROVE Q!CancelRunning(j) <=> QP!CancelRunning(j)
  BY DEF Q!CancelRunning, QP!CancelRunning, Q!Unlocked, QP!Unlocked,
       Q!Unleased, QP!Unleased, Q!NoToken, QP!NoToken

\* The cancellation of a waiting run: the two instances agree.
LEMMA SameCancelQueued == ASSUME NEW j PROVE Q!CancelQueued(j) <=> QP!CancelQueued(j)
  BY DEF Q!CancelQueued, QP!CancelQueued, Q!Unlocked, QP!Unlocked, Q!Unleased,
       QP!Unleased, Q!NoToken, QP!NoToken

\* heartbeat: the two instances agree.
LEMMA SameHeartbeat == ASSUME NEW j, NEW t PROVE Q!Heartbeat(j, t) <=> QP!Heartbeat(j, t)
  BY DEF Q!Heartbeat, QP!Heartbeat, Q!Unlocked, QP!Unlocked, Q!Active,
       QP!Active, Q!Leased, QP!Leased, Q!NoToken, QP!NoToken

\* The row lock of complete: the two instances agree.
LEMMA SameBeginComplete ==
  ASSUME NEW j, NEW t
  PROVE Q!BeginComplete(j, t) <=> QP!BeginComplete(j, t)
  BY DEF Q!BeginComplete, QP!BeginComplete, Q!Unlocked, QP!Unlocked, Q!Active,
       QP!Active, Q!NoToken, QP!NoToken

\* The commit of complete: the two instances agree.
LEMMA SameCommitComplete ==
  ASSUME NEW j, NEW t
  PROVE Q!CommitComplete(j, t) <=> QP!CommitComplete(j, t)
  BY DEF Q!CommitComplete, QP!CommitComplete, Q!Unleased, QP!Unleased,
       Q!NoToken, QP!NoToken

\* fail: the two instances agree.
LEMMA SameFail == ASSUME NEW j, NEW t, NEW f PROVE Q!Fail(j, t, f) <=> QP!Fail(j, t, f)
  BY DEF Q!Fail, QP!Fail, Q!Unlocked, QP!Unlocked, Q!Active, QP!Active,
       Q!Exhausted, QP!Exhausted, Q!AfterFailure, QP!AfterFailure, Q!Unleased,
       QP!Unleased, Q!NoToken, QP!NoToken, Q!Backoff, QP!Backoff,
       Q!BackoffSeconds, QP!BackoffSeconds

\* dispatchOutbox: the two instances agree.
LEMMA SameDispatchOutbox == ASSUME NEW S PROVE Q!DispatchOutbox(S) <=> QP!DispatchOutbox(S)
  BY DEF Q!DispatchOutbox, QP!DispatchOutbox, Q!Cardinality, QP!Cardinality,
       Q!Unleased, QP!Unleased, Q!NoToken, QP!NoToken

\* recoverExpired: the two instances agree.
LEMMA SameRecoverExpired == ASSUME NEW S PROVE Q!RecoverExpired(S) <=> QP!RecoverExpired(S)
  BY DEF Q!RecoverExpired, QP!RecoverExpired, Q!Cardinality, QP!Cardinality,
       Q!Expired, QP!Expired, Q!Unlocked, QP!Unlocked, Q!Exhausted,
       QP!Exhausted, Q!AfterFailure, QP!AfterFailure, Q!Unleased, QP!Unleased,
       Q!NoToken, QP!NoToken

\* The clock: the two instances agree.
LEMMA SameTick == Q!Tick <=> QP!Tick
  BY DEF Q!Tick, QP!Tick, Q!Aged, QP!Aged, Q!Countdown, QP!Countdown

\* So every step of the queue keeps what JobQueueProofs proves of it.
LEMMA QueueStep == ASSUME QP!QueueInv, [Q!Next]_(Q!vars) PROVE QP!QueueInv'
<1>1. [QP!Next]_(QP!vars)
  BY SameEnqueue, SameClaim, SameRollbackComplete, SameCancelRunning,
     SameCancelQueued, SameHeartbeat, SameBeginComplete, SameCommitComplete,
     SameFail, SameDispatchOutbox, SameRecoverExpired, SameTick DEF Q!Next,
     QP!Next, Q!vars, QP!vars
<1>2. QED
  BY <1>1, QP!StepPreservesQueueInv, BoundsAssumption
     DEF QP!StepPreservesQueueInv, QP!MaxAttemptsAssumption, QP!LeaseAssumption,
         QP!BatchLimitAssumption

\* What the batches need to know of a row of the queue is its status.
LEMMA QueueFacts ==
  ASSUME QP!QueueInv
  PROVE  /\ Q!TypeOK
         /\ \A j \in Jobs : /\ jobs[j].status = "RUNNING" => jobs[j].token = issued[j]
                            /\ lock[j] # 0 => jobs[j].status = "RUNNING"
                            /\ lock[j] # 0 => lock[j] = jobs[j].token
                            /\ jobs[j].status # "NONE" =>
                                 outbox[j] \in {"PUBLISHED", "CANCELLED"}
<1>1. Q!TypeOK
  <2>1. QP!TypeOK
    BY DEF QP!QueueInv
  <2>2. QED
    BY <2>1 DEF QP!TypeOK, Q!TypeOK, Q!OutboxStatus, QP!OutboxStatus, Q!JobRow,
       QP!JobRow, Q!JobStatus, QP!JobStatus
<1>2. QP!OnlyNewestLeaseIsValid /\ QP!OpenCompletionOwnsRow /\ QP!RowsComeFromOutbox
  BY DEF QP!QueueInv
<1>3. QED
  BY <1>1, <1>2 DEF QP!OnlyNewestLeaseIsValid, QP!OpenCompletionOwnsRow,
     QP!RowsComeFromOutbox, QP!NoToken

-----------------------------------------------------------------------------
(* What each operation of the queue does to the status of its rows.        *)

\* claim.
LEMMA ClaimEffect ==
  ASSUME Q!TypeOK, NEW j \in Jobs, Q!Claim(j)
  PROVE  /\ jobs[j].status = "QUEUED"
         /\ issued' = [issued EXCEPT ![j] = issued[j] + 1]
         /\ \A k \in Jobs : jobs'[k].status = IF k = j THEN "RUNNING" ELSE jobs[k].status
         /\ UNCHANGED <<outbox, lock>>
  BY DEF Q!TypeOK, Q!Claim, Q!Available, Q!Leased

\* heartbeat.
LEMMA HeartbeatEffect ==
  ASSUME Q!TypeOK, NEW j \in Jobs, NEW t, Q!Heartbeat(j, t)
  PROVE  /\ \A k \in Jobs : jobs'[k].status = jobs[k].status
         /\ UNCHANGED <<outbox, lock, issued>>
  BY DEF Q!TypeOK, Q!Heartbeat, Q!Active, Q!Leased

\* The clock.
LEMMA TickEffect ==
  ASSUME Q!Tick
  PROVE  /\ \A k \in Jobs : jobs'[k].status = jobs[k].status
         /\ UNCHANGED <<outbox, lock, issued>>
  BY DEF Q!Tick, Q!Aged

\* The commit of complete.
LEMMA CommitEffect ==
  ASSUME Q!TypeOK, NEW j \in Jobs, NEW t, Q!CommitComplete(j, t)
  PROVE  /\ jobs[j].status = "RUNNING"
         /\ \A k \in Jobs : jobs'[k].status = IF k = j THEN "SUCCEEDED" ELSE jobs[k].status
         /\ lock' = [lock EXCEPT ![j] = 0]
         /\ UNCHANGED <<outbox, issued>>
  BY DEF Q!TypeOK, Q!CommitComplete, Q!Unleased, Q!NoToken

\* fail, as runOnce calls it after a parse.
LEMMA FailEffect ==
  ASSUME Q!TypeOK, NEW j \in Jobs, NEW t, Q!Fail(j, t, FALSE)
  PROVE  /\ jobs[j].status = "RUNNING"
         /\ \A k \in Jobs : jobs'[k].status =
                              IF k # j THEN jobs[k].status
                              ELSE IF Q!Exhausted(j) THEN "DEAD" ELSE "QUEUED"
         /\ UNCHANGED <<outbox, lock, issued>>
<1>1. jobs' = [jobs EXCEPT ![j] =
                 IF Q!Exhausted(j) THEN Q!Unleased(j, "DEAD", 0)
                 ELSE Q!Unleased(j, "QUEUED", Q!Backoff(jobs[j].attempts))]
  BY DEF Q!Fail, Q!AfterFailure
<1>2. /\ jobs[j].status = "RUNNING"
      /\ UNCHANGED <<outbox, lock, issued>>
  BY DEF Q!Fail, Q!Active
<1>3. QED
  BY <1>1, <1>2 DEF Q!TypeOK, Q!Unleased

\* recoverExpired.
LEMMA RecoverEffect ==
  ASSUME NEW S \in SUBSET Jobs, Q!RecoverExpired(S)
  PROVE  /\ \A k \in S : jobs[k].status = "RUNNING"
         /\ \A k \in Jobs : jobs'[k].status =
                              IF k \notin S THEN jobs[k].status
                              ELSE IF Q!Exhausted(k) THEN "DEAD" ELSE "QUEUED"
         /\ UNCHANGED <<outbox, lock, issued>>
  BY DEF Q!RecoverExpired, Q!Expired, Q!AfterFailure, Q!Unleased

\* dispatchOutbox.
LEMMA DispatchEffect ==
  ASSUME NEW S \in SUBSET Jobs, Q!DispatchOutbox(S)
  PROVE  /\ \A k \in S : outbox[k] = "PENDING"
         /\ \A k \in Jobs : outbox'[k] = IF k \in S THEN "PUBLISHED" ELSE outbox[k]
         /\ \A k \in Jobs : jobs'[k].status =
                              IF k \in S /\ jobs[k].status = "NONE"
                              THEN "QUEUED" ELSE jobs[k].status
         /\ UNCHANGED <<lock, issued>>
  BY DEF Q!DispatchOutbox, Q!Unleased

\* cancelBatch.
LEMMA CancelEffect ==
  ASSUME Q!TypeOK, NEW j \in Jobs, Q!CancelRunning(j)
  PROVE  /\ outbox' = [outbox EXCEPT ![j] = "CANCELLED"]
         /\ \A k \in Jobs : jobs'[k].status =
                              IF k = j /\ jobs[k].status \in {"QUEUED", "RUNNING"}
                              THEN "CANCELLED" ELSE jobs[k].status
         /\ UNCHANGED <<lock, issued>>
  BY DEF Q!TypeOK, Q!CancelRunning, Q!Unleased

-----------------------------------------------------------------------------
(* Every step is a step of the queue.                                      *)

\* A tick of the heartbeat extends the lease under a token that was drawn.
LEMMA BeatIsQueueStep ==
  ASSUME WorkersHold, NEW w \in Workers, pc[w] \in Busy, Beat(w)
  PROVE  /\ [Q!Next]_(Q!vars)
         /\ UNCHANGED <<outbox, lock, issued>>
         /\ Q!TypeOK => \A k \in Jobs : jobs'[k].status = jobs[k].status
<1>1. held[w] \in Jobs /\ token[w] \in 1..issued[held[w]]
  BY DEF WorkersHold
<1>2. CASE Q!Heartbeat(held[w], token[w])
  <2>1. Q!Next
    BY <1>1, <1>2 DEF Q!Next
  <2>2. UNCHANGED <<outbox, lock, issued>>
    BY <1>2 DEF Q!Heartbeat
  <2>3. QED
    BY <1>1, <1>2, <2>1, <2>2, HeartbeatEffect
<1>3. CASE UNCHANGED queueVars
  BY <1>3 DEF queueVars, Q!vars
<1>4. QED
  BY <1>2, <1>3 DEF Beat

\* The steps of the services and of the clock.
LEMMA ServiceIsQueueStep ==
  ASSUME NEW b \in Jobs,
         QueueParse(b) \/ BeginCancel(b) \/ CommitCancel(b) \/ RollbackCancel(b)
  PROVE  [Q!Next]_(Q!vars)
<1>1. CASE QueueParse(b)
  BY <1>1 DEF QueueParse, Q!Next
<1>2. CASE BeginCancel(b)
  BY <1>2 DEF BeginCancel, queueVars, Q!vars
<1>3. CASE CommitCancel(b)
  BY <1>3 DEF CommitCancel, queueVars, Q!vars, Q!Next
<1>4. CASE RollbackCancel(b)
  BY <1>4 DEF RollbackCancel, queueVars, Q!vars
<1>5. QED
  BY <1>1, <1>2, <1>3, <1>4

\* The steps of a worker.
LEMMA WorkerIsQueueStep ==
  ASSUME WorkersHold, NEW w \in Workers,
         \/ WorkerStep(w) \/ Heartbeat(w) \/ PublishThrows(w)
         \/ FailThrows(w) \/ Crash(w) \/ Start(w)
  PROVE  [Q!Next]_(Q!vars)
<1>1. pc[w] \in Busy => held[w] \in Jobs /\ token[w] \in 1..issued[held[w]]
  BY DEF WorkersHold
<1>2. CASE Recover(w)
  BY <1>2 DEF Recover, queueVars, Q!vars, Q!Next
<1>3. CASE Dispatch(w)
  BY <1>3 DEF Dispatch, queueVars, Q!vars, Q!Next
<1>4. CASE Claim(w)
  BY <1>4 DEF Claim, queueVars, Q!vars, Q!Next
<1>5. CASE Handle(w)
  BY <1>5, BeatIsQueueStep DEF Handle, Renew, Busy, queueVars, Q!vars
<1>6. CASE Verify(w)
  BY <1>6, BeatIsQueueStep DEF Verify, Renew, Busy, queueVars, Q!vars
<1>7. CASE Heartbeat(w)
  BY <1>7, BeatIsQueueStep DEF Heartbeat, Busy
<1>8. CASE BeginComplete(w)
  BY <1>1, <1>8 DEF BeginComplete, Busy, queueVars, Q!vars, Q!Next
<1>9. CASE Commit(w)
  BY <1>1, <1>9 DEF Commit, Busy, Q!Next
<1>10. CASE PublishThrows(w)
  BY <1>1, <1>10 DEF PublishThrows, Busy, Q!Next
<1>11. CASE Fail(w)
  BY <1>1, <1>11 DEF Fail, Busy, queueVars, Q!vars, Q!Next
<1>12. CASE FailThrows(w) \/ Start(w)
  BY <1>12 DEF FailThrows, Start, queueVars, Q!vars
<1>13. CASE Crash(w)
  BY <1>1, <1>13 DEF Crash, Busy, queueVars, Q!vars, Q!Next
<1>14. QED
  BY <1>2, <1>3, <1>4, <1>5, <1>6, <1>7, <1>8, <1>9, <1>10, <1>11, <1>12,
     <1>13 DEF WorkerStep

\* Together: what the theorem on refinement needs, and the invariant too.
LEMMA StepIsQueueStep ==
  ASSUME WorkersHold, [Next]_vars
  PROVE  [Q!Next]_(Q!vars)
<1>1. CASE UNCHANGED vars
  BY <1>1 DEF vars, queueVars, Q!vars
<1>2. CASE Tick
  BY <1>2 DEF Tick, Q!Next
<1>3. QED
  BY <1>1, <1>2, ServiceIsQueueStep, WorkerIsQueueStep DEF Next

-----------------------------------------------------------------------------
(* The workers.                                                            *)

\* A worker goes from a step with a job to another with the same, or from one
\* without to another without, and does not enter its commit.
LEMMA QuietMove ==
  ASSUME TypeOK, WorkerPart, NEW w \in Workers, NEW s \in Steps \ {"commit"},
         pc[w] \in Busy <=> s \in Busy, Goto(w, s),
         UNCHANGED <<held, token, issued>>,
         \/ UNCHANGED lock
         \/ pc[w] = "commit" /\ lock' = [lock EXCEPT ![held[w]] = 0]
  PROVE  WorkerPart'
<1> USE DEF WorkerPart, TypeOK, Goto
<1>1. WorkersHold'
  BY DEF WorkersHold, Busy, Steps
<1>2. TokensDiffer'
  BY DEF TokensDiffer, Busy, Steps
<1>3. CommitterHasLock'
  BY DEF WorkersHold, TokensDiffer, CommitterHasLock, Busy, Q!TypeOK
<1>4. QED
  BY <1>1, <1>2, <1>3

\* A worker lets its job go.
LEMMA LetGo ==
  ASSUME TypeOK, WorkerPart, NEW w \in Workers, NEW s \in {"recover", "down"},
         Goto(w, s), held' = [held EXCEPT ![w] = None],
         token' = [token EXCEPT ![w] = Q!NoToken], UNCHANGED issued,
         \/ UNCHANGED lock
         \/ pc[w] = "commit" /\ lock' = [lock EXCEPT ![held[w]] = 0]
  PROVE  WorkerPart'
<1> USE DEF WorkerPart, TypeOK, Goto
<1>1. WorkersHold'
  BY DEF WorkersHold, Busy, Steps
<1>2. TokensDiffer'
  BY DEF TokensDiffer, Busy, Steps
<1>3. CommitterHasLock'
  BY DEF WorkersHold, TokensDiffer, CommitterHasLock, Busy, Q!TypeOK
<1>4. QED
  BY <1>1, <1>2, <1>3

\* What the steps that concern no worker leave alone.
LEMMA WorkersStay ==
  ASSUME WorkerPart, UNCHANGED <<pc, held, token, issued, lock>>
  PROVE  WorkerPart'
  BY DEF WorkerPart, WorkersHold, TokensDiffer, CommitterHasLock

\* A claim gives its worker a token nobody has.
LEMMA ClaimKeepsWorkers ==
  ASSUME TypeOK, WorkerPart, NEW w \in Workers, Claim(w)
  PROVE  WorkerPart'
<1>1. CASE UNCHANGED queueVars /\ Poll(w)
  BY <1>1, LetGo DEF Poll, queueVars
<1>2. CASE \E j \in Jobs : /\ Q!Claim(j)
                           /\ held' = [held EXCEPT ![w] = j]
                           /\ token' = [token EXCEPT ![w] = issued'[j]]
                           /\ Goto(w, "handle")
  <2>1. PICK j \in Jobs : /\ Q!Claim(j)
                          /\ held' = [held EXCEPT ![w] = j]
                          /\ token' = [token EXCEPT ![w] = issued'[j]]
                          /\ Goto(w, "handle")
    BY <1>2
  <2>2. /\ issued' = [issued EXCEPT ![j] = issued[j] + 1]
        /\ UNCHANGED lock
    BY <2>1, ClaimEffect DEF TypeOK
  <2>3. issued \in [Jobs -> Nat]
    BY DEF TypeOK, Q!TypeOK
  <2>4. WorkersHold'
    BY <2>1, <2>2, <2>3 DEF WorkerPart, WorkersHold, TypeOK, Goto, Busy
  <2>5. TokensDiffer'
    BY <2>1, <2>2, <2>3
       DEF WorkerPart, WorkersHold, TokensDiffer, TypeOK, Goto, Busy
  <2>6. CommitterHasLock'
    BY <2>1, <2>2 DEF WorkerPart, CommitterHasLock, TypeOK, Goto
  <2>7. QED
    BY <2>4, <2>5, <2>6 DEF WorkerPart
<1>3. QED
  BY <1>1, <1>2 DEF Claim

\* Who enters the commit locks a row that nobody had locked.
LEMMA BeginCompleteKeepsWorkers ==
  ASSUME TypeOK, WorkerPart, NEW w \in Workers, BeginComplete(w)
  PROVE  WorkerPart'
<1>1. CASE Q!BeginComplete(held[w], token[w]) /\ Goto(w, "commit")
  <2>1. /\ lock[held[w]] = 0
        /\ lock' = [lock EXCEPT ![held[w]] = token[w]]
        /\ UNCHANGED <<issued, held, token>>
    BY <1>1 DEF BeginComplete, Q!BeginComplete, Q!Unlocked, Q!NoToken
  <2>2. WorkersHold' /\ TokensDiffer'
    BY <1>1, <2>1 DEF BeginComplete, WorkerPart, WorkersHold, TokensDiffer,
       TypeOK, Goto, Busy, Steps
  <2>3. CommitterHasLock'
    BY <1>1, <2>1 DEF BeginComplete, WorkerPart, WorkersHold, CommitterHasLock,
       TypeOK, Q!TypeOK, Goto, Busy, Steps
  <2>4. QED
    BY <2>2, <2>3 DEF WorkerPart
<1>2. CASE Goto(w, "fail") /\ UNCHANGED queueVars
  BY <1>2, QuietMove DEF BeginComplete, Busy, Steps, queueVars
<1>3. QED
  BY <1>1, <1>2 DEF BeginComplete

\* The commit and the rollback release the row.
LEMMA CommitKeepsWorkers ==
  ASSUME TypeOK, WorkerPart, NEW w \in Workers, Commit(w)
  PROVE  WorkerPart'
<1>1. held[w] \in Jobs
  BY DEF Commit, WorkerPart, WorkersHold, Busy
<1>2. /\ lock' = [lock EXCEPT ![held[w]] = 0]
      /\ UNCHANGED issued
      /\ pc[w] = "commit"
  BY <1>1, CommitEffect DEF Commit, TypeOK
<1>3. CASE Poll(w)
  BY <1>2, <1>3, LetGo DEF Poll
<1>4. CASE Goto(w, "fail") /\ UNCHANGED <<held, token, lost>>
  BY <1>2, <1>4, QuietMove DEF Busy, Steps
<1>5. QED
  BY <1>3, <1>4 DEF Commit

\* publish threw: the row is released, the worker goes to fail.
LEMMA RollbackKeepsWorkers ==
  ASSUME TypeOK, WorkerPart, NEW w \in Workers, PublishThrows(w)
  PROVE  WorkerPart'
<1>1. /\ lock' = [lock EXCEPT ![held[w]] = 0]
      /\ UNCHANGED <<issued, held, token>>
  BY DEF PublishThrows, Q!RollbackComplete, Q!NoToken
<1>2. QED
  BY <1>1, QuietMove DEF PublishThrows, Busy, Steps

\* A process that dies lets its job and its row go.
LEMMA CrashKeepsWorkers ==
  ASSUME TypeOK, WorkerPart, NEW w \in Workers, Crash(w)
  PROVE  WorkerPart'
<1>1. /\ UNCHANGED issued
      /\ \/ UNCHANGED lock
         \/ pc[w] = "commit" /\ lock' = [lock EXCEPT ![held[w]] = 0]
  BY DEF Crash, Q!RollbackComplete, Q!NoToken, queueVars
<1>2. QED
  BY <1>1, LetGo DEF Crash, Goto

\* The heartbeat, the handler and the second look at the file.
LEMMA HandlingKeepsWorkers ==
  ASSUME TypeOK, WorkerPart, NEW w \in Workers,
         Heartbeat(w) \/ Handle(w) \/ Verify(w)
  PROVE  WorkerPart'
<1>1. WorkersHold
  BY DEF WorkerPart
<1>2. CASE Heartbeat(w)
  <2>1. UNCHANGED <<outbox, lock, issued>>
    BY <1>1, <1>2, BeatIsQueueStep DEF Heartbeat, Busy
  <2>2. QED
    BY <1>2, <2>1, WorkersStay DEF Heartbeat
<1>3. CASE Handle(w) \/ Verify(w)
  <2>1. UNCHANGED <<lock, issued, held, token>>
    BY <1>1, <1>3, BeatIsQueueStep DEF Handle, Verify, Renew, Busy, queueVars
  <2>2. /\ pc[w] \in {"handle", "verify"}
        /\ \E s \in {"fail", "verify", "complete"} : Goto(w, s)
    BY <1>3 DEF Handle, Verify, Renew
  <2>3. QED
    BY <2>1, <2>2, QuietMove DEF Busy, Steps
<1>4. QED
  BY <1>2, <1>3

\* The steps that end a round or prepare the next.
LEMMA RoundKeepsWorkers ==
  ASSUME TypeOK, WorkerPart, NEW w \in Workers,
         Recover(w) \/ Dispatch(w) \/ Fail(w) \/ FailThrows(w) \/ Start(w)
  PROVE  WorkerPart'
<1>1. CASE Recover(w)
  <2>1. UNCHANGED <<lock, issued>>
    BY <1>1 DEF Recover, Q!RecoverExpired, queueVars
  <2>2. QED
    BY <1>1, <2>1, QuietMove DEF Recover, Busy, Steps
<1>2. CASE Dispatch(w)
  <2>1. UNCHANGED <<lock, issued>>
    BY <1>2 DEF Dispatch, Q!DispatchOutbox, queueVars
  <2>2. QED
    BY <1>2, <2>1, QuietMove DEF Dispatch, Busy, Steps
<1>3. CASE Fail(w) \/ FailThrows(w)
  <2>1. UNCHANGED <<lock, issued>>
    BY <1>3 DEF Fail, FailThrows, Q!Fail, queueVars
  <2>2. QED
    BY <1>3, <2>1, LetGo DEF Fail, FailThrows, Poll
<1>4. CASE Start(w)
  BY <1>4, QuietMove DEF Start, Busy, Steps, queueVars
<1>5. QED
  BY <1>1, <1>2, <1>3, <1>4

\* Together.
LEMMA WorkerPartKept ==
  ASSUME TypeOK, WorkerPart, [Next]_vars
  PROVE  WorkerPart'
<1>1. CASE UNCHANGED vars
  BY <1>1, WorkersStay DEF vars, queueVars, workerVars
<1>2. CASE Tick
  BY <1>2, WorkersStay DEF Tick, Q!Tick, workerVars
<1>3. CASE \E b \in Jobs : QueueParse(b) \/ BeginCancel(b) \/ CommitCancel(b)
                           \/ RollbackCancel(b)
  <2>1. UNCHANGED <<lock, issued, workerVars>>
    BY <1>3 DEF QueueParse, Q!Enqueue, BeginCancel, CommitCancel,
       Q!CancelRunning, RollbackCancel, queueVars
  <2>2. QED
    BY <2>1, WorkersStay DEF workerVars
<1>4. QED
  BY <1>1, <1>2, <1>3, ClaimKeepsWorkers, BeginCompleteKeepsWorkers,
     CommitKeepsWorkers, RollbackKeepsWorkers, CrashKeepsWorkers,
     HandlingKeepsWorkers, RoundKeepsWorkers DEF Next, WorkerStep

-----------------------------------------------------------------------------
(* The batches.                                                            *)

\* What the lemmas below take for granted.
Known == TypeOK /\ QP!QueueInv /\ WorkerPart /\ BatchPart

\* A step that moves no batch and ends no job.
LEMMA NothingEnds ==
  ASSUME BatchPart, UNCHANGED <<batch, outbox>>,
         \A b \in Jobs : batchLock'[b] => batchLock[b],
         \A b \in Jobs : \/ jobs'[b].status = jobs[b].status
                         \/ {jobs[b].status, jobs'[b].status} \subseteq {"QUEUED", "RUNNING"}
  PROVE  BatchPart'
  BY DEF BatchPart, LockedIsOpen, RowsFollowBatch, BatchMatchesJob

\* A batch is queued with its outbox row, and only once.
LEMMA QueueParseKeepsBatches ==
  ASSUME Known, NEW b \in Jobs, QueueParse(b)
  PROVE  BatchPart'
<1>1. /\ outbox[b] = "NONE"
      /\ outbox' = [outbox EXCEPT ![b] = "PENDING"]
      /\ UNCHANGED <<jobs, batchLock>>
  BY DEF QueueParse, Q!Enqueue
<1>2. jobs[b].status = "NONE"
  BY <1>1, QueueFacts DEF Known
<1>3. outbox \in [Jobs -> Q!OutboxStatus] /\ batch \in [Jobs -> BatchStatus]
  BY DEF Known, TypeOK, Q!TypeOK
<1>4. QED
  BY <1>1, <1>2, <1>3 DEF QueueParse, Known, BatchPart, LockedIsOpen,
     RowsFollowBatch, BatchMatchesJob

\* A cancellation ends the job of a queued batch with it; the job of one that
\* was not queued does not exist.
LEMMA CancelKeepsBatches ==
  ASSUME Known, NEW b \in Jobs, CommitCancel(b)
  PROVE  BatchPart'
<1>1. /\ batch \in [Jobs -> BatchStatus] /\ batchLock \in [Jobs -> BOOLEAN]
      /\ outbox \in [Jobs -> Q!OutboxStatus]
  BY DEF Known, TypeOK, Q!TypeOK
<1>2. CASE batch[b] = "FILE_READY"
  <2>1. outbox[b] = "NONE" /\ jobs[b].status = "NONE"
    BY <1>2, QueueFacts DEF Known, BatchPart, RowsFollowBatch
  <2>2. QED
    BY <1>1, <1>2, <2>1 DEF CommitCancel, queueVars, Known, BatchPart,
       LockedIsOpen, RowsFollowBatch, BatchMatchesJob
<1>3. CASE batch[b] = "QUEUED_FOR_PARSING"
  <2>1. /\ outbox' = [outbox EXCEPT ![b] = "CANCELLED"]
        /\ \A k \in Jobs : jobs'[k].status =
                             IF k = b /\ jobs[k].status \in {"QUEUED", "RUNNING"}
                             THEN "CANCELLED" ELSE jobs[k].status
    BY <1>3, CancelEffect DEF CommitCancel, Known, TypeOK
  <2>2. QED
    BY <1>1, <1>3, <2>1 DEF CommitCancel, Known, BatchPart,
       LockedIsOpen, RowsFollowBatch, BatchMatchesJob
<1>4. QED
  BY <1>2, <1>3 DEF CommitCancel, Known, BatchPart, LockedIsOpen

\* The beginning of a cancellation moves nothing yet.
LEMMA BeginCancelKeepsBatches ==
  ASSUME Known, NEW b \in Jobs, BeginCancel(b)
  PROVE  BatchPart'
  BY DEF BeginCancel, queueVars, Known, TypeOK, BatchPart, LockedIsOpen,
     RowsFollowBatch, BatchMatchesJob

\* Jobs that are running and given up take their batches with them.
LEMMA FailureKeepsBatches ==
  ASSUME Known, NEW S \in SUBSET Jobs, UNCHANGED <<outbox, batchLock>>,
         \A k \in S : jobs[k].status = "RUNNING",
         \A k \in Jobs : jobs'[k].status =
                           IF k \notin S THEN jobs[k].status
                           ELSE IF Q!Exhausted(k) THEN "DEAD" ELSE "QUEUED",
         PublishTerminalFailure({k \in S : Q!Exhausted(k)})
  PROVE  BatchPart'
<1>1. \A k \in S : batch[k] = "QUEUED_FOR_PARSING"
  BY DEF Known, BatchPart, RowsFollowBatch, BatchMatchesJob
<1>2. \A k \in Jobs : batch'[k] = IF k \in S /\ Q!Exhausted(k) THEN "FAILED" ELSE batch[k]
  BY <1>1 DEF PublishTerminalFailure
<1>3. \A k \in S : Q!Exhausted(k) => ~batchLock[k]
  BY DEF PublishTerminalFailure
<1>4. QED
  BY <1>1, <1>2, <1>3 DEF Known, BatchPart, LockedIsOpen, RowsFollowBatch,
     BatchMatchesJob

\* Recovery.
LEMMA RecoverKeepsBatches ==
  ASSUME Known, NEW w \in Workers, Recover(w)
  PROVE  BatchPart'
<1>1. CASE UNCHANGED <<queueVars, batch>>
  BY <1>1, NothingEnds DEF Recover, Known, queueVars
<1>2. CASE \E S \in SUBSET Jobs :
             /\ Q!RecoverExpired(S)
             /\ PublishTerminalFailure({j \in S : Q!Exhausted(j)})
  BY <1>2, RecoverEffect, FailureKeepsBatches DEF Recover
<1>3. QED
  BY <1>1, <1>2 DEF Recover

\* A failed attempt.
LEMMA FailKeepsBatches ==
  ASSUME Known, NEW w \in Workers, Fail(w)
  PROVE  BatchPart'
<1>1. CASE UNCHANGED <<queueVars, batch>>
  BY <1>1, NothingEnds DEF Fail, Known, queueVars
<1>2. CASE /\ Q!Fail(held[w], token[w], FALSE)
           /\ PublishTerminalFailure({held[w]} \cap {j \in Jobs : Q!Exhausted(j)})
  <2>1. held[w] \in Jobs
    BY DEF Fail, Known, WorkerPart, WorkersHold, Busy
  <2>2. {held[w]} \cap {j \in Jobs : Q!Exhausted(j)} = {k \in {held[w]} : Q!Exhausted(k)}
    BY <2>1
  <2>3. /\ jobs[held[w]].status = "RUNNING"
        /\ \A k \in Jobs : jobs'[k].status =
                             IF k # held[w] THEN jobs[k].status
                             ELSE IF Q!Exhausted(held[w]) THEN "DEAD" ELSE "QUEUED"
        /\ UNCHANGED outbox
    <3>1. Q!TypeOK /\ Q!Fail(held[w], token[w], FALSE)
      BY <1>2 DEF Known, TypeOK
    <3>2. QED
      BY <2>1, <3>1, FailEffect
  <2>4. PublishTerminalFailure({k \in {held[w]} : Q!Exhausted(k)})
    BY <1>2, <2>2
  <2>5. ASSUME NEW k \in Jobs
        PROVE  jobs'[k].status =
                 IF k \notin {held[w]} THEN jobs[k].status
                 ELSE IF Q!Exhausted(k) THEN "DEAD" ELSE "QUEUED"
    <3>1. CASE k = held[w]
      BY <2>3, <3>1
    <3>2. CASE k # held[w]
      BY <2>3, <3>2
    <3>3. QED
      BY <3>1, <3>2
  <2>6. UNCHANGED <<outbox, batchLock>> /\ {held[w]} \in SUBSET Jobs
    BY <2>1, <2>3 DEF Fail
  <2>7. QED
    BY <2>3, <2>4, <2>5, <2>6, FailureKeepsBatches
<1>3. QED
  BY <1>1, <1>2 DEF Fail

\* Dispatch makes the job of a batch that waits.
LEMMA DispatchKeepsBatches ==
  ASSUME Known, NEW w \in Workers, Dispatch(w)
  PROVE  BatchPart'
<1>1. CASE UNCHANGED queueVars
  BY <1>1, NothingEnds DEF Dispatch, Known, queueVars, batchVars
<1>2. CASE \E S \in SUBSET Jobs : Q!DispatchOutbox(S)
  <2>1. PICK S \in SUBSET Jobs : Q!DispatchOutbox(S)
    BY <1>2
  <2>2. /\ \A k \in S : outbox[k] = "PENDING"
        /\ \A k \in Jobs : outbox'[k] = IF k \in S THEN "PUBLISHED" ELSE outbox[k]
        /\ \A k \in Jobs : jobs'[k].status =
                             IF k \in S /\ jobs[k].status = "NONE"
                             THEN "QUEUED" ELSE jobs[k].status
    BY <2>1, DispatchEffect
  <2>3. \A k \in S : jobs[k].status = "NONE"
    BY <2>2, QueueFacts DEF Known
  <2>4. QED
    BY <2>2, <2>3 DEF Dispatch, batchVars, Known, BatchPart, LockedIsOpen,
       RowsFollowBatch, BatchMatchesJob
<1>3. QED
  BY <1>1, <1>2 DEF Dispatch

\* The commit parses the batch and ends the job.
LEMMA CommitKeepsBatches ==
  ASSUME Known, NEW w \in Workers, Commit(w)
  PROVE  BatchPart'
<1>1. held[w] \in Jobs
  BY DEF Commit, Known, WorkerPart, WorkersHold, Busy
<1>2. /\ jobs[held[w]].status = "RUNNING"
      /\ \A k \in Jobs : jobs'[k].status =
                           IF k = held[w] THEN "SUCCEEDED" ELSE jobs[k].status
      /\ UNCHANGED outbox
  BY <1>1, CommitEffect DEF Commit, Known, TypeOK
<1>3. \A k \in Jobs : batch'[k] = IF k = held[w] THEN "AWAITING_MAPPING" ELSE batch[k]
  BY <1>1 DEF Commit, Known, TypeOK
<1>4. QED
  BY <1>1, <1>2, <1>3 DEF Commit, Known, BatchPart, LockedIsOpen,
     RowsFollowBatch, BatchMatchesJob

\* The rest moves no batch.
LEMMA QuietKeepsBatches ==
  ASSUME Known, NEW w \in Workers,
         \/ Claim(w) \/ Handle(w) \/ Verify(w) \/ BeginComplete(w)
         \/ Heartbeat(w) \/ PublishThrows(w) \/ FailThrows(w) \/ Crash(w)
         \/ Start(w)
  PROVE  BatchPart'
<1>1. UNCHANGED <<batch, batchLock>>
  BY DEF Claim, Handle, Verify, BeginComplete, Heartbeat, PublishThrows,
     FailThrows, Crash, Start, batchVars
<1>2. WorkersHold /\ Q!TypeOK /\ BatchPart
  BY DEF Known, WorkerPart, TypeOK
<1>3. CASE Claim(w)
  <2>1. CASE UNCHANGED queueVars
    BY <1>1, <1>2, <2>1, NothingEnds DEF queueVars
  <2>2. CASE \E j \in Jobs : Q!Claim(j)
    BY <1>1, <1>2, <2>2, ClaimEffect, NothingEnds
  <2>3. QED
    BY <1>3, <2>1, <2>2 DEF Claim
<1>4. CASE Handle(w) \/ Verify(w) \/ Heartbeat(w)
  <2>1. UNCHANGED outbox /\ \A k \in Jobs : jobs'[k].status = jobs[k].status
    BY <1>2, <1>4, BeatIsQueueStep
       DEF Handle, Verify, Heartbeat, Renew, Busy, queueVars
  <2>2. QED
    BY <1>1, <1>2, <2>1, NothingEnds
<1>5. CASE BeginComplete(w) \/ PublishThrows(w) \/ FailThrows(w) \/ Crash(w) \/ Start(w)
  <2>1. UNCHANGED <<outbox, jobs>>
    BY <1>5 DEF BeginComplete, PublishThrows, FailThrows, Crash, Start,
       Q!BeginComplete, Q!RollbackComplete, queueVars
  <2>2. QED
    BY <1>1, <1>2, <2>1, NothingEnds
<1>6. QED
  BY <1>3, <1>4, <1>5

\* Together.
LEMMA BatchPartKept ==
  ASSUME Known, [Next]_vars
  PROVE  BatchPart'
<1>1. BatchPart /\ Q!TypeOK
  BY DEF Known, TypeOK
<1>2. CASE UNCHANGED vars
  BY <1>1, <1>2, NothingEnds DEF vars, queueVars, batchVars
<1>3. CASE Tick
  BY <1>1, <1>3, TickEffect, NothingEnds DEF Tick, batchVars
<1>4. ASSUME NEW b \in Jobs, RollbackCancel(b)
      PROVE  BatchPart'
  <2>1. \A k \in Jobs : batchLock'[k] => batchLock[k]
    BY <1>4 DEF RollbackCancel, Known, TypeOK
  <2>2. QED
    BY <1>1, <1>4, <2>1, NothingEnds DEF RollbackCancel, queueVars
<1>5. QED
  BY <1>2, <1>3, <1>4, QueueParseKeepsBatches, BeginCancelKeepsBatches,
     CancelKeepsBatches, RecoverKeepsBatches, DispatchKeepsBatches,
     CommitKeepsBatches, FailKeepsBatches, QuietKeepsBatches DEF Next, WorkerStep

-----------------------------------------------------------------------------
(* The attempts.                                                           *)

\* What the lemmas of the queue say of published and of the tokens drawn.
LEMMA PublishedFacts ==
  ASSUME QP!QueueInv, NEW b \in Jobs
  PROVE  /\ published[b] \subseteq {issued[b]}
         /\ issued[b] \in Nat
         /\ jobs[b].attempts = issued[b]
         /\ jobs[b].attempts \in 0..MaxAttempts
<1>1. /\ published[b] \subseteq {issued[b]}
      /\ jobs[b].attempts = issued[b]
  BY DEF QP!QueueInv, QP!PublishedByNewest, QP!RetryBudget
<1>2. issued[b] \in Nat /\ jobs[b].attempts \in 0..MaxAttempts
  BY QueueFacts DEF Q!TypeOK, Q!JobRow
<1>3. QED
  BY <1>1, <1>2

\* A job that is DEAD after a step was DEAD before, or had no attempt left;
\* and the step did not begin another.
LEMMA BurialIsLast ==
  ASSUME Known, [Next]_vars, NEW k \in Jobs, jobs'[k].status = "DEAD"
  PROVE  /\ issued'[k] = issued[k]
         /\ jobs[k].status = "DEAD" \/ Q!Exhausted(k)
<1>1. Q!TypeOK /\ WorkersHold
  BY DEF Known, TypeOK, WorkerPart
<1>2. CASE UNCHANGED <<jobs, issued>>
  BY <1>2
<1>3. CASE Tick
  BY <1>3, TickEffect DEF Tick
<1>4. ASSUME NEW b \in Jobs,
             QueueParse(b) \/ BeginCancel(b) \/ CommitCancel(b) \/ RollbackCancel(b)
      PROVE  issued'[k] = issued[k] /\ jobs[k].status = "DEAD"
  <2>1. CASE UNCHANGED <<jobs, issued>>
    BY <2>1
  <2>2. CASE Q!CancelRunning(b)
    BY <1>1, <2>2, CancelEffect
  <2>3. QED
    BY <1>4, <2>1, <2>2 DEF QueueParse, Q!Enqueue, BeginCancel, CommitCancel,
       RollbackCancel, queueVars
<1>5. ASSUME NEW w \in Workers, Recover(w)
      PROVE  issued'[k] = issued[k] /\ (jobs[k].status = "DEAD" \/ Q!Exhausted(k))
  BY <1>2, <1>5, RecoverEffect DEF Recover, queueVars
<1>6. ASSUME NEW w \in Workers, Dispatch(w)
      PROVE  issued'[k] = issued[k] /\ jobs[k].status = "DEAD"
  <2>1. CASE UNCHANGED <<jobs, issued>>
    BY <2>1
  <2>2. CASE \E S \in SUBSET Jobs : Q!DispatchOutbox(S)
    BY <2>2, DispatchEffect
  <2>3. QED
    BY <1>6, <2>1, <2>2 DEF Dispatch, queueVars
<1>7. ASSUME NEW w \in Workers, Claim(w)
      PROVE  issued'[k] = issued[k] /\ jobs[k].status = "DEAD"
  <2>1. CASE UNCHANGED <<jobs, issued>>
    BY <2>1
  <2>2. CASE \E j \in Jobs : Q!Claim(j)
    BY <1>1, <2>2, ClaimEffect DEF Q!TypeOK
  <2>3. QED
    BY <1>7, <2>1, <2>2 DEF Claim, queueVars
<1>8. ASSUME NEW w \in Workers, Handle(w) \/ Verify(w) \/ Heartbeat(w)
      PROVE  issued'[k] = issued[k] /\ jobs[k].status = "DEAD"
  BY <1>1, <1>8, BeatIsQueueStep
     DEF Handle, Verify, Heartbeat, Renew, Busy, queueVars
<1>9. ASSUME NEW w \in Workers,
             \/ BeginComplete(w) \/ PublishThrows(w) \/ FailThrows(w)
             \/ Crash(w) \/ Start(w)
      PROVE  UNCHANGED <<jobs, issued>>
  BY <1>9 DEF BeginComplete, PublishThrows, FailThrows, Crash, Start,
     Q!BeginComplete, Q!RollbackComplete, queueVars
<1>10. ASSUME NEW w \in Workers, Commit(w)
       PROVE  issued'[k] = issued[k] /\ jobs[k].status = "DEAD"
  <2>1. held[w] \in Jobs
    BY <1>1, <1>10 DEF Commit, WorkersHold, Busy
  <2>2. QED
    BY <1>1, <1>10, <2>1, CommitEffect DEF Commit
<1>11. ASSUME NEW w \in Workers, Fail(w)
       PROVE  issued'[k] = issued[k] /\ (jobs[k].status = "DEAD" \/ Q!Exhausted(k))
  <2>1. held[w] \in Jobs
    BY <1>1, <1>11 DEF Fail, WorkersHold, Busy
  <2>2. CASE Q!Fail(held[w], token[w], FALSE)
    BY <1>1, <2>1, <2>2, FailEffect
  <2>3. QED
    BY <1>2, <1>11, <2>2 DEF Fail, queueVars
<1>12. QED
  BY <1>2, <1>3, <1>4, <1>5, <1>6, <1>7, <1>8, <1>9, <1>10, <1>11
     DEF Next, WorkerStep, vars, queueVars

\* Who is buried had no attempt left, and will not get one.
LEMMA AttemptsMadeKept ==
  ASSUME Known, AttemptsMade, [Next]_vars
  PROVE  AttemptsMade'
<1> SUFFICES ASSUME NEW b \in Jobs, jobs'[b].status = "DEAD"
             PROVE  issued'[b] = MaxAttempts
  BY DEF AttemptsMade
<1>1. /\ issued'[b] = issued[b]
      /\ jobs[b].status = "DEAD" \/ Q!Exhausted(b)
  BY BurialIsLast
<1>2. /\ jobs[b].attempts = issued[b]
      /\ jobs[b].attempts \in 0..MaxAttempts
  BY PublishedFacts DEF Known
<1>3. QED
  BY <1>1, <1>2, BoundsAssumption DEF AttemptsMade, Q!Exhausted

\* Results are published in commits, and in nothing else.
LEMMA PublishedInCommits ==
  ASSUME [Next]_vars
  PROVE  UNCHANGED published \/ \E w \in Workers : Commit(w)
<1>1. ASSUME NEW b \in Jobs,
             QueueParse(b) \/ BeginCancel(b) \/ CommitCancel(b) \/ RollbackCancel(b)
      PROVE  UNCHANGED published
  BY <1>1 DEF QueueParse, Q!Enqueue, BeginCancel, CommitCancel,
     Q!CancelRunning, RollbackCancel, queueVars
<1>2. ASSUME NEW w \in Workers,
             Recover(w) \/ Dispatch(w) \/ Claim(w) \/ Fail(w) \/ FailThrows(w)
      PROVE  UNCHANGED published
  BY <1>2 DEF Recover, Q!RecoverExpired, Dispatch, Q!DispatchOutbox, Claim,
     Q!Claim, Fail, Q!Fail, FailThrows, queueVars
<1>3. ASSUME NEW w \in Workers, Handle(w) \/ Verify(w) \/ Heartbeat(w)
      PROVE  UNCHANGED published
  BY <1>3 DEF Handle, Verify, Heartbeat, Renew, Beat, Q!Heartbeat, queueVars
<1>4. ASSUME NEW w \in Workers,
             BeginComplete(w) \/ PublishThrows(w) \/ Crash(w) \/ Start(w)
      PROVE  UNCHANGED published
  BY <1>4 DEF BeginComplete, Q!BeginComplete, PublishThrows,
     Q!RollbackComplete, Crash, Start, queueVars
<1>5. QED
  BY <1>1, <1>2, <1>3, <1>4 DEF Next, WorkerStep, Tick, Q!Tick, vars, queueVars

\* What one step may do to a worker: nothing it could build on, let the job
\* go, give the attempt up, claim under a new token, or go on - from the
\* handler only without a missed heartbeat.
LEMMA StepsOfAWorker ==
  ASSUME TypeOK, [Next]_vars, NEW v \in Workers
  PROVE  \/ /\ pc'[v] = pc[v] /\ held'[v] = held[v] /\ token'[v] = token[v]
            /\ lost[v] => lost'[v]
         \/ pc'[v] \notin Busy
         \/ /\ pc'[v] = "fail" /\ pc[v] \in Busy
            /\ held'[v] = held[v] /\ token'[v] = token[v]
         \/ \E j \in Jobs : /\ Q!Claim(j) /\ held'[v] = j
                            /\ token'[v] = issued'[j]
                            /\ pc[v] \notin Busy /\ pc'[v] = "handle"
         \/ /\ held'[v] = held[v] /\ token'[v] = token[v]
            /\ \/ pc[v] \in {"handle", "verify"} /\ ~lost[v]
               \/ pc[v] = "complete"
            /\ pc'[v] \in Busy \ {"fail"}
<1> USE DEF TypeOK, Busy
<1>1. CASE UNCHANGED workerVars
  BY <1>1 DEF workerVars
<1>2. ASSUME NEW w \in Workers, v # w,
             \/ WorkerStep(w) \/ Heartbeat(w) \/ PublishThrows(w)
             \/ FailThrows(w) \/ Crash(w) \/ Start(w)
      PROVE  /\ pc'[v] = pc[v] /\ held'[v] = held[v] /\ token'[v] = token[v]
             /\ lost[v] => lost'[v]
  <2>1. pc'[v] = pc[v]
    BY <1>2 DEF WorkerStep, Recover, Dispatch, Claim, Handle, Verify, Renew,
       BeginComplete, Commit, Fail, Heartbeat, PublishThrows, FailThrows,
       Crash, Start, Poll, Goto
  <2>2. held'[v] = held[v] /\ token'[v] = token[v]
    BY <1>2 DEF WorkerStep, Recover, Dispatch, Claim, Handle, Verify, Renew,
       BeginComplete, Commit, Fail, Heartbeat, PublishThrows, FailThrows,
       Crash, Start, Poll, Goto
  <2>3. lost'[v] = lost[v]
    BY <1>2 DEF WorkerStep, Recover, Dispatch, Claim, Handle, Verify, Renew,
       Beat, BeginComplete, Commit, Fail, Heartbeat, PublishThrows, FailThrows,
       Crash, Start, Poll, Goto
  <2>4. QED
    BY <2>1, <2>2, <2>3
<1>3. CASE Recover(v) \/ Dispatch(v) \/ Fail(v) \/ FailThrows(v) \/ Crash(v) \/ Start(v)
  BY <1>3 DEF Recover, Dispatch, Fail, FailThrows, Crash, Start, Poll, Goto
<1>4. CASE Claim(v)
  BY <1>4 DEF Claim, Poll, Goto
<1>5. CASE Handle(v) \/ Verify(v)
  BY <1>5 DEF Handle, Verify, Renew, Beat, Goto
<1>6. CASE Heartbeat(v)
  BY <1>6 DEF Heartbeat
<1>7. CASE BeginComplete(v) \/ Commit(v) \/ PublishThrows(v)
  BY <1>7 DEF BeginComplete, Commit, PublishThrows, Poll, Goto
<1>8. CASE Tick \/ UNCHANGED vars
         \/ \E b \in Jobs : QueueParse(b) \/ BeginCancel(b) \/ CommitCancel(b)
                            \/ RollbackCancel(b)
  BY <1>1, <1>8 DEF Tick, vars, QueueParse, BeginCancel, CommitCancel, RollbackCancel
<1>9. QED
  BY <1>2, <1>3, <1>4, <1>5, <1>6, <1>7, <1>8 DEF Next, WorkerStep

\* A worker goes on only with what it had, or with a token drawn this instant,
\* and its commit publishes under no token but its own.
LEMMA WorkStaysUnpublished ==
  ASSUME Known, WorkIsUnpublished, [Next]_vars
  PROVE  WorkIsUnpublished'
<1> SUFFICES ASSUME NEW v \in Workers, pc'[v] \in Busy \ {"fail"}
             PROVE  token'[v] \notin published'[held'[v]]
  BY DEF WorkIsUnpublished
<1>1. TypeOK /\ WorkersHold /\ TokensDiffer
  BY DEF Known, WorkerPart
<1>2. \/ /\ held'[v] = held[v] /\ token'[v] = token[v]
         /\ pc[v] \in Busy \ {"fail"}
      \/ \E j \in Jobs : Q!Claim(j) /\ held'[v] = j /\ token'[v] = issued'[j]
  BY <1>1, StepsOfAWorker DEF Busy
<1>3. CASE \E j \in Jobs : Q!Claim(j) /\ held'[v] = j /\ token'[v] = issued'[j]
  <2>1. PICK j \in Jobs : Q!Claim(j) /\ held'[v] = j /\ token'[v] = issued'[j]
    BY <1>3
  <2>2. issued'[j] = issued[j] + 1 /\ published'[j] = published[j]
    BY <1>1, <2>1, ClaimEffect DEF TypeOK, Q!TypeOK, Q!Claim
  <2>3. published[j] \subseteq {issued[j]} /\ issued[j] \in Nat
    BY PublishedFacts DEF Known
  <2>4. QED
    BY <2>1, <2>2, <2>3
<1>4. CASE /\ held'[v] = held[v] /\ token'[v] = token[v]
           /\ pc[v] \in Busy \ {"fail"}
  <2>1. token[v] \notin published[held[v]] /\ held[v] \in Jobs
    BY <1>1, <1>4 DEF WorkIsUnpublished, WorkersHold
  <2>2. CASE UNCHANGED published
    BY <1>4, <2>1, <2>2
  <2>3. ASSUME NEW w \in Workers, Commit(w)
        PROVE  token[v] \notin published'[held[v]]
    <3>1. /\ published' = [published EXCEPT ![held[w]] = @ \cup {token[w]}]
          /\ pc[w] = "commit" /\ held[w] \in Jobs
          /\ pc' = [pc EXCEPT ![w] = "recover"] \/ pc' = [pc EXCEPT ![w] = "fail"]
      BY <1>1, <2>3 DEF Commit, Q!CommitComplete, Poll, Goto, WorkersHold, Busy
    <3>2. v # w
      BY <1>1, <3>1 DEF TypeOK, Busy
    <3>3. held[v] = held[w] => token[v] # token[w]
      BY <1>1, <1>4, <3>1, <3>2 DEF TokensDiffer, Busy
    <3>4. published \in [Jobs -> SUBSET Nat]
      BY <1>1 DEF TypeOK, Q!TypeOK
    <3>5. QED
      BY <2>1, <3>1, <3>3, <3>4
  <2>4. QED
    BY <1>4, <2>2, <2>3, PublishedInCommits
<1>5. QED
  BY <1>2, <1>3, <1>4

\* Tokens are drawn one after the other.
LEMMA TokensGrow ==
  ASSUME TypeOK, [Next]_vars, NEW b \in Jobs
  PROVE  issued'[b] = issued[b] \/ issued'[b] = issued[b] + 1
<1>1. UNCHANGED issued \/ \E j \in Jobs : Q!Claim(j)
  <2>1. CASE Tick \/ UNCHANGED vars
           \/ \E k \in Jobs : QueueParse(k) \/ BeginCancel(k) \/ CommitCancel(k)
                              \/ RollbackCancel(k)
    BY <2>1 DEF Tick, Q!Tick, vars, queueVars, QueueParse, Q!Enqueue,
       BeginCancel, CommitCancel, Q!CancelRunning, RollbackCancel
  <2>2. ASSUME NEW w \in Workers,
               Recover(w) \/ Dispatch(w) \/ Claim(w) \/ Fail(w) \/ FailThrows(w)
        PROVE  UNCHANGED issued \/ \E j \in Jobs : Q!Claim(j)
    BY <2>2 DEF Recover, Q!RecoverExpired, Dispatch, Q!DispatchOutbox, Claim,
       Fail, Q!Fail, FailThrows, queueVars
  <2>3. ASSUME NEW w \in Workers, Handle(w) \/ Verify(w) \/ Heartbeat(w)
        PROVE  UNCHANGED issued
    BY <2>3 DEF Handle, Verify, Heartbeat, Renew, Beat, Q!Heartbeat, queueVars
  <2>4. ASSUME NEW w \in Workers,
               \/ BeginComplete(w) \/ Commit(w) \/ PublishThrows(w)
               \/ Crash(w) \/ Start(w)
        PROVE  UNCHANGED issued
    BY <2>4 DEF BeginComplete, Q!BeginComplete, Commit, Q!CommitComplete,
       PublishThrows, Q!RollbackComplete, Crash, Start, queueVars
  <2>5. QED
    BY <2>1, <2>2, <2>3, <2>4 DEF Next, WorkerStep
<1>2. QED
  BY <1>1 DEF Q!Claim, TypeOK, Q!TypeOK

\* An attempt that has missed a heartbeat, or failed, is never published.
LEMMA HopelessStays ==
  ASSUME Known, [Next]_vars, NEW b \in Jobs, NEW t \in Nat, Hopeless(b, t)
  PROVE  Hopeless(b, t)'
<1>1. TypeOK /\ WorkersHold
  BY DEF Known, WorkerPart
<1>2. issued[b] \in Nat /\ issued'[b] \in {issued[b], issued[b] + 1}
  BY <1>1, TokensGrow DEF TypeOK, Q!TypeOK
<1>3. t \in 1..issued'[b]
  BY <1>2 DEF Hopeless
<1>4. t \notin published'[b]
  <2>1. CASE UNCHANGED published
    BY <2>1 DEF Hopeless
  <2>2. ASSUME NEW w \in Workers, Commit(w)
        PROVE  t \notin published'[b]
    <3>1. /\ published' = [published EXCEPT ![held[w]] = @ \cup {token[w]}]
          /\ pc[w] = "commit"
      BY <2>2 DEF Commit, Q!CommitComplete
    <3>2. ~(held[w] = b /\ token[w] = t)
      BY <3>1 DEF Hopeless, Busy
    <3>3. published \in [Jobs -> SUBSET Nat]
      BY <1>1 DEF TypeOK, Q!TypeOK
    <3>4. QED
      BY <3>1, <3>2, <3>3 DEF Hopeless
  <2>3. QED
    BY <2>1, <2>2, PublishedInCommits
<1>5. ASSUME NEW v \in Workers, pc'[v] \in Busy, held'[v] = b, token'[v] = t
      PROVE  pc'[v] = "fail" \/ (lost'[v] /\ pc'[v] \in {"handle", "verify"})
  <2>1. CASE /\ pc'[v] = pc[v] /\ held'[v] = held[v] /\ token'[v] = token[v]
             /\ lost[v] => lost'[v]
    BY <1>5, <2>1 DEF Hopeless
  <2>2. CASE \E j \in Jobs : Q!Claim(j) /\ held'[v] = j /\ token'[v] = issued'[j]
    <3>1. issued'[b] = issued[b] + 1
      BY <1>1, <1>5, <2>2 DEF Q!Claim, TypeOK, Q!TypeOK
    <3>2. QED
      BY <1>2, <1>5, <2>2, <3>1 DEF Hopeless
  <2>3. CASE /\ held'[v] = held[v] /\ token'[v] = token[v]
             /\ \/ pc[v] \in {"handle", "verify"} /\ ~lost[v]
                \/ pc[v] = "complete"
    BY <1>5, <2>3 DEF Hopeless, Busy
  <2>4. QED
    BY <1>1, <1>5, <2>1, <2>2, <2>3, StepsOfAWorker
<1>6. QED
  BY <1>3, <1>4, <1>5 DEF Hopeless

\* A missed heartbeat makes the attempt hopeless.
LEMMA MissedIsHopeless ==
  ASSUME IInv, NEW w \in Workers, NEW b \in Jobs, NEW t \in Nat,
         lost[w], pc[w] \in {"handle", "verify"}, held[w] = b, token[w] = t
  PROVE  Hopeless(b, t)
<1>1. t \in 1..issued[b] /\ t \notin published[b]
  BY DEF IInv, WorkerPart, WorkersHold, WorkIsUnpublished, Busy
<1>2. \A v \in Workers :
        pc[v] \in Busy /\ held[v] = b /\ token[v] = t => v = w
  BY DEF IInv, WorkerPart, TokensDiffer, Busy
<1>3. QED
  BY <1>1, <1>2 DEF Hopeless

-----------------------------------------------------------------------------
(* The theorems.                                                           *)

\* Steps of the services keep the types of the batches and the workers.
LEMMA TypesKeptByServices ==
  ASSUME TypeOK, NEW b \in Jobs, Q!TypeOK',
         QueueParse(b) \/ BeginCancel(b) \/ CommitCancel(b) \/ RollbackCancel(b)
  PROVE  TypeOK'
  BY DEF TypeOK, BatchStatus, QueueParse, BeginCancel, CommitCancel,
     RollbackCancel, workerVars

\* Steps of the workers do, too.
LEMMA TypesKeptByWorkers ==
  ASSUME TypeOK, WorkersHold, NEW w \in Workers, Q!TypeOK',
         \/ WorkerStep(w) \/ Heartbeat(w) \/ PublishThrows(w)
         \/ FailThrows(w) \/ Crash(w) \/ Start(w)
  PROVE  TypeOK'
<1>1. (pc' \in [Workers -> Steps])
  <2>1. \E s \in Steps : pc' = [pc EXCEPT ![w] = s] \/ UNCHANGED pc
    BY DEF WorkerStep, Recover, Dispatch, Claim, Handle, Verify, Renew,
       BeginComplete, Commit, Fail, Heartbeat, PublishThrows, FailThrows,
       Crash, Start, Poll, Goto, Steps
  <2>2. QED
    BY <2>1 DEF TypeOK
<1>2. batch' \in [Jobs -> BatchStatus] /\ batchLock' \in [Jobs -> BOOLEAN]
  BY DEF TypeOK, BatchStatus, WorkerStep, Recover, Dispatch, Claim, Handle,
     Verify, BeginComplete, Commit, Fail, Heartbeat, PublishThrows, FailThrows,
     Crash, Start, PublishTerminalFailure, batchVars
<1>3. /\ held' \in [Workers -> Jobs \cup {None}]
      /\ token' \in [Workers -> Nat]
  <2>1. CASE UNCHANGED <<held, token>>
    BY <2>1 DEF TypeOK
  <2>2. CASE /\ held' = [held EXCEPT ![w] = None]
             /\ token' = [token EXCEPT ![w] = Q!NoToken]
    BY <2>2 DEF TypeOK, Q!NoToken
  <2>3. CASE \E j \in Jobs : /\ held' = [held EXCEPT ![w] = j]
                             /\ token' = [token EXCEPT ![w] = issued'[j]]
    BY <2>3 DEF TypeOK, Q!TypeOK
  <2>4. QED
    BY <2>1, <2>2, <2>3 DEF WorkerStep, Recover, Dispatch, Claim, Handle,
       Verify, BeginComplete, Commit, Fail, Heartbeat, PublishThrows,
       FailThrows, Crash, Start, Poll
<1>4. lost' \in [Workers -> BOOLEAN]
  <2>1. \E l \in BOOLEAN : lost' = [lost EXCEPT ![w] = l] \/ UNCHANGED lost
    BY DEF WorkerStep, Recover, Dispatch, Claim, Handle, Verify, Renew, Beat,
       BeginComplete, Commit, Fail, Heartbeat, PublishThrows, FailThrows,
       Crash, Start, Poll
  <2>2. QED
    BY <2>1 DEF TypeOK
<1>5. crashes' \in 0..MaxCrashes
  <2>1. UNCHANGED crashes \/ (crashes < MaxCrashes /\ crashes' = crashes + 1)
    BY DEF WorkerStep, Recover, Dispatch, Claim, Handle, Verify, BeginComplete,
       Commit, Fail, Heartbeat, PublishThrows, FailThrows, Crash, Start
  <2>2. crashes \in 0..MaxCrashes /\ MaxCrashes \in Nat
    BY BoundsAssumption DEF TypeOK
  <2>3. QED
    BY <2>1, <2>2
<1>6. QED
  BY <1>1, <1>2, <1>3, <1>4, <1>5 DEF TypeOK

\* The initial state: nothing queued, every worker down.
LEMMA InitEstablishes == Init => IInv /\ Q!Init
<1> SUFFICES ASSUME Init PROVE IInv /\ Q!Init
  OBVIOUS
<1>1. Q!Init
  BY DEF Init
<1>2. QP!Init
  BY <1>1 DEF Q!Init, QP!Init, Q!NoToken, QP!NoToken, Q!NoJob, QP!NoJob
<1>3. QP!QueueInv
  BY <1>2, QP!InitEstablishesQueueInv, BoundsAssumption
     DEF QP!InitEstablishesQueueInv, QP!MaxAttemptsAssumption,
         QP!LeaseAssumption, QP!BatchLimitAssumption
<1>4. Q!TypeOK
  BY <1>3, QueueFacts
<1>5. TypeOK
  BY <1>4, BoundsAssumption
     DEF BoundsAssumption, Init, TypeOK, BatchStatus, Steps, Q!NoToken
<1>6. WorkerPart
  BY DEF Init, WorkerPart, WorkersHold, TokensDiffer, CommitterHasLock, Busy
<1>7. BatchPart
  BY <1>1 DEF Init, Q!Init, Q!NoJob, BatchPart, LockedIsOpen, RowsFollowBatch,
     BatchMatchesJob
<1>8. AttemptsMade /\ WorkIsUnpublished
  BY <1>1 DEF Init, Q!Init, Q!NoJob, AttemptsMade, WorkIsUnpublished, Busy
<1>9. QED
  BY <1>1, <1>3, <1>5, <1>6, <1>7, <1>8 DEF IInv

\* Every step preserves the invariant and is a step of the queue.
LEMMA StepKeeps == IInv /\ [Next]_vars => IInv' /\ [Q!Next]_(Q!vars)
<1> SUFFICES ASSUME IInv, [Next]_vars PROVE IInv' /\ [Q!Next]_(Q!vars)
  OBVIOUS
<1>1. [Q!Next]_(Q!vars)
  BY StepIsQueueStep DEF IInv, WorkerPart
<1>2. QP!QueueInv'
  BY <1>1, QueueStep DEF IInv
<1>3. Q!TypeOK'
  <2>1. QP!TypeOK'
    BY <1>2 DEF QP!QueueInv
  <2>2. QED
    BY <2>1 DEF QP!TypeOK, Q!TypeOK, Q!OutboxStatus, QP!OutboxStatus, Q!JobRow,
       QP!JobRow, Q!JobStatus, QP!JobStatus
<1>4. WorkerPart' /\ BatchPart'
  BY WorkerPartKept, BatchPartKept DEF IInv, Known
<1>5. TypeOK'
  <2>1. CASE UNCHANGED vars
    BY <1>3, <2>1 DEF IInv, TypeOK, vars, batchVars, workerVars
  <2>2. CASE Tick
    BY <1>3, <2>2 DEF IInv, TypeOK, Tick, batchVars, workerVars
  <2>3. QED
    BY <1>3, <2>1, <2>2, TypesKeptByServices, TypesKeptByWorkers DEF IInv, WorkerPart, Next
<1>6. AttemptsMade' /\ WorkIsUnpublished'
  BY AttemptsMadeKept, WorkStaysUnpublished DEF IInv, Known
<1>7. QED
  BY <1>1, <1>2, <1>4, <1>5, <1>6 DEF IInv

\* The inductive invariant of the parsing of imports.
THEOREM ParseInvariant == Spec => []IInv
<1>1. Init => IInv
  BY InitEstablishes
<1>2. IInv /\ [Next]_vars => IInv'
  BY StepKeeps
<1>3. QED
  BY <1>1, <1>2, PTL DEF Spec

\* Batches, leases and worker processes are well typed.
THEOREM TypeCorrect == Spec => []TypeOK
<1>1. IInv => TypeOK
  BY DEF IInv
<1>2. QED
  BY <1>1, ParseInvariant, PTL

\* Whatever the workers, services, crashes and lost answers do to the job
\* queue is something the queue allows, so its theorems hold of the whole.
THEOREM QueueRefinement == Spec => ImplementsQueue
<1>1. Init => Q!Init
  BY InitEstablishes
<1>2. IInv /\ [Next]_vars => [Q!Next]_(Q!vars)
  BY StepKeeps
<1>3. QED
  BY <1>1, <1>2, ParseInvariant, PTL DEF Spec, ImplementsQueue, Q!Spec

\* The batch a user sees and the job in the queue never tell different
\* stories.
THEOREM BatchAndJobAgree == Spec => []BatchMatchesJob
<1>1. IInv => BatchMatchesJob
  BY DEF IInv, BatchPart
<1>2. QED
  BY <1>1, ParseInvariant, PTL

\* The worker inside its commit has the newest token of its job, and everybody
\* else an older one.
THEOREM OneCommitter == Spec => []SoleCommitter
<1>1. IInv => SoleCommitter
  <2> SUFFICES ASSUME IInv, NEW w \in Workers, pc[w] = "commit"
               PROVE  /\ lock[held[w]] = token[w]
                      /\ \A v \in Workers \ {w} :
                           held[v] = held[w] => token[v] < token[w]
    BY DEF SoleCommitter
  <2>1. held[w] \in Jobs /\ token[w] \in 1..issued[held[w]]
    BY DEF IInv, WorkerPart, WorkersHold, Busy
  <2>2. lock[held[w]] = token[w]
    BY DEF IInv, WorkerPart, CommitterHasLock
  <2>3. token[w] = issued[held[w]] /\ issued[held[w]] \in Nat
    <3>1. issued[held[w]] \in Nat
      BY <2>1 DEF IInv, TypeOK, Q!TypeOK
    <3>2. lock[held[w]] # 0
      BY <2>1, <2>2, <3>1
    <3>3. QED
      BY <2>1, <2>2, <3>1, <3>2, QueueFacts DEF IInv
  <2>4. ASSUME NEW v \in Workers \ {w}, held[v] = held[w]
        PROVE  token[v] < token[w]
    <3>1. pc[v] \in Busy
      BY <2>1, <2>4, NoneAssumption DEF IInv, WorkerPart, WorkersHold
    <3>2. token[v] \in 1..issued[held[w]] /\ token[v] # token[w]
      BY <2>4, <3>1 DEF IInv, WorkerPart, WorkersHold, TokensDiffer, Busy
    <3>3. QED
      BY <2>3, <3>2
  <2>5. QED
    BY <2>2, <2>4
<1>2. QED
  BY <1>1, ParseInvariant, PTL

\* A batch is given up only after every attempt it had, and none is made
\* beyond: Fail and Recover count alike.
THEOREM NoAttemptTooFew == Spec => []AllAttemptsMade
<1>1. IInv => AllAttemptsMade
  <2> SUFFICES ASSUME IInv, NEW b \in Jobs
               PROVE  /\ issued[b] <= MaxAttempts
                      /\ batch[b] = "FAILED" => issued[b] = MaxAttempts
    BY DEF AllAttemptsMade
  <2>1. jobs[b].attempts = issued[b] /\ jobs[b].attempts \in 0..MaxAttempts
    BY PublishedFacts DEF IInv
  <2>2. batch[b] = "FAILED" => jobs[b].status = "DEAD"
    BY DEF IInv, BatchPart, BatchMatchesJob
  <2>3. QED
    BY <2>1, <2>2 DEF IInv, AttemptsMade
<1>2. QED
  BY <1>1, ParseInvariant, PTL

\* One heartbeat that was refused or failed while the job was handled ends
\* the attempt: nothing is ever published for it.
THEOREM MissedBeatIsFinal == Spec => MissedBeatEndsAttempt
<1> SUFFICES ASSUME NEW w \in Workers, NEW b \in Jobs, NEW t \in 1..MaxAttempts
             PROVE  Spec => [](/\ lost[w] /\ pc[w] \in {"handle", "verify"}
                               /\ held[w] = b /\ token[w] = t
                               => [](t \notin published[b]))
  BY DEF MissedBeatEndsAttempt
<1> DEFINE Missed == /\ lost[w] /\ pc[w] \in {"handle", "verify"}
                     /\ held[w] = b /\ token[w] = t
           H == Hopeless(b, t)
           Unpublished == t \notin published[b]
<1>0. t \in Nat
  BY BoundsAssumption
<1>1. IInv /\ Missed => H
  BY <1>0, MissedIsHopeless
<1>2. IInv /\ H /\ [Next]_vars => H'
  BY <1>0, HopelessStays DEF IInv, Known
<1>3. H => Unpublished
  BY DEF Hopeless
<1> HIDE DEF Missed, H, Unpublished
<1>4. Spec => [](Missed => []Unpublished)
  BY <1>1, <1>2, <1>3, ParseInvariant, PTL DEF Spec
<1>5. QED
  BY <1>4 DEF Missed, Unpublished
=============================================================================
