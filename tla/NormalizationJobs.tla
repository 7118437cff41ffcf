-------------------------- MODULE NormalizationJobs --------------------------
(***************************************************************************)
(* The normalization runs of one import batch, driven by the job queue     *)
(* (material-import-normalization-selfhost/service.ts, worker.ts,          *)
(* state-machine.ts; runOnce of selfhost-worker.ts).                       *)
(*                                                                         *)
(* A user creates, retries and cancels runs; a worker claims the job of a  *)
(* run, takes the run, stages its rows, moves it to PUBLISHING and         *)
(* publishes it in the transaction that completes the job.  A run retried  *)
(* k times has had k + 1 jobs: a job is the pair of run and retry count.   *)
(*                                                                         *)
(* A transaction is one action at its commit, with two exceptions that     *)
(* other transactions can slip into.  verifyJobLease reads the job row     *)
(* without locking it, so the check and the update of the run it protects  *)
(* are two steps (`checked`).  complete is open from its row lock on the   *)
(* job to its commit, and the run is read under it at the commit.          *)
(***************************************************************************)
EXTENDS Integers, FiniteSets

CONSTANTS
    Runs,         \* the normalization runs of the batch
    Workers,
    MaxRetries,   \* bound on the retries of one run, for model checking
    MaxAttempts, Lease, BatchLimit,
    MaxCrashes,   \* bound on process deaths, for model checking
    None

ASSUME NoneAssumption == None \notin Runs
ASSUME BoundsAssumption ==
    /\ MaxAttempts \in Nat \ {0} /\ Lease \in Nat \ {0} /\ BatchLimit \in Nat \ {0}
    /\ MaxRetries \in Nat /\ MaxCrashes \in Nat

Jobs == Runs \X (0..MaxRetries)

VARIABLES
    outbox, jobs, issued, lock, published, buried,   \* the queue
    status,   \* run_status
    retries,  \* retry_count
    owner,    \* lease_token of the run: <<job, token>>, or None
    batch,    \* status of the batch
    current,  \* current_normalization_run_id
    pc, held, token,  \* of each worker: next step, job, lease token
    checked,  \* TRUE between verifyJobLease and the update it protects
    fault,    \* the kind of error the worker caught
    crashes

queueVars == <<outbox, jobs, issued, lock, published, buried>>
runVars == <<status, retries, owner, batch, current>>
workerVars == <<pc, held, token, checked, fault>>
vars == <<queueVars, runVars, workerVars, crashes>>

Q == INSTANCE JobQueue

Active == {"QUEUED", "RUNNING", "PUBLISHING", "CANCEL_REQUESTED"}
Settled == {"SUCCEEDED", "SUPERSEDED", "FAILED", "CANCELLED"}
RunStatus == Active \cup Settled \cup {"NONE"}

\* TRANSITIONS, the table the service asserts and the worker's SQL must obey.
\* A run that does not exist yet (NONE) is created QUEUED.
Transitions ==
    {<<"NONE", "QUEUED">>,
     <<"QUEUED", "RUNNING">>, <<"QUEUED", "CANCELLED">>, <<"QUEUED", "FAILED">>,
     <<"RUNNING", "PUBLISHING">>, <<"RUNNING", "CANCEL_REQUESTED">>,
     <<"RUNNING", "FAILED">>, <<"PUBLISHING", "SUCCEEDED">>,
     <<"PUBLISHING", "CANCEL_REQUESTED">>, <<"PUBLISHING", "FAILED">>,
     <<"SUCCEEDED", "SUPERSEDED">>, <<"FAILED", "QUEUED">>,
     <<"CANCEL_REQUESTED", "CANCELLED">>, <<"CANCEL_REQUESTED", "FAILED">>}

Idle == {"MAPPING_CONFIRMED", "NORMALIZED"}
Busy == {"QUEUED_FOR_NORMALIZATION", "NORMALIZING"}

Steps == {"poll", "claim", "cancel", "stage", "verify", "complete", "commit",
          "settle", "settling", "fail"}

\* RETRYABLE: an error the normalizer marks so.  REFUSED: any other error of
\* the normalizer.  TEMPORARY: an error it did not raise (database, lease).
Faults == {"RETRYABLE", "REFUSED", "TEMPORARY"}

TypeOK ==
    /\ Q!TypeOK
    /\ status \in [Runs -> RunStatus]
    /\ retries \in [Runs -> 0..MaxRetries]
    /\ owner \in [Runs -> (Jobs \X Nat) \cup {None}]
    /\ batch \in Idle \cup Busy
    /\ current \in Runs \cup {None}
    /\ pc \in [Workers -> Steps]
    /\ held \in [Workers -> Jobs \cup {None}]
    /\ token \in [Workers -> Nat]
    /\ checked \in [Workers -> BOOLEAN]
    /\ fault \in [Workers -> Faults \cup {None}]
    /\ crashes \in 0..MaxCrashes

Init ==
    /\ Q!Init
    /\ status = [r \in Runs |-> "NONE"]
    /\ retries = [r \in Runs |-> 0]
    /\ owner = [r \in Runs |-> None]
    /\ batch = "MAPPING_CONFIRMED"
    /\ current = None
    /\ pc = [w \in Workers |-> "poll"]
    /\ held = [w \in Workers |-> None]
    /\ token = [w \in Workers |-> Q!NoToken]
    /\ checked = [w \in Workers |-> FALSE]
    /\ fault = [w \in Workers |-> None]
    /\ crashes = 0

-----------------------------------------------------------------------------
\* The status a batch returns to when its run ends without a result.
Restored == IF current = None THEN "MAPPING_CONFIRMED" ELSE "NORMALIZED"

\* The batch is restored only from a status a run put it in.
RestoreBatch == batch' = IF batch \in Busy THEN Restored ELSE batch

\* worker_job_id: the job of the latest retry.
JobOf(r) == <<r, retries[r]>>

SetRun(r, s, o) ==
    /\ status' = [status EXCEPT ![r] = s]
    /\ owner' = [owner EXCEPT ![r] = o]

\* finalizeCancellation, in the caller's transaction.
FinalizeCancellation(r) ==
    /\ SetRun(r, "CANCELLED", None)
    /\ RestoreBatch
    /\ UNCHANGED <<retries, current>>

\* Fault: a run whose cancellation was requested is left as it is.
TerminalFailureKeepsCancelRequest(D) ==
    LET failed == {r \in Runs : /\ \E j \in D : j[1] = r
                                /\ status[r] \in Active \ {"CANCEL_REQUESTED"}}
    IN  /\ status' = [r \in Runs |-> IF r \in failed THEN "FAILED" ELSE status[r]]
        /\ owner' = [r \in Runs |-> IF r \in failed THEN None ELSE owner[r]]
        /\ batch' = IF failed # {} /\ batch \in Busy THEN Restored ELSE batch
        /\ UNCHANGED <<retries, current>>

\* publishTerminalFailure for the jobs of D, in the transaction that buries
\* them.  The run is found through the outbox row of the job.
PublishTerminalFailure(D) ==
    LET failed == {r \in Runs : status[r] \in Active /\ \E j \in D : j[1] = r}
    IN  /\ status' = [r \in Runs |->
                        IF r \notin failed THEN status[r]
                        ELSE IF status[r] = "CANCEL_REQUESTED" THEN "CANCELLED"
                        ELSE "FAILED"]
        /\ owner' = [r \in Runs |-> IF r \in failed THEN None ELSE owner[r]]
        /\ batch' = IF failed # {} /\ batch \in Busy THEN Restored ELSE batch
        /\ UNCHANGED <<retries, current>>

-----------------------------------------------------------------------------
(* The service: one transaction each, under the lock of the batch.         *)

Create(r) ==
    /\ status[r] = "NONE"
    /\ batch \in Idle
    /\ \A s \in Runs : status[s] \notin Active
    /\ SetRun(r, "QUEUED", None)
    /\ batch' = "QUEUED_FOR_NORMALIZATION"
    /\ Q!Enqueue(JobOf(r))
    /\ UNCHANGED <<retries, current, workerVars, crashes>>

\* Fault: a failed run is retried while another run is at work.
RetryAnyBatch(r) ==
    /\ status[r] = "FAILED"
    /\ retries[r] < MaxRetries
    /\ SetRun(r, "QUEUED", None)
    /\ retries' = [retries EXCEPT ![r] = @ + 1]
    /\ batch' = "QUEUED_FOR_NORMALIZATION"
    /\ Q!Enqueue(<<r, retries[r] + 1>>)
    /\ UNCHANGED <<current, workerVars, crashes>>

\* The same run, a new job.  Only the status of the batch keeps it away from
\* another run at work.
Retry(r) ==
    /\ status[r] = "FAILED"
    /\ batch \in Idle
    /\ retries[r] < MaxRetries
    /\ SetRun(r, "QUEUED", None)
    /\ retries' = [retries EXCEPT ![r] = @ + 1]
    /\ batch' = "QUEUED_FOR_NORMALIZATION"
    /\ Q!Enqueue(<<r, retries[r] + 1>>)
    /\ UNCHANGED <<current, workerVars, crashes>>

\* A run that no worker has taken is cancelled at once; its job only if no
\* worker holds it.
CancelWaiting(r) ==
    /\ status[r] = "QUEUED"
    /\ SetRun(r, "CANCELLED", owner[r])
    /\ batch' = Restored
    /\ Q!CancelQueued(JobOf(r))
    /\ UNCHANGED <<retries, current, workerVars, crashes>>

\* A run at work is asked to stop.
RequestCancel(r) ==
    /\ status[r] \in {"RUNNING", "PUBLISHING"}
    /\ SetRun(r, "CANCEL_REQUESTED", owner[r])
    /\ UNCHANGED <<queueVars, retries, batch, current, workerVars, crashes>>

-----------------------------------------------------------------------------
(* The worker.                                                             *)

Goto(w, step) ==
    /\ pc' = [pc EXCEPT ![w] = step]
    /\ checked' = [checked EXCEPT ![w] = FALSE]
    /\ UNCHANGED <<held, token, fault>>

Throw(w, kind) ==
    /\ pc' = [pc EXCEPT ![w] = "fail"]
    /\ checked' = [checked EXCEPT ![w] = FALSE]
    /\ fault' = [fault EXCEPT ![w] = kind]
    /\ UNCHANGED <<held, token>>

Poll(w) ==
    /\ pc' = [pc EXCEPT ![w] = "poll"]
    /\ held' = [held EXCEPT ![w] = None]
    /\ token' = [token EXCEPT ![w] = Q!NoToken]
    /\ checked' = [checked EXCEPT ![w] = FALSE]
    /\ fault' = [fault EXCEPT ![w] = None]

LeaseOf(w) == <<held[w], token[w]>>
Run(w) == held[w][1]

\* A poll recovers, dispatches, claims; ParseJobs keeps their order.
Recover(w) ==
    /\ pc[w] = "poll"
    /\ \E S \in SUBSET Jobs :
          /\ Q!RecoverExpired(S)
          /\ PublishTerminalFailure({j \in S : Q!Exhausted(j)})
    /\ UNCHANGED <<workerVars, crashes>>

Dispatch(w) ==
    /\ pc[w] = "poll"
    /\ \E S \in SUBSET Jobs : Q!DispatchOutbox(S)
    /\ UNCHANGED <<runVars, workerVars, crashes>>

ClaimJob(w) ==
    /\ pc[w] = "poll"
    /\ \E j \in Jobs :
          /\ Q!Claim(j)
          /\ held' = [held EXCEPT ![w] = j]
          /\ token' = [token EXCEPT ![w] = issued'[j]]
    /\ pc' = [pc EXCEPT ![w] = "claim"]
    /\ UNCHANGED <<runVars, checked, fault, crashes>>

Heartbeat(w) ==
    /\ pc[w] \in {"claim", "cancel", "stage", "verify", "complete", "settle"}
    /\ Q!Heartbeat(held[w], token[w])
    /\ UNCHANGED <<runVars, workerVars, crashes>>

VerifyJobLease(w) ==
    /\ pc[w] \in {"claim", "cancel", "stage", "verify"}
    /\ ~checked[w]
    /\ IF Q!Active(held[w], token[w])
       THEN /\ checked' = [checked EXCEPT ![w] = TRUE]
            /\ UNCHANGED <<pc, held, token, fault>>
       ELSE Throw(w, "RETRYABLE")
    /\ UNCHANGED <<queueVars, runVars, crashes>>

\* claim of the run: a new run and one that an earlier attempt left RUNNING
\* are taken; one it left PUBLISHING is refused.
TakeRun(w) ==
    LET r == Run(w)
    IN  /\ pc[w] = "claim"
        /\ checked[w]
        /\ UNCHANGED <<queueVars, crashes>>
        /\ \/ /\ held[w] # JobOf(r)
              /\ Throw(w, "RETRYABLE")
              /\ UNCHANGED runVars
           \/ /\ held[w] = JobOf(r)
              /\ \/ /\ status[r] \in Settled
                    /\ Goto(w, "settle")
                    /\ UNCHANGED runVars
                 \/ /\ status[r] = "CANCEL_REQUESTED"
                    /\ Goto(w, "cancel")
                    /\ UNCHANGED runVars
                 \/ /\ status[r] \in {"QUEUED", "RUNNING"}
                    /\ SetRun(r, "RUNNING", LeaseOf(w))
                    /\ batch' = IF batch = "QUEUED_FOR_NORMALIZATION"
                                THEN "NORMALIZING" ELSE batch
                    /\ Goto(w, "stage")
                    /\ UNCHANGED <<retries, current>>
                 \/ /\ status[r] = "PUBLISHING"
                    /\ Throw(w, "REFUSED")
                    /\ UNCHANGED runVars

\* cancelAtCheckpoint
CancelAtCheckpoint(w) ==
    /\ pc[w] = "cancel"
    /\ checked[w]
    /\ IF status[Run(w)] = "CANCEL_REQUESTED"
       THEN FinalizeCancellation(Run(w)) ELSE UNCHANGED runVars
    /\ Goto(w, "settle")
    /\ UNCHANGED <<queueVars, crashes>>

\* What staging a chunk and verifying the staged result have in common: a
\* requested cancellation is carried out, a run that has another owner or is
\* not RUNNING is given up, else it goes on in status s.
Checkpoint(w, step, next, s) ==
    LET r == Run(w)
    IN  /\ pc[w] = step
        /\ checked[w]
        /\ \/ /\ status[r] = "CANCEL_REQUESTED"
              /\ FinalizeCancellation(r)
              /\ Goto(w, "settle")
           \/ /\ status[r] # "CANCEL_REQUESTED"
              /\ status[r] # "RUNNING" \/ owner[r] # LeaseOf(w)
              /\ Throw(w, "RETRYABLE")
              /\ UNCHANGED runVars
           \/ /\ status[r] = "RUNNING"
              /\ owner[r] = LeaseOf(w)
              /\ SetRun(r, s, owner[r])
              /\ Goto(w, next)
              /\ UNCHANGED <<retries, batch, current>>
        /\ UNCHANGED <<queueVars, crashes>>

Stage(w) == Checkpoint(w, "stage", "verify", "RUNNING")

VerifyStaged(w) == Checkpoint(w, "verify", "complete", "PUBLISHING")

\* complete locks the job, with a result to publish or with none.
BeginComplete(w) ==
    /\ pc[w] \in {"complete", "settle"}
    /\ \/ /\ Q!BeginComplete(held[w], token[w])
          /\ Goto(w, IF pc[w] = "complete" THEN "commit" ELSE "settling")
       \/ /\ ~Q!Active(held[w], token[w])
          /\ Throw(w, "TEMPORARY")
          /\ UNCHANGED queueVars
    /\ UNCHANGED <<runVars, crashes>>

\* Fault: a cancellation requested during the publication is not seen.
PublishCancelled(w) ==
    LET r == Run(w)
    IN  /\ pc[w] = "commit"
        /\ status[r] \in {"PUBLISHING", "CANCEL_REQUESTED"}
        /\ owner[r] = LeaseOf(w)
        /\ status' = [s \in Runs |-> IF s = r THEN "SUCCEEDED"
                                     ELSE IF s = current THEN "SUPERSEDED"
                                     ELSE status[s]]
        /\ owner' = [owner EXCEPT ![r] = None]
        /\ batch' = "NORMALIZED"
        /\ current' = r
        /\ UNCHANGED retries
        /\ Q!CommitComplete(held[w], token[w])
        /\ Poll(w)
        /\ UNCHANGED crashes

\* Fault: the run is published in a transaction of its own.
PublishSeparately(w) ==
    LET r == Run(w)
    IN  /\ pc[w] = "commit"
        /\ status[r] = "PUBLISHING" /\ owner[r] = LeaseOf(w)
        /\ status' = [s \in Runs |-> IF s = r THEN "SUCCEEDED"
                                     ELSE IF s = current THEN "SUPERSEDED"
                                     ELSE status[s]]
        /\ owner' = [owner EXCEPT ![r] = None]
        /\ batch' = "NORMALIZED"
        /\ current' = r
        /\ Goto(w, "settling")
        /\ UNCHANGED <<retries, queueVars, crashes>>

\* Fault: the run published before keeps its status.
PublishBeside(w) ==
    LET r == Run(w)
    IN  /\ pc[w] = "commit"
        /\ status[r] = "PUBLISHING" /\ owner[r] = LeaseOf(w)
        /\ status' = [status EXCEPT ![r] = "SUCCEEDED"]
        /\ owner' = [owner EXCEPT ![r] = None]
        /\ batch' = "NORMALIZED"
        /\ current' = r
        /\ UNCHANGED retries
        /\ Q!CommitComplete(held[w], token[w])
        /\ Poll(w)
        /\ UNCHANGED crashes

\* publish and the commit of complete: the run published before is
\* superseded, the pointer moves, the job SUCCEEDED.  A run whose
\* cancellation was requested meanwhile is cancelled, and the job still
\* SUCCEEDED.
Publish(w) ==
    LET r == Run(w)
    IN  /\ pc[w] = "commit"
        /\ \/ /\ status[r] = "CANCEL_REQUESTED"
              /\ FinalizeCancellation(r)
           \/ /\ status[r] = "PUBLISHING"
              /\ owner[r] = LeaseOf(w)
              /\ batch = "NORMALIZING"
              /\ status' = [s \in Runs |->
                              IF s = r THEN "SUCCEEDED"
                              ELSE IF s = current /\ status[s] = "SUCCEEDED"
                                   THEN "SUPERSEDED"
                              ELSE status[s]]
              /\ owner' = [owner EXCEPT ![r] = None]
              /\ batch' = "NORMALIZED"
              /\ current' = r
              /\ UNCHANGED retries
        /\ Q!CommitComplete(held[w], token[w])
        /\ Poll(w)
        /\ UNCHANGED crashes

\* complete without a publication.
SettleJob(w) ==
    /\ pc[w] = "settling"
    /\ Q!CommitComplete(held[w], token[w])
    /\ Poll(w)
    /\ UNCHANGED <<runVars, crashes>>

\* publish threw: the run is not the worker's any more, the mapping or the
\* batch changed, or the database failed.
PublishThrows(w) ==
    /\ pc[w] \in {"commit", "settling"}
    /\ Q!RollbackComplete(held[w])
    /\ \E kind \in Faults : Throw(w, kind)
    /\ UNCHANGED <<runVars, crashes>>

\* A step of prepare threw and its transaction is undone.
PrepareThrows(w) ==
    /\ pc[w] \in {"claim", "cancel", "stage", "verify", "complete", "settle"}
    /\ \E kind \in Faults : Throw(w, kind)
    /\ UNCHANGED <<queueVars, runVars, crashes>>

\* Every error not marked retryable ends the job at once.
Fail(w) ==
    LET terminal == fault[w] # "RETRYABLE"
    IN  /\ pc[w] = "fail"
        /\ \/ /\ ~Q!Active(held[w], token[w])
              /\ UNCHANGED <<queueVars, runVars>>
           \/ /\ Q!Fail(held[w], token[w], terminal)
              /\ PublishTerminalFailure(
                   {held[w]} \cap {j \in Jobs : terminal \/ Q!Exhausted(j)})
        /\ Poll(w)
        /\ UNCHANGED crashes

\* The process dies and is restarted; an open transaction is rolled back.
Crash(w) ==
    /\ pc[w] # "poll"
    /\ crashes < MaxCrashes
    /\ crashes' = crashes + 1
    /\ IF pc[w] \in {"commit", "settling"} THEN Q!RollbackComplete(held[w])
                                           ELSE UNCHANGED queueVars
    /\ Poll(w)
    /\ UNCHANGED runVars

Tick == Q!Tick /\ UNCHANGED <<runVars, workerVars, crashes>>

WorkerStep(w) ==
    \/ VerifyJobLease(w) \/ TakeRun(w) \/ CancelAtCheckpoint(w)
    \/ Stage(w) \/ VerifyStaged(w) \/ BeginComplete(w) \/ Publish(w)
    \/ SettleJob(w) \/ PublishThrows(w) \/ PrepareThrows(w) \/ Fail(w)

Next ==
    \/ \E r \in Runs : Create(r) \/ Retry(r) \/ CancelWaiting(r) \/ RequestCancel(r)
    \/ \E w \in Workers : \/ Recover(w) \/ Dispatch(w) \/ ClaimJob(w)
                          \/ WorkerStep(w) \/ Heartbeat(w) \/ Crash(w)
    \/ Tick

Spec == Init /\ [][Next]_vars

\* The clock runs, a worker's steps end, a worker that polls again and again
\* recovers, dispatches and claims what there is.
FairSpec ==
    /\ Spec
    /\ WF_vars(Tick)
    /\ \A w \in Workers : /\ WF_vars(WorkerStep(w))
                          /\ SF_vars(Recover(w))
                          /\ SF_vars(Dispatch(w))
                          /\ SF_vars(ClaimJob(w))

-----------------------------------------------------------------------------
\* The batch is busy exactly while one of its runs is active, and then just
\* one: the unique index on active runs is never what stops a request.
BatchReflectsRuns ==
    /\ Cardinality({r \in Runs : status[r] \in Active}) =
         IF batch \in Busy THEN 1 ELSE 0
    /\ batch = "QUEUED_FOR_NORMALIZATION" <=> \E r \in Runs : status[r] = "QUEUED"

\* The pointer of the batch names the one published run that is not
\* superseded, and a batch at rest shows whether there is one.
CurrentRunIsTheOnlySuccess ==
    /\ \A r \in Runs : current = r <=> status[r] = "SUCCEEDED"
    /\ batch \in Idle => batch = Restored

\* An active run is never orphaned: its latest job can still be dispatched,
\* claimed or recovered, and no other job of the run can.
ActiveRunHasLiveJob ==
    \A r \in Runs : status[r] \in Active =>
      /\ outbox[JobOf(r)] \in {"PENDING", "PUBLISHED"}
      /\ jobs[JobOf(r)].status \in {"NONE", "QUEUED", "RUNNING"}
      /\ \A k \in 0..(retries[r] - 1) : jobs[<<r, k>>].status \in Q!Terminal

\* The worker's own SQL moves a run only along the table of state-machine.ts;
\* in particular a run whose cancellation was accepted never SUCCEEDED.
LegalTransitions ==
    [][\A r \in Runs : status'[r] # status[r] =>
         <<status[r], status'[r]>> \in Transitions]_vars

\* A run is published only by the holder of the newest lease of its job,
\* inside the transaction that completes the job.
PublishedUnderLease ==
    [][\A r \in Runs : status'[r] = "SUCCEEDED" /\ status[r] # "SUCCEEDED" =>
         /\ owner[r] = <<JobOf(r), issued[JobOf(r)]>>
         /\ jobs'[JobOf(r)].status = "SUCCEEDED"]_vars

\* The workers and the service use the queue as its specification allows.
ImplementsQueue == Q!Spec

\* Every run that is created or retried ends, also when its workers die, its
\* leases expire and its cancellation crosses its publication.
ActiveRunSettles ==
    \A r \in Runs : status[r] \in Active ~> status[r] \in Settled

=============================================================================
