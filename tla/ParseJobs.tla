------------------------------ MODULE ParseJobs ------------------------------
(***************************************************************************)
(* Parsing an uploaded import file: the batch the user queues or cancels,  *)
(* the job queue, and the worker processes that poll it                    *)
(* (selfhost-worker.ts: runOnce, JobLeaseHeartbeat, parseImport,           *)
(* publishParseTerminalFailure; queueParse and cancelBatch of              *)
(* material-import-fallback/service.ts).                                   *)
(*                                                                         *)
(* A batch is queued for parsing at most once, so a job is named by its    *)
(* batch.  Each action of a worker is one step of runOnce between two      *)
(* awaits, that is at most one database transaction; complete is open from *)
(* its row lock to its commit.  A cancellation first locks the batch row   *)
(* and then needs the job row, a publication first locks the job row and   *)
(* then needs the batch row: PostgreSQL breaks the deadlock by aborting    *)
(* one of the two.                                                         *)
(***************************************************************************)
EXTENDS Integers, FiniteSets

CONSTANTS
    Jobs,         \* the import batches, each with the job that parses it
    Workers,      \* worker processes, of which one may be stale
    MaxAttempts, Lease, BatchLimit,
    MaxCrashes,   \* bound on process deaths, for model checking
    None          \* no job

ASSUME NoneAssumption == None \notin Jobs
ASSUME BoundsAssumption ==
    /\ MaxAttempts \in Nat \ {0} /\ Lease \in Nat \ {0} /\ BatchLimit \in Nat \ {0}
    /\ MaxCrashes \in Nat

VARIABLES
    outbox, jobs, issued, lock, published, buried,   \* the queue
    batch,      \* material_import_batches.status
    batchLock,  \* TRUE while a cancellation holds the row of the batch
    pc,         \* next step of each worker
    held,       \* the job of the JobLease the worker works on
    token,      \* and its lease token
    lost,       \* JobLeaseHeartbeat.lost
    crashes     \* process deaths so far

queueVars == <<outbox, jobs, issued, lock, published, buried>>
batchVars == <<batch, batchLock>>
workerVars == <<pc, held, token, lost>>
vars == <<queueVars, batchVars, workerVars, crashes>>

Q == INSTANCE JobQueue

BatchStatus ==
    {"FILE_READY", "QUEUED_FOR_PARSING", "AWAITING_MAPPING", "FAILED",
     "CANCELLED"}

Steps == {"down", "recover", "dispatch", "claim", "handle", "verify",
          "complete", "commit", "fail"}

TypeOK ==
    /\ Q!TypeOK
    /\ batch \in [Jobs -> BatchStatus]
    /\ batchLock \in [Jobs -> BOOLEAN]
    /\ pc \in [Workers -> Steps]
    /\ held \in [Workers -> Jobs \cup {None}]
    /\ token \in [Workers -> Nat]
    /\ lost \in [Workers -> BOOLEAN]
    /\ crashes \in 0..MaxCrashes

Init ==
    /\ Q!Init
    /\ batch = [b \in Jobs |-> "FILE_READY"]
    /\ batchLock = [b \in Jobs |-> FALSE]
    /\ pc = [w \in Workers |-> "down"]
    /\ held = [w \in Workers |-> None]
    /\ token = [w \in Workers |-> Q!NoToken]
    /\ lost = [w \in Workers |-> FALSE]
    /\ crashes = 0

Goto(w, step) == pc' = [pc EXCEPT ![w] = step]

\* The worker returns to its poll loop without a lease.
Poll(w) ==
    /\ Goto(w, "recover")
    /\ held' = [held EXCEPT ![w] = None]
    /\ token' = [token EXCEPT ![w] = Q!NoToken]
    /\ lost' = [lost EXCEPT ![w] = FALSE]

-----------------------------------------------------------------------------
(* The batch.                                                              *)

\* queueParse: one transaction moves the batch and writes the outbox row.
QueueParse(b) ==
    /\ ~batchLock[b]
    /\ batch[b] = "FILE_READY"
    /\ batch' = [batch EXCEPT ![b] = "QUEUED_FOR_PARSING"]
    /\ Q!Enqueue(b)
    /\ UNCHANGED <<batchLock, workerVars, crashes>>

\* cancelBatch has locked the batch and found it in a cancellable status.
BeginCancel(b) ==
    /\ ~batchLock[b]
    /\ batch[b] \in {"FILE_READY", "QUEUED_FOR_PARSING"}
    /\ batchLock' = [batchLock EXCEPT ![b] = TRUE]
    /\ UNCHANGED <<queueVars, batch, workerVars, crashes>>

\* Fault: the job is left in the queue.
CommitCancelBatchOnly(b) ==
    /\ batchLock[b]
    /\ batch' = [batch EXCEPT ![b] = "CANCELLED"]
    /\ batchLock' = [batchLock EXCEPT ![b] = FALSE]
    /\ UNCHANGED <<queueVars, workerVars, crashes>>

\* The job rows of a queued batch are cancelled in the same transaction.
CommitCancel(b) ==
    /\ batchLock[b]
    /\ IF batch[b] = "FILE_READY" THEN UNCHANGED queueVars
                                  ELSE Q!CancelRunning(b)
    /\ batch' = [batch EXCEPT ![b] = "CANCELLED"]
    /\ batchLock' = [batchLock EXCEPT ![b] = FALSE]
    /\ UNCHANGED <<workerVars, crashes>>

\* The web process failed, or PostgreSQL chose its transaction as victim.
RollbackCancel(b) ==
    /\ batchLock[b]
    /\ batchLock' = [batchLock EXCEPT ![b] = FALSE]
    /\ UNCHANGED <<queueVars, batch, workerVars, crashes>>

\* publishParseTerminalFailure, in the transaction that buries the jobs of D.
PublishTerminalFailure(D) ==
    /\ \A b \in D : ~batchLock[b]
    /\ batch' = [b \in Jobs |->
                   IF b \in D /\ batch[b] = "QUEUED_FOR_PARSING"
                   THEN "FAILED" ELSE batch[b]]

-----------------------------------------------------------------------------
(* One round of runOnce.                                                   *)

\* Fault: recovery gives up on a job without telling its batch.
RecoverSilently(w) ==
    /\ pc[w] = "recover"
    /\ Goto(w, "dispatch")
    /\ \/ /\ \A j \in Jobs : ~(Q!Expired(j) /\ Q!Unlocked(j))
          /\ UNCHANGED queueVars
       \/ \E S \in SUBSET Jobs : Q!RecoverExpired(S)
    /\ UNCHANGED <<batch, batchLock, held, token, lost, crashes>>

Recover(w) ==
    /\ pc[w] = "recover"
    /\ Goto(w, "dispatch")
    /\ \/ /\ \A j \in Jobs : ~(Q!Expired(j) /\ Q!Unlocked(j))
          /\ UNCHANGED <<queueVars, batch>>
       \/ \E S \in SUBSET Jobs :
             /\ Q!RecoverExpired(S)
             /\ PublishTerminalFailure({j \in S : Q!Exhausted(j)})
    /\ UNCHANGED <<batchLock, held, token, lost, crashes>>

Dispatch(w) ==
    /\ pc[w] = "dispatch"
    /\ Goto(w, "claim")
    /\ \/ /\ \A j \in Jobs : outbox[j] # "PENDING"
          /\ UNCHANGED queueVars
       \/ \E S \in SUBSET Jobs : Q!DispatchOutbox(S)
    /\ UNCHANGED <<batchVars, held, token, lost, crashes>>

\* The order by priority and age is left open: any available job is taken.
Claim(w) ==
    /\ pc[w] = "claim"
    /\ \/ /\ \A j \in Jobs : ~Q!Available(j)
          /\ UNCHANGED queueVars
          /\ Poll(w)
       \/ \E j \in Jobs :
             /\ Q!Claim(j)
             /\ held' = [held EXCEPT ![w] = j]
             /\ token' = [token EXCEPT ![w] = issued'[j]]
             /\ Goto(w, "handle")
             /\ UNCHANGED lost
    /\ UNCHANGED <<batchVars, crashes>>

\* Fault: a heartbeat that gets through makes up for one that was missed.
BeatForgiving(w) ==
    \/ /\ Q!Heartbeat(held[w], token[w])
       /\ \E gone \in BOOLEAN : lost' = [lost EXCEPT ![w] = gone]
    \/ lost' = [lost EXCEPT ![w] = TRUE] /\ UNCHANGED queueVars

\* One tick of JobLeaseHeartbeat: the lease is extended, or it is gone, or
\* the call or its answer is lost; `lost` is never reset.
Beat(w) ==
    \/ /\ ~lost[w]
       /\ Q!Heartbeat(held[w], token[w])
       /\ \E gone \in BOOLEAN : lost' = [lost EXCEPT ![w] = gone]
    \/ lost' = [lost EXCEPT ![w] = TRUE] /\ UNCHANGED queueVars

\* The timer fires while the worker is busy.
Heartbeat(w) ==
    /\ pc[w] \in {"handle", "verify", "complete"}
    /\ ~lost[w]
    /\ Beat(w)
    /\ UNCHANGED <<batchVars, pc, held, token, crashes>>

\* heartbeat.renew(): a lost lease ends the attempt.
Renew(w, next) ==
    /\ Beat(w)
    /\ Goto(w, IF lost'[w] THEN "fail" ELSE next)

\* The handler parses the file, or throws.
Handle(w) ==
    /\ pc[w] = "handle"
    /\ \/ Renew(w, "verify")
       \/ Goto(w, "fail") /\ UNCHANGED <<queueVars, lost>>
    /\ UNCHANGED <<batchVars, held, token, crashes>>

\* The file is inspected once more; a changed file throws.
Verify(w) ==
    /\ pc[w] = "verify"
    /\ \/ Renew(w, "complete")
       \/ Goto(w, "fail") /\ UNCHANGED <<queueVars, lost>>
    /\ UNCHANGED <<batchVars, held, token, crashes>>

\* Fault: the row is locked without a look at its lease.
BeginCompleteUnchecked(w) ==
    /\ pc[w] = "complete"
    /\ Q!Unlocked(held[w])
    /\ lock' = [lock EXCEPT ![held[w]] = token[w]]
    /\ Goto(w, "commit")
    /\ UNCHANGED <<outbox, jobs, issued, published, buried>>
    /\ UNCHANGED <<batchVars, held, token, lost, crashes>>

BeginComplete(w) ==
    /\ pc[w] = "complete"
    /\ \/ Q!BeginComplete(held[w], token[w]) /\ Goto(w, "commit")
       \/ /\ ~Q!Active(held[w], token[w])
          /\ Goto(w, "fail")
          /\ UNCHANGED queueVars
    /\ UNCHANGED <<batchVars, held, token, lost, crashes>>

\* publish locks the batch, checks that it still waits for this parse, and
\* commits rows, batch and job together.  When the answer to COMMIT is lost
\* the worker takes the attempt for failed.
Commit(w) ==
    /\ pc[w] = "commit"
    /\ ~batchLock[held[w]]
    /\ batch[held[w]] = "QUEUED_FOR_PARSING"
    /\ Q!CommitComplete(held[w], token[w])
    /\ batch' = [batch EXCEPT ![held[w]] = "AWAITING_MAPPING"]
    /\ \/ Poll(w)
       \/ Goto(w, "fail") /\ UNCHANGED <<held, token, lost>>
    /\ UNCHANGED <<batchLock, crashes>>

\* publish threw (stale batch, database error, deadlock victim).
PublishThrows(w) ==
    /\ pc[w] = "commit"
    /\ Q!RollbackComplete(held[w])
    /\ Goto(w, "fail")
    /\ UNCHANGED <<batchVars, held, token, lost, crashes>>

\* A parse failure is never forced terminal; fail is a no-op for a lease that
\* is no longer valid.
Fail(w) ==
    /\ pc[w] = "fail"
    /\ \/ /\ ~Q!Active(held[w], token[w])
          /\ UNCHANGED <<queueVars, batch>>
       \/ /\ Q!Fail(held[w], token[w], FALSE)
          /\ PublishTerminalFailure({held[w]} \cap {j \in Jobs : Q!Exhausted(j)})
    /\ Poll(w)
    /\ UNCHANGED <<batchLock, crashes>>

\* fail itself threw: run logs and polls again, the lease is left to expire.
FailThrows(w) ==
    /\ pc[w] = "fail"
    /\ Poll(w)
    /\ UNCHANGED <<queueVars, batchVars, crashes>>

\* The process dies, or leaves because it lost its runtime lease: an open
\* transaction is rolled back, the job keeps its lease until it expires.
Crash(w) ==
    /\ pc[w] # "down"
    /\ crashes < MaxCrashes
    /\ crashes' = crashes + 1
    /\ pc' = [pc EXCEPT ![w] = "down"]
    /\ held' = [held EXCEPT ![w] = None]
    /\ token' = [token EXCEPT ![w] = Q!NoToken]
    /\ lost' = [lost EXCEPT ![w] = FALSE]
    /\ IF pc[w] = "commit" THEN Q!RollbackComplete(held[w])
                           ELSE UNCHANGED queueVars
    /\ UNCHANGED batchVars

\* restart: unless-stopped.
Start(w) ==
    /\ pc[w] = "down"
    /\ Goto(w, "recover")
    /\ UNCHANGED <<queueVars, batchVars, held, token, lost, crashes>>

Tick == Q!Tick /\ UNCHANGED <<batchVars, workerVars, crashes>>

WorkerStep(w) ==
    \/ Recover(w) \/ Dispatch(w) \/ Claim(w) \/ Handle(w) \/ Verify(w)
    \/ BeginComplete(w) \/ Commit(w) \/ Fail(w)

Next ==
    \/ \E b \in Jobs : \/ QueueParse(b) \/ BeginCancel(b) \/ CommitCancel(b)
                       \/ RollbackCancel(b)
    \/ \E w \in Workers : \/ WorkerStep(w) \/ Heartbeat(w) \/ PublishThrows(w)
                          \/ FailThrows(w) \/ Crash(w) \/ Start(w)
    \/ Tick

Spec == Init /\ [][Next]_vars

-----------------------------------------------------------------------------
\* A publication and a cancellation wait for each other's row.
Deadlocked(b) == batchLock[b] /\ ~Q!Unlocked(b)

\* PostgreSQL's deadlock detector aborts one of the two transactions.
AbortVictim(b) ==
    /\ Deadlocked(b)
    /\ \/ RollbackCancel(b)
       \/ \E w \in Workers : held[w] = b /\ PublishThrows(w)

\* What keeps going: the clock, the processes and their restart policy, the
\* transactions of the web tier, the deadlock detector.  Handlers end.  A
\* worker that waits for a row is served in the order of the lock queue, so
\* cancellations that come and go cannot keep it out: strong fairness.
Fairness ==
    /\ WF_vars(Tick)
    /\ \A w \in Workers : SF_vars(WorkerStep(w)) /\ WF_vars(Start(w))
    /\ \A b \in Jobs : WF_vars(CommitCancel(b)) /\ WF_vars(AbortVictim(b))

FairSpec == Spec /\ Fairness

-----------------------------------------------------------------------------
\* The batch a user sees and the job in the queue never tell different
\* stories: parsed exactly when SUCCEEDED, failed exactly when DEAD, waiting
\* exactly while the job can still run, and a cancelled batch has no job that
\* could still run.
BatchMatchesJob ==
    \A b \in Jobs :
      /\ batch[b] = "AWAITING_MAPPING" <=> jobs[b].status = "SUCCEEDED"
      /\ batch[b] = "FAILED" <=> jobs[b].status = "DEAD"
      /\ batch[b] = "QUEUED_FOR_PARSING" <=>
           /\ outbox[b] \in {"PENDING", "PUBLISHED"}
           /\ jobs[b].status \in {"NONE", "QUEUED", "RUNNING"}

\* A worker inside its commit holds the row under the newest lease; every
\* other worker that still believes in this job holds an older token.
SoleCommitter ==
    \A w \in Workers : pc[w] = "commit" =>
      /\ lock[held[w]] = token[w]
      /\ \A v \in Workers \ {w} : held[v] = held[w] => token[v] < token[w]

\* A batch is given up only after every attempt it had, and no attempt beyond
\* them is ever begun: fail and recoverExpired count alike, whichever of the
\* two meets the last attempt and however the ones before it ended.
AllAttemptsMade ==
    \A b \in Jobs :
      /\ issued[b] <= MaxAttempts
      /\ batch[b] = "FAILED" => issued[b] = MaxAttempts

\* One heartbeat that was refused or failed while the job was handled ends the
\* attempt: its result is never published, even if its lease is still valid,
\* a later heartbeat would have been granted, and nobody else takes the job.
MissedBeatEndsAttempt ==
    \A w \in Workers, b \in Jobs, t \in 1..MaxAttempts :
      [](/\ lost[w] /\ pc[w] \in {"handle", "verify"}
         /\ held[w] = b /\ token[w] = t
         => [](t \notin published[b]))

\* The workers and services use the queue as its specification allows.
ImplementsQueue == Q!Spec

\* Every batch queued for parsing is parsed, failed or cancelled in the end,
\* through crashes, lost leases and deadlocks.
QueuedBatchSettles ==
    \A b \in Jobs : batch[b] = "QUEUED_FOR_PARSING" ~>
        batch[b] \in {"AWAITING_MAPPING", "FAILED", "CANCELLED"}
=============================================================================
