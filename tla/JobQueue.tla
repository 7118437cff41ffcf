------------------------------ MODULE JobQueue ------------------------------
(***************************************************************************)
(* The PostgreSQL job queue of the self-hosted worker                      *)
(* (infrastructure/background-jobs.ts): the transactional outbox           *)
(* material_import_job_outbox, the table background_jobs, and the          *)
(* operations enqueue, dispatchOutbox, claim, heartbeat, complete, fail    *)
(* and recoverExpired, with the two cancellations the services write.      *)
(*                                                                         *)
(* The module is open: any lease token ever issued may be presented at any *)
(* time, so every stale or slow worker is a behaviour of this              *)
(* specification.  ParseJobs and NormalizationJobs drive it with the real  *)
(* workers and show that they implement it.                                *)
(*                                                                         *)
(* A job is identified by its idempotency key, which the outbox row and    *)
(* the job row share.  Time is relative: a lease keeps the number of ticks *)
(* it still has (`ttl`), a requeued job the ticks it must still wait       *)
(* (`wait`), so "lease_expires_at > now" is ttl > 0 and                    *)
(* "available_at <= now" is wait = 0.  A lease token is the serial number  *)
(* of the claim that drew it, standing for a fresh UUID.  One database     *)
(* transaction is one action, except complete, whose transaction stays     *)
(* open while the caller publishes its result.                             *)
(***************************************************************************)
EXTENDS Integers, FiniteSets

CONSTANTS
    Jobs,         \* idempotency keys
    MaxAttempts,  \* background_jobs.max_attempts
    Lease,        \* ticks a lease lasts (leaseSeconds)
    BatchLimit    \* rows one dispatch or one recovery takes (50 in the code)

ASSUME MaxAttemptsAssumption == MaxAttempts \in Nat \ {0}
ASSUME LeaseAssumption == Lease \in Nat \ {0}
ASSUME BatchLimitAssumption == BatchLimit \in Nat \ {0}

VARIABLES
    outbox,     \* status of the job's outbox row
    jobs,       \* the job's row in background_jobs
    issued,     \* lease tokens drawn for the job so far
    lock,       \* token of the open complete transaction holding the row
    published,  \* history: tokens whose result was published
    buried      \* history: terminal failures published

vars == <<outbox, jobs, issued, lock, published, buried>>

NoToken == 0

\* The delay of a failed attempt: min(300, 2^min(attempt, 8)) seconds, and
\* 2^8 < 300.
BackoffSeconds == <<2, 4, 8, 16, 32, 64, 128, 256>>

Backoff(attempt) == BackoffSeconds[IF attempt < 8 THEN attempt ELSE 8]

NoJob == [status |-> "NONE", attempts |-> 0, token |-> NoToken,
          ttl |-> 0, wait |-> 0]

OutboxStatus == {"NONE", "PENDING", "PUBLISHED", "CANCELLED"}

JobStatus == {"NONE", "QUEUED", "RUNNING", "SUCCEEDED", "DEAD", "CANCELLED"}

Terminal == {"SUCCEEDED", "DEAD", "CANCELLED"}

JobRow == [status : JobStatus, attempts : 0..MaxAttempts, token : Nat,
           ttl : 0..Lease, wait : Nat]

TypeOK ==
    /\ outbox \in [Jobs -> OutboxStatus]
    /\ jobs \in [Jobs -> JobRow]
    /\ issued \in [Jobs -> Nat]
    /\ lock \in [Jobs -> Nat]
    /\ published \in [Jobs -> SUBSET Nat]
    /\ buried \in [Jobs -> Nat]

Init ==
    /\ outbox = [j \in Jobs |-> "NONE"]
    /\ jobs = [j \in Jobs |-> NoJob]
    /\ issued = [j \in Jobs |-> 0]
    /\ lock = [j \in Jobs |-> NoToken]
    /\ published = [j \in Jobs |-> {}]
    /\ buried = [j \in Jobs |-> 0]

-----------------------------------------------------------------------------
Unlocked(j) == lock[j] = NoToken

Available(j) == jobs[j].status = "QUEUED" /\ jobs[j].wait = 0

Expired(j) == jobs[j].status = "RUNNING" /\ jobs[j].ttl = 0

\* The where clause of heartbeat, complete and fail: the row is RUNNING under
\* this very token and the lease has not run out.
Active(j, t) ==
    /\ jobs[j].status = "RUNNING"
    /\ jobs[j].token = t
    /\ jobs[j].ttl > 0

\* Fault: the last attempt is given up before it is made.
ExhaustedEarly(j) == jobs[j].attempts + 1 >= MaxAttempts

Exhausted(j) == jobs[j].attempts >= MaxAttempts

\* A row that holds no lease: every lease column is null.
Unleased(j, status, delay) ==
    [status |-> status, attempts |-> jobs[j].attempts, token |-> NoToken,
     ttl |-> 0, wait |-> delay]

\* A row under a lease begun or extended this instant.
Leased(attempts, token) ==
    [status |-> "RUNNING", attempts |-> attempts, token |-> token,
     ttl |-> Lease, wait |-> 0]

\* Status and delay of the row after a failed attempt.
AfterFailure(j, terminal, delay) ==
    IF terminal THEN Unleased(j, "DEAD", 0) ELSE Unleased(j, "QUEUED", delay)

-----------------------------------------------------------------------------
\* insert ... on conflict (idempotency_key): a second enqueue of the same key
\* finds the row and changes nothing.
Enqueue(j) ==
    /\ outbox[j] = "NONE"
    /\ outbox' = [outbox EXCEPT ![j] = "PENDING"]
    /\ UNCHANGED <<jobs, issued, lock, published, buried>>

\* One transaction publishes a batch of pending outbox rows: the job row is
\* inserted QUEUED and the outbox row marked in the same commit.
DispatchOutbox(S) ==
    /\ S # {}
    /\ Cardinality(S) <= BatchLimit
    /\ \A j \in S : outbox[j] = "PENDING"
    /\ outbox' = [j \in Jobs |-> IF j \in S THEN "PUBLISHED" ELSE outbox[j]]
    /\ jobs' = [j \in Jobs |-> IF j \in S /\ jobs[j].status = "NONE"
                               THEN Unleased(j, "QUEUED", 0) ELSE jobs[j]]
    /\ UNCHANGED <<issued, lock, published, buried>>

\* A worker takes the row: attempt counted, a fresh token drawn, lease begun.
Claim(j) ==
    /\ Available(j)
    /\ Unlocked(j)
    /\ issued' = [issued EXCEPT ![j] = @ + 1]
    /\ jobs' = [jobs EXCEPT
                  ![j] = Leased(jobs[j].attempts + 1, issued[j] + 1)]
    /\ UNCHANGED <<outbox, lock, published, buried>>

Heartbeat(j, t) ==
    /\ Unlocked(j)
    /\ Active(j, t)
    /\ jobs' = [jobs EXCEPT ![j] = Leased(jobs[j].attempts, t)]
    /\ UNCHANGED <<outbox, issued, lock, published, buried>>

\* complete opens its transaction: select ... for update under the where
\* clause.  The row stays locked while publish(client) runs.
BeginComplete(j, t) ==
    /\ Unlocked(j)
    /\ Active(j, t)
    /\ lock' = [lock EXCEPT ![j] = t]
    /\ UNCHANGED <<outbox, jobs, issued, published, buried>>

\* Fault: the commit no longer checks that it still holds the job.
CommitCompleteBlind(j, t) ==
    /\ t # NoToken
    /\ jobs' = [jobs EXCEPT ![j] = Unleased(j, "SUCCEEDED", 0)]
    /\ published' = [published EXCEPT ![j] = @ \cup {t}]
    /\ lock' = [lock EXCEPT ![j] = NoToken]
    /\ UNCHANGED <<outbox, issued, buried>>

\* Fault: the result is published but the job is left as it was.
CommitCompleteTwice(j, t) ==
    /\ lock[j] = t
    /\ t # NoToken
    /\ published' = [published EXCEPT ![j] = @ \cup {t}]
    /\ lock' = [lock EXCEPT ![j] = NoToken]
    /\ UNCHANGED <<outbox, jobs, issued, buried>>

\* The final update of complete repeats status and token but not the expiry:
\* a lease that ran out while publish was running still commits.
CommitComplete(j, t) ==
    /\ lock[j] = t
    /\ t # NoToken
    /\ jobs[j].status = "RUNNING"
    /\ jobs[j].token = t
    /\ jobs' = [jobs EXCEPT ![j] = Unleased(j, "SUCCEEDED", 0)]
    /\ published' = [published EXCEPT ![j] = @ \cup {t}]
    /\ lock' = [lock EXCEPT ![j] = NoToken]
    /\ UNCHANGED <<outbox, issued, buried>>

\* publish threw, or the connection of the worker is gone.
RollbackComplete(j) ==
    /\ lock[j] # NoToken
    /\ lock' = [lock EXCEPT ![j] = NoToken]
    /\ UNCHANGED <<outbox, jobs, issued, published, buried>>

Fail(j, t, forceTerminal) ==
    LET terminal == forceTerminal \/ Exhausted(j)
    IN  /\ Unlocked(j)
        /\ Active(j, t)
        /\ jobs' = [jobs EXCEPT ![j] =
                      AfterFailure(j, terminal, Backoff(jobs[j].attempts))]
        /\ buried' = [buried EXCEPT ![j] = IF terminal THEN @ + 1 ELSE @]
        /\ UNCHANGED <<outbox, issued, lock, published>>

\* Fault: recovery does not skip the rows other transactions hold.
RecoverExpiredLocked(S) ==
    /\ S # {}
    /\ \A j \in S : Expired(j)
    /\ jobs' = [j \in Jobs |-> IF j \in S
                               THEN AfterFailure(j, Exhausted(j), 0)
                               ELSE jobs[j]]
    /\ buried' = [j \in Jobs |-> IF j \in S /\ Exhausted(j)
                                 THEN buried[j] + 1 ELSE buried[j]]
    /\ UNCHANGED <<outbox, issued, lock, published>>

\* One transaction over the expired rows it could lock (skip locked): each is
\* requeued at once, or buried when its attempts are used up.
RecoverExpired(S) ==
    /\ S # {}
    /\ Cardinality(S) <= BatchLimit
    /\ \A j \in S : Expired(j) /\ Unlocked(j)
    /\ jobs' = [j \in Jobs |-> IF j \in S
                               THEN AfterFailure(j, Exhausted(j), 0)
                               ELSE jobs[j]]
    /\ buried' = [j \in Jobs |-> IF j \in S /\ Exhausted(j)
                                 THEN buried[j] + 1 ELSE buried[j]]
    /\ UNCHANGED <<outbox, issued, lock, published>>

\* cancelBatch: the outbox row and the job, running or not.
CancelRunning(j) ==
    /\ Unlocked(j)
    /\ outbox[j] \in {"PENDING", "PUBLISHED"}
    /\ outbox' = [outbox EXCEPT ![j] = "CANCELLED"]
    /\ jobs' = [jobs EXCEPT ![j] = IF @.status \in {"QUEUED", "RUNNING"}
                                   THEN Unleased(j, "CANCELLED", 0) ELSE @]
    /\ UNCHANGED <<issued, lock, published, buried>>

\* Cancelling a normalization run that has not started: only an outbox row
\* still PENDING and a job still QUEUED are cancelled.
CancelQueued(j) ==
    /\ Unlocked(j)
    /\ outbox[j] \in {"PENDING", "PUBLISHED"}
    /\ outbox' = [outbox EXCEPT ![j] = IF @ = "PENDING" THEN "CANCELLED" ELSE @]
    /\ jobs' = [jobs EXCEPT ![j] = IF @.status = "QUEUED"
                                   THEN Unleased(j, "CANCELLED", 0) ELSE @]
    /\ UNCHANGED <<issued, lock, published, buried>>

Countdown(n) == IF n > 0 THEN n - 1 ELSE 0

Aged(j) ==
    [status |-> jobs[j].status, attempts |-> jobs[j].attempts,
     token |-> jobs[j].token, ttl |-> Countdown(jobs[j].ttl),
     wait |-> Countdown(jobs[j].wait)]

\* One tick of the clock for every lease and every delay.
Tick ==
    /\ \E j \in Jobs : jobs[j].ttl > 0 \/ jobs[j].wait > 0
    /\ jobs' = [j \in Jobs |-> Aged(j)]
    /\ UNCHANGED <<outbox, issued, lock, published, buried>>

Next ==
    \/ \E j \in Jobs : \/ Enqueue(j)
                       \/ Claim(j)
                       \/ RollbackComplete(j)
                       \/ CancelRunning(j)
                       \/ CancelQueued(j)
    \/ \E j \in Jobs : \E t \in 1..issued[j] :
          \/ Heartbeat(j, t)
          \/ BeginComplete(j, t)
          \/ CommitComplete(j, t)
          \/ \E forceTerminal \in BOOLEAN : Fail(j, t, forceTerminal)
    \/ \E S \in SUBSET Jobs : DispatchOutbox(S) \/ RecoverExpired(S)
    \/ Tick

Spec == Init /\ [][Next]_vars

-----------------------------------------------------------------------------
\* A result is published exactly for the jobs that SUCCEEDED and a terminal
\* failure exactly for those that are DEAD, once each: the business outcome
\* and the job row commit together (complete, fail, recoverExpired).
OutcomeMatchesRow ==
    \A j \in Jobs :
      /\ Cardinality(published[j]) = IF jobs[j].status = "SUCCEEDED" THEN 1 ELSE 0
      /\ buried[j] = IF jobs[j].status = "DEAD" THEN 1 ELSE 0

\* While a complete transaction is open nobody else can take, fail, recover
\* or cancel the job, even after its lease has run out (skip locked).
OpenCompletionOwnsRow ==
    \A j \in Jobs : lock[j] # NoToken =>
        jobs[j].status = "RUNNING" /\ jobs[j].token = lock[j]

\* A running job carries the newest token ever drawn for it, and a job that
\* is not running carries none: at most one lease is valid per job.
OnlyNewestLeaseIsValid ==
    \A j \in Jobs :
      jobs[j].token = IF jobs[j].status = "RUNNING" THEN issued[j] ELSE NoToken

\* The retry budget: every claim is counted, a job that waits for another
\* attempt still has one left, and a job is never started once too often.
RetryBudget ==
    \A j \in Jobs :
      /\ jobs[j].attempts = issued[j]
      /\ jobs[j].status = "QUEUED" => jobs[j].attempts < MaxAttempts

\* Fencing: a result is published only under the newest lease of the job, so
\* never by a worker whose job has since been claimed by another.
FencedPublication ==
    [][\A j \in Jobs : published'[j] # published[j] =>
          /\ published'[j] \ published[j] = {issued[j]}
          /\ jobs[j].status = "RUNNING"]_vars

\* No operation moves a job out of SUCCEEDED, DEAD or CANCELLED, whatever
\* late call a worker or a user makes.
TerminalIsFinal ==
    [][\A j \in Jobs : jobs[j].status \in Terminal =>
          jobs'[j].status = jobs[j].status]_vars

-----------------------------------------------------------------------------
\* What a client of the queue observes of a job.
Outcome(j) ==
    IF jobs[j].status \in Terminal THEN jobs[j].status
    ELSE IF jobs[j].status = "NONE" /\ outbox[j] \in {"NONE", "CANCELLED"}
         THEN outbox[j]
         ELSE "WAITING"

Contract == INSTANCE JobOutcome
              WITH outcome <- [j \in Jobs |-> Outcome(j)],
                   effects <- [j \in Jobs |-> Cardinality(published[j])]

\* The queue implements the contract its clients rely on: one outcome per
\* job, and one effect exactly when the outcome is success.
ImplementsContract == Contract!Spec
=============================================================================
