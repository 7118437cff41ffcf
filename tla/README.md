# Formal model of the chenyida self-hosted ERP

TLA+ modules, TLC configurations and TLAPS proofs for the core of the ERP in
`src/chenyida_erp_site`. The modules translate the source; where a document
says more than the code does, section 4 says so.

## 1. The system

The program is a self-hosted ERP for a manufacturer: a web process (Node), one
worker process, a PostgreSQL database and two file volumes, started by
`compose.yml`. All shared state is in the database, but for the files of
uploads. Web requests and the worker never call each other: they meet in rows,
row locks, advisory locks and files. A release is promoted from test to
production by a supervisor (`scripts/`), whose only state is a directory of
files, the journal.

```
 browser --HTTP--> services (app/lib/*-selfhost) --SQL--> PostgreSQL
                       |                                    ^
                     files (upload, promote, delete)        |
                       |                                    |
                   SelfHostedWorker  --SQL------------------+
                   runOnce: recover, reconcile, dispatch, claim, handle, complete

 operator --> release-supervisor-launcher.py --> journal files, containers, databases
```

### Inventory of components

Paths without a directory are under `src/chenyida_erp_site/app/lib/`. "Modelled"
names the module.

| Component | State | Operations | What is hard | What makes it correct | Modelled |
|---|---|---|---|---|---|
| Job queue, `infrastructure/background-jobs.ts`, `background-job-enqueuer.ts` | outbox rows, job rows with lease token, attempts | enqueue, dispatchOutbox, claim, heartbeat, complete, fail, recoverExpired, cancellations | leases that expire under a live worker; publication and job row in one transaction | one outcome per job; only the newest lease may publish; attempts bounded | `JobQueue`, `JobOutcome`, `JobQueueProofs` |
| Worker and parsing, `selfhost-worker.ts`, `worker/selfhost.ts` | job held, lease lost flag | runOnce, heartbeat, publish, terminal failure, restart | crashes, lost heartbeat or commit answers, two workers on one job | batch and job agree; every queued batch settles | `ParseJobs`, `ParseJobsProofs` |
| Import batches and uploads, `material-import-fallback/` | batch, file, preparation rows; partial and final files | prepare, stage, promote, publish, fail, reject, cancel, reconcile, delete | files against rows after a crash; a process that stalled past its lease still links and unlinks | a ready batch has its file; the same content once; every upload settles | `UploadFiles`, `UploadFilesProofs` |
| Normalization, `material-import-normalization-selfhost/` | runs, batch status, pointer to the current run | create, retry, cancel, claim, stage, verify, publish, fail | check of the lease without a lock; cancel crossing publication; retry | one active run per batch; pointer names the only success | `NormalizationJobs`, `NormalizationProofs` |
| Runtime lease, `runtime-readiness/` | one row: instance, generation, version, expiry | acquire, renew, assert, stop | takeover from a stale process, lost answers | a live lease ends only by its holder | `RuntimeLease`, `RuntimeLeaseProofs` |
| Stock ledger, `inventory-selfhost/` | balances, adjustments, ledger entries, idempotency keys | post, reverse, replay | stale versions, resent requests, several services writing one row | ledger chain, no overcommitment, once-only | `StockLedger`, `StockTransactions`, `StockLedgerProofs` |
| Work orders, `production-selfhost/`, `production-operation-selfhost/` | order, reservations, requirements, runs, completions | release, issue, return, dispatch, complete, reverse, close, cancel | reservations shared with the ledger; returns under running work | reserved stock is owed to an open order | partly: `StockLedger` |
| Sales, `sales-selfhost/` | orders, delivery instructions, shipments | create, execute, return, reverse, close, cancel | quantities counted over several documents; shipment against reopened inspections | what is shipped was released; the books add up | partly: `SalesDelivery` |
| Finance, `finance-selfhost/` | entries, settlements | create, settle, reverse settlement | a receivable posted while its shipment is reversed | a receivable is of a shipment that stands | partly: `SalesDelivery`, `SalesDeliveryProofs` |
| Quality, `quality-selfhost/` | inspections and dispositions | allocate, release, close, reopen | reopening what is being shipped | as sales | partly: `SalesDelivery` |
| Promotion journal and supervisor, `scripts/uat-promotion-*`, `scripts/release-supervisor-launcher.py` | intents, results, grants, receipts, quarantine, the link `current` | prepare, authorize, operate, recover, quarantine, contain, roll back | a crash in the middle of any file; recovery that publishes by another way | receipts form one line; no receipt vouches for what is not durable | partly: `PromotionJournal`, `PromotionProofs` |
| Inventory lots, `inventory-lot-selfhost/` | lots, lot events | freeze, postings by lot | lot status against lot stock | as the ledger, by lot | planned |
| Procurement, `procurement-selfhost/`, `procurement-fulfillment-selfhost/`, `procurement-sourcing-selfhost/` | RFQs, awards, orders, receipts | RFQ: issue, quote, revise, award, reverse; order: create, update, close; receipts: create, reverse | receipt against order, stock and inspection | received ≤ ordered; stock follows | planned |
| Production operations, rework, `production-operation-selfhost/`, `production-nonconformance-selfhost/` | runs, reports, projections | dispatch, report, inspect, rework | quantities flowing through operations; projections rebuilt on each write | nothing consumed twice | planned |
| Import review, `material-import-review-selfhost/` | reviews, finalization jobs | create, validate, override, bulk decide, resolve, finalize, retry | as normalization | as normalization | planned |
| Material master, governance, AI suggestions, mapping, `material-*-selfhost/`, `ai-governance-suggestion-selfhost/` | documents | create, edit, submit, decide | little concurrency | version checked on each edit | later |
| Identity, `identity-selfhost/` | users, sessions | set up, log in, log out, create user, change status, change or reset password | sessions against changed roles | no session outlives its user | planned |
| Planning, requirements, BOM, projects, master data, supplier mapping | documents | edit, calculate, release | calculations | calculation equals its definition | later |
| Dashboard, readiness, routing, pages | none | reads, dispatch | – | – | no: stateless |
| Cloudflare edition, Python edition, other release and operations tooling, evaluations | – | – | – | – | no: superseded, run by hand, or data |

## 2. The modules

| Module | Models | Instantiates |
|---|---|---|
| `JobOutcome` | the contract of the queue: a submitted job has one outcome, and its effects are applied exactly when it succeeds | |
| `JobQueue` | the queue, open to any holder of any token ever issued | `JobOutcome` (refinement) |
| `ParseJobs` | workers, batches and cancellations driving the queue | `JobQueue` (composition and refinement) |
| `NormalizationJobs` | runs, batches, retries and cancellations driving the queue | `JobQueue` (composition) |
| `UploadFiles` | rows and files of uploads, the requests and reconcilers that carry them | |
| `RuntimeLease` | the service slot of the worker | |
| `StockLedger` | stock and work orders, one transaction an action | |
| `StockTransactions` | the same transactions lock by lock | `StockLedger` (refinement) |
| `SalesDelivery` | allocation, inspection, delivery, reversal and receivable of one order line | |
| `PromotionJournal` | the files of a promotion, file by file, with crashes and recovery | |
| `JobQueueProofs`, `ParseJobsProofs`, `UploadFilesProofs`, `NormalizationProofs`, `RuntimeLeaseProofs`, `StockLedgerProofs`, `SalesDeliveryProofs`, `PromotionProofs` | theorems | `ParseJobsProofs` and `NormalizationProofs` `JobQueueProofs`, to use its theorems |

The `MC*` modules give the constants their values for TLC. Operators whose
comment starts with "Fault:" are mutated forms of the operator they precede;
no specification uses them. They show that a property notices that fault.

### Job queue

`jobs[j]` is the row of `background_jobs`, `outbox[j]` the status of the row of
`material_import_job_outbox`. Each method of `PostgresBackgroundJobQueue` is an
action; `complete` is two, because its transaction stays open while `publish`
runs: `BeginComplete` locks the row (`lock[j]`), `CommitComplete` writes it.
`recoverExpired` and `claim` skip locked rows, so their guards ask for
`Unlocked`. A lease token is the serial number of the claim. Time is relative: a
lease keeps the ticks it has left, so that the state space is finite without a
bound on the clock. `now` is read once a transaction; `fail` reads it just
before it connects, which only makes a lease look longer than it is, and the
lock and the token decide. `published` and `buried` are history: under which
token a result, and how often a terminal failure, was published.

The module lets any token issued so far be presented at any time. That is more
than any worker does, so what holds here holds for every worker; `ParseJobs`
shows that its workers stay within it (`ImplementsQueue`).

### Parse jobs

One worker is `pc`, the job it holds, its token and the `lost` flag of
`JobLeaseHeartbeat`. The order of `runOnce` (recover, dispatch, claim, handler,
renew, verify, renew, complete, or fail) is kept. A cancellation is a
transaction with two lock points, the batch and then the job, while a
publication locks the job and then the batch, so the two can deadlock;
`AbortVictim` is PostgreSQL's detector. `Crash` ends the process in any step
and rolls back its transaction; `Start` is `restart: unless-stopped`
(`compose.yml`, line 230). The rows a parse writes are payload.

### Normalization

A run is `status`, `retries`, the `owner` that last took it, and one job per
retry. The worker follows `prepare`: check the lease, take the run, checkpoints
(one stands for all chunks), verify, complete with publication. Every step may
throw; the kinds of error are those `runOnce` tells apart. The worker loop and
the heartbeat's `lost` flag are kept in `ParseJobs` only; here a worker may do
the next thing at any time, which includes every order of the loop.

### Uploads

`batch`, `phase` and `storage` are the status columns of
`material_import_batches`, of the preparation row and of the file row; the lease
of a preparation names the process that may write these rows. `.part` files
carry the lease token in their name, the final file is named after the batch,
and it appears only by `link()`, which fails if it exists. A process is a web
request (`executeUpload`) or a round of `reconcileOneUpload`; each step is one
transaction or one call of the file system, in the order of the code, and may be
the last before the process dies. Row transactions check the lease; file
operations do not, so a process that stalled (`Lapse`) may still link or unlink
for an operation others have taken over, or open a `.part` file for it:
`Receive` is the last renewal before `stage()`, `Stage` its look at the staged
file, `OpenPart` the creation of the `.part` file, and `Renew` comes once more
before `Link`. A process that ended is used again under the same name, for one
with a new token; the `.part` files it left under earlier tokens count as one.

- A file is its content; the digest and the size in the headers are the content
  the client declared. `other` is any content that is not that.
- `FILE_READY` stands for all later statuses; `ParseJobs` continues from there.
- The write-rate limit, the creation of batches, and the replay of completed
  requests are left out; all batches are one user's, which is the only scope in
  which the duplicate check and the limit of two active uploads compare.

### Runtime lease

A statement and its answer are two steps, and an answer may be lost. The
supervisor's promise chain allows one open statement. `MaxVersion` bounds the
row's version; the properties compare versions only for equality.

### Stock ledger and work orders

A request is written by a client from the versions it sees, and may be sent any
number of times, also after its key has expired (`ExpireKey`, 24 hours). Only
acceptance is an action, because a refused request rolls back. `Write` produces
the requests the handlers can be sent; the lines of one request share one
quantity (a bound).

- An operation that posts is one transaction: its balances, its adjustment with
  ledger entries, the stored key, and the order's own rows.
- The version of a requirement and of an order guard nothing that the versions
  of the balances and the statuses do not; they are not kept.
- `refreshOperationProjections` compares rounded quantities; the model compares
  exactly. Of the runs of an order the model keeps the quantity dispatched to
  the first operation, and any part of it may be completed; reports and quality
  between the two only restrict that.
- Released orders always have a routing snapshot; orders from before routings,
  rework and finished-goods lots are not modelled.

### Stock transactions

A session is a database transaction at READ COMMITTED. `todo[s]` is the list of
locks its request still has to take, in the order of the code: key, then order
or adjustment, then positions (advisory) and balance rows in the order of their
*string* keys or of their *numbers*, whichever the code sorts by, then the
sequence that numbers adjustments. Rows are read when they are locked; a row
that does not exist cannot be locked, which is why the advisory locks matter.
The status of an order is looked at as soon as its row is locked
(`Admits`). `StockLedger` may treat a transaction as one step because of
`ImplementsLedger`. Sequences other than the adjustments' (issue, return and
completion numbers) are taken at the same place and stand for nothing more.

### Sales delivery

One line of one order, filled from completions. `allocation`, `inspection`,
`instruction`, `shipment` and `receivable` are the rows of the four services;
`takes[s][i]` is what shipment `s` took of the release of inspection `i`. Each
service call is one transaction and one action. Posting a receivable and
reversing its shipment are two actions each: the advisory lock `FINANCE_SOURCE`
is taken, and rows are read, before other transactions commit in between.

- A completion is allocated once (unique index of migration 0022).
- A disposition releases any quantity up to the one inspected. The check of
  stock at shipment is in `StockLedger` and is left open here.
- Quotations, and the creation and confirmation of orders, come before.

### Promotion journal

An operation is an authorization: the checkpoint it makes (4 to 15) and the
receipt it follows (`pinned`). `file[k][o]` is the file of kind `k` that `o`
writes: absent, torn by a crash in the middle, or stored. `runner` is the one
process that holds the lock, and the step it stands before. A recovery starts from
whatever is on disk. `current` moves by one atomic rename. The programs that
migrate, deploy, verify and roll back are kept by what they make durable for the
journal.

## 3. The runs

| Run | Instance | States | Shows |
|---|---|---|---|
| `job_queue` | 3 jobs, 2 attempts, lease 2, batch limit 2 | 5,984 | one outcome per job, in the transaction that decides it, by the newest lease; the contract `JobOutcome` |
| `parse_jobs` | 1 batch, 2 workers, 3 attempts, 2 crashes | 24,612 | batch and job tell the same story; one worker commits; a batch given up had exactly its attempts; a missed heartbeat ends an attempt for good; the workers implement the queue; every queued batch is parsed, failed or cancelled |
| `normalization_runs` | 2 runs, 1 retry, 1 worker, 1 crash | 124,835 | one active run, the pointer names the only success, no orphaned run |
| `normalization_workers` | 1 run, 1 retry, 2 workers, 1 crash | 31,894 | legal transitions only, publication under the newest lease; every active run ends |
| `uploads` | 3 batches with one content (one the retry of a duplicate), a request and a reconciler | 679,912 | the same content is published once |
| `upload_recovery` | 1 batch, declared or other body, 2 faults | 39,480 | a ready batch has its file, a promoted file stands, every upload settles |
| `runtime_lease` | 3 lives of the process, lease 2 | 88,763 | a live lease ends by its holder; a replaced process never matches the row |
| `stock_postings` | 2 positions, 3 requests, quantities 0 to 2 | 409,681 | chain, once-only, reversals net out |
| `stock_orders` | 2 orders competing, 4 requests, reversals of either kind | 2,124,997 | no overcommitment; reserved stock is owed to an open order; completed is what its completions brought, less what the order took back |
| `stock_locks` | 2 sessions, 2 positions, 3 requests | 242,148 | the opened transactions implement the ledger; what was read stays true; every cycle of waiting sessions has an issue or a cancellation in it |
| `sales_delivery` | order of 2, 2 completions (one a lot), 3 inspections, 2 instructions, 3 shipments, 2 settlements | 112,666 | reservations fit; only released goods ship; the documents add up; a receivable stands on a shipment that stands |
| `promotion` | 15 operations, 1 recovery, a crash at every step | 283,325 | receipts form one line and are backed; quarantine holds; checkpoints in order |

### Bounds

- Two attempts reach each branch of the retry logic: an attempt with another
  left, and the last; `parse_jobs` has three, so that there is one between
  the first and the last. The column's default is five; the theorems hold for
  any number. A lease of two ticks lets a heartbeat come early, late and
  too late; where the question is only whether it expires, one tick does.
- Two workers give every race for one job; a third would repeat the second.
  Three jobs against a batch limit of two let a batch leave one behind.
- The questions about uploads are split over two runs because two batches with
  faults or liveness go beyond a few minutes. `uploads` needs batches that
  compete for one content and no fault; `upload_recovery` needs one upload and
  every pair of stalls, deaths and failed deletions. The proofs cover both
  together.
- The requests of a stock run bound the length of the journal. Three give a
  posting, a change under it and a resend; four a release, issue, completion and
  its reversal, or a return or cancellation with an outsider. Two positions give
  every lock order of two locks.
- Three inspections and shipments let goods be shipped, come back, be inspected
  again and shipped again by another instruction.
- `promotion` is one promotion with its rollback, a second quiesce and a second
  deployment that compete with the first ones, and the begin of the next
  promotion; one recovery may come after any crash. The proofs cover any number.
- Symmetry is used for interchangeable identifiers and never with a liveness
  property. `CHECK_DEADLOCK FALSE` is set where clients may have sent all their
  requests, jobs or uploads may all be finished, or every process life may be
  over. A promotion really ends, and a torn intent or grant stops every later
  operation by design (JOURNAL-69.md, line 12), so `promotion` sets it too. The
  run of `ParseJobs` checks deadlock.

### Fairness

- `Tick`, and in `UploadFiles` `Lapse` and `RecoveryEnds`: the database clock runs.
- A worker's own steps: the process is scheduled, or restarted by compose. In
  `UploadFiles` a request at work, and the polls of the reconciler.
- Strong fairness of a worker's steps: a poll that comes back again and again
  meets work that is there again and again, and PostgreSQL serves lock waiters in
  order.
- Deadlock detection: PostgreSQL aborts one member of a cycle.
- No fairness for clients, cancellations, crashes, expiry of keys, nor for
  anything in a promotion, which an operator drives.

## 4. Where documents or comments and the code disagree

These were met while modelling. The models follow the code.

1. **Temporary errors of a normalization are not retried** (`selfhost-worker.ts`
   line 434). A dropped connection or a deadlock victim is not a
   `MaterialImportNormalizationError`, so `forceTerminal` is true and the job is
   DEAD at its first attempt. `normalization-postgresql.md`, line 132, says that
   temporary errors are recovered up to the maximum number of attempts.
2. **A completion can be undone by the general reversal**
   (`inventory-selfhost/service.ts` line 214, likewise a material issue,
   `production-selfhost/service.ts` line 130). The general reversal does not ask
   to which document an adjustment belongs. The stock goes, the order stays
   complete, and the completion's own reversal is refused from then on.
   `SELFHOST-PHASE4-TASK07.md`, line 37, rules this out. So what an order
   records as completed need not be what was received for it and still stands;
   no property says so. `CompletionsAddUp` says what the code keeps with the
   general reversal among the operations of `stock_orders`: the record is the
   sum of the completions the order did not take back itself.
3. **Issues and cancellations lock rows before positions**
   (`production-selfhost/service.ts` line 125). Every other posting locks
   positions first, so they can deadlock; PostgreSQL ends it and the user gets an
   internal error. `full-erp-api-migration-plan.md`, line 242, and
   `SELFHOST-PHASE4-TASK06.md`, line 38, promise one stable order.
   `PostingsWaitInOrder` says that there is no other cycle.
4. **A failed upload may leave its file** (`material-import-fallback/service.ts`
   line 1862). A request that resumes an upload whose file is already staged, and
   is refused with `IMPORT_MULTIPART_METADATA_MISMATCH`, leaves a file no row
   tells of; so does a process that stalls between its renewal and `link()` while
   the batch is cancelled. A `.part` file that is opened after a takeover, by a
   process that then dies, is left as well: whoever takes over looks only for the
   one of the token before it. DECISIONS.md, D-117, and the test
   `selfhost-material-import-fallback-postgres.test.mjs`, line 919, expect that
   nothing is left. The published rows are not touched (`ReadyFileIsThere`).
5. **The second BEGIN counts the intents of the first promotion**
   (`release-supervisor-launcher.py` lines 4717 and 4741): intents that ended
   with the rollback of one promotion are unfinished for the next one, unlike
   `SELFHOST-UAT-CROSS-ROLE-TRANSACTION-77.md`, line 42. Nothing wrong is
   published; the operator is stopped.
6. **A rollback that is resumed and contained** (lines 5571 to 5586) may stop the
   runtime after its stages were recorded, and one fence may be transferred twice
   (line 4639). The journal stays one line in both cases.

Observed but not stated by a document: a handler that never returns keeps its
job (`selfhost-worker.ts` line 423); one expired job whose terminal publication
throws rolls back the recovery of its whole batch (`background-jobs.ts` line
137); returns of materials and projections lock orders and projections in
opposite orders (`production-operation-selfhost/service.ts` line 30); the
completion of a released batch sets its lot AVAILABLE by id alone
(`production-selfhost/service.ts` line 218).

## 5. Proofs

The theorems hold for every value of the constants that satisfies the named
assumptions of the module (`MaxAttemptsAssumption` and the like): any number of
jobs, attempts, positions, orders, requests and quantities. TLC evaluates those
assumptions in the runs and checks the same properties on the small instances.

### `JobQueueProofs`

`QueueInv` is the inductive invariant; the properties alone are not inductive.
`ClaimsCounted` and `RetryBudget` tie the attempts of a row to the tokens drawn
for it, without which a claim could hand out a token that was valid before.
`RowsComeFromOutbox` keeps a second dispatch from overwriting a row.
`PublishedByNewest` and `BuriedOnce` give the history of publications exactly,
from the row's status and newest token, so that fencing, finality and the
refinement follow from comparing two statuses. The proof that a step preserves
`QueueInv` has one lemma per action.

| Theorem | States |
|---|---|
| `QueueInvariant` | `Spec => []QueueInv` |
| `TypeCorrect` | `TypeOK` |
| `LeaseSafety` | `OnlyNewestLeaseIsValid` and `RetryBudget`, parts of the invariant that no run checks |
| `CompletionSafety` | `OpenCompletionOwnsRow` |
| `OutcomeSafety` | `OutcomeMatchesRow` |
| `Fencing`, `Finality` | the action properties `FencedPublication` and `TerminalIsFinal` |
| `Refinement` | `ImplementsContract`: initial states map to initial states of `JobOutcome`, each step to a step or a stutter |

### `ParseJobsProofs`

The module instantiates `JobQueueProofs` and shows that its queue is the queue of
`ParseJobs` (the lemmas `Same...`), so that `StepPreservesQueueInv` may be cited:
it suffices that each step of a worker or a service is a step of the queue.
That holds because a worker presents only a token drawn for its job
(`WorkersHold`). What the queue's operations do to the status of a row is stated
once (the lemmas `...Effect`), and the batches are proved from that alone.

The inductive invariant has three parts. `QP!QueueInv` is the queue's.
`WorkerPart`: who publishes has the row locked under its own token, and no two
workers have the same token of the same job. `BatchPart`: `BatchMatchesJob`,
with `RowsFollowBatch` (a running job comes from a published outbox row, so its
batch waits for it) and `LockedIsOpen` (nobody moves the batch a cancellation
holds, so what the cancellation saw is still so when it commits).

**Attempts.** A heartbeat that is refused ends the attempt only in the memory of
one worker, and the row may stay valid for it (`Lease` ticks, no other claim), so
no invariant of the row shows it. `WorkIsUnpublished`: the token a worker is at
work under was not published. `Hopeless(b, t)`: token `t` was drawn, not
published, and whoever still works under it is about to fail. It holds once a
heartbeat was missed, and every step keeps it, since a token is drawn once and a
renewal after a miss throws; the temporal theorem `MissedBeatIsFinal` follows by
induction from that state on. `AttemptsMade` (a dead row drew exactly
`MaxAttempts` tokens) with `BatchMatchesJob` gives `NoAttemptTooFew`.

| Theorem | States |
|---|---|
| `ParseInvariant`, `TypeCorrect` | the invariant and its types |
| `QueueRefinement` | `ImplementsQueue` |
| `BatchAndJobAgree` | `BatchMatchesJob` |
| `OneCommitter` | `SoleCommitter` |
| `NoAttemptTooFew` | `AllAttemptsMade` |
| `MissedBeatIsFinal` | the temporal property `MissedBeatEndsAttempt` |

### `NormalizationProofs`

As in `ParseJobsProofs`, each step is shown to be a step of the queue, so the
queue's theorems may be cited, and `WorkerPart` says who holds which token and
which row lock. What the runs need is `RunPart`, in terms that do not count:
`OneActiveRun` and `BatchIsBusy` (together `BatchReflectsRuns`), the pointer, and

- `JobsInTurn`: of the jobs `<<r, k>>` of a run all before the latest have ended
  and none after it exists. Retries make it necessary. From it follows
  `LiveIsLatest`: a job that is queued or running is the latest of its run, so
  what recovery, failure or a commit does to a job it does to the run's own job;
- `LatestIsLive`: the latest job of an active run can still be worked on.

`SettlersAreRight` is about the worker between two transactions: one that is
about to complete its job without a result has seen the run settled, and that
is still so as long as its job is the latest. Without it a job could be
completed under a run that is active, and the run orphaned. A retry gives the
run a new job, which no worker can hold yet (`NewJobIsFree`). `verifyJobLease`
and the update after it being two steps is no obstacle: the update
reads the run again in its own transaction, and the proof uses only that.

| Theorem | States |
|---|---|
| `RunInvariant`, `TypeCorrect` | the invariant and its types |
| `QueueRefinement` | `ImplementsQueue` |
| `OneRunAtATime` | `BatchReflectsRuns` |
| `PointerIsRight` | `CurrentRunIsTheOnlySuccess` |
| `NoOrphans` | `ActiveRunHasLiveJob` |
| `LegalMoves` | the action property `LegalTransitions` |
| `LeasedPublication` | the action property `PublishedUnderLease` |

### `UploadFilesProofs`

Rows are protected by the lease, files only by `link()`. The staged file is linked
from the process's own `.part` file, after a renewal of the lease. Whoever takes
over the lease first removes the last holder's `.part` file, so that its link
fails; a `.part` file opened after the takeover is never linked, because the
renewal before the link fails (`LinkersHold`). Hence the staged file of a pending
upload is what its holder has seen (`HolderIsRight`, `CheckedIsDeclared`).
The final file is deleted only by cleaners, and those run
only after failure (`CleanersFollowFailure`), hence a file a process has seen is
still there when it publishes (`SeenIsPlaced`). The lemma `RowsMoveByFew` groups
the many steps that write rows by the few ways in which they move them.

| Theorem | States |
|---|---|
| `UploadInvariant`, `TypeCorrect` | the invariant and its types |
| `ReadyFile` | `ReadyFileIsThere` |
| `OncePublished` | `OneFilePerContent` |
| `FinalStands` | the action property `FinalFileStands` |

### `RuntimeLeaseProofs`

The generation of the row grows at each takeover, and a renewal keeps it, so an
instance that falls back on the state it knew stays in its own generation.
`NewIsUnknown` (an instance that has not asked is not in the row) and
`AnswersFitPhase` (an answer belongs to the statement the process waits for)
make that inductive. Theorems: `LeaseInvariant`, `HolderKnows`
(`HolderKnowsTheRow`), `Fenced` (`GenerationsFence`), `LiveLeaseStands`
(`LiveLeaseIsSafe`), for any number of instances and any lease.

### `StockLedgerProofs`

Every step is of one of two kinds. `Posts(r, e)`: request `r`, not stale, is
carried out by appending adjustment `e`, whose lines start from the rows of the
table, move exactly those rows and raise their versions. `Keeps`: the journal and
the quantities stay, and a row that changes (a reservation) gets a new version.
One lemma per action shows which kind it is and that the rows it writes are
covered; everything else follows from the two kinds alone, so a new writer of
the ledger costs one lemma.

`StockInv` is the inductive invariant: the five promises below and three facts
they rest on. `RequestsAreWhole`: a request names what its operation needs.
`EntriesAreWhole`: an adjustment has lines, and its type tells whether it
reverses another. `AppliedIsStale`: a request once carried out has a row that
has moved past the version it was written for. The last is why a request cannot
take effect twice when its idempotency key is gone: it names at least one line,
its posting raised that row's version, and versions never fall.

`Requests` and `Quantities` may be infinite. The bound that all lines of one
request name one quantity is part of `Write` and so of these theorems; the proofs
use of a request only its shape (`Request`, `IsWhole`), which allows any
quantities.

**Sums.** What is reserved, and what is completed, is a sum over a set. The
library folds by a recursion whose laws are theorems of induction with an
operator for a parameter, which the provers here cannot use; the module proves
what it needs by a smallest counterexample instead: `WFMin`, the least element
of a set under a well-founded relation, is first-order. `SumUnfolds` says that
`SumFunction` takes one member out at a time, whichever the recursion picks; from
it follow `SumTakesOut` (of any member), `SumMoves` (one summand changes) and
`SumAdds` (the sum of two functions).

**Work orders.** `OrdersInv` says per order and material that it never owes less
than nothing, owes only while it may draw, and only what it needs (`HoldFits`);
that what was issued suffices for what was dispatched (`MaterialsSuffice`); and
that a request fits the order it names (`RequestsFitOrders`). Without these a
return or a cancellation could give back more than was taken. Each of the order's
operations is shown to move one order (`OrderMoves`); `SumMoves` then carries the
sum over all orders.

**Completion.** `CompletionsAddUp` holds of all completions an order did not take
back itself (`Kept`), whoever else reverses: the general reversal moves the stock
and the ledger and leaves the order alone (finding 2 of section 4). The theorem
`CompletionsAreKept` has no condition on `Operations`.

**Transactions.** `SessionsInv` looks at what is still ahead of a session.
`Guarded`: a row it has read is the row of the table, and it holds the lock that
keeps it so: the row's, or the position's when there was no row to lock.
`ReadsEnough`: every row its request will use is read or still to be locked.
`RowsAreThere` and `TakesInTurn`: the order's lock comes before any of it, and a
position before its row. `KeepsOrder`: for all requests but issues and
cancellations, the locks ahead are in the order of `Rank` and above those held.
A writer changes only rows it has read, so it holds their locks, and what others
read is not among them (`WriterHasRead`, `OthersStay`); hence what it read is
the table when it commits, and its commit is the atomic action (`CommitApplies`).
In a cycle of sessions that keep the order, one of greatest rank would wait for a
still greater one (`CyclesIssueOrCancel`). Sorting is a recursive function here;
`SortedSortsOut` says what it returns.

| Theorem | States |
|---|---|
| `StockInvariant` | `Spec => []StockInv` |
| `TypeCorrect` | `TypeOK` |
| `StockCovered` | `NeverOvercommitted` |
| `LedgerUnbroken` | `LedgerChain` |
| `OnceOnly` | `AppliedOnce` |
| `ReversalsExact` | `ReversalsNetOut` |
| `ChangesAreVisible` | the action property `NothingChangesSilently`, which no run checks |
| `ReservationsOwed` | `ReservedIsOwed` |
| `CompletionsAreKept` | `CompletionsAddUp` |
| `ReadsStayTrue` | `ReadStaysTrue`, for any number of sessions |
| `PostingsInOrder` | `PostingsWaitInOrder`, for cycles of any length |
| `TransactionsImplementLedger` | `ImplementsLedger` |

The proof found a slip in the module: a misaligned conjunction had put
`Work(w)` of `WorkBetween` inside its quantifier over sessions. It did not matter
as long as there is a session, and TLC has two.

### `SalesDeliveryProofs`

`SalesInv` is the inductive invariant. Quantities are counted by several
documents, and each part says what two or three of them count of each other.

| Part | States |
|---|---|
| `FinanceInv` | whoever holds `FINANCE_SOURCE` has its source unchanged until it ends; a settlement is of a receivable; a receivable is of a shipment that stands |
| `BookRows` | the types of the other rows; a completion taken back is one of the completions |
| `MoneyInv` | a receivable is settled by the sum of its settlements that stand, and its status tells how far |
| `BooksInv` | a shipment has what it took from inspections; an instruction counts its shipments, the order its instructions; an instruction that is over is due nothing; a shipment is being reversed only while the order is open |
| `GoodsInv` | an inspection is of goods that are allocated and were not taken back; the releases of a completion fit its allocation; only a release that stands was shipped, up to what it releases |

**Sums over rows that come and go.** The sums are over the rows of some status,
so a step changes the summands and the set at once. `SumShifts` says how a sum
moves when one row does, whether it stays, comes or goes; it extends a function
by zeroes to all rows (`Within`, `SumWithin`) and follows from `SumMoves`. One
lemma per table (`ShipmentMoves`, `ConsumptionMoves`, `InstructionMoves`,
`InspectionMoves`, `SettlementMoves`) then serves every action on that table. The
lemmas about sums of one set are those of the stock ledger, stated again here.
They need sets of rows to be finite (`RecordsAssumption`), as tables are.

**Order.** `ReservationsFit` counts what all instructions but the cancelled ones
still promise, the guard of `createDeliveryInstruction` only those of five
statuses. The two are the same (`DueIsReserved`) because a completed instruction is
due nothing and an unused id has no quantity. A reversal moves a quantity back
from `shipped` to what is promised, of an instruction that still counts: one that
was ever shipped from is never cancelled or returned (`EverExecuted`, the last
line of `InstructionFits`). It finds the order open, because an order is closed or
cancelled only while none of its shipments is being reversed (`OrderFits`).

**Goods.** `PlanFits`: the plan of `allocateFqc` takes from each release at most
what it has left, and only of releases that stand. A release that was shipped
from cannot be reopened, an allocation that is inspected cannot be cancelled, and
its completion cannot be taken back; each of the three guards is one case of
`GoodsInv`.

**Money.** `ReceivablesStand` rests on `LockedSourceIsStable`: the shipment the
holder of the lock saw standing still stands, and the receivable it saw absent is
still absent. The lock excludes posting and reversing; nothing else writes either
row. The check for a receivable in the reversal is an SQL function of migration
0046 that reads after the lock, which is what the proof needs.

| Theorem | States |
|---|---|
| `SalesInvariant`, `TypeCorrect` | the invariant and its types |
| `ReservationsStayFit` | `ReservationsFit` |
| `ShippedIsReleased` | `ShippedWasReleased` |
| `BooksAgree` | `BooksAddUp` |
| `ReceivablesStand` | `ReceivableStands` |
| `LockedSourceIsStable` | what the holder of a lock saw stays true |

### `PromotionProofs`

`OnItsWay` says what is durable when the runner stands before each of its steps;
from it follows that receipts are backed and that an operation under way comes
before any quarantine. `PinsAreInOrder` says that an operation is only
authorized to follow the right checkpoint, also where a preparation does not look
at the chain. `JournalIsOneLine` is then inductive: what an operation writes lies
beside the chain until its last rename puts it on the end.

| Theorem | States |
|---|---|
| `JournalInvariant`, `TypeCorrect` | the invariant and its types |
| `OneJournal` | `JournalIsOneLine` |
| `Backed` | `ReceiptsAreBacked` |
| `QuarantineSafety` | the action property `QuarantineHolds` |
| `CheckpointOrder` | the action property `CheckpointsInOrder` |

## 6. What is only model-checked, and what is not modelled

- Liveness (`QueuedBatchSettles`, `ActiveRunSettles`, `UploadSettles`) is
  checked by TLC: it needs fairness and ENABLED, which TLAPS does not do here.
- Every other property of a run, invariant, action property or refinement, is
  also a theorem.
- Not modelled: row contents of imports, codes and numbering, audit rows, rate
  limits, permissions, reads, the validation of promotion evidence, the
  supervisor's other operations, and the components without a module in section
  1. Payables and cash accounts, incoming and in-process inspection, reports and
  rework are the parts of modelled components that are left out.

## 7. Plan

1. Done: queue, parsing, normalization, uploads, runtime lease, stock ledger and
   transactions, sales delivery, promotion journal, with the proofs above.
2. `OperationFlow`: dispatch, report, inspection, rework and the projections;
   the lock inversion with returns; whether reports can exceed what the issued
   materials support.
3. `Lots`, `Receipts`: the other writers of the stock ledger, with procurement.
4. `ReviewJobs`: finalization of a review as a third driver of `JobQueue`.
5. `Sessions`: identity. Net requirements as a checked pure algorithm.
6. Proofs: the properties of the modules still to come.
