----------------------------- MODULE UploadFiles -----------------------------
(***************************************************************************)
(* Uploading the file of an import batch: the rows in PostgreSQL, the      *)
(* bytes in the local file store, and the web requests and reconcilers     *)
(* that carry an upload from the one to the other                          *)
(* (material-import-fallback/service.ts from prepareUpload to              *)
(* failPreparedUpload, reconcileOneUpload, cancelBatch, and                *)
(* local-file-store.ts).                                                   *)
(*                                                                         *)
(* A batch is uploaded by one operation, whose lease names the process     *)
(* that may write its rows.  A row transaction checks that lease; the file *)
(* store does not, so a process that stalled may still link and unlink     *)
(* files of an operation that others have taken over or ended.  Each step  *)
(* is one transaction or one call of the file system.  A file is its       *)
(* content; the digest and the size in the headers are the content the     *)
(* client declared.  All batches are one user's.  current_version moves    *)
(* only with batch, the security status and promoted_at only with storage  *)
(* and phase.  A batch stays FILE_READY here, whatever becomes of it when  *)
(* its file is parsed.                                                     *)
(***************************************************************************)
EXTENDS Integers, FiniteSets

CONSTANTS
    Batches,
    Webs,          \* requests, each with a lease token of its own
    Reconcilers,   \* rounds of reconcileOneUpload, likewise
    Contents,
    Safe,          \* the contents that pass detection and security check
    Declared,      \* the content the headers of the upload declare
    Parent,        \* the batch whose duplicate this one may repeat, or None
    MaxFaults,     \* bound on leases that lapse under a process at work, on
                   \* processes that die and on deletions that fail
    None

MaxActive == 2     \* uploads of one user under a live lease

Processes == Webs \cup Reconcilers

ASSUME UploadAssumption ==
    /\ Safe \subseteq Contents
    /\ None \notin Contents \cup Processes \cup Batches
    /\ Declared \in [Batches -> Contents]
    /\ Parent \in [Batches -> Batches \cup {None}]
    /\ MaxFaults \in Nat

VARIABLES
    batch,      \* material_import_batches.status; DUPLICATE is FAILED with
                \* failure code IMPORT_FILE_DUPLICATE
    phase,      \* material_import_upload_operations.phase
    pending,    \* material_import_idempotency.state = 'PENDING'
    holder,     \* the process with its lease_token
    live,       \* lease_expires_at > now()
    recovery,   \* recovery_until > now(), of an operation that is pending
    storage,    \* material_import_files.storage_status, NONE without a row
    recorded,   \* actual_sha256 and actual_size_bytes
    staging,    \* the file at staging_relative_path, or None
    final,      \* the file at final_relative_path, or None
    temps,      \* .part files: <<batch, process whose token it bears>>; those
                \* a process left under its earlier tokens count as one
    pc, job,    \* the next step of each process and the batch it works on
    seen,       \* the body it is to store, then the facts it goes by
    where,      \* which of the two files it goes by
    after,      \* the process whose .part file it removes at the end
    faults

rowVars == <<batch, phase, pending, holder, live, recovery, storage, recorded>>
diskVars == <<staging, final, temps>>
procVars == <<pc, job, seen, where, after>>
vars == <<rowVars, diskVars, procVars, faults>>

Open == {"PREPARED", "STAGED", "SECURITY_PASSED", "PROMOTED",
         "RECONCILIATION_REQUIRED"}

Steps == {"idle", "inspect", "receive", "stage", "open", "renewStage", "link",
          "record", "check", "secure", "promote", "renewPlace", "place",
          "unstage", "promoted", "publish", "failPrepared", "recordFailed",
          "reject", "mark", "clean", "erase", "eraseFinal", "erased", "untemp"}

RowTypes ==
    /\ batch \in [Batches -> {"CREATED", "UPLOAD_PENDING", "FILE_READY",
                              "RECONCILIATION_REQUIRED", "FAILED",
                              "DUPLICATE", "CANCELLED"}]
    /\ phase \in [Batches -> Open \cup {"NONE", "PUBLISHED", "FAILED"}]
    /\ pending \in [Batches -> BOOLEAN]
    /\ holder \in [Batches -> Processes \cup {None}]
    /\ live \in [Batches -> BOOLEAN]
    /\ recovery \in [Batches -> BOOLEAN]
    /\ storage \in [Batches -> {"NONE", "STAGED", "STORED", "DELETED",
                                "DELETE_PENDING", "RECONCILIATION_REQUIRED"}]
    /\ recorded \in [Batches -> Contents \cup {None}]

DiskTypes ==
    /\ staging \in [Batches -> Contents \cup {None}]
    /\ final \in [Batches -> Contents \cup {None}]
    /\ temps \subseteq Batches \X Processes

ProcessTypes ==
    /\ pc \in [Processes -> Steps]
    /\ job \in [Processes -> Batches \cup {None}]
    /\ seen \in [Processes -> Contents \cup {None}]
    /\ where \in [Processes -> {"STAGING", "FINAL"}]
    /\ after \in [Processes -> Processes \cup {None}]

TypeOK == RowTypes /\ DiskTypes /\ ProcessTypes /\ faults \in 0..MaxFaults

Init ==
    /\ batch = [b \in Batches |-> "CREATED"]
    /\ phase = [b \in Batches |-> "NONE"]
    /\ pending = [b \in Batches |-> FALSE]
    /\ holder = [b \in Batches |-> None]
    /\ live = [b \in Batches |-> FALSE]
    /\ recovery = [b \in Batches |-> FALSE]
    /\ storage = [b \in Batches |-> "NONE"]
    /\ recorded = [b \in Batches |-> None]
    /\ staging = [b \in Batches |-> None]
    /\ final = [b \in Batches |-> None]
    /\ temps = {}
    /\ pc = [p \in Processes |-> "idle"]
    /\ job = [p \in Processes |-> None]
    /\ seen = [p \in Processes |-> None]
    /\ where = [p \in Processes |-> "STAGING"]
    /\ after = [p \in Processes |-> None]
    /\ faults = 0

-----------------------------------------------------------------------------
(* What the steps share.                                                   *)

Goto(p, step) == pc' = [pc EXCEPT ![p] = step]

\* Process p takes up batch b with content c before it.
TakeUp(p, b, step, c) ==
    /\ Goto(p, step)
    /\ job' = [job EXCEPT ![p] = b]
    /\ seen' = [seen EXCEPT ![p] = c]
    /\ UNCHANGED <<where, after>>

Leave(p) ==
    /\ Goto(p, "idle")
    /\ job' = [job EXCEPT ![p] = None]
    /\ seen' = [seen EXCEPT ![p] = None]
    /\ where' = [where EXCEPT ![p] = "STAGING"]
    /\ after' = [after EXCEPT ![p] = None]

GoOn(p, step) == Goto(p, step) /\ UNCHANGED <<job, seen, where, after>>

\* What p has seen of the file matters no more.
GiveUp(p, step) ==
    /\ Goto(p, step)
    /\ seen' = [seen EXCEPT ![p] = None]
    /\ where' = [where EXCEPT ![p] = "STAGING"]
    /\ UNCHANGED <<job, after>>

\* An error, or a transaction that committed and whose answer was lost.
\* What failPreparedUpload meets when it records, the handler does not mark.
Fails(p) ==
    IF pc[p] = "recordFailed" /\ p \in Webs THEN Leave(p) ELSE GiveUp(p, "mark")

At(p, step, b) == pc[p] = step /\ job[p] = b

\* UploadLeaseHeartbeat.renew() and lockUpload: the operation still waits
\* for its outcome and p holds the lease, which has not lapsed.
Holds(p, b) == pending[b] /\ holder[b] = p /\ live[b]

\* The operation has its outcome and no lease any more.
Close(b) ==
    /\ pending' = [pending EXCEPT ![b] = FALSE]
    /\ holder' = [holder EXCEPT ![b] = None]
    /\ live' = [live EXCEPT ![b] = FALSE]
    /\ recovery' = [recovery EXCEPT ![b] = FALSE]

\* Fault: a failure leaves the operation in its phase.
FailRowsOnly(b, status) ==
    /\ batch' = [batch EXCEPT ![b] = status]
    /\ storage' = [storage EXCEPT ![b] =
                     IF @ = "NONE" THEN @ ELSE "DELETE_PENDING"]
    /\ UNCHANGED <<phase, recorded>>
    /\ Close(b)

\* completeFailureTx: what is known of a file is to be deleted.
CompleteFailure(b, status) ==
    /\ batch' = [batch EXCEPT ![b] = status]
    /\ phase' = [phase EXCEPT ![b] = "FAILED"]
    /\ storage' = [storage EXCEPT ![b] =
                     IF @ = "NONE" THEN @ ELSE "DELETE_PENDING"]
    /\ UNCHANGED recorded
    /\ Close(b)

\* Fault: the decision is made before the file is promoted, and not again.
DecidedOnce(b) ==
    /\ phase[b] # "PROMOTED"
    /\ \E d \in Batches \ {b} : storage[d] = "STORED" /\ recorded[d] = recorded[b]

\* A published file with the content of b stands in the way, or b was to
\* repeat a duplicate that is none (duplicateFailure, under the lock of the
\* content's digest).
DuplicateFailure(b) ==
    IF Parent[b] = None
    THEN \E d \in Batches \ {b} : storage[d] = "STORED" /\ recorded[d] = recorded[b]
    ELSE ~ /\ batch[Parent[b]] = "DUPLICATE"
           /\ recorded[Parent[b]] = recorded[b]

\* The file waits for its upload to be published.
Waiting(b) == storage[b] \in {"STAGED", "RECONCILIATION_REQUIRED"}

-----------------------------------------------------------------------------
(* How an operation comes to a process.                                    *)

\* prepareUpload, first request: the operation exists before the body is read.
Prepare(p, b) ==
    /\ pc[p] = "idle" /\ batch[b] = "CREATED"
    /\ Cardinality({d \in Batches : pending[d] /\ live[d]}) < MaxActive
    /\ Parent[b] # None => batch[Parent[b]] = "DUPLICATE"
    /\ batch' = [batch EXCEPT ![b] = "UPLOAD_PENDING"]
    /\ phase' = [phase EXCEPT ![b] = "PREPARED"]
    /\ pending' = [pending EXCEPT ![b] = TRUE]
    /\ holder' = [holder EXCEPT ![b] = p]
    /\ live' = [live EXCEPT ![b] = TRUE]
    /\ recovery' = [recovery EXCEPT ![b] = TRUE]
    /\ \E body \in Contents : TakeUp(p, b, "receive", body)
    /\ UNCHANGED <<storage, recorded, diskVars, faults>>

\* The lease that lapsed goes to p, and the .part file of the last token goes.
Reclaim(p, b) ==
    /\ pc[p] = "idle"
    /\ pending[b] /\ ~live[b] /\ recovery[b]
    /\ temps' = temps \ {<<b, holder[b]>>}
    /\ holder' = [holder EXCEPT ![b] = p]
    /\ live' = [live EXCEPT ![b] = TRUE]
    /\ UNCHANGED <<batch, phase, pending, recovery, storage, recorded, staging,
                   final, faults>>

\* prepareUpload, the same request again: its body may differ from the first.
Resume(p, b) ==
    /\ batch[b] = "UPLOAD_PENDING"
    /\ phase[b] \in {"PREPARED", "STAGED", "SECURITY_PASSED"}
    /\ Reclaim(p, b)
    /\ \E body \in Contents : TakeUp(p, b, "receive", body)

\* claimExpiredUpload.
Claim(p, b) ==
    /\ Reclaim(p, b)
    /\ TakeUp(p, b, "inspect", None)

\* The reconciler looks at both files and goes on from where they are.
Inspect(p, b) ==
    /\ At(p, "inspect", b) /\ Holds(p, b)
    /\ \/ /\ ~ {staging[b], final[b]} \subseteq {Declared[b], None}
          /\ GiveUp(p, "mark")
       \/ /\ staging[b] = Declared[b] /\ final[b] \in {Declared[b], None}
          /\ TakeUp(p, b, "receive", staging[b])
       \/ /\ staging[b] = None /\ final[b] = Declared[b]
          /\ Goto(p, "record")
          /\ seen' = [seen EXCEPT ![p] = final[b]]
          /\ where' = [where EXCEPT ![p] = "FINAL"]
          /\ UNCHANGED <<job, after>>
       \/ /\ staging[b] = None /\ final[b] = None
          /\ GiveUp(p, IF phase[b] = "PREPARED" /\ storage[b] = "NONE"
                       THEN "failPrepared" ELSE "mark")
    /\ UNCHANGED <<rowVars, diskVars, faults>>

-----------------------------------------------------------------------------
(* executeUpload.                                                          *)

\* The last look at the lease before the file store is called.
Receive(p, b) ==
    /\ At(p, "receive", b) /\ Holds(p, b)
    /\ GoOn(p, "stage")
    /\ UNCHANGED <<rowVars, diskVars, faults>>

\* stage(): a file that is there already is taken as it is.
Stage(p, b) ==
    /\ At(p, "stage", b)
    /\ IF staging[b] # None
       THEN TakeUp(p, b, "record", staging[b])
       ELSE GoOn(p, "open")
    /\ UNCHANGED <<rowVars, diskVars, faults>>

\* The body goes to a .part file, also when others hold the lease by now: the
\* file is left if its process then dies.
OpenPart(p, b) ==
    /\ At(p, "open", b)
    /\ temps' = temps \cup {<<b, p>>}
    /\ GoOn(p, "renewStage")
    /\ UNCHANGED <<rowVars, staging, final, faults>>

\* The request is refused for its part header, before the body (the handler
\* calls failPreparedUpload, executeUpload rejects), or for its body.
Refuse(p, b) ==
    /\ p \in Webs /\ Holds(p, b)
    /\ \/ At(p, "receive", b) /\ \E s \in {"failPrepared", "reject"} : GiveUp(p, s)
       \/ At(p, "renewStage", b) /\ GiveUp(p, "reject")
    /\ temps' = temps \ {<<b, p>>}
    /\ UNCHANGED <<rowVars, staging, final, faults>>

\* beforePublish of stage() and of promote().
Renew(p, b) ==
    /\ Holds(p, b)
    /\ \/ At(p, "renewStage", b) /\ GoOn(p, "link")
       \/ At(p, "renewPlace", b) /\ GoOn(p, "place")
    /\ UNCHANGED <<rowVars, diskVars, faults>>

\* link() never overwrites; the .part file is removed in every case.
Link(p, b) ==
    /\ At(p, "link", b) /\ <<b, p>> \in temps
    /\ temps' = temps \ {<<b, p>>}
    /\ IF staging[b] = None
       THEN staging' = [staging EXCEPT ![b] = seen[p]] /\ UNCHANGED seen
       ELSE seen' = [seen EXCEPT ![p] = staging[b]] /\ UNCHANGED staging
    /\ Goto(p, "record")
    /\ UNCHANGED <<rowVars, final, job, where, after, faults>>

\* recordStaged, in executeUpload and in failPreparedUpload.
Record(p, b) ==
    /\ pc[p] \in {"record", "recordFailed"} /\ job[p] = b /\ Holds(p, b)
    /\ recorded[b] \in {None, seen[p]}
    /\ storage' = [storage EXCEPT ![b] = "STAGED"]
    /\ recorded' = [recorded EXCEPT ![b] = seen[p]]
    /\ phase' = [phase EXCEPT ![b] = "STAGED"]
    /\ \/ Fails(p)
       \/ IF pc[p] = "recordFailed" \/ seen[p] # Declared[b]
          THEN GiveUp(p, "reject") ELSE GoOn(p, "check")
    /\ UNCHANGED <<batch, pending, holder, live, recovery, diskVars, faults>>

\* Detection and security check read the file again; a file that is gone
\* fails them.
Check(p, b) ==
    /\ At(p, "check", b)
    /\ LET file == IF where[p] = "STAGING" THEN staging[b] ELSE final[b]
       IN  IF file \in Safe THEN GoOn(p, "secure") ELSE GiveUp(p, "reject")
    /\ UNCHANGED <<rowVars, diskVars, faults>>

\* checkDuplicateAndMarkSecurity.
Secure(p, b) ==
    /\ At(p, "secure", b) /\ Holds(p, b)
    /\ Waiting(b) /\ recorded[b] = Declared[b]
    /\ phase[b] \in {"STAGED", "RECONCILIATION_REQUIRED"}
    /\ IF DuplicateFailure(b)
       THEN /\ CompleteFailure(b, "DUPLICATE")
            /\ GiveUp(p, "clean") \/ Fails(p)
       ELSE /\ phase' = [phase EXCEPT ![b] = "SECURITY_PASSED"]
            /\ GoOn(p, IF where[p] = "FINAL" THEN "promoted" ELSE "promote") \/ Fails(p)
            /\ UNCHANGED <<batch, pending, holder, live, recovery, storage, recorded>>
    /\ UNCHANGED <<diskVars, faults>>

\* promote(): the final file is there already, or the staged one is inspected.
Promote(p, b) ==
    /\ At(p, "promote", b) /\ Holds(p, b)
    /\ \/ final[b] = seen[p] /\ staging[b] \in {seen[p], None} /\ GoOn(p, "unstage")
       \/ final[b] = None /\ staging[b] = seen[p] /\ GoOn(p, "renewPlace")
    /\ UNCHANGED <<rowVars, diskVars, faults>>

Place(p, b) ==
    /\ At(p, "place", b) /\ staging[b] # None
    /\ final' = [final EXCEPT ![b] = IF @ = None THEN staging[b] ELSE @]
    /\ GoOn(p, "unstage")
    /\ UNCHANGED <<rowVars, staging, temps, faults>>

\* The final file is inspected before the staged one is deleted.
Unstage(p, b) ==
    /\ At(p, "unstage", b) /\ final[b] = seen[p]
    /\ staging' = [staging EXCEPT ![b] = None]
    /\ GoOn(p, "promoted")
    /\ UNCHANGED <<rowVars, final, temps, faults>>

\* recordPromoted.
Promoted(p, b) ==
    /\ At(p, "promoted", b) /\ Holds(p, b)
    /\ phase[b] = "SECURITY_PASSED" /\ Waiting(b) /\ recorded[b] = seen[p]
    /\ phase' = [phase EXCEPT ![b] = "PROMOTED"]
    /\ GoOn(p, "publish") \/ Fails(p)
    /\ UNCHANGED <<batch, pending, holder, live, recovery, storage, recorded,
                   diskVars, faults>>

\* publishUpload: the duplicate decision is made once more, with the rows.
Publish(p, b) ==
    /\ At(p, "publish", b) /\ Holds(p, b)
    /\ phase[b] = "PROMOTED" /\ Waiting(b) /\ recorded[b] = seen[p]
    /\ IF DuplicateFailure(b)
       THEN /\ CompleteFailure(b, "DUPLICATE")
            /\ GiveUp(p, "clean") \/ Fails(p)
       ELSE /\ batch' = [batch EXCEPT ![b] = "FILE_READY"]
            /\ phase' = [phase EXCEPT ![b] = "PUBLISHED"]
            /\ storage' = [storage EXCEPT ![b] = "STORED"]
            /\ UNCHANGED recorded
            /\ Close(b)
            /\ Leave(p) \/ Fails(p)
    /\ UNCHANGED <<diskVars, faults>>

-----------------------------------------------------------------------------
(* How an upload fails.                                                    *)

\* failPreparedUpload: what is on disk is recorded first, so that it can be
\* deleted.
FailPrepared(p, b) ==
    /\ At(p, "failPrepared", b)
    /\ \/ /\ ~ {staging[b], final[b]} \subseteq {Declared[b], None}
          /\ GiveUp(p, "mark")
       \/ /\ staging[b] = None /\ final[b] = None
          /\ GiveUp(p, "reject")
       \/ /\ {staging[b], final[b]} \subseteq {Declared[b], None}
          /\ {staging[b], final[b]} # {None}
          /\ Goto(p, "recordFailed")
          /\ seen' = [seen EXCEPT ![p] = Declared[b]]
          /\ UNCHANGED <<job, where, after>>
    /\ UNCHANGED <<rowVars, diskVars, faults>>

\* rejectUpload.
Reject(p, b) ==
    /\ At(p, "reject", b) /\ Holds(p, b)
    /\ CompleteFailure(b, "FAILED")
    /\ \/ IF storage[b] = "NONE" THEN Leave(p) ELSE GoOn(p, "clean")
       \/ Fails(p)
    /\ UNCHANGED <<diskVars, faults>>

\* Fault: what was promoted is taken back on an error.
ThrowAndTidy(p, b) ==
    /\ pc[p] \notin {"idle", "mark", "clean", "erase", "eraseFinal", "erased", "untemp"}
    /\ job[p] = b
    /\ Fails(p)
    /\ temps' = temps \ {<<b, p>>}
    /\ final' = [final EXCEPT ![b] = None]
    /\ UNCHANGED <<rowVars, staging, faults>>

\* A lease that is lost, a file that is gone or differs, rows in another
\* state, an error of the disk or of PostgreSQL.
Throw(p, b) ==
    /\ pc[p] \notin {"idle", "mark", "clean", "erase", "eraseFinal", "erased", "untemp"}
    /\ job[p] = b
    /\ Fails(p)
    /\ temps' = temps \ {<<b, p>>}
    /\ UNCHANGED <<rowVars, staging, final, faults>>

\* markReconciliation asks for the token, not for a live lease; the lease it
\* leaves lapses after five seconds.  Its own failure is ignored.
Mark(p, b) ==
    /\ At(p, "mark", b)
    /\ Leave(p)
    /\ \/ /\ pending[b] /\ holder[b] = p
          /\ batch' = [batch EXCEPT ![b] = "RECONCILIATION_REQUIRED"]
          /\ phase' = [phase EXCEPT ![b] = "RECONCILIATION_REQUIRED"]
          /\ storage' = [storage EXCEPT ![b] =
                           IF @ = "STAGED" THEN "RECONCILIATION_REQUIRED" ELSE @]
          /\ live' = [live EXCEPT ![b] = TRUE]
          /\ UNCHANGED <<pending, holder, recovery, recorded>>
       \/ UNCHANGED rowVars
    /\ UNCHANGED <<diskVars, faults>>

\* Fault: what was marked is taken to be with a human already.
ExpiredUnmarked(b) == pending[b] /\ ~recovery[b] /\ batch[b] = "UPLOAD_PENDING"

Expired(b) == pending[b] /\ ~recovery[b]

\* expireOneUploadRecovery: the operation is left to a human.
ExpireRecovery(p, b) ==
    /\ pc[p] = "idle" /\ Expired(b)
    /\ batch' = [batch EXCEPT ![b] = "RECONCILIATION_REQUIRED"]
    /\ phase' = [phase EXCEPT ![b] = "RECONCILIATION_REQUIRED"]
    /\ storage' = [storage EXCEPT ![b] =
                     IF @ = "STAGED" THEN "RECONCILIATION_REQUIRED" ELSE @]
    /\ Close(b)
    /\ UNCHANGED <<recorded, diskVars, procVars, faults>>

\* cancelBatch before the batch has its file: never under a live lease, and
\* never with a file that is not the declared one.
Cancel(p, b) ==
    /\ pc[p] = "idle"
    /\ \/ /\ batch[b] = "CREATED"
          /\ batch' = [batch EXCEPT ![b] = "CANCELLED"]
          /\ UNCHANGED <<phase, pending, holder, live, recovery, storage, recorded, procVars>>
       \/ /\ batch[b] = "UPLOAD_PENDING" /\ pending[b] /\ ~live[b]
          /\ {staging[b], final[b], recorded[b]} \subseteq {Declared[b], None}
          /\ LET known == {staging[b], final[b], recorded[b]} # {None}
             IN  /\ storage' = [storage EXCEPT ![b] =
                                  IF known THEN "DELETE_PENDING" ELSE @]
                 /\ recorded' = [recorded EXCEPT ![b] =
                                   IF known THEN Declared[b] ELSE @]
                 /\ Goto(p, IF known THEN "clean" ELSE "untemp")
          /\ batch' = [batch EXCEPT ![b] = "CANCELLED"]
          /\ phase' = [phase EXCEPT ![b] = "FAILED"]
          /\ Close(b)
          /\ job' = [job EXCEPT ![p] = b]
          /\ after' = [after EXCEPT ![p] = holder[b]]
          /\ UNCHANGED <<seen, where>>
    /\ UNCHANGED <<diskVars, faults>>

-----------------------------------------------------------------------------
(* cleanupTerminalFile, after a rejection or a cancellation, and in the    *)
(* background for what a process left DELETE_PENDING.                      *)

Deletable(b) ==
    /\ storage[b] = "DELETE_PENDING" /\ phase[b] = "FAILED" /\ ~pending[b]
    /\ batch[b] \in {"FAILED", "DUPLICATE", "CANCELLED"}

\* reconcileOneDeletePending.
CleanDeleted(p, b) ==
    /\ pc[p] = "idle" /\ Deletable(b)
    /\ TakeUp(p, b, "clean", None)
    /\ UNCHANGED <<rowVars, diskVars, faults>>

Cleaned(p) == IF after[p] = None
              THEN Leave(p)
              ELSE GoOn(p, "untemp")

\* A file that is not the recorded one is kept for a human.
Clean(p, b) ==
    /\ At(p, "clean", b)
    /\ IF storage[b] # "DELETE_PENDING" \/ ~ {staging[b], final[b]} \subseteq {recorded[b], None}
       THEN /\ storage' = [storage EXCEPT ![b] =
                             IF @ = "DELETE_PENDING" THEN "RECONCILIATION_REQUIRED" ELSE @]
            /\ Cleaned(p)
       ELSE GoOn(p, "erase") /\ UNCHANGED storage
    /\ UNCHANGED <<batch, phase, pending, holder, live, recovery, recorded, diskVars, faults>>

Erase(p, b) ==
    /\ \/ /\ At(p, "erase", b)
          /\ GoOn(p, "eraseFinal")
          /\ staging' = [staging EXCEPT ![b] = None]
          /\ UNCHANGED final
       \/ /\ At(p, "eraseFinal", b)
          /\ GoOn(p, "erased")
          /\ final' = [final EXCEPT ![b] = None]
          /\ UNCHANGED staging
    /\ UNCHANGED <<rowVars, temps, faults>>

\* Both files are looked for once more.
Erased(p, b) ==
    /\ At(p, "erased", b)
    /\ storage' = [storage EXCEPT ![b] =
                     IF @ = "DELETE_PENDING" /\ staging[b] = None /\ final[b] = None
                     THEN "DELETED" ELSE @]
    /\ Cleaned(p)
    /\ UNCHANGED <<batch, phase, pending, holder, live, recovery, recorded, diskVars, faults>>

\* The file system fails: the row stays as it is.
CleanThrows(p, b) ==
    /\ pc[p] \in {"clean", "erase", "eraseFinal", "erased"} /\ job[p] = b
    /\ faults < MaxFaults
    /\ faults' = faults + 1
    /\ Cleaned(p)
    /\ UNCHANGED <<rowVars, diskVars>>

\* The .part file of the upload that was cancelled.
Untemp(p, b) ==
    /\ At(p, "untemp", b)
    /\ temps' = temps \ {<<b, after[p]>>}
    /\ Leave(p)
    /\ UNCHANGED <<rowVars, staging, final, faults>>

-----------------------------------------------------------------------------
(* Time and faults.                                                        *)

\* The lease lapses: its holder is gone, or it stalls beyond its heartbeats.
Lapse(b) ==
    LET stalled == \E p \in Processes : holder[b] = p /\ job[p] = b
    IN  /\ live[b]
        /\ stalled => faults < MaxFaults
        /\ faults' = IF stalled THEN faults + 1 ELSE faults
        /\ live' = [live EXCEPT ![b] = FALSE]
        /\ UNCHANGED <<batch, phase, pending, holder, recovery, storage, recorded,
                       diskVars, procVars>>

\* Seven days have passed.
RecoveryEnds(b) ==
    /\ pending[b] /\ recovery[b]
    /\ recovery' = [recovery EXCEPT ![b] = FALSE]
    /\ UNCHANGED <<batch, phase, pending, holder, live, storage, recorded, diskVars,
                   procVars, faults>>

Crash(p) ==
    /\ pc[p] # "idle" /\ faults < MaxFaults
    /\ faults' = faults + 1
    /\ Leave(p)
    /\ UNCHANGED <<rowVars, diskVars>>

Work(p, b) ==
    \/ Inspect(p, b) \/ Receive(p, b) \/ Stage(p, b) \/ OpenPart(p, b)
    \/ Refuse(p, b) \/ Renew(p, b) \/ Link(p, b) \/ Record(p, b) \/ Check(p, b)
    \/ Secure(p, b) \/ Promote(p, b) \/ Place(p, b) \/ Unstage(p, b)
    \/ Promoted(p, b) \/ Publish(p, b) \/ FailPrepared(p, b) \/ Reject(p, b)
    \/ Throw(p, b) \/ Mark(p, b)

CleanUp(p, b) ==
    \/ Clean(p, b) \/ Erase(p, b) \/ Erased(p, b) \/ CleanThrows(p, b) \/ Untemp(p, b)

\* reconcileOneUpload.  How old a row is, and so which comes first, is open.
Poll(p, b) == CleanDeleted(p, b) \/ ExpireRecovery(p, b) \/ Claim(p, b)

Next ==
    \E b \in Batches :
      \/ \E p \in Webs : Prepare(p, b) \/ Resume(p, b) \/ Cancel(p, b)
      \/ \E p \in Reconcilers : Poll(p, b)
      \/ \E p \in Processes : Work(p, b) \/ CleanUp(p, b) \/ Crash(p)
      \/ Lapse(b) \/ RecoveryEnds(b)

Spec == Init /\ [][Next]_vars

\* A process at work goes on, a reconciler polls, leases and the recovery
\* period run out.
FairSpec ==
    /\ Spec
    /\ \A p \in Webs : WF_vars(\E b \in Batches : Work(p, b) \/ CleanUp(p, b))
    /\ \A p \in Reconcilers :
         WF_vars(\E b \in Batches : Poll(p, b) \/ Work(p, b) \/ CleanUp(p, b))
    /\ \A b \in Batches : WF_vars(Lapse(b)) /\ WF_vars(RecoveryEnds(b))

-----------------------------------------------------------------------------
\* A batch that is ready for parsing has its file, complete, checked and the
\* one that was declared, whoever worked on it meanwhile.
ReadyFileIsThere ==
    \A b \in Batches : batch[b] = "FILE_READY" =>
      /\ final[b] = Declared[b] /\ recorded[b] = Declared[b]
      /\ Declared[b] \in Safe
      /\ storage[b] = "STORED"

\* The same content is published once, but for the retry of a duplicate.
OneFilePerContent ==
    \A b, d \in Batches :
      /\ b # d /\ storage[b] = "STORED" /\ storage[d] = "STORED"
      /\ recorded[b] = recorded[d]
      => Parent[b] # None \/ Parent[d] # None

\* The rows of one upload agree on whether it has its outcome, and which.
RowsAgree ==
    \A b \in Batches :
      /\ pending[b] => /\ phase[b] \in Open
                       /\ batch[b] \in {"UPLOAD_PENDING", "RECONCILIATION_REQUIRED"}
                       /\ storage[b] = "NONE" \/ Waiting(b)
      /\ batch[b] = "UPLOAD_PENDING" => pending[b]
      /\ phase[b] = "PUBLISHED" <=> batch[b] = "FILE_READY"
      /\ storage[b] = "STORED" <=> batch[b] = "FILE_READY"
      /\ storage[b] \in {"DELETE_PENDING", "DELETED"} => phase[b] = "FAILED"

\* A promoted file is never replaced, and removed only once its upload failed.
FinalFileStands ==
    [][\A b \in Batches : final[b] # None /\ final'[b] # final[b] =>
         final'[b] = None /\ phase[b] = "FAILED"]_vars

\* No file is left of an upload that failed, once those who worked on it have
\* ended, unless a row says what is still to be deleted.
FailedLeavesNothing ==
    \A b \in Batches :
      /\ phase[b] = "FAILED"
      /\ storage[b] \notin {"DELETE_PENDING", "RECONCILIATION_REQUIRED"}
      /\ \A p \in Processes : job[p] # b
      => staging[b] = None /\ final[b] = None

\* Every upload comes to its outcome or to a human, and what a failed one
\* left is deleted in the end or kept for a human.
UploadSettles ==
    \A b \in Batches :
      (pending[b] \/ storage[b] = "DELETE_PENDING")
        ~> (~pending[b] /\ storage[b] # "DELETE_PENDING")

=============================================================================
