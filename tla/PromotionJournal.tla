---------------------------- MODULE PromotionJournal ----------------------------
(***************************************************************************)
(* The journal of a promotion: files that the release supervisor           *)
(* (scripts/release-supervisor-launcher.py) and the programs it starts     *)
(* (uat-promotion-transaction-journal.mjs, uat-promotion-migration-        *)
(* control.py, uat-promotion-compose-deployment-control.mjs and            *)
(* uat-promotion-rollback-control.mjs) write, one operation at a time      *)
(* under one lock, so that what a crash leaves behind can be recovered or  *)
(* is put in quarantine.                                                   *)
(*                                                                         *)
(* An operation stands for its authorization: the checkpoint it makes, and *)
(* the receipt it was issued for.  Writing a file may be cut short by a    *)
(* crash, which leaves the file torn: it has the wrong mode or a part of   *)
(* its content, and every reader refuses it.  Replacing "current" is one   *)
(* atomic rename.  What an operation does to databases, containers and     *)
(* snapshots is kept only as far as later steps ask for it.                *)
(***************************************************************************)
EXTENDS Integers, FiniteSets

CONSTANTS
    Ops,            \* the authorized operations
    Ordinal,        \* Ordinal[o]: the checkpoint operation o makes, 4 to 15
    Generation,     \* Generation[o]: the promotion it belongs to
    MaxRecoveries,  \* bound on recoveries started
    None,           \* no receipt
    Unset           \* the operation has not been prepared yet

ASSUME OrdinalAssumption == Ordinal \in [Ops -> 4..15]
ASSUME GenerationAssumption == Generation \in [Ops -> Nat \ {0}]
ASSUME RecoveriesAssumption == MaxRecoveries \in Nat
ASSUME NoneAssumption == None \notin Ops /\ Unset \notin Ops /\ None # Unset

VARIABLES
    pinned,       \* pinned[o]: the receipt o was authorized to follow
    lists,        \* lists[o]: the operations whose authorizations the receipt
                  \* of o lists, its own last
    file,         \* file[k][o]: the file of kind k that o writes
    containment,  \* containment[o]: the record of a failed verification
    current,      \* the operation whose receipt is the journal's current
    consumed,     \* authorizations that have been consumed
    quarantine,   \* operations with a file in the quarantine directory
    expired,      \* authorizations whose window is seen to have passed
    evidence,     \* verifications whose probe or receipt was published
    performed,    \* rollback operations all of whose stages are recorded
    contained,    \* rollbacks that stopped the runtime while recovering
    recoveries,   \* recoveries started so far
    runner        \* the operation under the lock and its next step

record == <<pinned, lists, file, containment, current, consumed, quarantine>>
outside == <<expired, evidence, performed, contained>>

vars == <<record, outside, recoveries, runner>>

Kinds == {"intent", "grant", "fence", "transfer", "binding", "result",
          "generation", "history", "receipt"}

Steps == Kinds \cup {"consume", "evidence", "perform", "current", "confirm",
                     "contain", "runtime", "quarantine"}

Idle == [op |-> None, mode |-> "ORIGINAL", decision |-> "NONE", at |-> "idle"]

TypeOK ==
    /\ pinned \in [Ops -> Ops \cup {None, Unset}]
    /\ lists \in [Ops -> SUBSET Ops]
    /\ file \in [Kinds -> [Ops -> {"absent", "torn", "stored"}]]
    /\ containment \in [Ops -> {"absent", "torn", "contained", "anomaly"}]
    /\ current \in Ops \cup {None}
    /\ consumed \subseteq Ops
    /\ quarantine \subseteq consumed
    /\ expired \subseteq consumed
    /\ evidence \subseteq consumed
    /\ performed \subseteq consumed
    /\ contained \subseteq consumed
    /\ recoveries \in 0..MaxRecoveries
    /\ \/ runner = Idle
       \/ runner \in [op : Ops, mode : {"ORIGINAL", "RECOVERY"},
                      decision : {"NONE", "RESUME_PUBLICATION",
                                  "ALREADY_COMMITTED", "QUARANTINE"},
                      at : Steps]

Init ==
    /\ pinned = [o \in Ops |-> Unset]
    /\ lists = [o \in Ops |-> {}]
    /\ file = [k \in Kinds |-> [o \in Ops |-> "absent"]]
    /\ containment = [o \in Ops |-> "absent"]
    /\ current = None
    /\ consumed = {}
    /\ quarantine = {}
    /\ expired = {}
    /\ evidence = {}
    /\ performed = {}
    /\ contained = {}
    /\ recoveries = 0
    /\ runner = Idle

---------------------------------------------------------------------------
(* The chain of receipts                                                   *)

Begin(o) == Ordinal[o] = 4
Stored(k, o) == file[k][o] = "stored"
Written(k) == {o \in Ops : file[k][o] # "absent"}

\* The receipts of line follow one another up to the current one.
OneLine(line) ==
    /\ \A o \in line : /\ Stored("receipt", o) /\ Stored("history", o)
                       /\ Begin(o) => Stored("generation", o)
                       /\ pinned[o] \in line \cup {None}
    /\ IF current = None
       THEN line = {}
       ELSE /\ current \in line
            /\ \A p \in line \cup {None} :
                  LET after == {o \in line : pinned[o] = p}
                  IN IF p = current THEN after = {}
                     ELSE \E o \in after : after = {o}

\* The receipts published, those of the allowed operations left aside, are
\* one line from the first promotion to the current receipt.
CommittedChain(allowed) ==
    \E line \in {Written("receipt") \ allowed} :
       /\ Written("history") \ allowed = line
       /\ Written("generation") \ allowed = {o \in line : Begin(o)}
       /\ OneLine(line)

\* Mutant: o looks at its own files only.
OwnFilesInOrder(o) ==
    /\ \A k \in {"generation", "history", "receipt"} : file[k][o] # "torn"
    /\ Stored("history", o) /\ Begin(o) => Stored("generation", o)
    /\ Stored("receipt", o) => Stored("history", o)

\* Beside the committed chain there is at most what o has published so far,
\* in the order in which it does.
Staged(o) ==
    /\ CommittedChain({o})
    /\ \A k \in {"generation", "history", "receipt"} : file[k][o] # "torn"
    /\ Stored("history", o) /\ Begin(o) => Stored("generation", o)
    /\ Stored("receipt", o) => Stored("history", o)

\* The state in which o may write its next file of a publication.
Candidate(o) == current = pinned[o] /\ Staged(o)

\* The operations whose authorizations the current receipt lists.
Line == IF current = None THEN {} ELSE lists[current]

\* What the final receipt binds of the checkpoints before it.
Aggregate ==
    \A o \in Line :
        /\ Ordinal[o] = 8 => Stored("grant", o) /\ Stored("result", o)
        /\ Ordinal[o] = 9 => Stored("result", o) /\ Stored("transfer", o)
        /\ Ordinal[o] \in 10..11 => Stored("result", o)

\* The receipt o follows: fixed by the intent, and before that the current.
Predecessor(o) == IF pinned[o] = Unset THEN current ELSE pinned[o]

---------------------------------------------------------------------------
(* What the supervisor requires before any operation                       *)

NoAnomaly == \A o \in Ops : containment[o] \notin {"torn", "anomaly"}

\* A migration whose fence stands is handed over to the one deployment that
\* has its transfer and is part of the current promotion.
Transfers(m) == {c \in Ops : Stored("transfer", c) /\ pinned[c] = m}

HandedOver(m) ==
    \E c \in Transfers(m) : c \in Line /\ current # None /\ Ordinal[current] >= 9

FenceAllows(o, mode) ==
    /\ \A m \in Ops : file["fence"][m] # "torn"
    /\ \A m, n \in Ops : Stored("fence", m) /\ Stored("fence", n) => m = n
    /\ \A m \in Ops : Stored("fence", m) =>
          /\ \A c \in Ops : file["transfer"][c] # "torn"
          /\ Cardinality(Transfers(m)) <= 1
          /\ \/ HandedOver(m)
             \/ mode = "RECOVERY" /\ o = m
             \/ Ordinal[o] = 9 /\ Predecessor(o) = m

PendingExecutions == {o \in Ops : Ordinal[o] = 8 /\ Stored("intent", o)} \ Line

PendingVerifications ==
    {o \in Ops : Ordinal[o] >= 10 /\ Stored("intent", o)} \ Line

IntentsAllow(o) ==
    /\ \A q \in Ops : file["intent"][q] # "torn"
    /\ PendingExecutions \subseteq {o}
    /\ PendingVerifications \subseteq {o}

Admitted(o, mode) ==
    NoAnomaly /\ FenceAllows(o, mode) /\ IntentsAllow(o)

---------------------------------------------------------------------------
(* Writing files                                                           *)

Original(o, step) ==
    [op |-> o, mode |-> "ORIGINAL", decision |-> "NONE", at |-> step]

\* Write the file of kind k unless it is there.  A crash leaves a part of
\* it; a torn file is removed before it is written again.
Store(k, o, next) ==
    \/ /\ Stored(k, o)
       /\ runner' = next
       /\ UNCHANGED file
    \/ /\ ~Stored(k, o)
       /\ file' = [file EXCEPT ![k][o] = "stored"]
       /\ runner' = next
    \/ /\ ~Stored(k, o)
       /\ file' = [file EXCEPT ![k][o] = IF @ = "absent" THEN "torn" ELSE "absent"]
       /\ runner' = Idle

Go(step) == [runner EXCEPT !.at = step]

At(o, step) == runner.op = o /\ runner.at = step

---------------------------------------------------------------------------
(* Preparing an operation: what it requires, and its intent                *)

\* Mutant: the quarantine directory is not looked at.
PreparableBesideQuarantine(o) ==
    /\ runner = Idle
    /\ o \notin consumed
    /\ Admitted(o, "ORIGINAL")

Preparable(o) ==
    /\ runner = Idle
    /\ o \notin consumed
    /\ quarantine = {}
    /\ Admitted(o, "ORIGINAL")

\* Mutant: the stages are not compared.
FollowsTheCurrent(o) ==
    /\ current # None
    /\ current = Predecessor(o)
    /\ Generation[current] = Generation[o]

\* The current receipt is the one o was authorized to follow.
Follows(o) ==
    /\ current # None
    /\ current = Predecessor(o)
    /\ Ordinal[current] = Ordinal[o] - 1
    /\ Generation[current] = Generation[o]

NoRival(o) ==
    \A q \in Ops : Ordinal[q] = Ordinal[o] /\ Stored("intent", q) /\ pinned[q] = current
                      => q = o

\* A receipt lists what its predecessor does; that of a BEGIN starts anew.
Listed(o) == IF Begin(o) THEN {o} ELSE lists[Predecessor(o)] \cup {o}

WriteIntent(o, next) ==
    /\ pinned' = [pinned EXCEPT ![o] = Predecessor(o)]
    /\ lists' = [lists EXCEPT ![o] = Listed(o)]
    /\ Store("intent", o, Original(o, next))
    /\ UNCHANGED <<containment, current, consumed, quarantine, outside, recoveries>>

\* An intent found is accepted without another look at the chain.
PrepareBegin(o) ==
    /\ Begin(o)
    /\ \/ Stored("intent", o)
       \/ /\ CommittedChain({})
          /\ IF current = None THEN Generation[o] = 1
             ELSE /\ Generation[o] = Generation[current] + 1
                  /\ Ordinal[current] \in {13, 15}
    /\ Preparable(o)
    /\ WriteIntent(o, "consume")

PrepareSnapshot(o) ==
    /\ Ordinal[o] = 5 /\ Follows(o) /\ Preparable(o) /\ Staged(o)
    /\ WriteIntent(o, "consume")

PrepareQuiesce(o) ==
    /\ Ordinal[o] = 6 /\ Follows(o) /\ Preparable(o) /\ Staged(o)
    /\ WriteIntent(o, "consume")

PrepareMigrationAuthorization(o) ==
    /\ Ordinal[o] = 7 /\ Follows(o) /\ Preparable(o) /\ Staged(o)
    /\ WriteIntent(o, "consume")

\* The intent, and the grant the migration program will ask for.
PrepareMigrationExecution(o) ==
    /\ Ordinal[o] = 8 /\ Follows(o) /\ Preparable(o)
    /\ WriteIntent(o, "grant")

WriteGrant(o) ==
    /\ At(o, "grant")
    /\ file["grant"][o] # "torn"
    /\ Store("grant", o, Go("consume"))
    /\ UNCHANGED <<pinned, lists, containment, current, consumed, quarantine, outside, recoveries>>

PrepareComposeDeployment(o) ==
    /\ Ordinal[o] = 9 /\ Follows(o) /\ Preparable(o)
    /\ file["result"][o] = "absent" /\ file["transfer"][o] = "absent"
    /\ WriteIntent(o, "consume")

PreparePostdeploy(o) ==
    /\ Ordinal[o] \in 10..11 /\ Follows(o) /\ Preparable(o) /\ NoRival(o)
    /\ CommittedChain({})
    /\ WriteIntent(o, "consume")

PrepareCrossRole(o) ==
    /\ Ordinal[o] = 12 /\ Follows(o) /\ Preparable(o) /\ NoRival(o)
    /\ CommittedChain({})
    /\ WriteIntent(o, "consume")

PrepareFinalization(o) ==
    /\ Ordinal[o] = 13 /\ Follows(o) /\ Preparable(o) /\ NoRival(o)
    /\ CommittedChain({}) /\ Aggregate
    /\ WriteIntent(o, "consume")

PrepareRollback(o) ==
    /\ Ordinal[o] = 14 /\ Follows(o) /\ Preparable(o) /\ NoRival(o)
    /\ file["result"][o] = "absent"
    /\ WriteIntent(o, "consume")

PrepareRollbackPostverify(o) ==
    /\ Ordinal[o] = 15 /\ Follows(o) /\ Preparable(o) /\ NoRival(o)
    /\ file["result"][o] = "absent" /\ Stored("result", current)
    /\ WriteIntent(o, "consume")

\* The authorization is consumed; from here on only a recovery may repeat o.
ConsumeAuthorization(o) ==
    /\ At(o, "consume")
    /\ consumed' = consumed \cup {o}
    /\ runner' = Go(IF Begin(o) THEN "generation"
                    ELSE IF Ordinal[o] \in {5, 6, 7, 13} THEN "history"
                    ELSE IF Ordinal[o] = 8 THEN "fence"
                    ELSE IF Ordinal[o] \in {9, 12} THEN "result"
                    ELSE IF Ordinal[o] \in 10..11 THEN "evidence"
                    ELSE "perform")
    /\ UNCHANGED <<pinned, lists, file, containment, current, quarantine, outside, recoveries>>

---------------------------------------------------------------------------
(* The programs that do the work, and what they leave for the journal      *)

unchangedByStore == <<pinned, lists, containment, current, consumed, quarantine, outside, recoveries>>

\* Their files are written once, never repaired.
ActivateFence(o) ==
    /\ Ordinal[o] = 8 /\ At(o, "fence")
    /\ Store("fence", o, Go("result"))
    /\ UNCHANGED unchangedByStore

RecordMigration(o) ==
    /\ Ordinal[o] = 8 /\ At(o, "result")
    /\ Store("result", o, Go("history"))
    /\ UNCHANGED unchangedByStore

RecordDeployment(o) ==
    /\ Ordinal[o] = 9 /\ At(o, "result")
    /\ Store("result", o, Go("transfer"))
    /\ UNCHANGED unchangedByStore

TransferFence(o) ==
    /\ Ordinal[o] = 9 /\ At(o, "transfer")
    /\ Store("transfer", o, Go("history"))
    /\ UNCHANGED unchangedByStore

VerifyPostdeploy(o) ==
    /\ At(o, "evidence")
    /\ evidence' = evidence \cup {o}
    /\ runner' = Go("binding")
    /\ UNCHANGED <<record, expired, performed, contained, recoveries>>

\* Which evidence the checkpoint will publish is fixed before it is published.
BindPostdeploy(o) ==
    /\ At(o, "binding")
    /\ Store("binding", o, Go("result"))
    /\ UNCHANGED unchangedByStore

\* The journal's own copy of the evidence; unlike the files of the programs,
\* a torn copy is written again.
CopyResult(o) ==
    /\ Ordinal[o] \in 10..12 /\ At(o, "result")
    /\ Store("result", o, Go("history"))
    /\ UNCHANGED unchangedByStore

PerformRollback(o) ==
    /\ At(o, "perform")
    /\ performed' = performed \cup {o}
    /\ runner' = Go("result")
    /\ UNCHANGED <<record, expired, evidence, contained, recoveries>>

RecordRollback(o) ==
    /\ Ordinal[o] \in 14..15 /\ At(o, "result")
    /\ Store("result", o, Go("history"))
    /\ UNCHANGED unchangedByStore

---------------------------------------------------------------------------
(* Publication: generation, history, receipt, current                      *)

PublishFile(o, k, next) ==
    /\ At(o, k) /\ Candidate(o)
    /\ Store(k, o, Go(next))
    /\ UNCHANGED unchangedByStore

PublishCurrent(o) ==
    /\ At(o, "current") /\ Candidate(o)
    /\ current' = o
    /\ runner' = IF Ordinal[o] \in 10..11 /\ runner.mode = "ORIGINAL"
                 THEN Go("confirm") ELSE Idle
    /\ UNCHANGED <<pinned, lists, file, containment, consumed, quarantine, outside, recoveries>>

Publish(o) ==
    \/ PublishFile(o, "history", "receipt")
    \/ PublishFile(o, "receipt", "current")
    \/ PublishCurrent(o)

CommitIntent(o) == Begin(o) /\ (PublishFile(o, "generation", "history") \/ Publish(o))
CommitSnapshot(o) == Ordinal[o] = 5 /\ Publish(o)
CommitQuiesce(o) == Ordinal[o] = 6 /\ Publish(o)
CommitMigrationAuthorization(o) == Ordinal[o] = 7 /\ Publish(o)
CommitMigrationExecution(o) == Ordinal[o] = 8 /\ Publish(o)
CommitComposeDeployment(o) == Ordinal[o] = 9 /\ Publish(o)
CommitPostdeploy(o) == Ordinal[o] \in 10..11 /\ Publish(o)
CommitCrossRole(o) == Ordinal[o] = 12 /\ Publish(o)
CommitFinalization(o) == Ordinal[o] = 13 /\ Publish(o)
CommitRollback(o) == Ordinal[o] \in 14..15 /\ Publish(o)

\* The supervisor's last comparison of what was published.
Confirm(o) ==
    /\ At(o, "confirm")
    /\ runner' = Idle
    /\ UNCHANGED <<record, outside, recoveries>>

---------------------------------------------------------------------------
(* Failures                                                                *)

\* The run ends where it is: the process dies, or refuses and exits.
Crash ==
    /\ runner # Idle
    /\ runner' = Idle
    /\ UNCHANGED <<record, outside, recoveries>>

\* A verification fails and the supervisor lives to record it.
Fail(o) ==
    /\ runner.op = o /\ runner.mode = "ORIGINAL"
    /\ Ordinal[o] \in 10..11 /\ o \in consumed
    /\ runner.at # "contain"
    /\ runner' = Go("contain")
    /\ UNCHANGED <<record, outside, recoveries>>

\* Nothing was published, or the checkpoint was: then people must look at it.
Contain(o) ==
    /\ At(o, "contain")
    /\ \E status \in {"contained", "anomaly"} :
          /\ status = "contained" <=> current = pinned[o]
          /\ status = "anomaly" => /\ current = o
                                   /\ Stored("binding", o) /\ Stored("result", o)
          /\ containment' \in {[containment EXCEPT ![o] = status],
                               [containment EXCEPT ![o] = "torn"]}
    /\ runner' = Idle
    /\ UNCHANGED <<pinned, lists, file, current, consumed, quarantine, outside, recoveries>>

---------------------------------------------------------------------------
(* Recovery                                                                *)

\* The files recovery of o must be able to read.
Recoverable(o) ==
    /\ Ordinal[o] = 8 => Stored("grant", o) /\ Stored("result", o)
    /\ Ordinal[o] = 9 => Stored("result", o) /\ Stored("transfer", o)
    /\ Ordinal[o] \in 10..11 =>
          /\ Stored("binding", o)
          /\ IF current = o THEN Stored("result", o) ELSE o \in evidence
    /\ Ordinal[o] = 12 => IF current = o THEN Stored("result", o)
                          ELSE file["result"][o] # "torn"
    /\ Ordinal[o] = 13 => Aggregate
    /\ Ordinal[o] \in 14..15 => Stored("result", o)

AlreadyCommitted(o) ==
    /\ IF Ordinal[o] = 14 THEN o \in Line ELSE current = o
    /\ CommittedChain({})

\* The operations whose recovery heeds that the window has passed.
Timed(o) == Ordinal[o] \in {4, 5, 6, 7, 10, 11}

TooLate(o, late) ==
    /\ late
    /\ Ordinal[o] \in 5..7 => ~Stored("history", o) /\ ~Stored("receipt", o)

Decision(o, late) ==
    IF ~Recoverable(o) THEN "QUARANTINE"
    ELSE IF AlreadyCommitted(o) THEN "ALREADY_COMMITTED"
    ELSE IF Candidate(o) /\ ~TooLate(o, late) THEN "RESUME_PUBLICATION"
    ELSE "QUARANTINE"

\* A BEGIN whose predecessor is not current any more makes the journal stop
\* with an error instead of deciding.
Undecided(o) ==
    /\ Begin(o) /\ current \notin {o, pinned[o]}
    /\ CommittedChain({o})

\* Mutant: a publication resumes behind the copy of the evidence.
NextAfterResult(o, decision) ==
    IF Ordinal[o] \in 14..15 THEN "runtime"
    ELSE IF decision = "QUARANTINE" THEN "quarantine"
    ELSE IF decision = "ALREADY_COMMITTED" THEN "idle"
    ELSE IF Begin(o) THEN "generation" ELSE "history"

NextOf(o, decision) ==
    IF Ordinal[o] \in 14..15 THEN "runtime"
    ELSE IF decision = "QUARANTINE" THEN "quarantine"
    ELSE IF decision = "ALREADY_COMMITTED" THEN "idle"
    ELSE IF Begin(o) THEN "generation"
    ELSE IF Ordinal[o] \in 10..12 THEN "result"
    ELSE "history"

RecoveryAllowed(o) == o \in consumed /\ Admitted(o, "RECOVERY")

PrepareRecovery(o) ==
    /\ runner = Idle /\ recoveries < MaxRecoveries
    /\ RecoveryAllowed(o)
    /\ ~Undecided(o)
    /\ \E late \in {FALSE, Timed(o)} :
          LET decision == Decision(o, late)
              next == NextOf(o, decision)
          IN /\ o \in expired => late
             /\ expired' = IF late THEN expired \cup {o} ELSE expired
             /\ runner' = IF next = "idle" THEN Idle
                          ELSE [op |-> o, mode |-> "RECOVERY",
                                decision |-> decision, at |-> next]
    /\ recoveries' = recoveries + 1
    /\ UNCHANGED <<record, evidence, performed, contained>>

\* The rollback control accepts a runtime that is exactly what the finished
\* rollback left; any other it stops, an answer the supervisor takes only for
\* a quarantine.
RecoverRuntime(o) ==
    /\ At(o, "runtime")
    /\ IF /\ runner.decision = "ALREADY_COMMITTED"
          /\ o \in performed /\ contained = {} /\ Stored("result", o)
       THEN /\ runner' = Idle
            /\ UNCHANGED contained
       ELSE /\ contained' = contained \cup {o}
            /\ runner' = IF runner.decision = "QUARANTINE" THEN Go("quarantine") ELSE Idle
    /\ UNCHANGED <<record, expired, evidence, performed, recoveries>>

Quarantine(o) ==
    /\ At(o, "quarantine")
    /\ quarantine' = quarantine \cup {o}
    /\ runner' = Idle
    /\ UNCHANGED <<pinned, lists, file, containment, current, consumed, outside, recoveries>>

---------------------------------------------------------------------------

Prepare(o) ==
    \/ PrepareBegin(o) \/ PrepareSnapshot(o) \/ PrepareQuiesce(o)
    \/ PrepareMigrationAuthorization(o) \/ PrepareMigrationExecution(o)
    \/ PrepareComposeDeployment(o) \/ PreparePostdeploy(o) \/ PrepareCrossRole(o)
    \/ PrepareFinalization(o) \/ PrepareRollback(o) \/ PrepareRollbackPostverify(o)
    \/ PrepareRecovery(o)

Control(o) ==
    \/ WriteGrant(o) \/ ConsumeAuthorization(o)
    \/ ActivateFence(o) \/ RecordMigration(o) \/ RecordDeployment(o)
    \/ TransferFence(o) \/ VerifyPostdeploy(o) \/ BindPostdeploy(o)
    \/ CopyResult(o) \/ PerformRollback(o) \/ RecordRollback(o)
    \/ RecoverRuntime(o) \/ Quarantine(o)

Commit(o) ==
    \/ CommitIntent(o) \/ CommitSnapshot(o) \/ CommitQuiesce(o)
    \/ CommitMigrationAuthorization(o) \/ CommitMigrationExecution(o)
    \/ CommitComposeDeployment(o) \/ CommitPostdeploy(o) \/ CommitCrossRole(o)
    \/ CommitFinalization(o) \/ CommitRollback(o) \/ Confirm(o)

Next ==
    \/ runner = Idle /\ \E o \in Ops : Prepare(o)
    \/ \E o \in Ops : o = runner.op /\ (Control(o) \/ Commit(o) \/ Fail(o) \/ Contain(o))
    \/ Crash

Spec == Init /\ [][Next]_vars

---------------------------------------------------------------------------
(* Properties                                                              *)

\* Whatever crashes and whoever recovers, the receipts form one line that
\* ends in the current one, beside which at most one operation has begun to
\* publish.  Preparations 8, 9, 14 and 15 do not look at the chain at all:
\* that two of them never publish side by side is left to the candidate
\* state each publication step checks (uat-promotion-transaction-journal.mjs,
\* committedChain and the candidate states).
JournalIsOneLine ==
    CommittedChain({}) \/ \E o \in Ops : CommittedChain({o})

\* A receipt that has entered the history is backed by all it vouches for:
\* the migration's fence, grant and result, the deployment's result and
\* transfer, the verification's binding and the journal's copy of its
\* evidence, the rollback's stages and result.  Original and recovery come
\* to publish along different paths (executePostdeployCheckpoint,
\* prepareRecovery, executeRecovery).
Backing(o) ==
    /\ Ordinal[o] \in (8..12) \cup (14..15) => Stored("result", o)
    /\ Ordinal[o] = 8 => Stored("fence", o) /\ Stored("grant", o)
    /\ Ordinal[o] = 9 => Stored("transfer", o)
    /\ Ordinal[o] \in 10..11 => Stored("binding", o)
    /\ Ordinal[o] \in 14..15 => o \in performed

ReceiptsAreBacked ==
    \A o \in Written("history") : Stored("intent", o) /\ o \in consumed /\ Backing(o)

\* While anything is in quarantine the journal moves only by recovery: no
\* operation that was under way or admitted later publishes a checkpoint
\* (the check of paths.quarantine in every preparation, and the lock).
QuarantineHolds ==
    [][quarantine # {} /\ current' # current => runner.mode = "RECOVERY"]_vars

\* The journal moves by one checkpoint at a time, to the one that was
\* authorized to follow, and from a promotion to the next only when the
\* first is finished or rolled back: a checkpoint is never skipped, taken
\* twice, or taken back by a late recovery (createNext..CheckpointReceipt,
\* prepareOriginal).
CheckpointsInOrder ==
    [][current' # current =>
          /\ current' # None
          /\ pinned[current'] = current
          /\ IF current = None THEN Begin(current')
             ELSE \/ /\ Ordinal[current'] = Ordinal[current] + 1
                     /\ Generation[current'] = Generation[current]
                  \/ /\ Begin(current') /\ Ordinal[current] \in {13, 15}
                     /\ Generation[current'] = Generation[current] + 1]_vars

=============================================================================
