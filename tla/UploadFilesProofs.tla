-------------------------- MODULE UploadFilesProofs --------------------------
(***************************************************************************)
(* What UploadFiles promises of a published file, for any batches,         *)
(* processes, contents and faults.                                         *)
(*                                                                         *)
(* The rows are protected by the lease, the files by nothing but link():   *)
(* a process that stalled and lost its lease may still link and unlink.    *)
(* The proof says why that does no harm.  A link needs the .part file of   *)
(* the own lease token and follows a renewal of the lease; whoever takes   *)
(* the lease over removes the last holder's .part file, and one that is    *)
(* opened later is never linked, for its process cannot renew the lease    *)
(* any more (LinkersHold).  So the staged file of an operation that waits  *)
(* for its outcome comes from its holder (HolderIsRight).  A final file,   *)
(* once linked, is only deleted by those who clean up after a failure,     *)
(* which is the last phase (CleanersFollowFailure), so what a process has  *)
(* seen there stays there (SeenIsPlaced).                                  *)
(***************************************************************************)
EXTENDS UploadFiles, TLAPS
-----------------------------------------------------------------------------
\* A batch whose upload never began has no operation, and nobody works on it.
Fresh ==
    \A b \in Batches : batch[b] = "CREATED" =>
      phase[b] = "NONE" /\ \A q \in Processes : job[q] # b

\* Files are deleted after a failure only.
CleanersFollowFailure ==
    \A p \in Processes : \A b \in Batches :
      /\ pc[p] \in {"clean", "erase", "eraseFinal", "erased", "untemp"}
      /\ job[p] = b
      => phase[b] = "FAILED"

\* A process that has only the link left to do, and its .part file still, is
\* the holder of the lease, which may have lapsed by now.
LinkersHold ==
    \A b \in Batches : \A q \in Processes :
      pending[b] /\ At(q, "link", b) /\ <<b, q>> \in temps => q = holder[b]

\* A process goes by the final file between inspection and publication.
GoesByFinal ==
    \A p \in Processes : where[p] = "FINAL" =>
      pc[p] \in {"record", "check", "secure", "promoted", "publish"}

\* A process that stores a file has one.
SeenIsAFile ==
    \A p \in Processes :
      pc[p] \in {"receive", "stage", "open", "renewStage", "link", "record",
                "check", "secure", "promote", "renewPlace", "place", "unstage",
                "promoted", "publish", "recordFailed"} => seen[p] \in Contents

\* What is to be published is the final file as the process has seen it.
SeenIsPlaced ==
    \A p \in Processes : \A b \in Batches :
      /\ job[p] = b
      /\ where[p] = "FINAL" \/ pc[p] \in {"promoted", "publish"}
      => phase[b] = "FAILED" \/ (final[b] = seen[p] /\ seen[p] \in Contents)

\* What p has seen of the file of b is what is staged, recorded and checked.
RightFor(p, b) ==
    /\ pc[p] \in {"record", "check"} /\ where[p] = "STAGING"
         => staging[b] \in {None, seen[p]}
    /\ pc[p] \in {"check", "secure"} => recorded[b] = seen[p]
    /\ pc[p] = "secure" => seen[p] \in Safe

\* So it is for a holder at work.
HolderIsRight ==
    \A p \in Processes : \A b \in Batches :
      job[p] = b /\ pending[b] /\ holder[b] = p => RightFor(p, b)

\* Past the security check the recorded file is the declared one.
CheckedIsDeclared ==
    \A b \in Batches : phase[b] \in {"SECURITY_PASSED", "PROMOTED"} =>
      recorded[b] = Declared[b] /\ Declared[b] \in Safe

\* The inductive invariant.
IInv ==
    /\ TypeOK /\ RowsAgree /\ Fresh /\ CleanersFollowFailure
    /\ LinkersHold /\ GoesByFinal /\ SeenIsAFile /\ SeenIsPlaced /\ HolderIsRight
    /\ CheckedIsDeclared /\ ReadyFileIsThere /\ OneFilePerContent

-----------------------------------------------------------------------------

\* The steps that move the rows of one upload.
RowStep ==
    \E b \in Batches :
      \/ \E p \in Processes :
           \/ Prepare(p, b) \/ Resume(p, b) \/ Cancel(p, b) \/ ExpireRecovery(p, b)
           \/ Claim(p, b) \/ Record(p, b) \/ Secure(p, b) \/ Promoted(p, b)
           \/ Publish(p, b) \/ Reject(p, b) \/ Mark(p, b) \/ Clean(p, b) \/ Erased(p, b)
      \/ Lapse(b) \/ RecoveryEnds(b)

\* Every other step of a process reads the rows only: the file store and the
\* errors of the handlers write no row.
LEMMA RowsMoveByFew == ASSUME [Next]_vars PROVE RowStep \/ UNCHANGED rowVars
<1>1. ASSUME NEW b \in Batches, NEW p \in Processes,
             \/ CleanDeleted(p, b) \/ Inspect(p, b) \/ Receive(p, b) \/ Stage(p, b)
             \/ OpenPart(p, b) \/ Refuse(p, b) \/ Renew(p, b) \/ Link(p, b)
             \/ Check(p, b) \/ Promote(p, b) \/ Place(p, b) \/ Unstage(p, b) \/ FailPrepared(p, b) \/ Throw(p, b)
             \/ Erase(p, b) \/ CleanThrows(p, b) \/ Untemp(p, b) \/ Crash(p)
      PROVE  UNCHANGED rowVars
  BY <1>1 DEF CleanDeleted, Inspect, Receive, Stage, OpenPart, Refuse, Renew, Link,
       Check, Promote, Place, Unstage, FailPrepared, Throw, Erase, CleanThrows,
       Untemp, Crash
<1>2. CASE UNCHANGED vars
  BY <1>2 DEF vars
<1>3. QED
  BY <1>1, <1>2 DEF Next, Poll, Work, CleanUp, RowStep, Processes

\* A failure is recorded in rows of their types.
LEMMA CompleteFailureTyped ==
  ASSUME NEW b \in Batches, NEW status \in {"FAILED", "DUPLICATE"},
         RowTypes, CompleteFailure(b, status)
  PROVE  RowTypes'
  BY UploadAssumption DEF RowTypes, CompleteFailure, Close, Open

\* A cancellation ends a batch that never began, or one whose upload stands
\* without a live lease, with or without a file known to be there.
LEMMA CancelMoves ==
  ASSUME NEW b \in Batches, NEW p \in Processes, Cancel(p, b)
  PROVE  /\ batch' = [batch EXCEPT ![b] = "CANCELLED"]
         /\ UNCHANGED <<staging, final, temps, faults, seen, where>>
         /\ \/ /\ batch[b] = "CREATED"
               /\ UNCHANGED <<phase, pending, holder, live, recovery, storage,
                              recorded, pc, job, after>>
            \/ /\ pending[b] /\ pc[p] = "idle"
               /\ phase' = [phase EXCEPT ![b] = "FAILED"]
               /\ Close(b)
               /\ \E st \in {storage[b], "DELETE_PENDING"} :
                    storage' = [storage EXCEPT ![b] = st]
               /\ \E c \in {recorded[b], Declared[b]} :
                    recorded' = [recorded EXCEPT ![b] = c]
               /\ \E step \in {"clean", "untemp"} : pc' = [pc EXCEPT ![p] = step]
               /\ job' = [job EXCEPT ![p] = b]
               /\ after' = [after EXCEPT ![p] = holder[b]]
<1>1. CASE batch[b] = "CREATED"
  BY <1>1 DEF Cancel, diskVars, procVars
<1>2. CASE batch[b] # "CREATED"
  <2> DEFINE known == {staging[b], final[b], recorded[b]} # {None}
  <2>1. /\ storage' = [storage EXCEPT ![b] = IF known THEN "DELETE_PENDING" ELSE @]
        /\ recorded' = [recorded EXCEPT ![b] = IF known THEN Declared[b] ELSE @]
        /\ pc' = [pc EXCEPT ![p] = IF known THEN "clean" ELSE "untemp"]
    BY <1>2 DEF Cancel, Goto
  <2> HIDE DEF known
  <2>2. /\ \E st \in {storage[b], "DELETE_PENDING"} :
             storage' = [storage EXCEPT ![b] = st]
        /\ \E c \in {recorded[b], Declared[b]} :
             recorded' = [recorded EXCEPT ![b] = c]
        /\ \E step \in {"clean", "untemp"} : pc' = [pc EXCEPT ![p] = step]
    <3>1. CASE known BY <3>1, <2>1
    <3>2. CASE ~known BY <3>2, <2>1
    <3> QED BY <3>1, <3>2
  <2> QED BY <1>2, <2>2 DEF Cancel, diskVars
<1> QED BY <1>1, <1>2

\* The rows keep their types.
LEMMA RowTypesKept == ASSUME RowTypes, DiskTypes, ProcessTypes,
    [Next]_vars PROVE RowTypes'
<1> USE UploadAssumption DEF RowTypes, ProcessTypes, Open, At, Reclaim, Close,
       rowVars
<1>1. ASSUME NEW b \in Batches, NEW p \in Processes, Prepare(p, b)
      PROVE  RowTypes'
  BY <1>1 DEF Prepare
<1>2. ASSUME NEW b \in Batches, NEW p \in Processes, Resume(p, b)
      PROVE  RowTypes'
  BY <1>2 DEF Resume
<1>3. ASSUME NEW b \in Batches, NEW p \in Processes, Cancel(p, b)
      PROVE  RowTypes'
  <2>1. CASE UNCHANGED <<phase, pending, holder, live, recovery, storage, recorded>>
    <3>1. batch' = [batch EXCEPT ![b] = "CANCELLED"]
      BY <1>3, CancelMoves
    <3> QED BY <2>1, <3>1
  <2>2. CASE ~ UNCHANGED <<phase, pending, holder, live, recovery, storage, recorded>>
    <3>1. PICK st \in {storage[b], "DELETE_PENDING"} :
               storage' = [storage EXCEPT ![b] = st]
      BY <1>3, <2>2, CancelMoves
    <3>2. PICK c \in {recorded[b], Declared[b]} :
               recorded' = [recorded EXCEPT ![b] = c]
      BY <1>3, <2>2, CancelMoves
    <3>3. /\ batch' = [batch EXCEPT ![b] = "CANCELLED"]
          /\ phase' = [phase EXCEPT ![b] = "FAILED"]
          /\ pending' = [pending EXCEPT ![b] = FALSE]
          /\ holder' = [holder EXCEPT ![b] = None]
          /\ live' = [live EXCEPT ![b] = FALSE]
          /\ recovery' = [recovery EXCEPT ![b] = FALSE]
      BY <1>3, <2>2, CancelMoves
    <3> QED BY <3>1, <3>2, <3>3
  <2> QED BY <2>1, <2>2
<1>4. ASSUME NEW b \in Batches, NEW p \in Processes, ExpireRecovery(p, b)
      PROVE  RowTypes'
  BY <1>4 DEF ExpireRecovery
<1>5. ASSUME NEW b \in Batches, NEW p \in Processes, Claim(p, b)
      PROVE  RowTypes'
  BY <1>5 DEF Claim
<1>6. ASSUME NEW b \in Batches, NEW p \in Processes, Record(p, b)
      PROVE  RowTypes'
  BY <1>6 DEF Record
<1>7. ASSUME NEW b \in Batches, NEW p \in Processes, Secure(p, b)
      PROVE  RowTypes'
  <2>1. CASE DuplicateFailure(b)
    BY <1>7, <2>1, CompleteFailureTyped DEF Secure
  <2>2. CASE ~DuplicateFailure(b)
    BY <1>7, <2>2 DEF Secure
  <2> QED BY <2>1, <2>2
<1>8. ASSUME NEW b \in Batches, NEW p \in Processes, Promoted(p, b)
      PROVE  RowTypes'
  BY <1>8 DEF Promoted
<1>9. ASSUME NEW b \in Batches, NEW p \in Processes, Publish(p, b)
      PROVE  RowTypes'
  <2>1. CASE DuplicateFailure(b)
    BY <1>9, <2>1, CompleteFailureTyped DEF Publish
  <2>2. CASE ~DuplicateFailure(b)
    <3>1. /\ batch' = [batch EXCEPT ![b] = "FILE_READY"]
          /\ phase' = [phase EXCEPT ![b] = "PUBLISHED"]
          /\ storage' = [storage EXCEPT ![b] = "STORED"]
          /\ UNCHANGED recorded
          /\ Close(b)
      BY <1>9, <2>2 DEF Publish
    <3> QED BY <3>1
  <2> QED BY <2>1, <2>2
<1>10. ASSUME NEW b \in Batches, NEW p \in Processes, Reject(p, b)
      PROVE  RowTypes'
  BY <1>10, CompleteFailureTyped DEF Reject
<1>11. ASSUME NEW b \in Batches, NEW p \in Processes, Mark(p, b)
      PROVE  RowTypes'
  <2>1. CASE UNCHANGED rowVars
    BY <2>1
  <2>2. CASE ~ UNCHANGED rowVars
    <3>1. /\ batch' = [batch EXCEPT ![b] = "RECONCILIATION_REQUIRED"]
          /\ phase' = [phase EXCEPT ![b] = "RECONCILIATION_REQUIRED"]
          /\ storage' = [storage EXCEPT ![b] =
                           IF storage[b] = "STAGED" THEN "RECONCILIATION_REQUIRED" ELSE storage[b]]
          /\ live' = [live EXCEPT ![b] = TRUE]
          /\ UNCHANGED <<pending, holder, recovery, recorded>>
      BY <1>11, <2>2 DEF Mark
    <3> QED BY <3>1
  <2> QED BY <2>1, <2>2
<1>12. ASSUME NEW b \in Batches, NEW p \in Processes, Clean(p, b)
      PROVE  RowTypes'
  BY <1>12 DEF Clean
<1>13. ASSUME NEW b \in Batches, NEW p \in Processes, Erased(p, b)
      PROVE  RowTypes'
  BY <1>13 DEF Erased
<1>14. ASSUME NEW b \in Batches, Lapse(b) PROVE RowTypes'
  BY <1>14 DEF Lapse
<1>15. ASSUME NEW b \in Batches, RecoveryEnds(b) PROVE RowTypes'
  BY <1>15 DEF RecoveryEnds
<1>16. CASE UNCHANGED rowVars
  BY <1>16
<1>17. QED BY <1>1, <1>2, <1>3, <1>4, <1>5, <1>6, <1>7, <1>8, <1>9, <1>10,
    <1>11, <1>12, <1>13, <1>14, <1>15, <1>16, RowsMoveByFew DEF RowStep

\* The files keep their types.
LEMMA DiskTypesKept == ASSUME RowTypes, DiskTypes, ProcessTypes,
    [Next]_vars PROVE DiskTypes'
<1> USE UploadAssumption DEF RowTypes, DiskTypes, ProcessTypes, Processes, At,
       Holds, Goto, GoOn, TakeUp, Reclaim, Waiting, rowVars, diskVars, procVars
<1>1. ASSUME NEW b \in Batches, NEW p \in Processes, Prepare(p, b)
      PROVE  DiskTypes'
  BY <1>1 DEF Prepare
<1>2. ASSUME NEW b \in Batches, NEW p \in Processes, Resume(p, b)
      PROVE  DiskTypes'
  BY <1>2 DEF Resume
<1>3. ASSUME NEW b \in Batches, NEW p \in Processes, Cancel(p, b)
      PROVE  DiskTypes'
  BY <1>3, CancelMoves
<1>4. ASSUME NEW b \in Batches, NEW p \in Processes, CleanDeleted(p, b)
      PROVE  DiskTypes'
  BY <1>4 DEF CleanDeleted
<1>5. ASSUME NEW b \in Batches, NEW p \in Processes, ExpireRecovery(p, b)
      PROVE  DiskTypes'
  BY <1>5 DEF ExpireRecovery
<1>6. ASSUME NEW b \in Batches, NEW p \in Processes, Claim(p, b)
      PROVE  DiskTypes'
  BY <1>6 DEF Claim
<1>7. ASSUME NEW b \in Batches, NEW p \in Processes, Inspect(p, b)
      PROVE  DiskTypes'
  BY <1>7 DEF Inspect
<1>8. ASSUME NEW b \in Batches, NEW p \in Processes, Receive(p, b)
      PROVE  DiskTypes'
  BY <1>8 DEF Receive
<1>9. ASSUME NEW b \in Batches, NEW p \in Processes, Stage(p, b)
      PROVE  DiskTypes'
  BY <1>9 DEF Stage
<1>10. ASSUME NEW b \in Batches, NEW p \in Processes, OpenPart(p, b)
      PROVE  DiskTypes'
  BY <1>10 DEF OpenPart
<1>11. ASSUME NEW b \in Batches, NEW p \in Processes, Refuse(p, b)
      PROVE  DiskTypes'
  BY <1>11 DEF Refuse
<1>12. ASSUME NEW b \in Batches, NEW p \in Processes, Renew(p, b)
      PROVE  DiskTypes'
  BY <1>12 DEF Renew
<1>13. ASSUME NEW b \in Batches, NEW p \in Processes, Link(p, b)
      PROVE  DiskTypes'
  BY <1>13 DEF Link
<1>14. ASSUME NEW b \in Batches, NEW p \in Processes, Record(p, b)
      PROVE  DiskTypes'
  BY <1>14 DEF Record
<1>15. ASSUME NEW b \in Batches, NEW p \in Processes, Check(p, b)
      PROVE  DiskTypes'
  BY <1>15 DEF Check
<1>16. ASSUME NEW b \in Batches, NEW p \in Processes, Secure(p, b)
      PROVE  DiskTypes'
  BY <1>16 DEF Secure
<1>17. ASSUME NEW b \in Batches, NEW p \in Processes, Promote(p, b)
      PROVE  DiskTypes'
  BY <1>17 DEF Promote
<1>18. ASSUME NEW b \in Batches, NEW p \in Processes, Place(p, b)
      PROVE  DiskTypes'
  BY <1>18 DEF Place
<1>19. ASSUME NEW b \in Batches, NEW p \in Processes, Unstage(p, b)
      PROVE  DiskTypes'
  BY <1>19 DEF Unstage
<1>20. ASSUME NEW b \in Batches, NEW p \in Processes, Promoted(p, b)
      PROVE  DiskTypes'
  BY <1>20 DEF Promoted
<1>21. ASSUME NEW b \in Batches, NEW p \in Processes, Publish(p, b)
      PROVE  DiskTypes'
  BY <1>21 DEF Publish
<1>22. ASSUME NEW b \in Batches, NEW p \in Processes, FailPrepared(p, b)
      PROVE  DiskTypes'
  BY <1>22 DEF FailPrepared
<1>23. ASSUME NEW b \in Batches, NEW p \in Processes, Reject(p, b)
      PROVE  DiskTypes'
  BY <1>23 DEF Reject
<1>24. ASSUME NEW b \in Batches, NEW p \in Processes, Throw(p, b)
      PROVE  DiskTypes'
  BY <1>24 DEF Throw
<1>25. ASSUME NEW b \in Batches, NEW p \in Processes, Mark(p, b)
      PROVE  DiskTypes'
  BY <1>25 DEF Mark
<1>26. ASSUME NEW b \in Batches, NEW p \in Processes, Clean(p, b)
      PROVE  DiskTypes'
  BY <1>26 DEF Clean
<1>27. ASSUME NEW b \in Batches, NEW p \in Processes, Erase(p, b)
      PROVE  DiskTypes'
  BY <1>27 DEF Erase
<1>28. ASSUME NEW b \in Batches, NEW p \in Processes, Erased(p, b)
      PROVE  DiskTypes'
  BY <1>28 DEF Erased
<1>29. ASSUME NEW b \in Batches, NEW p \in Processes, CleanThrows(p, b)
      PROVE  DiskTypes'
  BY <1>29 DEF CleanThrows
<1>30. ASSUME NEW b \in Batches, NEW p \in Processes, Untemp(p, b)
      PROVE  DiskTypes'
  BY <1>30 DEF Untemp
<1>31. ASSUME NEW b \in Batches, Lapse(b) PROVE DiskTypes'
  BY <1>31 DEF Lapse
<1>32. ASSUME NEW b \in Batches, RecoveryEnds(b) PROVE DiskTypes'
  BY <1>32 DEF RecoveryEnds
<1>33. ASSUME NEW p \in Processes, Crash(p) PROVE DiskTypes'
  BY <1>33 DEF Crash
<1>34. CASE UNCHANGED vars
  BY <1>34 DEF vars
<1>35. QED BY <1>1, <1>2, <1>3, <1>4, <1>5, <1>6, <1>7, <1>8, <1>9, <1>10,
    <1>11, <1>12, <1>13, <1>14, <1>15, <1>16, <1>17, <1>18, <1>19, <1>20,
    <1>21, <1>22, <1>23, <1>24, <1>25, <1>26, <1>27, <1>28, <1>29, <1>30,
    <1>31, <1>32, <1>33, <1>34 DEF Next, Poll, Work, CleanUp

\* The processes keep their types.
LEMMA ProcessTypesKept == ASSUME RowTypes, DiskTypes, ProcessTypes,
    [Next]_vars PROVE ProcessTypes'
<1> USE UploadAssumption DEF RowTypes, DiskTypes, ProcessTypes, Steps,
       Processes, At, Holds, Goto, GoOn, GiveUp, Fails, Leave, TakeUp, Cleaned,
       Reclaim, Deletable, Expired, Waiting, rowVars, diskVars, procVars
<1>1. ASSUME NEW b \in Batches, NEW p \in Processes, Prepare(p, b)
      PROVE  ProcessTypes'
  BY <1>1 DEF Prepare
<1>2. ASSUME NEW b \in Batches, NEW p \in Processes, Resume(p, b)
      PROVE  ProcessTypes'
  BY <1>2 DEF Resume
<1>3. ASSUME NEW b \in Batches, NEW p \in Processes, Cancel(p, b)
      PROVE  ProcessTypes'
  <2>1. CASE UNCHANGED <<pc, job, after>>
    BY <1>3, <2>1, CancelMoves
  <2>2. CASE ~ UNCHANGED <<pc, job, after>>
    <3>1. PICK step \in {"clean", "untemp"} : pc' = [pc EXCEPT ![p] = step]
      BY <1>3, <2>2, CancelMoves
    <3>2. /\ job' = [job EXCEPT ![p] = b] /\ after' = [after EXCEPT ![p] = holder[b]]
          /\ UNCHANGED <<seen, where>>
      BY <1>3, <2>2, CancelMoves
    <3> QED BY <3>1, <3>2
  <2> QED BY <2>1, <2>2
<1>4. ASSUME NEW b \in Batches, NEW p \in Processes, CleanDeleted(p, b)
      PROVE  ProcessTypes'
  BY <1>4 DEF CleanDeleted
<1>5. ASSUME NEW b \in Batches, NEW p \in Processes, ExpireRecovery(p, b)
      PROVE  ProcessTypes'
  BY <1>5 DEF ExpireRecovery
<1>6. ASSUME NEW b \in Batches, NEW p \in Processes, Claim(p, b)
      PROVE  ProcessTypes'
  BY <1>6 DEF Claim
<1>7. ASSUME NEW b \in Batches, NEW p \in Processes, Inspect(p, b)
      PROVE  ProcessTypes'
  BY <1>7 DEF Inspect
<1>8. ASSUME NEW b \in Batches, NEW p \in Processes, Receive(p, b)
      PROVE  ProcessTypes'
  BY <1>8 DEF Receive
<1>9. ASSUME NEW b \in Batches, NEW p \in Processes, Stage(p, b)
      PROVE  ProcessTypes'
  BY <1>9 DEF Stage
<1>10. ASSUME NEW b \in Batches, NEW p \in Processes, OpenPart(p, b)
      PROVE  ProcessTypes'
  BY <1>10 DEF OpenPart
<1>11. ASSUME NEW b \in Batches, NEW p \in Processes, Refuse(p, b)
      PROVE  ProcessTypes'
  BY <1>11 DEF Refuse
<1>12. ASSUME NEW b \in Batches, NEW p \in Processes, Renew(p, b)
      PROVE  ProcessTypes'
  BY <1>12 DEF Renew
<1>13. ASSUME NEW b \in Batches, NEW p \in Processes, Link(p, b)
      PROVE  ProcessTypes'
  BY <1>13 DEF Link
<1>14. ASSUME NEW b \in Batches, NEW p \in Processes, Record(p, b)
      PROVE  ProcessTypes'
  BY <1>14 DEF Record
<1>15. ASSUME NEW b \in Batches, NEW p \in Processes, Check(p, b)
      PROVE  ProcessTypes'
  BY <1>15 DEF Check
<1>16. ASSUME NEW b \in Batches, NEW p \in Processes, Secure(p, b)
      PROVE  ProcessTypes'
  BY <1>16 DEF Secure
<1>17. ASSUME NEW b \in Batches, NEW p \in Processes, Promote(p, b)
      PROVE  ProcessTypes'
  BY <1>17 DEF Promote
<1>18. ASSUME NEW b \in Batches, NEW p \in Processes, Place(p, b)
      PROVE  ProcessTypes'
  BY <1>18 DEF Place
<1>19. ASSUME NEW b \in Batches, NEW p \in Processes, Unstage(p, b)
      PROVE  ProcessTypes'
  BY <1>19 DEF Unstage
<1>20. ASSUME NEW b \in Batches, NEW p \in Processes, Promoted(p, b)
      PROVE  ProcessTypes'
  BY <1>20 DEF Promoted
<1>21. ASSUME NEW b \in Batches, NEW p \in Processes, Publish(p, b)
      PROVE  ProcessTypes'
  BY <1>21 DEF Publish
<1>22. ASSUME NEW b \in Batches, NEW p \in Processes, FailPrepared(p, b)
      PROVE  ProcessTypes'
  BY <1>22 DEF FailPrepared
<1>23. ASSUME NEW b \in Batches, NEW p \in Processes, Reject(p, b)
      PROVE  ProcessTypes'
  BY <1>23 DEF Reject
<1>24. ASSUME NEW b \in Batches, NEW p \in Processes, Throw(p, b)
      PROVE  ProcessTypes'
  BY <1>24 DEF Throw
<1>25. ASSUME NEW b \in Batches, NEW p \in Processes, Mark(p, b)
      PROVE  ProcessTypes'
  BY <1>25 DEF Mark
<1>26. ASSUME NEW b \in Batches, NEW p \in Processes, Clean(p, b)
      PROVE  ProcessTypes'
  BY <1>26 DEF Clean
<1>27. ASSUME NEW b \in Batches, NEW p \in Processes, Erase(p, b)
      PROVE  ProcessTypes'
  BY <1>27 DEF Erase
<1>28. ASSUME NEW b \in Batches, NEW p \in Processes, Erased(p, b)
      PROVE  ProcessTypes'
  BY <1>28 DEF Erased
<1>29. ASSUME NEW b \in Batches, NEW p \in Processes, CleanThrows(p, b)
      PROVE  ProcessTypes'
  BY <1>29, SMTT(30) DEF CleanThrows
<1>30. ASSUME NEW b \in Batches, NEW p \in Processes, Untemp(p, b)
      PROVE  ProcessTypes'
  BY <1>30 DEF Untemp
<1>31. ASSUME NEW b \in Batches, Lapse(b) PROVE ProcessTypes'
  BY <1>31 DEF Lapse
<1>32. ASSUME NEW b \in Batches, RecoveryEnds(b) PROVE ProcessTypes'
  BY <1>32 DEF RecoveryEnds
<1>33. ASSUME NEW p \in Processes, Crash(p) PROVE ProcessTypes'
  BY <1>33 DEF Crash
<1>34. CASE UNCHANGED vars
  BY <1>34 DEF vars
<1>35. QED BY <1>1, <1>2, <1>3, <1>4, <1>5, <1>6, <1>7, <1>8, <1>9, <1>10,
    <1>11, <1>12, <1>13, <1>14, <1>15, <1>16, <1>17, <1>18, <1>19, <1>20,
    <1>21, <1>22, <1>23, <1>24, <1>25, <1>26, <1>27, <1>28, <1>29, <1>30,
    <1>31, <1>32, <1>33, <1>34 DEF Next, Poll, Work, CleanUp

\* Each transaction writes the rows of its upload together.
LEMMA RowsAgreeKept == ASSUME TypeOK, RowsAgree, Fresh,
    [Next]_vars PROVE RowsAgree'
<1> USE UploadAssumption DEF TypeOK, RowsAgree, Fresh, Open, RowTypes,
       DiskTypes, ProcessTypes, Processes, At, Holds, Reclaim, Close,
       CompleteFailure, Deletable, Expired, Waiting, rowVars
<1>1. ASSUME NEW b \in Batches, NEW p \in Processes, Prepare(p, b)
      PROVE  RowsAgree'
  BY <1>1 DEF Prepare
<1>2. ASSUME NEW b \in Batches, NEW p \in Processes, Resume(p, b)
      PROVE  RowsAgree'
  BY <1>2 DEF Resume
<1>3. ASSUME NEW b \in Batches, NEW p \in Processes, Cancel(p, b)
      PROVE  RowsAgree'
  BY <1>3, CancelMoves
<1>4. ASSUME NEW b \in Batches, NEW p \in Processes, ExpireRecovery(p, b)
      PROVE  RowsAgree'
  BY <1>4 DEF ExpireRecovery
<1>5. ASSUME NEW b \in Batches, NEW p \in Processes, Claim(p, b)
      PROVE  RowsAgree'
  BY <1>5 DEF Claim
<1>6. ASSUME NEW b \in Batches, NEW p \in Processes, Record(p, b)
      PROVE  RowsAgree'
  BY <1>6 DEF Record
<1>7. ASSUME NEW b \in Batches, NEW p \in Processes, Secure(p, b)
      PROVE  RowsAgree'
  <2>1. CASE DuplicateFailure(b)
    BY <1>7, <2>1 DEF Secure
  <2>2. CASE ~DuplicateFailure(b)
    BY <1>7, <2>2 DEF Secure
  <2> QED BY <2>1, <2>2
<1>8. ASSUME NEW b \in Batches, NEW p \in Processes, Promoted(p, b)
      PROVE  RowsAgree'
  BY <1>8 DEF Promoted
<1>9. ASSUME NEW b \in Batches, NEW p \in Processes, Publish(p, b)
      PROVE  RowsAgree'
  <2>1. CASE DuplicateFailure(b)
    BY <1>9, <2>1 DEF Publish
  <2>2. CASE ~DuplicateFailure(b)
    BY <1>9, <2>2 DEF Publish
  <2> QED BY <2>1, <2>2
<1>10. ASSUME NEW b \in Batches, NEW p \in Processes, Reject(p, b)
      PROVE  RowsAgree'
  BY <1>10 DEF Reject
<1>11. ASSUME NEW b \in Batches, NEW p \in Processes, Mark(p, b)
      PROVE  RowsAgree'
  BY <1>11 DEF Mark
<1>12. ASSUME NEW b \in Batches, NEW p \in Processes, Clean(p, b)
      PROVE  RowsAgree'
  BY <1>12 DEF Clean
<1>13. ASSUME NEW b \in Batches, NEW p \in Processes, Erased(p, b)
      PROVE  RowsAgree'
  BY <1>13 DEF Erased
<1>14. ASSUME NEW b \in Batches, Lapse(b) PROVE RowsAgree'
  BY <1>14 DEF Lapse
<1>15. ASSUME NEW b \in Batches, RecoveryEnds(b) PROVE RowsAgree'
  BY <1>15 DEF RecoveryEnds
<1>16. CASE UNCHANGED rowVars
  BY <1>16
<1>17. QED BY <1>1, <1>2, <1>3, <1>4, <1>5, <1>6, <1>7, <1>8, <1>9, <1>10,
    <1>11, <1>12, <1>13, <1>14, <1>15, <1>16, RowsMoveByFew DEF RowStep

\* A batch whose upload never began has no operation, and nobody takes it up.
LEMMA FreshKept == ASSUME TypeOK, RowsAgree, Fresh, [Next]_vars PROVE Fresh'
<1> USE UploadAssumption DEF TypeOK, RowsAgree, Fresh, Open, RowTypes,
       DiskTypes, ProcessTypes, Processes, At, Holds, Goto, GoOn, GiveUp,
       Fails, Leave, TakeUp, Cleaned, Reclaim, Close, CompleteFailure,
       Deletable, Expired, DuplicateFailure, Waiting, rowVars, diskVars,
       procVars
<1>1. ASSUME NEW b \in Batches, NEW p \in Processes, Prepare(p, b)
      PROVE  Fresh'
  BY <1>1 DEF Prepare
<1>2. ASSUME NEW b \in Batches, NEW p \in Processes, Resume(p, b)
      PROVE  Fresh'
  BY <1>2 DEF Resume
<1>3. ASSUME NEW b \in Batches, NEW p \in Processes, Cancel(p, b)
      PROVE  Fresh'
  BY <1>3, CancelMoves
<1>4. ASSUME NEW b \in Batches, NEW p \in Processes, CleanDeleted(p, b)
      PROVE  Fresh'
  BY <1>4 DEF CleanDeleted
<1>5. ASSUME NEW b \in Batches, NEW p \in Processes, ExpireRecovery(p, b)
      PROVE  Fresh'
  BY <1>5 DEF ExpireRecovery
<1>6. ASSUME NEW b \in Batches, NEW p \in Processes, Claim(p, b)
      PROVE  Fresh'
  BY <1>6 DEF Claim
<1>7. ASSUME NEW b \in Batches, NEW p \in Processes, Inspect(p, b)
      PROVE  Fresh'
  BY <1>7 DEF Inspect
<1>8. ASSUME NEW b \in Batches, NEW p \in Processes, Receive(p, b)
      PROVE  Fresh'
  BY <1>8 DEF Receive
<1>9. ASSUME NEW b \in Batches, NEW p \in Processes, Stage(p, b)
      PROVE  Fresh'
  BY <1>9 DEF Stage
<1>10. ASSUME NEW b \in Batches, NEW p \in Processes, OpenPart(p, b)
      PROVE  Fresh'
  BY <1>10 DEF OpenPart
<1>11. ASSUME NEW b \in Batches, NEW p \in Processes, Refuse(p, b)
      PROVE  Fresh'
  BY <1>11 DEF Refuse
<1>12. ASSUME NEW b \in Batches, NEW p \in Processes, Renew(p, b)
      PROVE  Fresh'
  BY <1>12 DEF Renew
<1>13. ASSUME NEW b \in Batches, NEW p \in Processes, Link(p, b)
      PROVE  Fresh'
  BY <1>13 DEF Link
<1>14. ASSUME NEW b \in Batches, NEW p \in Processes, Record(p, b)
      PROVE  Fresh'
  BY <1>14 DEF Record
<1>15. ASSUME NEW b \in Batches, NEW p \in Processes, Check(p, b)
      PROVE  Fresh'
  BY <1>15 DEF Check
<1>16. ASSUME NEW b \in Batches, NEW p \in Processes, Secure(p, b)
      PROVE  Fresh'
  BY <1>16 DEF Secure
<1>17. ASSUME NEW b \in Batches, NEW p \in Processes, Promote(p, b)
      PROVE  Fresh'
  BY <1>17 DEF Promote
<1>18. ASSUME NEW b \in Batches, NEW p \in Processes, Place(p, b)
      PROVE  Fresh'
  BY <1>18 DEF Place
<1>19. ASSUME NEW b \in Batches, NEW p \in Processes, Unstage(p, b)
      PROVE  Fresh'
  BY <1>19 DEF Unstage
<1>20. ASSUME NEW b \in Batches, NEW p \in Processes, Promoted(p, b)
      PROVE  Fresh'
  BY <1>20 DEF Promoted
<1>21. ASSUME NEW b \in Batches, NEW p \in Processes, Publish(p, b)
      PROVE  Fresh'
  BY <1>21 DEF Publish
<1>22. ASSUME NEW b \in Batches, NEW p \in Processes, FailPrepared(p, b)
      PROVE  Fresh'
  BY <1>22 DEF FailPrepared
<1>23. ASSUME NEW b \in Batches, NEW p \in Processes, Reject(p, b)
      PROVE  Fresh'
  BY <1>23 DEF Reject
<1>24. ASSUME NEW b \in Batches, NEW p \in Processes, Throw(p, b)
      PROVE  Fresh'
  BY <1>24 DEF Throw
<1>25. ASSUME NEW b \in Batches, NEW p \in Processes, Mark(p, b)
      PROVE  Fresh'
  BY <1>25 DEF Mark
<1>26. ASSUME NEW b \in Batches, NEW p \in Processes, Clean(p, b)
      PROVE  Fresh'
  BY <1>26 DEF Clean
<1>27. ASSUME NEW b \in Batches, NEW p \in Processes, Erase(p, b)
      PROVE  Fresh'
  BY <1>27 DEF Erase
<1>28. ASSUME NEW b \in Batches, NEW p \in Processes, Erased(p, b)
      PROVE  Fresh'
  BY <1>28 DEF Erased
<1>29. ASSUME NEW b \in Batches, NEW p \in Processes, CleanThrows(p, b)
      PROVE  Fresh'
  BY <1>29 DEF CleanThrows
<1>30. ASSUME NEW b \in Batches, NEW p \in Processes, Untemp(p, b)
      PROVE  Fresh'
  BY <1>30 DEF Untemp
<1>31. ASSUME NEW b \in Batches, Lapse(b) PROVE Fresh'
  BY <1>31 DEF Lapse
<1>32. ASSUME NEW b \in Batches, RecoveryEnds(b) PROVE Fresh'
  BY <1>32 DEF RecoveryEnds
<1>33. ASSUME NEW p \in Processes, Crash(p) PROVE Fresh'
  BY <1>33 DEF Crash
<1>34. CASE UNCHANGED vars
  BY <1>34 DEF vars
<1>35. QED BY <1>1, <1>2, <1>3, <1>4, <1>5, <1>6, <1>7, <1>8, <1>9, <1>10,
    <1>11, <1>12, <1>13, <1>14, <1>15, <1>16, <1>17, <1>18, <1>19, <1>20,
    <1>21, <1>22, <1>23, <1>24, <1>25, <1>26, <1>27, <1>28, <1>29, <1>30,
    <1>31, <1>32, <1>33, <1>34 DEF Next, Poll, Work, CleanUp

\* A process deletes files only once the operation has failed, which is its
\* last phase.
LEMMA CleanersKept == ASSUME TypeOK, RowsAgree, Fresh, CleanersFollowFailure,
    [Next]_vars PROVE CleanersFollowFailure'
<1> USE UploadAssumption DEF TypeOK, RowsAgree, Fresh, CleanersFollowFailure,
       Open, RowTypes, DiskTypes, ProcessTypes, Processes, At, Holds, Goto,
       GoOn, GiveUp, Fails, Leave, TakeUp, Cleaned, Reclaim, Close,
       CompleteFailure, Deletable, Expired, DuplicateFailure, Waiting, rowVars,
       diskVars, procVars
<1>1. ASSUME NEW b \in Batches, NEW p \in Processes, Prepare(p, b)
      PROVE  CleanersFollowFailure'
  BY <1>1 DEF Prepare
<1>2. ASSUME NEW b \in Batches, NEW p \in Processes, Resume(p, b)
      PROVE  CleanersFollowFailure'
  BY <1>2 DEF Resume
<1>3. ASSUME NEW b \in Batches, NEW p \in Processes, Cancel(p, b)
      PROVE  CleanersFollowFailure'
  BY <1>3, CancelMoves, SMTT(30)
<1>4. ASSUME NEW b \in Batches, NEW p \in Processes, CleanDeleted(p, b)
      PROVE  CleanersFollowFailure'
  BY <1>4 DEF CleanDeleted
<1>5. ASSUME NEW b \in Batches, NEW p \in Processes, ExpireRecovery(p, b)
      PROVE  CleanersFollowFailure'
  BY <1>5 DEF ExpireRecovery
<1>6. ASSUME NEW b \in Batches, NEW p \in Processes, Claim(p, b)
      PROVE  CleanersFollowFailure'
  BY <1>6 DEF Claim
<1>7. ASSUME NEW b \in Batches, NEW p \in Processes, Inspect(p, b)
      PROVE  CleanersFollowFailure'
  BY <1>7 DEF Inspect
<1>8. ASSUME NEW b \in Batches, NEW p \in Processes, Receive(p, b)
      PROVE  CleanersFollowFailure'
  BY <1>8 DEF Receive
<1>9. ASSUME NEW b \in Batches, NEW p \in Processes, Stage(p, b)
      PROVE  CleanersFollowFailure'
  BY <1>9 DEF Stage
<1>10. ASSUME NEW b \in Batches, NEW p \in Processes, OpenPart(p, b)
      PROVE  CleanersFollowFailure'
  BY <1>10 DEF OpenPart
<1>11. ASSUME NEW b \in Batches, NEW p \in Processes, Refuse(p, b)
      PROVE  CleanersFollowFailure'
  BY <1>11 DEF Refuse
<1>12. ASSUME NEW b \in Batches, NEW p \in Processes, Renew(p, b)
      PROVE  CleanersFollowFailure'
  BY <1>12 DEF Renew
<1>13. ASSUME NEW b \in Batches, NEW p \in Processes, Link(p, b)
      PROVE  CleanersFollowFailure'
  BY <1>13 DEF Link
<1>14. ASSUME NEW b \in Batches, NEW p \in Processes, Record(p, b)
      PROVE  CleanersFollowFailure'
  BY <1>14 DEF Record
<1>15. ASSUME NEW b \in Batches, NEW p \in Processes, Check(p, b)
      PROVE  CleanersFollowFailure'
  BY <1>15 DEF Check
<1>16. ASSUME NEW b \in Batches, NEW p \in Processes, Secure(p, b)
      PROVE  CleanersFollowFailure'
  BY <1>16 DEF Secure
<1>17. ASSUME NEW b \in Batches, NEW p \in Processes, Promote(p, b)
      PROVE  CleanersFollowFailure'
  BY <1>17 DEF Promote
<1>18. ASSUME NEW b \in Batches, NEW p \in Processes, Place(p, b)
      PROVE  CleanersFollowFailure'
  BY <1>18 DEF Place
<1>19. ASSUME NEW b \in Batches, NEW p \in Processes, Unstage(p, b)
      PROVE  CleanersFollowFailure'
  BY <1>19 DEF Unstage
<1>20. ASSUME NEW b \in Batches, NEW p \in Processes, Promoted(p, b)
      PROVE  CleanersFollowFailure'
  BY <1>20 DEF Promoted
<1>21. ASSUME NEW b \in Batches, NEW p \in Processes, Publish(p, b)
      PROVE  CleanersFollowFailure'
  BY <1>21 DEF Publish
<1>22. ASSUME NEW b \in Batches, NEW p \in Processes, FailPrepared(p, b)
      PROVE  CleanersFollowFailure'
  BY <1>22 DEF FailPrepared
<1>23. ASSUME NEW b \in Batches, NEW p \in Processes, Reject(p, b)
      PROVE  CleanersFollowFailure'
  BY <1>23 DEF Reject
<1>24. ASSUME NEW b \in Batches, NEW p \in Processes, Throw(p, b)
      PROVE  CleanersFollowFailure'
  BY <1>24 DEF Throw
<1>25. ASSUME NEW b \in Batches, NEW p \in Processes, Mark(p, b)
      PROVE  CleanersFollowFailure'
  BY <1>25 DEF Mark
<1>26. ASSUME NEW b \in Batches, NEW p \in Processes, Clean(p, b)
      PROVE  CleanersFollowFailure'
  BY <1>26 DEF Clean
<1>27. ASSUME NEW b \in Batches, NEW p \in Processes, Erase(p, b)
      PROVE  CleanersFollowFailure'
  BY <1>27 DEF Erase
<1>28. ASSUME NEW b \in Batches, NEW p \in Processes, Erased(p, b)
      PROVE  CleanersFollowFailure'
  BY <1>28 DEF Erased
<1>29. ASSUME NEW b \in Batches, NEW p \in Processes, CleanThrows(p, b)
      PROVE  CleanersFollowFailure'
  BY <1>29 DEF CleanThrows
<1>30. ASSUME NEW b \in Batches, NEW p \in Processes, Untemp(p, b)
      PROVE  CleanersFollowFailure'
  BY <1>30 DEF Untemp
<1>31. ASSUME NEW b \in Batches, Lapse(b) PROVE CleanersFollowFailure'
  BY <1>31 DEF Lapse
<1>32. ASSUME NEW b \in Batches, RecoveryEnds(b) PROVE CleanersFollowFailure'
  BY <1>32 DEF RecoveryEnds
<1>33. ASSUME NEW p \in Processes, Crash(p) PROVE CleanersFollowFailure'
  BY <1>33 DEF Crash
<1>34. CASE UNCHANGED vars
  BY <1>34 DEF vars
<1>35. QED BY <1>1, <1>2, <1>3, <1>4, <1>5, <1>6, <1>7, <1>8, <1>9, <1>10,
    <1>11, <1>12, <1>13, <1>14, <1>15, <1>16, <1>17, <1>18, <1>19, <1>20,
    <1>21, <1>22, <1>23, <1>24, <1>25, <1>26, <1>27, <1>28, <1>29, <1>30,
    <1>31, <1>32, <1>33, <1>34 DEF Next, Poll, Work, CleanUp

\* Whoever takes over a lease removes the .part file of the last holder, and
\* only the holder comes to its link.
LEMMA LinkersKept == ASSUME TypeOK, RowsAgree, Fresh, LinkersHold,
    [Next]_vars PROVE LinkersHold'
<1> USE UploadAssumption DEF TypeOK, RowsAgree, Fresh, LinkersHold,
       Open, RowTypes, DiskTypes, ProcessTypes, Processes, At, Holds, Goto,
       GoOn, GiveUp, Fails, Leave, TakeUp, Cleaned, Reclaim, Close,
       CompleteFailure, Deletable, Expired, DuplicateFailure, Waiting, rowVars,
       diskVars, procVars
<1>1. ASSUME NEW b \in Batches, NEW p \in Processes, Prepare(p, b)
      PROVE  LinkersHold'
  BY <1>1 DEF Prepare
<1>2. ASSUME NEW b \in Batches, NEW p \in Processes, Resume(p, b)
      PROVE  LinkersHold'
  BY <1>2 DEF Resume
<1>3. ASSUME NEW b \in Batches, NEW p \in Processes, Cancel(p, b)
      PROVE  LinkersHold'
  BY <1>3, CancelMoves
<1>4. ASSUME NEW b \in Batches, NEW p \in Processes, CleanDeleted(p, b)
      PROVE  LinkersHold'
  BY <1>4 DEF CleanDeleted
<1>5. ASSUME NEW b \in Batches, NEW p \in Processes, ExpireRecovery(p, b)
      PROVE  LinkersHold'
  BY <1>5 DEF ExpireRecovery
<1>6. ASSUME NEW b \in Batches, NEW p \in Processes, Claim(p, b)
      PROVE  LinkersHold'
  BY <1>6 DEF Claim
<1>7. ASSUME NEW b \in Batches, NEW p \in Processes, Inspect(p, b)
      PROVE  LinkersHold'
  BY <1>7 DEF Inspect
<1>8. ASSUME NEW b \in Batches, NEW p \in Processes, Receive(p, b)
      PROVE  LinkersHold'
  BY <1>8 DEF Receive
<1>9. ASSUME NEW b \in Batches, NEW p \in Processes, Stage(p, b)
      PROVE  LinkersHold'
  BY <1>9 DEF Stage
<1>10. ASSUME NEW b \in Batches, NEW p \in Processes, OpenPart(p, b)
      PROVE  LinkersHold'
  BY <1>10 DEF OpenPart
<1>11. ASSUME NEW b \in Batches, NEW p \in Processes, Refuse(p, b)
      PROVE  LinkersHold'
  BY <1>11 DEF Refuse
<1>12. ASSUME NEW b \in Batches, NEW p \in Processes, Renew(p, b)
      PROVE  LinkersHold'
  BY <1>12 DEF Renew
<1>13. ASSUME NEW b \in Batches, NEW p \in Processes, Link(p, b)
      PROVE  LinkersHold'
  BY <1>13 DEF Link
<1>14. ASSUME NEW b \in Batches, NEW p \in Processes, Record(p, b)
      PROVE  LinkersHold'
  BY <1>14 DEF Record
<1>15. ASSUME NEW b \in Batches, NEW p \in Processes, Check(p, b)
      PROVE  LinkersHold'
  BY <1>15 DEF Check
<1>16. ASSUME NEW b \in Batches, NEW p \in Processes, Secure(p, b)
      PROVE  LinkersHold'
  BY <1>16 DEF Secure
<1>17. ASSUME NEW b \in Batches, NEW p \in Processes, Promote(p, b)
      PROVE  LinkersHold'
  BY <1>17 DEF Promote
<1>18. ASSUME NEW b \in Batches, NEW p \in Processes, Place(p, b)
      PROVE  LinkersHold'
  BY <1>18 DEF Place
<1>19. ASSUME NEW b \in Batches, NEW p \in Processes, Unstage(p, b)
      PROVE  LinkersHold'
  BY <1>19 DEF Unstage
<1>20. ASSUME NEW b \in Batches, NEW p \in Processes, Promoted(p, b)
      PROVE  LinkersHold'
  BY <1>20 DEF Promoted
<1>21. ASSUME NEW b \in Batches, NEW p \in Processes, Publish(p, b)
      PROVE  LinkersHold'
  BY <1>21 DEF Publish
<1>22. ASSUME NEW b \in Batches, NEW p \in Processes, FailPrepared(p, b)
      PROVE  LinkersHold'
  BY <1>22 DEF FailPrepared
<1>23. ASSUME NEW b \in Batches, NEW p \in Processes, Reject(p, b)
      PROVE  LinkersHold'
  BY <1>23 DEF Reject
<1>24. ASSUME NEW b \in Batches, NEW p \in Processes, Throw(p, b)
      PROVE  LinkersHold'
  BY <1>24 DEF Throw
<1>25. ASSUME NEW b \in Batches, NEW p \in Processes, Mark(p, b)
      PROVE  LinkersHold'
  BY <1>25 DEF Mark
<1>26. ASSUME NEW b \in Batches, NEW p \in Processes, Clean(p, b)
      PROVE  LinkersHold'
  BY <1>26 DEF Clean
<1>27. ASSUME NEW b \in Batches, NEW p \in Processes, Erase(p, b)
      PROVE  LinkersHold'
  BY <1>27 DEF Erase
<1>28. ASSUME NEW b \in Batches, NEW p \in Processes, Erased(p, b)
      PROVE  LinkersHold'
  BY <1>28 DEF Erased
<1>29. ASSUME NEW b \in Batches, NEW p \in Processes, CleanThrows(p, b)
      PROVE  LinkersHold'
  BY <1>29 DEF CleanThrows
<1>30. ASSUME NEW b \in Batches, NEW p \in Processes, Untemp(p, b)
      PROVE  LinkersHold'
  BY <1>30 DEF Untemp
<1>31. ASSUME NEW b \in Batches, Lapse(b) PROVE LinkersHold'
  BY <1>31 DEF Lapse
<1>32. ASSUME NEW b \in Batches, RecoveryEnds(b) PROVE LinkersHold'
  BY <1>32 DEF RecoveryEnds
<1>33. ASSUME NEW p \in Processes, Crash(p) PROVE LinkersHold'
  BY <1>33 DEF Crash
<1>34. CASE UNCHANGED vars
  BY <1>34 DEF vars
<1>35. QED BY <1>1, <1>2, <1>3, <1>4, <1>5, <1>6, <1>7, <1>8, <1>9, <1>10,
    <1>11, <1>12, <1>13, <1>14, <1>15, <1>16, <1>17, <1>18, <1>19, <1>20,
    <1>21, <1>22, <1>23, <1>24, <1>25, <1>26, <1>27, <1>28, <1>29, <1>30,
    <1>31, <1>32, <1>33, <1>34 DEF Next, Poll, Work, CleanUp

\* Only a process that found the final file in place goes by it.
LEMMA GoesByFinalKept == ASSUME TypeOK, GoesByFinal,
    [Next]_vars PROVE GoesByFinal'
<1> USE UploadAssumption DEF TypeOK, GoesByFinal, Open, RowTypes, DiskTypes,
       ProcessTypes, Processes, At, Holds, Goto, GoOn, GiveUp, Fails, Leave,
       TakeUp, Cleaned, Reclaim, Close, CompleteFailure, Deletable, Expired,
       DuplicateFailure, Waiting, rowVars, diskVars, procVars
<1>1. ASSUME NEW b \in Batches, NEW p \in Processes, Prepare(p, b)
      PROVE  GoesByFinal'
  BY <1>1 DEF Prepare
<1>2. ASSUME NEW b \in Batches, NEW p \in Processes, Resume(p, b)
      PROVE  GoesByFinal'
  BY <1>2 DEF Resume
<1>3. ASSUME NEW b \in Batches, NEW p \in Processes, Cancel(p, b)
      PROVE  GoesByFinal'
  BY <1>3, CancelMoves
<1>4. ASSUME NEW b \in Batches, NEW p \in Processes, CleanDeleted(p, b)
      PROVE  GoesByFinal'
  BY <1>4 DEF CleanDeleted
<1>5. ASSUME NEW b \in Batches, NEW p \in Processes, ExpireRecovery(p, b)
      PROVE  GoesByFinal'
  BY <1>5 DEF ExpireRecovery
<1>6. ASSUME NEW b \in Batches, NEW p \in Processes, Claim(p, b)
      PROVE  GoesByFinal'
  BY <1>6 DEF Claim
<1>7. ASSUME NEW b \in Batches, NEW p \in Processes, Inspect(p, b)
      PROVE  GoesByFinal'
  BY <1>7 DEF Inspect
<1>8. ASSUME NEW b \in Batches, NEW p \in Processes, Receive(p, b)
      PROVE  GoesByFinal'
  BY <1>8 DEF Receive
<1>9. ASSUME NEW b \in Batches, NEW p \in Processes, Stage(p, b)
      PROVE  GoesByFinal'
  BY <1>9 DEF Stage
<1>10. ASSUME NEW b \in Batches, NEW p \in Processes, OpenPart(p, b)
      PROVE  GoesByFinal'
  BY <1>10 DEF OpenPart
<1>11. ASSUME NEW b \in Batches, NEW p \in Processes, Refuse(p, b)
      PROVE  GoesByFinal'
  BY <1>11 DEF Refuse
<1>12. ASSUME NEW b \in Batches, NEW p \in Processes, Renew(p, b)
      PROVE  GoesByFinal'
  BY <1>12 DEF Renew
<1>13. ASSUME NEW b \in Batches, NEW p \in Processes, Link(p, b)
      PROVE  GoesByFinal'
  BY <1>13 DEF Link
<1>14. ASSUME NEW b \in Batches, NEW p \in Processes, Record(p, b)
      PROVE  GoesByFinal'
  BY <1>14 DEF Record
<1>15. ASSUME NEW b \in Batches, NEW p \in Processes, Check(p, b)
      PROVE  GoesByFinal'
  BY <1>15 DEF Check
<1>16. ASSUME NEW b \in Batches, NEW p \in Processes, Secure(p, b)
      PROVE  GoesByFinal'
  BY <1>16 DEF Secure
<1>17. ASSUME NEW b \in Batches, NEW p \in Processes, Promote(p, b)
      PROVE  GoesByFinal'
  BY <1>17 DEF Promote
<1>18. ASSUME NEW b \in Batches, NEW p \in Processes, Place(p, b)
      PROVE  GoesByFinal'
  BY <1>18 DEF Place
<1>19. ASSUME NEW b \in Batches, NEW p \in Processes, Unstage(p, b)
      PROVE  GoesByFinal'
  BY <1>19 DEF Unstage
<1>20. ASSUME NEW b \in Batches, NEW p \in Processes, Promoted(p, b)
      PROVE  GoesByFinal'
  BY <1>20 DEF Promoted
<1>21. ASSUME NEW b \in Batches, NEW p \in Processes, Publish(p, b)
      PROVE  GoesByFinal'
  BY <1>21 DEF Publish
<1>22. ASSUME NEW b \in Batches, NEW p \in Processes, FailPrepared(p, b)
      PROVE  GoesByFinal'
  BY <1>22 DEF FailPrepared
<1>23. ASSUME NEW b \in Batches, NEW p \in Processes, Reject(p, b)
      PROVE  GoesByFinal'
  BY <1>23 DEF Reject
<1>24. ASSUME NEW b \in Batches, NEW p \in Processes, Throw(p, b)
      PROVE  GoesByFinal'
  BY <1>24 DEF Throw
<1>25. ASSUME NEW b \in Batches, NEW p \in Processes, Mark(p, b)
      PROVE  GoesByFinal'
  BY <1>25 DEF Mark
<1>26. ASSUME NEW b \in Batches, NEW p \in Processes, Clean(p, b)
      PROVE  GoesByFinal'
  BY <1>26 DEF Clean
<1>27. ASSUME NEW b \in Batches, NEW p \in Processes, Erase(p, b)
      PROVE  GoesByFinal'
  BY <1>27 DEF Erase
<1>28. ASSUME NEW b \in Batches, NEW p \in Processes, Erased(p, b)
      PROVE  GoesByFinal'
  BY <1>28 DEF Erased
<1>29. ASSUME NEW b \in Batches, NEW p \in Processes, CleanThrows(p, b)
      PROVE  GoesByFinal'
  BY <1>29 DEF CleanThrows
<1>30. ASSUME NEW b \in Batches, NEW p \in Processes, Untemp(p, b)
      PROVE  GoesByFinal'
  BY <1>30 DEF Untemp
<1>31. ASSUME NEW b \in Batches, Lapse(b) PROVE GoesByFinal'
  BY <1>31 DEF Lapse
<1>32. ASSUME NEW b \in Batches, RecoveryEnds(b) PROVE GoesByFinal'
  BY <1>32 DEF RecoveryEnds
<1>33. ASSUME NEW p \in Processes, Crash(p) PROVE GoesByFinal'
  BY <1>33 DEF Crash
<1>34. CASE UNCHANGED vars
  BY <1>34 DEF vars
<1>35. QED BY <1>1, <1>2, <1>3, <1>4, <1>5, <1>6, <1>7, <1>8, <1>9, <1>10,
    <1>11, <1>12, <1>13, <1>14, <1>15, <1>16, <1>17, <1>18, <1>19, <1>20,
    <1>21, <1>22, <1>23, <1>24, <1>25, <1>26, <1>27, <1>28, <1>29, <1>30,
    <1>31, <1>32, <1>33, <1>34 DEF Next, Poll, Work, CleanUp

\* A process that stores a file has one.
LEMMA SeenIsAFileKept == ASSUME TypeOK, SeenIsAFile,
    [Next]_vars PROVE SeenIsAFile'
<1> USE UploadAssumption DEF TypeOK, SeenIsAFile, Open, RowTypes, DiskTypes,
       ProcessTypes, Processes, At, Holds, Goto, GoOn, GiveUp, Fails, Leave,
       TakeUp, Cleaned, Reclaim, Close, CompleteFailure, Deletable, Expired,
       DuplicateFailure, Waiting, rowVars, diskVars, procVars
<1>1. ASSUME NEW b \in Batches, NEW p \in Processes, Prepare(p, b)
      PROVE  SeenIsAFile'
  BY <1>1 DEF Prepare
<1>2. ASSUME NEW b \in Batches, NEW p \in Processes, Resume(p, b)
      PROVE  SeenIsAFile'
  BY <1>2 DEF Resume
<1>3. ASSUME NEW b \in Batches, NEW p \in Processes, Cancel(p, b)
      PROVE  SeenIsAFile'
  BY <1>3, CancelMoves
<1>4. ASSUME NEW b \in Batches, NEW p \in Processes, CleanDeleted(p, b)
      PROVE  SeenIsAFile'
  BY <1>4 DEF CleanDeleted
<1>5. ASSUME NEW b \in Batches, NEW p \in Processes, ExpireRecovery(p, b)
      PROVE  SeenIsAFile'
  BY <1>5 DEF ExpireRecovery
<1>6. ASSUME NEW b \in Batches, NEW p \in Processes, Claim(p, b)
      PROVE  SeenIsAFile'
  BY <1>6 DEF Claim
<1>7. ASSUME NEW b \in Batches, NEW p \in Processes, Inspect(p, b)
      PROVE  SeenIsAFile'
  BY <1>7 DEF Inspect
<1>8. ASSUME NEW b \in Batches, NEW p \in Processes, Receive(p, b)
      PROVE  SeenIsAFile'
  BY <1>8 DEF Receive
<1>9. ASSUME NEW b \in Batches, NEW p \in Processes, Stage(p, b)
      PROVE  SeenIsAFile'
  BY <1>9 DEF Stage
<1>10. ASSUME NEW b \in Batches, NEW p \in Processes, OpenPart(p, b)
      PROVE  SeenIsAFile'
  BY <1>10 DEF OpenPart
<1>11. ASSUME NEW b \in Batches, NEW p \in Processes, Refuse(p, b)
      PROVE  SeenIsAFile'
  BY <1>11 DEF Refuse
<1>12. ASSUME NEW b \in Batches, NEW p \in Processes, Renew(p, b)
      PROVE  SeenIsAFile'
  BY <1>12 DEF Renew
<1>13. ASSUME NEW b \in Batches, NEW p \in Processes, Link(p, b)
      PROVE  SeenIsAFile'
  BY <1>13 DEF Link
<1>14. ASSUME NEW b \in Batches, NEW p \in Processes, Record(p, b)
      PROVE  SeenIsAFile'
  BY <1>14 DEF Record
<1>15. ASSUME NEW b \in Batches, NEW p \in Processes, Check(p, b)
      PROVE  SeenIsAFile'
  BY <1>15 DEF Check
<1>16. ASSUME NEW b \in Batches, NEW p \in Processes, Secure(p, b)
      PROVE  SeenIsAFile'
  BY <1>16 DEF Secure
<1>17. ASSUME NEW b \in Batches, NEW p \in Processes, Promote(p, b)
      PROVE  SeenIsAFile'
  BY <1>17 DEF Promote
<1>18. ASSUME NEW b \in Batches, NEW p \in Processes, Place(p, b)
      PROVE  SeenIsAFile'
  BY <1>18 DEF Place
<1>19. ASSUME NEW b \in Batches, NEW p \in Processes, Unstage(p, b)
      PROVE  SeenIsAFile'
  BY <1>19 DEF Unstage
<1>20. ASSUME NEW b \in Batches, NEW p \in Processes, Promoted(p, b)
      PROVE  SeenIsAFile'
  BY <1>20 DEF Promoted
<1>21. ASSUME NEW b \in Batches, NEW p \in Processes, Publish(p, b)
      PROVE  SeenIsAFile'
  BY <1>21 DEF Publish
<1>22. ASSUME NEW b \in Batches, NEW p \in Processes, FailPrepared(p, b)
      PROVE  SeenIsAFile'
  BY <1>22 DEF FailPrepared
<1>23. ASSUME NEW b \in Batches, NEW p \in Processes, Reject(p, b)
      PROVE  SeenIsAFile'
  BY <1>23 DEF Reject
<1>24. ASSUME NEW b \in Batches, NEW p \in Processes, Throw(p, b)
      PROVE  SeenIsAFile'
  BY <1>24 DEF Throw
<1>25. ASSUME NEW b \in Batches, NEW p \in Processes, Mark(p, b)
      PROVE  SeenIsAFile'
  BY <1>25 DEF Mark
<1>26. ASSUME NEW b \in Batches, NEW p \in Processes, Clean(p, b)
      PROVE  SeenIsAFile'
  BY <1>26 DEF Clean
<1>27. ASSUME NEW b \in Batches, NEW p \in Processes, Erase(p, b)
      PROVE  SeenIsAFile'
  BY <1>27 DEF Erase
<1>28. ASSUME NEW b \in Batches, NEW p \in Processes, Erased(p, b)
      PROVE  SeenIsAFile'
  BY <1>28 DEF Erased
<1>29. ASSUME NEW b \in Batches, NEW p \in Processes, CleanThrows(p, b)
      PROVE  SeenIsAFile'
  BY <1>29 DEF CleanThrows
<1>30. ASSUME NEW b \in Batches, NEW p \in Processes, Untemp(p, b)
      PROVE  SeenIsAFile'
  BY <1>30 DEF Untemp
<1>31. ASSUME NEW b \in Batches, Lapse(b) PROVE SeenIsAFile'
  BY <1>31 DEF Lapse
<1>32. ASSUME NEW b \in Batches, RecoveryEnds(b) PROVE SeenIsAFile'
  BY <1>32 DEF RecoveryEnds
<1>33. ASSUME NEW p \in Processes, Crash(p) PROVE SeenIsAFile'
  BY <1>33 DEF Crash
<1>34. CASE UNCHANGED vars
  BY <1>34 DEF vars
<1>35. QED BY <1>1, <1>2, <1>3, <1>4, <1>5, <1>6, <1>7, <1>8, <1>9, <1>10,
    <1>11, <1>12, <1>13, <1>14, <1>15, <1>16, <1>17, <1>18, <1>19, <1>20,
    <1>21, <1>22, <1>23, <1>24, <1>25, <1>26, <1>27, <1>28, <1>29, <1>30,
    <1>31, <1>32, <1>33, <1>34 DEF Next, Poll, Work, CleanUp

\* What a process has seen in the final place stays there: a link never
\* overwrites, and a deletion follows a failure.
LEMMA SeenIsPlacedKept == ASSUME TypeOK, RowsAgree, Fresh,
    CleanersFollowFailure, GoesByFinal, SeenIsAFile, SeenIsPlaced,
    [Next]_vars PROVE SeenIsPlaced'
<1> USE UploadAssumption DEF TypeOK, RowsAgree, Fresh, CleanersFollowFailure,
       GoesByFinal, SeenIsAFile, SeenIsPlaced, Open, RowTypes, DiskTypes,
       ProcessTypes, Processes, At, Holds, Goto, GoOn, GiveUp, Fails, Leave,
       TakeUp, Cleaned, Reclaim, Close, CompleteFailure, Deletable, Expired,
       DuplicateFailure, Waiting, rowVars, diskVars, procVars
<1>1. ASSUME NEW b \in Batches, NEW p \in Processes, Prepare(p, b)
      PROVE  SeenIsPlaced'
  BY <1>1 DEF Prepare
<1>2. ASSUME NEW b \in Batches, NEW p \in Processes, Resume(p, b)
      PROVE  SeenIsPlaced'
  BY <1>2 DEF Resume
<1>3. ASSUME NEW b \in Batches, NEW p \in Processes, Cancel(p, b)
      PROVE  SeenIsPlaced'
  <2> SUFFICES ASSUME NEW q \in Processes, NEW d \in Batches, job'[q] = d,
                      where'[q] = "FINAL" \/ pc'[q] \in {"promoted", "publish"}
               PROVE  phase'[d] = "FAILED" \/ (final'[d] = seen'[q] /\ seen'[q] \in Contents)
    OBVIOUS
  <2>1. CASE q = p /\ batch[b] # "CREATED"
    <3>1. pc[p] = "idle" /\ pc'[p] \in {"clean", "untemp"} /\ where' = where
      BY <1>3, <2>1, CancelMoves
    <3> QED BY <2>1, <3>1
  <2>2. CASE q # p \/ batch[b] = "CREATED"
    <3>1. /\ job'[q] = job[q] /\ pc'[q] = pc[q]
          /\ UNCHANGED <<where, seen, final>>
      BY <1>3, <2>2, CancelMoves
    <3>2. phase'[d] \in {phase[d], "FAILED"}
      BY <1>3, CancelMoves
    <3> QED BY <3>1, <3>2
  <2> QED BY <2>1, <2>2
<1>4. ASSUME NEW b \in Batches, NEW p \in Processes, CleanDeleted(p, b)
      PROVE  SeenIsPlaced'
  BY <1>4 DEF CleanDeleted
<1>5. ASSUME NEW b \in Batches, NEW p \in Processes, ExpireRecovery(p, b)
      PROVE  SeenIsPlaced'
  BY <1>5 DEF ExpireRecovery
<1>6. ASSUME NEW b \in Batches, NEW p \in Processes, Claim(p, b)
      PROVE  SeenIsPlaced'
  BY <1>6 DEF Claim
<1>7. ASSUME NEW b \in Batches, NEW p \in Processes, Inspect(p, b)
      PROVE  SeenIsPlaced'
  BY <1>7 DEF Inspect
<1>8. ASSUME NEW b \in Batches, NEW p \in Processes, Receive(p, b)
      PROVE  SeenIsPlaced'
  BY <1>8 DEF Receive
<1>9. ASSUME NEW b \in Batches, NEW p \in Processes, Stage(p, b)
      PROVE  SeenIsPlaced'
  BY <1>9 DEF Stage
<1>10. ASSUME NEW b \in Batches, NEW p \in Processes, OpenPart(p, b)
      PROVE  SeenIsPlaced'
  BY <1>10 DEF OpenPart
<1>11. ASSUME NEW b \in Batches, NEW p \in Processes, Refuse(p, b)
      PROVE  SeenIsPlaced'
  BY <1>11 DEF Refuse
<1>12. ASSUME NEW b \in Batches, NEW p \in Processes, Renew(p, b)
      PROVE  SeenIsPlaced'
  BY <1>12 DEF Renew
<1>13. ASSUME NEW b \in Batches, NEW p \in Processes, Link(p, b)
      PROVE  SeenIsPlaced'
  BY <1>13 DEF Link
<1>14. ASSUME NEW b \in Batches, NEW p \in Processes, Record(p, b)
      PROVE  SeenIsPlaced'
  BY <1>14 DEF Record
<1>15. ASSUME NEW b \in Batches, NEW p \in Processes, Check(p, b)
      PROVE  SeenIsPlaced'
  BY <1>15 DEF Check
<1>16. ASSUME NEW b \in Batches, NEW p \in Processes, Secure(p, b)
      PROVE  SeenIsPlaced'
  BY <1>16, SMTT(30) DEF Secure
<1>17. ASSUME NEW b \in Batches, NEW p \in Processes, Promote(p, b)
      PROVE  SeenIsPlaced'
  BY <1>17 DEF Promote
<1>18. ASSUME NEW b \in Batches, NEW p \in Processes, Place(p, b)
      PROVE  SeenIsPlaced'
  BY <1>18 DEF Place
<1>19. ASSUME NEW b \in Batches, NEW p \in Processes, Unstage(p, b)
      PROVE  SeenIsPlaced'
  BY <1>19 DEF Unstage
<1>20. ASSUME NEW b \in Batches, NEW p \in Processes, Promoted(p, b)
      PROVE  SeenIsPlaced'
  BY <1>20 DEF Promoted
<1>21. ASSUME NEW b \in Batches, NEW p \in Processes, Publish(p, b)
      PROVE  SeenIsPlaced'
  BY <1>21 DEF Publish
<1>22. ASSUME NEW b \in Batches, NEW p \in Processes, FailPrepared(p, b)
      PROVE  SeenIsPlaced'
  BY <1>22 DEF FailPrepared
<1>23. ASSUME NEW b \in Batches, NEW p \in Processes, Reject(p, b)
      PROVE  SeenIsPlaced'
  BY <1>23, SMTT(30) DEF Reject
<1>24. ASSUME NEW b \in Batches, NEW p \in Processes, Throw(p, b)
      PROVE  SeenIsPlaced'
  BY <1>24 DEF Throw
<1>25. ASSUME NEW b \in Batches, NEW p \in Processes, Mark(p, b)
      PROVE  SeenIsPlaced'
  BY <1>25 DEF Mark
<1>26. ASSUME NEW b \in Batches, NEW p \in Processes, Clean(p, b)
      PROVE  SeenIsPlaced'
  BY <1>26 DEF Clean
<1>27. ASSUME NEW b \in Batches, NEW p \in Processes, Erase(p, b)
      PROVE  SeenIsPlaced'
  BY <1>27 DEF Erase
<1>28. ASSUME NEW b \in Batches, NEW p \in Processes, Erased(p, b)
      PROVE  SeenIsPlaced'
  BY <1>28 DEF Erased
<1>29. ASSUME NEW b \in Batches, NEW p \in Processes, CleanThrows(p, b)
      PROVE  SeenIsPlaced'
  BY <1>29 DEF CleanThrows
<1>30. ASSUME NEW b \in Batches, NEW p \in Processes, Untemp(p, b)
      PROVE  SeenIsPlaced'
  BY <1>30 DEF Untemp
<1>31. ASSUME NEW b \in Batches, Lapse(b) PROVE SeenIsPlaced'
  BY <1>31 DEF Lapse
<1>32. ASSUME NEW b \in Batches, RecoveryEnds(b) PROVE SeenIsPlaced'
  BY <1>32 DEF RecoveryEnds
<1>33. ASSUME NEW p \in Processes, Crash(p) PROVE SeenIsPlaced'
  BY <1>33 DEF Crash
<1>34. CASE UNCHANGED vars
  BY <1>34 DEF vars
<1>35. QED BY <1>1, <1>2, <1>3, <1>4, <1>5, <1>6, <1>7, <1>8, <1>9, <1>10,
    <1>11, <1>12, <1>13, <1>14, <1>15, <1>16, <1>17, <1>18, <1>19, <1>20,
    <1>21, <1>22, <1>23, <1>24, <1>25, <1>26, <1>27, <1>28, <1>29, <1>30,
    <1>31, <1>32, <1>33, <1>34 DEF Next, Poll, Work, CleanUp

\* What the holder of the lease has seen is what is staged and recorded: a
\* process that lost its lease has no .part file left to link.
LEMMA HolderIsRightKept == ASSUME TypeOK, RowsAgree, Fresh, LinkersHold,
    GoesByFinal, SeenIsPlaced, HolderIsRight, [Next]_vars PROVE HolderIsRight'
<1> USE UploadAssumption DEF TypeOK, RowTypes, DiskTypes, ProcessTypes,
       RowsAgree, Fresh, LinkersHold, GoesByFinal, SeenIsPlaced,
       HolderIsRight, RightFor, Open, Processes, At, Holds, Goto, GoOn, GiveUp,
       Fails, Leave, TakeUp, Cleaned, Reclaim, Close, CompleteFailure,
       Deletable, Expired, Waiting, rowVars, diskVars, procVars
<1>1. ASSUME NEW b \in Batches, NEW p \in Processes, Prepare(p, b)
      PROVE  HolderIsRight'
  BY <1>1 DEF Prepare
<1>2. ASSUME NEW b \in Batches, NEW p \in Processes, Resume(p, b)
      PROVE  HolderIsRight'
  BY <1>2 DEF Resume
<1>3. ASSUME NEW b \in Batches, NEW p \in Processes, Cancel(p, b)
      PROVE  HolderIsRight'
  BY <1>3, CancelMoves, SMTT(30)
<1>4. ASSUME NEW b \in Batches, NEW p \in Processes, CleanDeleted(p, b)
      PROVE  HolderIsRight'
  BY <1>4 DEF CleanDeleted
<1>5. ASSUME NEW b \in Batches, NEW p \in Processes, ExpireRecovery(p, b)
      PROVE  HolderIsRight'
  BY <1>5 DEF ExpireRecovery
<1>6. ASSUME NEW b \in Batches, NEW p \in Processes, Claim(p, b)
      PROVE  HolderIsRight'
  BY <1>6 DEF Claim
<1>7. ASSUME NEW b \in Batches, NEW p \in Processes, Inspect(p, b)
      PROVE  HolderIsRight'
  BY <1>7 DEF Inspect
<1>8. ASSUME NEW b \in Batches, NEW p \in Processes, Receive(p, b)
      PROVE  HolderIsRight'
  BY <1>8 DEF Receive
<1>9. ASSUME NEW b \in Batches, NEW p \in Processes, Stage(p, b)
      PROVE  HolderIsRight'
  BY <1>9 DEF Stage
<1>10. ASSUME NEW b \in Batches, NEW p \in Processes, OpenPart(p, b)
      PROVE  HolderIsRight'
  BY <1>10 DEF OpenPart
<1>11. ASSUME NEW b \in Batches, NEW p \in Processes, Refuse(p, b)
      PROVE  HolderIsRight'
  BY <1>11 DEF Refuse
<1>12. ASSUME NEW b \in Batches, NEW p \in Processes, Renew(p, b)
      PROVE  HolderIsRight'
  BY <1>12 DEF Renew
<1>13. ASSUME NEW b \in Batches, NEW p \in Processes, Link(p, b)
      PROVE  HolderIsRight'
  BY <1>13 DEF Link
<1>14. ASSUME NEW b \in Batches, NEW p \in Processes, Record(p, b)
      PROVE  HolderIsRight'
  BY <1>14, SMTT(30) DEF Record
<1>15. ASSUME NEW b \in Batches, NEW p \in Processes, Check(p, b)
      PROVE  HolderIsRight'
  BY <1>15 DEF Check
<1>16. ASSUME NEW b \in Batches, NEW p \in Processes, Secure(p, b)
      PROVE  HolderIsRight'
  <2>1. CASE DuplicateFailure(b)
    BY <1>16, <2>1, SMTT(30) DEF Secure
  <2>2. CASE ~DuplicateFailure(b)
    BY <1>16, <2>2 DEF Secure
  <2> QED BY <2>1, <2>2
<1>17. ASSUME NEW b \in Batches, NEW p \in Processes, Promote(p, b)
      PROVE  HolderIsRight'
  BY <1>17 DEF Promote
<1>18. ASSUME NEW b \in Batches, NEW p \in Processes, Place(p, b)
      PROVE  HolderIsRight'
  BY <1>18 DEF Place
<1>19. ASSUME NEW b \in Batches, NEW p \in Processes, Unstage(p, b)
      PROVE  HolderIsRight'
  BY <1>19 DEF Unstage
<1>20. ASSUME NEW b \in Batches, NEW p \in Processes, Promoted(p, b)
      PROVE  HolderIsRight'
  BY <1>20 DEF Promoted
<1>21. ASSUME NEW b \in Batches, NEW p \in Processes, Publish(p, b)
      PROVE  HolderIsRight'
  <2>1. CASE DuplicateFailure(b)
    BY <1>21, <2>1 DEF Publish
  <2>2. CASE ~DuplicateFailure(b)
    <3> SUFFICES ASSUME NEW q \in Processes, NEW d \in Batches,
                        job'[q] = d, pending'[d], holder'[d] = q
                 PROVE  RightFor(q, d)'
      OBVIOUS
    <3>1. d # b /\ q # p
      BY <1>21, <2>2 DEF Publish
    <3>2. UNCHANGED <<pc[q], seen[q], where[q], staging[d], recorded[d]>>
      BY <1>21, <2>2, <3>1 DEF Publish
    <3>3. job[q] = d /\ pending[d] /\ holder[d] = q
      BY <1>21, <2>2, <3>1 DEF Publish
    <3>4. RightFor(q, d)
      BY <3>3
    <3> QED BY <3>2, <3>4
  <2> QED BY <2>1, <2>2
<1>22. ASSUME NEW b \in Batches, NEW p \in Processes, FailPrepared(p, b)
      PROVE  HolderIsRight'
  BY <1>22, SMTT(30) DEF FailPrepared
<1>23. ASSUME NEW b \in Batches, NEW p \in Processes, Reject(p, b)
      PROVE  HolderIsRight'
  BY <1>23, SMTT(30) DEF Reject
<1>24. ASSUME NEW b \in Batches, NEW p \in Processes, Throw(p, b)
      PROVE  HolderIsRight'
  BY <1>24 DEF Throw
<1>25. ASSUME NEW b \in Batches, NEW p \in Processes, Mark(p, b)
      PROVE  HolderIsRight'
  BY <1>25 DEF Mark
<1>26. ASSUME NEW b \in Batches, NEW p \in Processes, Clean(p, b)
      PROVE  HolderIsRight'
  BY <1>26 DEF Clean
<1>27. ASSUME NEW b \in Batches, NEW p \in Processes, Erase(p, b)
      PROVE  HolderIsRight'
  BY <1>27 DEF Erase
<1>28. ASSUME NEW b \in Batches, NEW p \in Processes, Erased(p, b)
      PROVE  HolderIsRight'
  BY <1>28 DEF Erased
<1>29. ASSUME NEW b \in Batches, NEW p \in Processes, CleanThrows(p, b)
      PROVE  HolderIsRight'
  BY <1>29 DEF CleanThrows
<1>30. ASSUME NEW b \in Batches, NEW p \in Processes, Untemp(p, b)
      PROVE  HolderIsRight'
  BY <1>30 DEF Untemp
<1>31. ASSUME NEW b \in Batches, Lapse(b) PROVE HolderIsRight'
  BY <1>31 DEF Lapse
<1>32. ASSUME NEW b \in Batches, RecoveryEnds(b) PROVE HolderIsRight'
  BY <1>32 DEF RecoveryEnds
<1>33. ASSUME NEW p \in Processes, Crash(p) PROVE HolderIsRight'
  BY <1>33 DEF Crash
<1>34. CASE UNCHANGED vars
  BY <1>34 DEF vars
<1> HIDE DEF TypeOK, RowTypes, DiskTypes, ProcessTypes, RowsAgree, Fresh,
       LinkersHold, GoesByFinal, SeenIsPlaced, HolderIsRight, RightFor, Open, At,
       Holds, Goto, GoOn, GiveUp, Fails, Leave, TakeUp, Cleaned, Reclaim, Close,
       CompleteFailure, Deletable, Expired, Waiting, rowVars, diskVars, procVars
<1>35. QED BY <1>1, <1>2, <1>3, <1>4, <1>5, <1>6, <1>7, <1>8, <1>9, <1>10,
    <1>11, <1>12, <1>13, <1>14, <1>15, <1>16, <1>17, <1>18, <1>19, <1>20,
    <1>21, <1>22, <1>23, <1>24, <1>25, <1>26, <1>27, <1>28, <1>29, <1>30,
    <1>31, <1>32, <1>33, <1>34 DEF Next, Poll, Work, CleanUp

\* An upload passes the security check with the content that was declared.
LEMMA CheckedIsDeclaredKept == ASSUME TypeOK, RowsAgree, HolderIsRight,
    CheckedIsDeclared, [Next]_vars PROVE CheckedIsDeclared'
<1> USE UploadAssumption DEF TypeOK, RowTypes, RowsAgree, HolderIsRight,
       RightFor, CheckedIsDeclared, Open, Processes, At, Holds, Reclaim, Close,
       CompleteFailure, Deletable, Expired, Waiting, rowVars
<1>1. ASSUME NEW b \in Batches, NEW p \in Processes, Prepare(p, b)
      PROVE  CheckedIsDeclared'
  BY <1>1 DEF Prepare
<1>2. ASSUME NEW b \in Batches, NEW p \in Processes, Resume(p, b)
      PROVE  CheckedIsDeclared'
  BY <1>2 DEF Resume
<1>3. ASSUME NEW b \in Batches, NEW p \in Processes, Cancel(p, b)
      PROVE  CheckedIsDeclared'
  BY <1>3, CancelMoves
<1>4. ASSUME NEW b \in Batches, NEW p \in Processes, ExpireRecovery(p, b)
      PROVE  CheckedIsDeclared'
  BY <1>4 DEF ExpireRecovery
<1>5. ASSUME NEW b \in Batches, NEW p \in Processes, Claim(p, b)
      PROVE  CheckedIsDeclared'
  BY <1>5 DEF Claim
<1>6. ASSUME NEW b \in Batches, NEW p \in Processes, Record(p, b)
      PROVE  CheckedIsDeclared'
  BY <1>6 DEF Record
<1>7. ASSUME NEW b \in Batches, NEW p \in Processes, Secure(p, b)
      PROVE  CheckedIsDeclared'
  <2>1. CASE DuplicateFailure(b)
    BY <1>7, <2>1 DEF Secure
  <2>2. CASE ~DuplicateFailure(b)
    BY <1>7, <2>2 DEF Secure
  <2> QED BY <2>1, <2>2
<1>8. ASSUME NEW b \in Batches, NEW p \in Processes, Promoted(p, b)
      PROVE  CheckedIsDeclared'
  BY <1>8 DEF Promoted
<1>9. ASSUME NEW b \in Batches, NEW p \in Processes, Publish(p, b)
      PROVE  CheckedIsDeclared'
  <2>1. CASE DuplicateFailure(b)
    BY <1>9, <2>1 DEF Publish
  <2>2. CASE ~DuplicateFailure(b)
    BY <1>9, <2>2 DEF Publish
  <2> QED BY <2>1, <2>2
<1>10. ASSUME NEW b \in Batches, NEW p \in Processes, Reject(p, b)
      PROVE  CheckedIsDeclared'
  BY <1>10 DEF Reject
<1>11. ASSUME NEW b \in Batches, NEW p \in Processes, Mark(p, b)
      PROVE  CheckedIsDeclared'
  BY <1>11 DEF Mark
<1>12. ASSUME NEW b \in Batches, NEW p \in Processes, Clean(p, b)
      PROVE  CheckedIsDeclared'
  BY <1>12 DEF Clean
<1>13. ASSUME NEW b \in Batches, NEW p \in Processes, Erased(p, b)
      PROVE  CheckedIsDeclared'
  BY <1>13 DEF Erased
<1>14. ASSUME NEW b \in Batches, Lapse(b) PROVE CheckedIsDeclared'
  BY <1>14 DEF Lapse
<1>15. ASSUME NEW b \in Batches, RecoveryEnds(b) PROVE CheckedIsDeclared'
  BY <1>15 DEF RecoveryEnds
<1>16. CASE UNCHANGED rowVars
  BY <1>16
<1>17. QED BY <1>1, <1>2, <1>3, <1>4, <1>5, <1>6, <1>7, <1>8, <1>9, <1>10,
    <1>11, <1>12, <1>13, <1>14, <1>15, <1>16, RowsMoveByFew DEF RowStep

\* A published file was in its place when it was published, and stays.
LEMMA ReadyFileKept == ASSUME TypeOK, RowsAgree, CleanersFollowFailure,
    SeenIsPlaced, CheckedIsDeclared, ReadyFileIsThere,
    [Next]_vars PROVE ReadyFileIsThere'
<1> USE UploadAssumption DEF TypeOK, RowsAgree, CleanersFollowFailure,
       SeenIsPlaced, CheckedIsDeclared, ReadyFileIsThere, Open, RowTypes,
       DiskTypes, ProcessTypes, Processes, At, Holds, Goto, GoOn, GiveUp,
       Fails, Leave, TakeUp, Cleaned, Reclaim, Close, CompleteFailure,
       Deletable, Expired, Waiting, rowVars, diskVars, procVars
<1>1. ASSUME NEW b \in Batches, NEW p \in Processes, Prepare(p, b)
      PROVE  ReadyFileIsThere'
  BY <1>1 DEF Prepare
<1>2. ASSUME NEW b \in Batches, NEW p \in Processes, Resume(p, b)
      PROVE  ReadyFileIsThere'
  BY <1>2 DEF Resume
<1>3. ASSUME NEW b \in Batches, NEW p \in Processes, Cancel(p, b)
      PROVE  ReadyFileIsThere'
  BY <1>3, CancelMoves
<1>4. ASSUME NEW b \in Batches, NEW p \in Processes, CleanDeleted(p, b)
      PROVE  ReadyFileIsThere'
  BY <1>4 DEF CleanDeleted
<1>5. ASSUME NEW b \in Batches, NEW p \in Processes, ExpireRecovery(p, b)
      PROVE  ReadyFileIsThere'
  BY <1>5 DEF ExpireRecovery
<1>6. ASSUME NEW b \in Batches, NEW p \in Processes, Claim(p, b)
      PROVE  ReadyFileIsThere'
  BY <1>6 DEF Claim
<1>7. ASSUME NEW b \in Batches, NEW p \in Processes, Inspect(p, b)
      PROVE  ReadyFileIsThere'
  BY <1>7 DEF Inspect
<1>8. ASSUME NEW b \in Batches, NEW p \in Processes, Receive(p, b)
      PROVE  ReadyFileIsThere'
  BY <1>8 DEF Receive
<1>9. ASSUME NEW b \in Batches, NEW p \in Processes, Stage(p, b)
      PROVE  ReadyFileIsThere'
  BY <1>9 DEF Stage
<1>10. ASSUME NEW b \in Batches, NEW p \in Processes, OpenPart(p, b)
      PROVE  ReadyFileIsThere'
  BY <1>10 DEF OpenPart
<1>11. ASSUME NEW b \in Batches, NEW p \in Processes, Refuse(p, b)
      PROVE  ReadyFileIsThere'
  BY <1>11 DEF Refuse
<1>12. ASSUME NEW b \in Batches, NEW p \in Processes, Renew(p, b)
      PROVE  ReadyFileIsThere'
  BY <1>12 DEF Renew
<1>13. ASSUME NEW b \in Batches, NEW p \in Processes, Link(p, b)
      PROVE  ReadyFileIsThere'
  BY <1>13 DEF Link
<1>14. ASSUME NEW b \in Batches, NEW p \in Processes, Record(p, b)
      PROVE  ReadyFileIsThere'
  BY <1>14 DEF Record
<1>15. ASSUME NEW b \in Batches, NEW p \in Processes, Check(p, b)
      PROVE  ReadyFileIsThere'
  BY <1>15 DEF Check
<1>16. ASSUME NEW b \in Batches, NEW p \in Processes, Secure(p, b)
      PROVE  ReadyFileIsThere'
  <2>1. CASE DuplicateFailure(b)
    BY <1>16, <2>1 DEF Secure
  <2>2. CASE ~DuplicateFailure(b)
    BY <1>16, <2>2 DEF Secure
  <2> QED BY <2>1, <2>2
<1>17. ASSUME NEW b \in Batches, NEW p \in Processes, Promote(p, b)
      PROVE  ReadyFileIsThere'
  BY <1>17 DEF Promote
<1>18. ASSUME NEW b \in Batches, NEW p \in Processes, Place(p, b)
      PROVE  ReadyFileIsThere'
  BY <1>18 DEF Place
<1>19. ASSUME NEW b \in Batches, NEW p \in Processes, Unstage(p, b)
      PROVE  ReadyFileIsThere'
  BY <1>19 DEF Unstage
<1>20. ASSUME NEW b \in Batches, NEW p \in Processes, Promoted(p, b)
      PROVE  ReadyFileIsThere'
  BY <1>20 DEF Promoted
<1>21. ASSUME NEW b \in Batches, NEW p \in Processes, Publish(p, b)
      PROVE  ReadyFileIsThere'
  <2>1. CASE DuplicateFailure(b)
    BY <1>21, <2>1 DEF Publish
  <2>2. CASE ~DuplicateFailure(b)
    BY <1>21, <2>2 DEF Publish
  <2> QED BY <2>1, <2>2
<1>22. ASSUME NEW b \in Batches, NEW p \in Processes, FailPrepared(p, b)
      PROVE  ReadyFileIsThere'
  BY <1>22 DEF FailPrepared
<1>23. ASSUME NEW b \in Batches, NEW p \in Processes, Reject(p, b)
      PROVE  ReadyFileIsThere'
  BY <1>23 DEF Reject
<1>24. ASSUME NEW b \in Batches, NEW p \in Processes, Throw(p, b)
      PROVE  ReadyFileIsThere'
  BY <1>24 DEF Throw
<1>25. ASSUME NEW b \in Batches, NEW p \in Processes, Mark(p, b)
      PROVE  ReadyFileIsThere'
  BY <1>25 DEF Mark
<1>26. ASSUME NEW b \in Batches, NEW p \in Processes, Clean(p, b)
      PROVE  ReadyFileIsThere'
  BY <1>26 DEF Clean
<1>27. ASSUME NEW b \in Batches, NEW p \in Processes, Erase(p, b)
      PROVE  ReadyFileIsThere'
  BY <1>27 DEF Erase
<1>28. ASSUME NEW b \in Batches, NEW p \in Processes, Erased(p, b)
      PROVE  ReadyFileIsThere'
  BY <1>28 DEF Erased
<1>29. ASSUME NEW b \in Batches, NEW p \in Processes, CleanThrows(p, b)
      PROVE  ReadyFileIsThere'
  BY <1>29 DEF CleanThrows
<1>30. ASSUME NEW b \in Batches, NEW p \in Processes, Untemp(p, b)
      PROVE  ReadyFileIsThere'
  BY <1>30 DEF Untemp
<1>31. ASSUME NEW b \in Batches, Lapse(b) PROVE ReadyFileIsThere'
  BY <1>31 DEF Lapse
<1>32. ASSUME NEW b \in Batches, RecoveryEnds(b) PROVE ReadyFileIsThere'
  BY <1>32 DEF RecoveryEnds
<1>33. ASSUME NEW p \in Processes, Crash(p) PROVE ReadyFileIsThere'
  BY <1>33 DEF Crash
<1>34. CASE UNCHANGED vars
  BY <1>34 DEF vars
<1>35. QED BY <1>1, <1>2, <1>3, <1>4, <1>5, <1>6, <1>7, <1>8, <1>9, <1>10,
    <1>11, <1>12, <1>13, <1>14, <1>15, <1>16, <1>17, <1>18, <1>19, <1>20,
    <1>21, <1>22, <1>23, <1>24, <1>25, <1>26, <1>27, <1>28, <1>29, <1>30,
    <1>31, <1>32, <1>33, <1>34 DEF Next, Poll, Work, CleanUp

\* Publishing looks for another published file with the same content, and
\* what is published is not recorded anew.
LEMMA OneFileKept == ASSUME TypeOK, RowsAgree, OneFilePerContent,
    [Next]_vars PROVE OneFilePerContent'
<1> USE UploadAssumption DEF TypeOK, RowsAgree, OneFilePerContent, Open,
       RowTypes, DiskTypes, ProcessTypes, Processes, At, Holds, Reclaim, Close,
       CompleteFailure, Deletable, Expired, DuplicateFailure, Waiting, rowVars
<1>1. ASSUME NEW b \in Batches, NEW p \in Processes, Prepare(p, b)
      PROVE  OneFilePerContent'
  BY <1>1 DEF Prepare
<1>2. ASSUME NEW b \in Batches, NEW p \in Processes, Resume(p, b)
      PROVE  OneFilePerContent'
  BY <1>2 DEF Resume
<1>3. ASSUME NEW b \in Batches, NEW p \in Processes, Cancel(p, b)
      PROVE  OneFilePerContent'
  BY <1>3, CancelMoves
<1>4. ASSUME NEW b \in Batches, NEW p \in Processes, ExpireRecovery(p, b)
      PROVE  OneFilePerContent'
  BY <1>4 DEF ExpireRecovery
<1>5. ASSUME NEW b \in Batches, NEW p \in Processes, Claim(p, b)
      PROVE  OneFilePerContent'
  BY <1>5 DEF Claim
<1>6. ASSUME NEW b \in Batches, NEW p \in Processes, Record(p, b)
      PROVE  OneFilePerContent'
  BY <1>6 DEF Record
<1>7. ASSUME NEW b \in Batches, NEW p \in Processes, Secure(p, b)
      PROVE  OneFilePerContent'
  <2>1. CASE DuplicateFailure(b)
    BY <1>7, <2>1 DEF Secure
  <2>2. CASE ~DuplicateFailure(b)
    BY <1>7, <2>2 DEF Secure
  <2> QED BY <2>1, <2>2
<1>8. ASSUME NEW b \in Batches, NEW p \in Processes, Promoted(p, b)
      PROVE  OneFilePerContent'
  BY <1>8 DEF Promoted
<1>9. ASSUME NEW b \in Batches, NEW p \in Processes, Publish(p, b)
      PROVE  OneFilePerContent'
  BY <1>9 DEF Publish
<1>10. ASSUME NEW b \in Batches, NEW p \in Processes, Reject(p, b)
      PROVE  OneFilePerContent'
  BY <1>10 DEF Reject
<1>11. ASSUME NEW b \in Batches, NEW p \in Processes, Mark(p, b)
      PROVE  OneFilePerContent'
  BY <1>11 DEF Mark
<1>12. ASSUME NEW b \in Batches, NEW p \in Processes, Clean(p, b)
      PROVE  OneFilePerContent'
  BY <1>12 DEF Clean
<1>13. ASSUME NEW b \in Batches, NEW p \in Processes, Erased(p, b)
      PROVE  OneFilePerContent'
  BY <1>13 DEF Erased
<1>14. ASSUME NEW b \in Batches, Lapse(b) PROVE OneFilePerContent'
  BY <1>14 DEF Lapse
<1>15. ASSUME NEW b \in Batches, RecoveryEnds(b) PROVE OneFilePerContent'
  BY <1>15 DEF RecoveryEnds
<1>16. CASE UNCHANGED rowVars
  BY <1>16
<1>17. QED BY <1>1, <1>2, <1>3, <1>4, <1>5, <1>6, <1>7, <1>8, <1>9, <1>10,
    <1>11, <1>12, <1>13, <1>14, <1>15, <1>16, RowsMoveByFew DEF RowStep

-----------------------------------------------------------------------------

\* Faults are counted up to their bound.
LEMMA FaultsKept == ASSUME TypeOK, [Next]_vars PROVE (faults \in 0..MaxFaults)'
<1>1. ASSUME NEW b \in Batches, NEW p \in Processes,
             Work(p, b) \/ Poll(p, b) \/ Prepare(p, b) \/ Resume(p, b) \/ Cancel(p, b)
      PROVE  UNCHANGED faults
  BY <1>1 DEF Work, Poll, Prepare, Resume, Cancel, CleanDeleted, ExpireRecovery,
       Claim, Reclaim, Inspect, Receive, Stage, OpenPart, Refuse, Renew, Link, Record,
       Check, Secure, Promote, Place, Unstage, Promoted, Publish, FailPrepared,
       Reject, Throw, Mark
<1>2. ASSUME NEW b \in Batches, NEW p \in Processes,
             CleanUp(p, b) \/ Crash(p)
      PROVE  UNCHANGED faults \/ (faults < MaxFaults /\ faults' = faults + 1)
  BY <1>2 DEF CleanUp, Clean, Erase, Erased, CleanThrows, Untemp, Crash
<1>3. ASSUME NEW b \in Batches, Lapse(b) \/ RecoveryEnds(b)
      PROVE  UNCHANGED faults \/ (faults < MaxFaults /\ faults' = faults + 1)
  BY <1>3 DEF Lapse, RecoveryEnds
<1>4. UNCHANGED faults \/ (faults < MaxFaults /\ faults' = faults + 1)
  <2>1. CASE UNCHANGED vars
    BY <2>1 DEF vars
  <2>2. CASE Next
    BY <2>2, <1>1, <1>2, <1>3 DEF Next, Processes
  <2>3. QED
    BY <2>1, <2>2
<1>5. QED
  BY <1>4, UploadAssumption DEF TypeOK

\* In the beginning nothing is uploaded.
LEMMA InitHolds == ASSUME Init PROVE IInv
<1> USE UploadAssumption DEF Init, Processes
<1>1. TypeOK
  BY DEF TypeOK, RowTypes, DiskTypes, ProcessTypes, Open, Steps
<1>2. Fresh /\ CleanersFollowFailure /\ LinkersHold /\ GoesByFinal
  BY DEF Fresh, CleanersFollowFailure, LinkersHold, GoesByFinal, At
<1>3. SeenIsAFile /\ SeenIsPlaced /\ HolderIsRight /\ CheckedIsDeclared
  BY DEF SeenIsAFile, SeenIsPlaced, HolderIsRight, CheckedIsDeclared
<1>4. RowsAgree /\ ReadyFileIsThere /\ OneFilePerContent
  BY DEF RowsAgree, ReadyFileIsThere, OneFilePerContent
<1>5. QED
  BY <1>1, <1>2, <1>3, <1>4 DEF IInv

\* Every step keeps every part of the invariant.
LEMMA StepHolds == ASSUME IInv, [Next]_vars PROVE IInv'
<1> USE DEF IInv
<1>1. RowTypes' /\ DiskTypes' /\ ProcessTypes'
  BY RowTypesKept, DiskTypesKept, ProcessTypesKept DEF TypeOK
<1>2. TypeOK'
  BY <1>1, FaultsKept DEF TypeOK
<1>3. RowsAgree' /\ Fresh' /\ CleanersFollowFailure'
  BY RowsAgreeKept, FreshKept, CleanersKept
<1>4. LinkersHold' /\ GoesByFinal' /\ SeenIsAFile'
  BY LinkersKept, GoesByFinalKept, SeenIsAFileKept
<1>5. SeenIsPlaced' /\ HolderIsRight' /\ CheckedIsDeclared'
  BY SeenIsPlacedKept, HolderIsRightKept, CheckedIsDeclaredKept
<1>6. ReadyFileIsThere' /\ OneFilePerContent'
  BY ReadyFileKept, OneFileKept
<1>7. QED
  BY <1>2, <1>3, <1>4, <1>5, <1>6

\* The inductive invariant holds of every state.
THEOREM UploadInvariant == Spec => []IInv
<1>1. QED
  BY InitHolds, StepHolds, PTL DEF Spec

\* Every variable keeps its type, whoever loses a lease or dies.
THEOREM TypeCorrect == Spec => []TypeOK
<1>1. IInv => TypeOK
  BY DEF IInv
<1>2. QED
  BY <1>1, UploadInvariant, PTL

\* A batch that is ready for parsing has its file in place: the declared
\* content, recorded, checked and stored, whichever requests, reconcilers and
\* late processes worked on the upload.
THEOREM ReadyFile == Spec => []ReadyFileIsThere
<1>1. IInv => ReadyFileIsThere
  BY DEF IInv
<1>2. QED
  BY <1>1, UploadInvariant, PTL

\* Of batches that repeat no duplicate at most one publishes a content, however
\* their uploads interleave.
THEOREM OncePublished == Spec => []OneFilePerContent
<1>1. IInv => OneFilePerContent
  BY DEF IInv
<1>2. QED
  BY <1>1, UploadInvariant, PTL

\* A promoted file is removed only after its upload failed, and nothing
\* replaces it, not even a process that lost its lease before the link.
THEOREM FinalStands == Spec => FinalFileStands
<1> DEFINE Stands ==
      \A b \in Batches : final[b] # None /\ final'[b] # final[b] =>
        final'[b] = None /\ phase[b] = "FAILED"
<1>1. ASSUME IInv, [Next]_vars PROVE Stands
  <2>0. /\ final \in [Batches -> Contents \cup {None}]
        /\ CleanersFollowFailure
    BY <1>1 DEF IInv, TypeOK, DiskTypes
  <2> USE <2>0 DEF Processes
  <2>1. ASSUME NEW b \in Batches, NEW p \in Processes, Place(p, b) PROVE Stands
    BY <2>1 DEF Place
  <2>2. ASSUME NEW b \in Batches, NEW p \in Processes, Erase(p, b) PROVE Stands
    <3>1. CASE At(p, "erase", b)
      BY <2>2, <3>1 DEF Erase, At
    <3>2. CASE At(p, "eraseFinal", b)
      <4>1. phase[b] = "FAILED"
        BY <3>2 DEF CleanersFollowFailure, At
      <4>2. final' = [final EXCEPT ![b] = None]
        BY <2>2, <3>2 DEF Erase, At
      <4>3. QED
        BY <4>1, <4>2
    <3>3. QED
      BY <2>2, <3>1, <3>2 DEF Erase
  <2>3. ASSUME UNCHANGED final PROVE Stands
    BY <2>3
  <2>4. ASSUME NEW b \in Batches, NEW p \in Processes,
               \/ Prepare(p, b) \/ Resume(p, b) \/ Cancel(p, b) \/ Poll(p, b)
               \/ Inspect(p, b) \/ Receive(p, b) \/ Stage(p, b) \/ OpenPart(p, b)
               \/ Refuse(p, b) \/ Renew(p, b)
               \/ Link(p, b) \/ Record(p, b) \/ Check(p, b) \/ Secure(p, b)
               \/ Promote(p, b) \/ Unstage(p, b) \/ Promoted(p, b) \/ Publish(p, b)
               \/ FailPrepared(p, b) \/ Reject(p, b) \/ Throw(p, b) \/ Mark(p, b)
               \/ Clean(p, b) \/ Erased(p, b) \/ CleanThrows(p, b) \/ Untemp(p, b)
               \/ Crash(p)
        PROVE  UNCHANGED final
    BY <2>4 DEF diskVars, Prepare, Resume, Cancel, Poll, CleanDeleted,
         ExpireRecovery, Claim, Reclaim, Inspect, Receive, Stage, OpenPart, Refuse, Renew,
         Link, Record, Check, Secure, Promote, Unstage, Promoted, Publish, FailPrepared,
         Reject, Throw, Mark, Clean, Erased, CleanThrows, Untemp, Crash
  <2>5. CASE UNCHANGED vars
    BY <2>3, <2>5 DEF vars, diskVars
  <2> HIDE DEF Stands
  <2>6. ASSUME NEW b \in Batches, NEW p \in Processes,
               Work(p, b) \/ CleanUp(p, b) \/ Crash(p)
        PROVE  Stands
    BY <2>1, <2>2, <2>3, <2>4, <2>6 DEF Work, CleanUp
  <2>7. ASSUME NEW b \in Batches, Lapse(b) \/ RecoveryEnds(b) PROVE Stands
    BY <2>7, <2>3 DEF Lapse, RecoveryEnds, diskVars
  <2>8. CASE Next
    BY <2>3, <2>4, <2>6, <2>7, <2>8 DEF Next
  <2>9. QED
    BY <1>1, <2>5, <2>8
<1>2. QED
  BY <1>1, UploadInvariant, PTL DEF Spec, FinalFileStands

=============================================================================
