--------------------------- MODULE PromotionProofs ---------------------------
(***************************************************************************)
(* What the promotion journal promises, for every set of authorized        *)
(* operations and any number of crashes and recoveries.                    *)
(*                                                                         *)
(* The argument has three parts.  OnItsWay says what has been made durable *)
(* when the runner stands before each of its steps; from it follows that   *)
(* receipts are backed and that an operation under way precedes any        *)
(* quarantine.  PinsAreInOrder says that an operation is only ever         *)
(* authorized to follow the right checkpoint.  JournalIsOneLine is then    *)
(* inductive: what an operation writes lies beside the chain until its     *)
(* last rename puts it on the end.                                         *)
(***************************************************************************)
EXTENDS PromotionJournal, TLAPS

FileState == {"absent", "torn", "stored"}

\* What is durable when o stands before step at.
Ready(o, at) ==
    /\ at = "grant" => Ordinal[o] = 8
    /\ at = "consume" /\ Ordinal[o] = 8 => Stored("grant", o)
    /\ at = "fence" => Ordinal[o] = 8 /\ Stored("grant", o)
    /\ at \in {"evidence", "binding"} => Ordinal[o] \in 10..11
    /\ at = "perform" => Ordinal[o] \in 14..15
    /\ at = "generation" => Begin(o)
    /\ at = "result" =>
          /\ Ordinal[o] \in {8, 9, 10, 11, 12, 14, 15}
          /\ Ordinal[o] = 8 => Stored("fence", o) /\ Stored("grant", o)
          /\ Ordinal[o] \in 10..11 => Stored("binding", o)
          /\ Ordinal[o] \in 14..15 => o \in performed
    /\ at = "transfer" => Ordinal[o] = 9 /\ Stored("result", o)
    /\ at = "history" => Backing(o)
    /\ at = "current" => Stored("receipt", o)
    /\ at \notin {"grant", "consume"} => o \in consumed

OnItsWay ==
    runner # Idle =>
        /\ Stored("intent", runner.op)
        /\ Ready(runner.op, runner.at)
        /\ runner.mode = "ORIGINAL" => quarantine = {}

\* What is consumed was prepared, and what was prepared is pinned.
IntentsStand ==
    /\ \A o \in consumed : Stored("intent", o)
    /\ \A o \in Ops : Stored("intent", o) => pinned[o] # Unset

\* No migration has a result without the fence and grant it ran under.
MigrationsAreFenced ==
    \A o \in Ops : Ordinal[o] = 8 /\ Stored("result", o) =>
                      Stored("fence", o) /\ Stored("grant", o)

\* Only a BEGIN writes a generation.
GenerationsBegin == Written("generation") \subseteq {o \in Ops : Begin(o)}

InOrder(o, p) ==
    IF p = None THEN Begin(o)
    ELSE \/ Ordinal[o] = Ordinal[p] + 1 /\ Generation[o] = Generation[p]
         \/ Begin(o) /\ Ordinal[p] \in {13, 15} /\ Generation[o] = Generation[p] + 1

PinsAreInOrder == \A o \in Ops : pinned[o] # Unset => InOrder(o, pinned[o])

FilesInv ==
    /\ TypeOK /\ OnItsWay /\ IntentsStand /\ MigrationsAreFenced
    /\ GenerationsBegin /\ ReceiptsAreBacked /\ PinsAreInOrder

Inv == FilesInv /\ JournalIsOneLine

LEMMA InvInitially == Init => Inv
  <1> SUFFICES ASSUME Init PROVE Inv
    OBVIOUS
  <1>1. TypeOK
    BY RecoveriesAssumption DEF Init, TypeOK
  <1>2. OnItsWay /\ IntentsStand /\ MigrationsAreFenced /\ PinsAreInOrder
    BY DEF Init, OnItsWay, IntentsStand, MigrationsAreFenced, PinsAreInOrder,
           Stored, Kinds
  <1>3. /\ Written("receipt") = {} /\ Written("history") = {}
        /\ Written("generation") = {}
    BY DEF Init, Written, Kinds
  <1>4. ReceiptsAreBacked /\ GenerationsBegin
    BY <1>3 DEF ReceiptsAreBacked, GenerationsBegin
  <1>5. CommittedChain({})
    BY <1>3 DEF CommittedChain, OneLine, Init
  <1> QED
    BY <1>1, <1>2, <1>4, <1>5 DEF Inv, FilesInv, JournalIsOneLine

---------------------------------------------------------------------------
(* Facts about writing a file                                              *)

LEMMA StoreStep ==
    ASSUME TypeOK, NEW k \in Kinds, NEW o \in Ops, NEW next, Store(k, o, next)
    PROVE  /\ file' \in [Kinds -> [Ops -> FileState]]
           /\ \A j \in Kinds, x \in Ops :
                 (j # k \/ x # o) => file'[j][x] = file[j][x]
           /\ \A j \in Kinds, x \in Ops :
                 file[j][x] = "stored" => file'[j][x] = "stored"
           /\ runner' = Idle \/ (runner' = next /\ file'[k][o] = "stored")
  <1> USE DEF FileState
  <1>0. file \in [Kinds -> [Ops -> FileState]]
    BY DEF TypeOK
  <1>1. CASE Stored(k, o) /\ runner' = next /\ UNCHANGED file
    BY <1>0, <1>1 DEF Stored
  <1>2. CASE /\ ~Stored(k, o)
             /\ \E v \in FileState :
                   /\ file' = [file EXCEPT ![k][o] = v]
                   /\ runner' = Idle \/ (runner' = next /\ v = "stored")
    BY <1>0, <1>2 DEF Stored
  <1>3. \/ Stored(k, o) /\ runner' = next /\ UNCHANGED file
        \/ /\ ~Stored(k, o)
           /\ \E v \in FileState :
                   /\ file' = [file EXCEPT ![k][o] = v]
                   /\ runner' = Idle \/ (runner' = next /\ v = "stored")
    <2>1. (IF file[k][o] = "absent" THEN "torn" ELSE "absent") \in FileState
      OBVIOUS
    <2>2. [file EXCEPT ![k][o] = IF @ = "absent" THEN "torn" ELSE "absent"]
            = [file EXCEPT ![k][o] = IF file[k][o] = "absent" THEN "torn" ELSE "absent"]
      BY <1>0
    <2> QED
      BY <2>1, <2>2 DEF Store
  <1> QED
    BY <1>1, <1>2, <1>3

\* What is stored stays so, and the sets below only grow: so a receipt that
\* is backed remains backed.
LEMMA BackingGrows ==
    ASSUME TypeOK, NEW o \in Ops, Backing(o), performed \subseteq performed',
           \A j \in Kinds : file[j][o] = "stored" => file'[j][o] = "stored"
    PROVE  Backing(o)'
  <1>1. Ordinal[o] \in 4..15
    BY OrdinalAssumption
  <1> QED
    BY <1>1 DEF Backing, Stored, Kinds

LEMMA OneLineFrame ==
    ASSUME TypeOK, NEW line \in SUBSET Ops, OneLine(line), current' = current,
           \A x \in line : \A k \in {"generation", "history", "receipt"} :
              file'[k][x] = file[k][x],
           \A x \in line : pinned'[x] = pinned[x]
    PROVE  OneLine(line)'
  <1>1. \A x \in line : /\ Stored("receipt", x)' = Stored("receipt", x)
                        /\ Stored("history", x)' = Stored("history", x)
                        /\ Stored("generation", x)' = Stored("generation", x)
    BY DEF Stored
  <1>2. \A p : {x \in line : pinned'[x] = p} = {x \in line : pinned[x] = p}
    OBVIOUS
  <1> QED
    BY <1>1, <1>2 DEF OneLine, Begin

\* The committed chain depends only on the files, pins and pointer it names;
\* what the operations of A have published does not matter.
LEMMA ChainFrame ==
    ASSUME TypeOK, NEW A \in SUBSET Ops, CommittedChain(A), current' = current,
           \A x \in Ops \ A : \A k \in {"generation", "history", "receipt"} :
              file'[k][x] = file[k][x],
           \A x \in Ops \ A : file["receipt"][x] # "absent" => pinned'[x] = pinned[x]
    PROVE  CommittedChain(A)'
  <1>1. PICK line \in SUBSET Ops : line = Written("receipt") \ A
    BY DEF Written
  <1>2. /\ (Written("receipt") \ A)' = line
        /\ (Written("history") \ A)' = Written("history") \ A
        /\ (Written("generation") \ A)' = Written("generation") \ A
    BY <1>1 DEF Written
  <1>3. /\ Written("history") \ A = line
        /\ Written("generation") \ A = {x \in line : Begin(x)}
        /\ OneLine(line)
    BY <1>1 DEF CommittedChain
  <1>4. OneLine(line)'
    BY <1>1, <1>3, OneLineFrame DEF Written
  <1> QED
    BY <1>2, <1>3, <1>4 DEF CommittedChain, Begin

\* A step that writes no file of a publication and leaves the pins of what
\* is published alone keeps the journal one line.
LEMMA LineFrame ==
    ASSUME TypeOK, IntentsStand, ReceiptsAreBacked, JournalIsOneLine,
           current' = current,
           \A x \in Ops : \A k \in {"generation", "history", "receipt"} :
              file'[k][x] = file[k][x],
           \A x \in Ops : pinned[x] # Unset => pinned'[x] = pinned[x]
    PROVE  JournalIsOneLine'
  <1>1. ASSUME NEW A \in SUBSET Ops, CommittedChain(A)
        PROVE  CommittedChain(A)'
    <2>1. \A x \in Written("receipt") \ A :
             pinned[x] \in (Written("receipt") \ A) \cup {None}
      BY <1>1 DEF CommittedChain, OneLine
    <2>2. \A x \in Ops \ A : file["receipt"][x] # "absent" => pinned[x] # Unset
      BY <2>1, NoneAssumption DEF Written
    <2> QED
      BY <1>1, <2>2, ChainFrame
  <1>2. CASE CommittedChain({})
    BY <1>1, <1>2 DEF JournalIsOneLine
  <1>3. CASE \E o \in Ops : CommittedChain({o})
    BY <1>1, <1>3 DEF JournalIsOneLine
  <1> QED
    BY <1>2, <1>3 DEF JournalIsOneLine

---------------------------------------------------------------------------
(* Preparations                                                            *)

\* All preparations have this in common.
LEMMA Preparing ==
    ASSUME Inv, NEW o \in Ops,
           \/ PrepareBegin(o) \/ PrepareSnapshot(o) \/ PrepareQuiesce(o)
           \/ PrepareMigrationAuthorization(o) \/ PrepareMigrationExecution(o)
           \/ PrepareComposeDeployment(o) \/ PreparePostdeploy(o)
           \/ PrepareCrossRole(o) \/ PrepareFinalization(o)
           \/ PrepareRollback(o) \/ PrepareRollbackPostverify(o)
    PROVE  /\ Preparable(o)
           /\ \E next \in {"grant", "consume"} :
                 (next = "grant" <=> Ordinal[o] = 8) /\ WriteIntent(o, next)
           /\ pinned[o] = Unset => InOrder(o, current)
  <1>0. Ordinal[o] \in 4..15 /\ current \in Ops \cup {None}
    BY OrdinalAssumption DEF Inv, FilesInv, TypeOK
  <1>1. \A next : WriteIntent(o, next) /\ next = "consume" => WriteIntent(o, "consume")
    OBVIOUS
  <1>2. CASE PrepareBegin(o)
    <2>1. Begin(o) /\ Preparable(o) /\ WriteIntent(o, "consume")
      BY <1>2 DEF PrepareBegin
    <2>2. ASSUME pinned[o] = Unset PROVE InOrder(o, current)
      BY <1>0, <1>2, <2>2 DEF PrepareBegin, InOrder, Inv, FilesInv, IntentsStand
    <2> QED
      BY <2>1, <2>2 DEF Begin
  <1>3. CASE ~PrepareBegin(o)
    <2>1. Follows(o) /\ Preparable(o)
      BY <1>3 DEF PrepareSnapshot, PrepareQuiesce, PrepareMigrationAuthorization,
          PrepareMigrationExecution, PrepareComposeDeployment, PreparePostdeploy,
          PrepareCrossRole, PrepareFinalization, PrepareRollback,
          PrepareRollbackPostverify
    <2>2. \/ Ordinal[o] = 8 /\ WriteIntent(o, "grant")
          \/ Ordinal[o] # 8 /\ WriteIntent(o, "consume")
      BY <1>0, <1>3 DEF PrepareSnapshot, PrepareQuiesce, PrepareMigrationAuthorization,
          PrepareMigrationExecution, PrepareComposeDeployment, PreparePostdeploy,
          PrepareCrossRole, PrepareFinalization, PrepareRollback,
          PrepareRollbackPostverify
    <2>3. InOrder(o, current)
      <3>1. /\ current \in Ops /\ current # None
            /\ Ordinal[current] = Ordinal[o] - 1 /\ Generation[current] = Generation[o]
        BY <1>0, <2>1 DEF Follows
      <3>2. Ordinal[current] \in 4..15
        BY <3>1, OrdinalAssumption
      <3> QED
        BY <1>0, <3>1, <3>2 DEF InOrder
    <2> QED
      BY <2>1, <2>2, <2>3
  <1> QED
    BY <1>2, <1>3

LEMMA PrepareKeeps ==
    ASSUME Inv, NEW o \in Ops, NEW next \in {"grant", "consume"},
           next = "grant" <=> Ordinal[o] = 8,
           Preparable(o), WriteIntent(o, next),
           pinned[o] = Unset => InOrder(o, current)
    PROVE  Inv'
  <1> USE DEF Inv, FilesInv
  <1>1. /\ TypeOK /\ current \in Ops \cup {None} /\ "intent" \in Kinds
        /\ pinned \in [Ops -> Ops \cup {None, Unset}]
        /\ lists \in [Ops -> SUBSET Ops]
    BY DEF TypeOK, Kinds
  <1>2. /\ Store("intent", o, Original(o, next))
        /\ pinned' = [pinned EXCEPT ![o] = Predecessor(o)]
        /\ lists' = [lists EXCEPT ![o] = Listed(o)]
        /\ UNCHANGED <<containment, current, consumed, quarantine, expired,
                       evidence, performed, contained, recoveries>>
    BY DEF WriteIntent, outside
  <1>3. /\ quarantine = {} /\ runner = Idle
    BY DEF Preparable
  <1>4. /\ file' \in [Kinds -> [Ops -> FileState]]
        /\ \A j \in Kinds, x \in Ops :
              (j # "intent" \/ x # o) => file'[j][x] = file[j][x]
        /\ \A j \in Kinds, x \in Ops :
              file[j][x] = "stored" => file'[j][x] = "stored"
        /\ \/ runner' = Idle
           \/ runner' = Original(o, next) /\ file'["intent"][o] = "stored"
    BY <1>1, <1>2, StoreStep
  <1>5. /\ Predecessor(o) \in Ops \cup {None}
        /\ pinned[o] # Unset => Predecessor(o) = pinned[o]
        /\ pinned[o] = Unset => Predecessor(o) = current
    BY <1>1 DEF Predecessor
  <1>6. /\ pinned' \in [Ops -> Ops \cup {None, Unset}]
        /\ \A x \in Ops : pinned[x] # Unset => pinned'[x] = pinned[x]
        /\ pinned'[o] # Unset
        /\ \A x \in Ops \ {o} : pinned'[x] = pinned[x]
        /\ pinned'[o] = Predecessor(o)
    BY <1>1, <1>2, <1>5, NoneAssumption
  <1>7. lists' \in [Ops -> SUBSET Ops]
    <2>1. Listed(o) \in SUBSET Ops
      <3>1. CASE Begin(o)
        BY <3>1 DEF Listed
      <3>2. CASE ~Begin(o)
        <4>1. Predecessor(o) # None
          <5>1. ASSUME Predecessor(o) = None PROVE FALSE
            BY <3>2, <1>5, <5>1, NoneAssumption DEF PinsAreInOrder, InOrder
          <5> QED
            BY <5>1
        <4> QED
          BY <1>1, <1>5, <3>2, <4>1 DEF Listed
      <3> QED
        BY <3>1, <3>2
    <2> QED
      BY <1>1, <1>2, <2>1
  <1>8. TypeOK'
    <2>1. runner' = Idle \/ runner' \in [op : Ops, mode : {"ORIGINAL", "RECOVERY"},
                      decision : {"NONE", "RESUME_PUBLICATION",
                                  "ALREADY_COMMITTED", "QUARANTINE"},
                      at : Steps]
      BY <1>4 DEF Original, Steps, Kinds
    <2> QED
      BY <1>2, <1>4, <1>6, <1>7, <2>1 DEF TypeOK, FileState
  <1>9. OnItsWay'
    BY <1>2, <1>3, <1>4 DEF OnItsWay, Original, Ready, Idle, Stored, Kinds, Begin
  <1>10. IntentsStand' /\ MigrationsAreFenced'
    BY <1>1, <1>2, <1>4, <1>6 DEF TypeOK, IntentsStand, MigrationsAreFenced, Stored, Kinds
  <1>11. ReceiptsAreBacked'
    <2>1. Written("history")' = Written("history")
      BY <1>4 DEF Written, Kinds
    <2>2. \A x \in Written("history") : Backing(x)'
      BY <1>1, <1>2, <1>4, BackingGrows DEF ReceiptsAreBacked, Written
    <2> QED
      BY <1>1, <1>2, <1>4, <2>1, <2>2 DEF ReceiptsAreBacked, Stored, Written
  <1>12. PinsAreInOrder' /\ GenerationsBegin'
    BY <1>4, <1>5, <1>6 DEF PinsAreInOrder, InOrder, Begin, GenerationsBegin, Written, Kinds
  <1>13. JournalIsOneLine'
    <2>1. \A x \in Ops : \A k \in {"generation", "history", "receipt"} :
             file'[k][x] = file[k][x]
      BY <1>4 DEF Kinds
    <2> QED
      BY <1>1, <1>2, <1>6, <2>1, LineFrame
  <1> QED
    BY <1>8, <1>9, <1>10, <1>11, <1>12, <1>13

---------------------------------------------------------------------------
(* Files                                                                   *)

\* The step after the file of kind k.
Leads(o, k, next) ==
    \/ k = "grant" /\ next = "consume"
    \/ k = "fence" /\ next = "result"
    \/ k = "result" /\ next = "transfer" /\ Ordinal[o] = 9
    \/ k = "result" /\ next = "history" /\ Ordinal[o] # 9
    \/ k = "transfer" /\ next = "history"
    \/ k = "binding" /\ next = "result"
    \/ k = "generation" /\ next = "history"
    \/ k = "history" /\ next = "receipt"
    \/ k = "receipt" /\ next = "current"

Storing(o, k, next) ==
    /\ At(o, k) /\ Leads(o, k, next)
    /\ k \in {"generation", "history", "receipt"} => Candidate(o)
    /\ Store(k, o, Go(next))
    /\ UNCHANGED unchangedByStore

\* All actions that write a file have this in common.
LEMMA FileActions ==
    ASSUME NEW o \in Ops,
           \/ WriteGrant(o) \/ ActivateFence(o) \/ RecordMigration(o)
           \/ RecordDeployment(o) \/ TransferFence(o) \/ BindPostdeploy(o)
           \/ CopyResult(o) \/ RecordRollback(o)
           \/ PublishFile(o, "generation", "history")
           \/ PublishFile(o, "history", "receipt")
           \/ PublishFile(o, "receipt", "current")
    PROVE  \E k \in Kinds, next \in Steps : Storing(o, k, next)
  <1>1. CASE WriteGrant(o)
    <2>1. Storing(o, "grant", "consume")
      BY <1>1 DEF WriteGrant, Storing, Leads, unchangedByStore
    <2> QED
      BY <2>1 DEF Kinds, Steps
  <1>2. CASE ActivateFence(o)
    <2>1. Storing(o, "fence", "result")
      BY <1>2 DEF ActivateFence, Storing, Leads
    <2> QED
      BY <2>1 DEF Kinds, Steps
  <1>3. CASE RecordDeployment(o)
    <2>1. Storing(o, "result", "transfer")
      BY <1>3 DEF RecordDeployment, Storing, Leads
    <2> QED
      BY <2>1 DEF Kinds, Steps
  <1>4. CASE RecordMigration(o) \/ CopyResult(o) \/ RecordRollback(o)
    <2>1. Storing(o, "result", "history")
      BY <1>4, OrdinalAssumption
      DEF RecordMigration, CopyResult, RecordRollback, Storing, Leads
    <2> QED
      BY <2>1 DEF Kinds, Steps
  <1>5. CASE TransferFence(o)
    <2>1. Storing(o, "transfer", "history")
      BY <1>5 DEF TransferFence, Storing, Leads
    <2> QED
      BY <2>1 DEF Kinds, Steps
  <1>6. CASE BindPostdeploy(o)
    <2>1. Storing(o, "binding", "result")
      BY <1>6 DEF BindPostdeploy, Storing, Leads
    <2> QED
      BY <2>1 DEF Kinds, Steps
  <1>7. CASE PublishFile(o, "generation", "history")
    <2>1. Storing(o, "generation", "history")
      BY <1>7 DEF PublishFile, Storing, Leads
    <2> QED
      BY <2>1 DEF Kinds, Steps
  <1>8. CASE PublishFile(o, "history", "receipt")
    <2>1. Storing(o, "history", "receipt")
      BY <1>8 DEF PublishFile, Storing, Leads
    <2> QED
      BY <2>1 DEF Kinds, Steps
  <1>9. CASE PublishFile(o, "receipt", "current")
    <2>1. Storing(o, "receipt", "current")
      BY <1>9 DEF PublishFile, Storing, Leads
    <2> QED
      BY <2>1 DEF Kinds, Steps
  <1> QED
    BY <1>1, <1>2, <1>3, <1>4, <1>5, <1>6, <1>7, <1>8, <1>9

LEMMA StoringKeeps ==
    ASSUME Inv, NEW o \in Ops, NEW k \in Kinds, NEW next \in Steps,
           Storing(o, k, next)
    PROVE  Inv'
  <1> USE DEF Inv, FilesInv
  <1>1. /\ TypeOK /\ Ordinal[o] \in 4..15
        /\ runner # Idle /\ runner.op = o /\ runner.at = k
    BY NoneAssumption, OrdinalAssumption DEF Storing, At, Idle
  <1>2. UNCHANGED <<pinned, lists, containment, current, consumed, quarantine,
                    expired, evidence, performed, contained, recoveries>>
    BY DEF Storing, unchangedByStore, outside
  <1>3. /\ file' \in [Kinds -> [Ops -> FileState]]
        /\ \A j \in Kinds, x \in Ops :
              (j # k \/ x # o) => file'[j][x] = file[j][x]
        /\ \A j \in Kinds, x \in Ops :
              file[j][x] = "stored" => file'[j][x] = "stored"
        /\ runner' = Idle \/ (runner' = Go(next) /\ file'[k][o] = "stored")
    BY <1>1, StoreStep DEF Storing
  <1>4. /\ Stored("intent", o) /\ Ready(o, k)
        /\ runner.mode = "ORIGINAL" => quarantine = {}
    BY <1>1 DEF OnItsWay
  <1>5. runner' = Idle \/ (/\ runner'.op = o /\ runner'.at = next
                           /\ runner'.mode = runner.mode
                           /\ runner' \in [op : Ops, mode : {"ORIGINAL", "RECOVERY"},
                                  decision : {"NONE", "RESUME_PUBLICATION",
                                              "ALREADY_COMMITTED", "QUARANTINE"},
                                  at : Steps])
    BY <1>1, <1>3 DEF Go, TypeOK
  <1>6. TypeOK'
    BY <1>2, <1>3, <1>5 DEF TypeOK, FileState
  <1>7. file'[k][o] = "stored" => Ready(o, next)'
    <2> SUFFICES ASSUME file'[k][o] = "stored" PROVE Ready(o, next)'
      OBVIOUS
    <2>1. CASE next = "history"
      <3>1. Backing(o)'
        BY <1>1, <1>2, <1>3, <1>4, <2>1
        DEF Storing, Leads, Ready, Backing, Stored, Kinds, Begin
      <3> QED
        BY <1>2, <1>4, <2>1, <3>1 DEF Storing, Leads, Ready
    <2>2. CASE next # "history"
      BY <1>1, <1>2, <1>3, <1>4, <2>2
      DEF Storing, Leads, Ready, Stored, Kinds, Begin
    <2> QED
      BY <2>1, <2>2
  <1>8. OnItsWay'
    BY <1>2, <1>3, <1>4, <1>5, <1>7 DEF OnItsWay, Stored, Kinds
  <1>9. IntentsStand'
    <2>1. k # "intent"
      BY DEF Storing, Leads
    <2> QED
      BY <1>1, <1>2, <1>3, <2>1 DEF TypeOK, IntentsStand, Stored, Kinds
  <1>10. MigrationsAreFenced'
    BY <1>1, <1>3, <1>4 DEF MigrationsAreFenced, Ready, Stored, Kinds
  <1>11. ReceiptsAreBacked'
    <2>1. \A x \in Ops : Backing(x) => Backing(x)'
      BY <1>1, <1>2, <1>3, BackingGrows
    <2>2. \A x \in Written("history")' : x \in Written("history") \/ (x = o /\ k = "history")
      BY <1>3 DEF Written, Kinds
    <2>3. k = "history" => Stored("intent", o) /\ o \in consumed /\ Backing(o)
      BY <1>4 DEF Ready
    <2> QED
      BY <1>1, <1>2, <1>3, <2>1, <2>2, <2>3
      DEF ReceiptsAreBacked, Written, Stored, Kinds
  <1>12. PinsAreInOrder' /\ GenerationsBegin'
    <2>1. PinsAreInOrder'
      BY <1>2 DEF PinsAreInOrder, InOrder, Begin
    <2>2. k = "generation" => Begin(o)
      BY <1>4 DEF Ready
    <2>3. GenerationsBegin'
      BY <1>3, <2>2 DEF GenerationsBegin, Written, Begin, Kinds
    <2> QED
      BY <2>1, <2>3
  <1>13. JournalIsOneLine'
    <2>1. CASE k \in {"generation", "history", "receipt"}
      <3>1. CommittedChain({o})
        BY <2>1 DEF Storing, Candidate, Staged
      <3>2. CommittedChain({o})'
        BY <1>1, <1>2, <1>3, <3>1, ChainFrame DEF Kinds
      <3> QED
        BY <3>2 DEF JournalIsOneLine
    <2>2. CASE k \notin {"generation", "history", "receipt"}
      BY <1>1, <1>2, <1>3, <2>2, LineFrame DEF Kinds
    <2> QED
      BY <2>1, <2>2
  <1> QED
    BY <1>6, <1>8, <1>9, <1>10, <1>11, <1>12, <1>13

---------------------------------------------------------------------------
(* Steps that write no file                                                *)

LEMMA QuietKeeps ==
    ASSUME Inv, UNCHANGED <<pinned, lists, file, current>>,
           TypeOK', OnItsWay', performed \subseteq performed',
           consumed \subseteq consumed',
           \A o \in consumed' : Stored("intent", o)
    PROVE  Inv'
  <1> USE DEF Inv, FilesInv
  <1>1. IntentsStand' /\ MigrationsAreFenced' /\ PinsAreInOrder' /\ GenerationsBegin'
    BY DEF IntentsStand, MigrationsAreFenced, PinsAreInOrder, GenerationsBegin,
           InOrder, Stored, Begin, Written
  <1>2. ReceiptsAreBacked'
    <2>1. \A x \in Ops : Backing(x) => Backing(x)'
      BY BackingGrows
    <2> QED
      BY <2>1 DEF ReceiptsAreBacked, Written, Stored
  <1>3. JournalIsOneLine'
    BY LineFrame
  <1> QED
    BY <1>1, <1>2, <1>3

LEMMA ConsumeKeeps ==
    ASSUME Inv, NEW o \in Ops, ConsumeAuthorization(o)
    PROVE  Inv'
  <1> USE DEF Inv, FilesInv
  <1>1. /\ runner # Idle /\ runner.op = o /\ runner.at = "consume"
        /\ Ordinal[o] \in 4..15
        /\ Stored("intent", o) /\ Ready(o, "consume")
        /\ runner.mode = "ORIGINAL" => quarantine = {}
    BY NoneAssumption, OrdinalAssumption
    DEF ConsumeAuthorization, At, Idle, OnItsWay
  <1>2. UNCHANGED <<pinned, lists, file, containment, current, quarantine,
                    expired, evidence, performed, contained, recoveries>>
        /\ consumed' = consumed \cup {o}
    BY DEF ConsumeAuthorization, outside
  <1>3. PICK next \in {"generation", "history", "fence", "result", "evidence",
                       "perform"} :
          /\ runner' = Go(next)
          /\ next = "generation" => Begin(o)
          /\ next = "history" => Ordinal[o] \in {5, 6, 7, 13}
          /\ next = "fence" => Ordinal[o] = 8
          /\ next = "result" => Ordinal[o] \in {9, 12}
          /\ next = "evidence" => Ordinal[o] \in 10..11
          /\ next = "perform" => Ordinal[o] \in 14..15
    BY <1>1 DEF ConsumeAuthorization, Begin
  <1>4. /\ runner'.op = o /\ runner'.at = next /\ runner'.mode = runner.mode
        /\ runner' \in [op : Ops, mode : {"ORIGINAL", "RECOVERY"},
                         decision : {"NONE", "RESUME_PUBLICATION",
                                     "ALREADY_COMMITTED", "QUARANTINE"},
                         at : Steps]
    BY <1>1, <1>3 DEF Go, TypeOK, Steps, Kinds
  <1>5. TypeOK'
    BY <1>2, <1>4 DEF TypeOK
  <1>6. Ready(o, next)'
    <2>1. next = "history" => Backing(o)'
      BY <1>1, <1>3 DEF Backing
    <2> QED
      BY <1>1, <1>2, <1>3, <2>1 DEF Ready, Stored, Begin
  <1>7. OnItsWay'
    BY <1>1, <1>2, <1>4, <1>6 DEF OnItsWay, Stored
  <1>8. \A x \in consumed' : Stored("intent", x)
    BY <1>1, <1>2 DEF IntentsStand
  <1> QED
    BY <1>2, <1>5, <1>7, <1>8, QuietKeeps

LEMMA WorkKeeps ==
    ASSUME Inv, NEW o \in Ops, VerifyPostdeploy(o) \/ PerformRollback(o)
    PROVE  Inv'
  <1> USE DEF Inv, FilesInv
  <1>1. /\ runner # Idle /\ runner.op = o /\ runner.at \in {"evidence", "perform"}
        /\ o \in consumed /\ Stored("intent", o)
        /\ runner.at = "evidence" => Ordinal[o] \in 10..11
        /\ runner.at = "perform" => Ordinal[o] \in 14..15
        /\ runner.mode = "ORIGINAL" => quarantine = {}
    BY NoneAssumption
    DEF VerifyPostdeploy, PerformRollback, At, Idle, OnItsWay, Ready
  <1>2. UNCHANGED <<pinned, lists, file, containment, current, consumed,
                    quarantine, expired, contained, recoveries>>
    BY DEF VerifyPostdeploy, PerformRollback, record
  <1>3. PICK next \in {"binding", "result"} :
          /\ runner' = Go(next)
          /\ next = "binding" => /\ evidence' = evidence \cup {o}
                                 /\ performed' = performed
                                 /\ runner.at = "evidence"
          /\ next = "result" => /\ performed' = performed \cup {o}
                                /\ evidence' = evidence
                                /\ runner.at = "perform"
    BY DEF VerifyPostdeploy, PerformRollback, At
  <1>4. /\ runner'.op = o /\ runner'.at = next
        /\ runner'.mode = runner.mode
        /\ runner' \in [op : Ops, mode : {"ORIGINAL", "RECOVERY"},
                         decision : {"NONE", "RESUME_PUBLICATION",
                                     "ALREADY_COMMITTED", "QUARANTINE"},
                         at : Steps]
    BY <1>1, <1>3 DEF Go, TypeOK, Steps, Kinds
  <1>5. TypeOK'
    BY <1>1, <1>2, <1>3, <1>4 DEF TypeOK
  <1>6. Ready(o, next)'
    BY <1>1, <1>2, <1>3 DEF Ready, Stored
  <1>7. OnItsWay'
    BY <1>1, <1>2, <1>4, <1>6 DEF OnItsWay, Stored
  <1> QED
    BY <1>2, <1>3, <1>5, <1>7, QuietKeeps DEF IntentsStand

\* What ends the run, or turns it to the record of a failure.
LEMMA EndKeeps ==
    ASSUME Inv, Crash \/ (\E o \in Ops : Confirm(o) \/ Fail(o) \/ Contain(o))
    PROVE  Inv'
  <1> USE DEF Inv, FilesInv
  <1>1. CASE Crash \/ \E o \in Ops : Confirm(o)
    <2>1. /\ UNCHANGED <<pinned, lists, file, containment, current, consumed,
                         quarantine, expired, evidence, performed, contained,
                         recoveries>>
          /\ runner' = Idle
      BY <1>1 DEF Crash, Confirm, record, outside
    <2>2. TypeOK' /\ OnItsWay'
      BY <2>1 DEF TypeOK, OnItsWay, Idle
    <2> QED
      BY <2>1, <2>2, QuietKeeps DEF IntentsStand
  <1>2. ASSUME NEW o \in Ops, Fail(o) PROVE Inv'
    <2>1. /\ UNCHANGED <<pinned, lists, file, containment, current, consumed,
                         quarantine, expired, evidence, performed, contained,
                         recoveries>>
          /\ runner' = Go("contain") /\ runner.op = o /\ o \in consumed
          /\ runner # Idle
      BY <1>2, NoneAssumption DEF Fail, record, outside, Idle
    <2>2. /\ runner'.op = o /\ runner'.at = "contain" /\ runner'.mode = runner.mode
          /\ runner' \in [op : Ops, mode : {"ORIGINAL", "RECOVERY"},
                           decision : {"NONE", "RESUME_PUBLICATION",
                                       "ALREADY_COMMITTED", "QUARANTINE"},
                           at : Steps]
      BY <2>1 DEF Go, TypeOK, Steps
    <2>3. TypeOK'
      BY <2>1, <2>2 DEF TypeOK
    <2>4. OnItsWay'
      BY <2>1, <2>2 DEF OnItsWay, Ready, Stored
    <2> QED
      BY <2>1, <2>3, <2>4, QuietKeeps DEF IntentsStand
  <1>3. ASSUME NEW o \in Ops, Contain(o) PROVE Inv'
    <2>1. /\ UNCHANGED <<pinned, lists, file, current, consumed, quarantine,
                         expired, evidence, performed, contained, recoveries>>
          /\ runner' = Idle
          /\ \E status \in {"contained", "anomaly", "torn"} :
                containment' = [containment EXCEPT ![o] = status]
      BY <1>3 DEF Contain, outside
    <2>2. TypeOK' /\ OnItsWay'
      BY <2>1 DEF TypeOK, OnItsWay
    <2> QED
      BY <2>1, <2>2, QuietKeeps DEF IntentsStand
  <1> QED
    BY <1>1, <1>2, <1>3

LEMMA RecoveryFacts ==
    ASSUME NEW o \in Ops, NEW late, NEW decision, NEW next,
           decision = Decision(o, late), next = NextOf(o, decision)
    PROVE  /\ decision \in {"RESUME_PUBLICATION", "ALREADY_COMMITTED", "QUARANTINE"}
           /\ next \in {"runtime", "quarantine", "idle", "generation", "result", "history"}
           /\ next = "generation" => Begin(o)
           /\ next = "result" => Ordinal[o] \in 10..12 /\ Recoverable(o)
           /\ next = "history" => Ordinal[o] \notin (10..12) \cup (14..15) /\ Recoverable(o)
  <1>1. /\ decision \in {"RESUME_PUBLICATION", "ALREADY_COMMITTED", "QUARANTINE"}
        /\ decision = "RESUME_PUBLICATION" => Recoverable(o)
    BY DEF Decision
  <1> QED
    BY <1>1 DEF NextOf

LEMMA RecoveryKeeps ==
    ASSUME Inv, NEW o \in Ops, PrepareRecovery(o)
    PROVE  Inv'
  <1> USE DEF Inv, FilesInv
  <1>1. /\ runner = Idle /\ recoveries < MaxRecoveries /\ o \in consumed
        /\ Ordinal[o] \in 4..15 /\ Stored("intent", o)
        /\ recoveries' = recoveries + 1
        /\ UNCHANGED <<pinned, lists, file, containment, current, consumed,
                       quarantine, evidence, performed, contained>>
    BY OrdinalAssumption
    DEF PrepareRecovery, RecoveryAllowed, record, IntentsStand
  <1>a. PICK late \in BOOLEAN :
          LET decision == Decision(o, late)
              next == NextOf(o, decision)
          IN  /\ expired' = IF late THEN expired \cup {o} ELSE expired
              /\ runner' = IF next = "idle" THEN Idle
                           ELSE [op |-> o, mode |-> "RECOVERY",
                                 decision |-> decision, at |-> next]
    <2>1. Timed(o) \in BOOLEAN
      BY DEF Timed
    <2> QED
      BY <2>1 DEF PrepareRecovery
  <1>2. PICK decision, next :
          /\ decision = Decision(o, late) /\ next = NextOf(o, decision)
          /\ expired' = IF late THEN expired \cup {o} ELSE expired
          /\ runner' = IF next = "idle" THEN Idle
                       ELSE [op |-> o, mode |-> "RECOVERY",
                             decision |-> decision, at |-> next]
    BY <1>a
  <1>3. /\ decision \in {"RESUME_PUBLICATION", "ALREADY_COMMITTED", "QUARANTINE"}
        /\ next \in {"runtime", "quarantine", "idle", "generation", "result", "history"}
        /\ next = "generation" => Begin(o)
        /\ next = "result" => Ordinal[o] \in 10..12 /\ Recoverable(o)
        /\ next = "history" => Ordinal[o] \notin (10..12) \cup (14..15) /\ Recoverable(o)
    BY <1>2, RecoveryFacts
  <1>4. runner' = Idle \/ (/\ runner'.op = o /\ runner'.at = next
                           /\ runner'.mode = "RECOVERY"
                           /\ runner' \in [op : Ops, mode : {"ORIGINAL", "RECOVERY"},
                                  decision : {"NONE", "RESUME_PUBLICATION",
                                              "ALREADY_COMMITTED", "QUARANTINE"},
                                  at : Steps])
    BY <1>2, <1>3 DEF Steps, Kinds
  <1>5. recoveries' \in 0..MaxRecoveries /\ expired' \subseteq consumed'
    BY <1>1, <1>2, RecoveriesAssumption DEF TypeOK
  <1>6. TypeOK'
    BY <1>1, <1>4, <1>5 DEF TypeOK
  <1>7. Ready(o, next)'
    <2>1. next = "history" => Backing(o)
      BY <1>1, <1>3 DEF Recoverable, Backing, MigrationsAreFenced
    <2>2. next = "result" /\ Ordinal[o] \in 10..11 => Stored("binding", o)
      BY <1>3 DEF Recoverable
    <2> QED
      BY <1>1, <1>3, <2>1, <2>2 DEF Ready, Backing, Stored, Begin
  <1>8. OnItsWay'
    BY <1>1, <1>4, <1>7 DEF OnItsWay, Stored
  <1> QED
    BY <1>1, <1>6, <1>8, QuietKeeps DEF IntentsStand

LEMMA RuntimeKeeps ==
    ASSUME Inv, NEW o \in Ops, RecoverRuntime(o)
    PROVE  Inv'
  <1> USE DEF Inv, FilesInv
  <1>1. /\ runner # Idle /\ runner.op = o /\ o \in consumed
        /\ Stored("intent", o)
        /\ runner.mode = "ORIGINAL" => quarantine = {}
    BY NoneAssumption DEF RecoverRuntime, At, Idle, OnItsWay, Ready
  <1>2. /\ UNCHANGED <<pinned, lists, file, containment, current, consumed,
                       quarantine, expired, evidence, performed, recoveries>>
        /\ contained' \in {contained, contained \cup {o}}
        /\ runner' = Idle \/ runner' = Go("quarantine")
    BY DEF RecoverRuntime, record
  <1>3. runner' = Idle \/ (/\ runner'.op = o /\ runner'.at = "quarantine"
                           /\ runner'.mode = runner.mode
                           /\ runner' \in [op : Ops, mode : {"ORIGINAL", "RECOVERY"},
                                  decision : {"NONE", "RESUME_PUBLICATION",
                                              "ALREADY_COMMITTED", "QUARANTINE"},
                                  at : Steps])
    BY <1>1, <1>2 DEF Go, TypeOK, Steps
  <1>4. TypeOK'
    BY <1>1, <1>2, <1>3 DEF TypeOK
  <1>5. OnItsWay'
    BY <1>1, <1>2, <1>3 DEF OnItsWay, Ready, Stored
  <1> QED
    BY <1>2, <1>4, <1>5, QuietKeeps DEF IntentsStand

LEMMA QuarantineKeeps ==
    ASSUME Inv, NEW o \in Ops, Quarantine(o)
    PROVE  Inv'
  <1> USE DEF Inv, FilesInv
  <1>1. runner # Idle /\ runner.op = o /\ o \in consumed
    BY NoneAssumption DEF Quarantine, At, Idle, OnItsWay, Ready
  <1>2. /\ UNCHANGED <<pinned, lists, file, containment, current, consumed,
                       expired, evidence, performed, contained, recoveries>>
        /\ runner' = Idle /\ quarantine' = quarantine \cup {o}
    BY DEF Quarantine, outside
  <1>3. TypeOK' /\ OnItsWay'
    BY <1>1, <1>2 DEF TypeOK, OnItsWay
  <1> QED
    BY <1>2, <1>3, QuietKeeps DEF IntentsStand

---------------------------------------------------------------------------
(* The last rename                                                         *)

LEMMA CurrentKeeps ==
    ASSUME Inv, NEW o \in Ops, PublishCurrent(o)
    PROVE  Inv'
  <1> USE DEF Inv, FilesInv
  <1>1. /\ runner # Idle /\ runner.op = o /\ runner.at = "current"
        /\ o \in consumed /\ Stored("intent", o) /\ Stored("receipt", o)
        /\ runner.mode = "ORIGINAL" => quarantine = {}
    BY NoneAssumption DEF PublishCurrent, At, Idle, OnItsWay, Ready
  <1>2. /\ UNCHANGED <<pinned, lists, file, containment, consumed, quarantine,
                       expired, evidence, performed, contained, recoveries>>
        /\ current' = o /\ current = pinned[o] /\ Staged(o)
        /\ runner' = Idle \/ runner' = Go("confirm")
    BY DEF PublishCurrent, Candidate, outside
  <1>3. runner' = Idle \/ (/\ runner'.op = o /\ runner'.at = "confirm"
                           /\ runner'.mode = runner.mode
                           /\ runner' \in [op : Ops, mode : {"ORIGINAL", "RECOVERY"},
                                  decision : {"NONE", "RESUME_PUBLICATION",
                                              "ALREADY_COMMITTED", "QUARANTINE"},
                                  at : Steps])
    BY <1>1, <1>2 DEF Go, TypeOK, Steps
  <1>4. TypeOK'
    BY <1>2, <1>3 DEF TypeOK
  <1>5. OnItsWay'
    BY <1>1, <1>2, <1>3 DEF OnItsWay, Ready, Stored
  <1>6. IntentsStand' /\ MigrationsAreFenced' /\ PinsAreInOrder' /\ GenerationsBegin'
    BY <1>2 DEF IntentsStand, MigrationsAreFenced, PinsAreInOrder, GenerationsBegin,
                InOrder, Stored, Begin, Written
  <1>7. ReceiptsAreBacked'
    BY <1>2 DEF ReceiptsAreBacked, Written, Stored, Backing
  <1>8. CommittedChain({})'
    <2>1. PICK line \in SUBSET Ops : line = Written("receipt") \ {o}
      BY DEF Written
    <2>2. /\ Written("history") \ {o} = line
          /\ Written("generation") \ {o} = {x \in line : Begin(x)}
          /\ OneLine(line)
      BY <1>2, <2>1 DEF Staged, CommittedChain
    <2>3. /\ Stored("receipt", o) /\ Stored("history", o)
          /\ Begin(o) <=> Stored("generation", o)
          /\ file["generation"][o] \in {"absent", "stored"}
      <3>1. /\ Stored("receipt", o) /\ Stored("history", o)
            /\ Begin(o) => Stored("generation", o)
            /\ file["generation"][o] # "torn"
        BY <1>1, <1>2 DEF Staged
      <3> QED
        BY <3>1 DEF TypeOK, Kinds, GenerationsBegin, Written, Stored
    <2>4. /\ Written("receipt") = line \cup {o}
          /\ Written("history") = line \cup {o}
          /\ Written("generation") = {x \in line \cup {o} : Begin(x)}
      BY <2>1, <2>2, <2>3 DEF Written, Stored
    <2>5. OneLine(line \cup {o})'
      <3>1. o \notin line /\ o # None /\ current \in line \cup {None}
        BY <2>1, <2>2, NoneAssumption DEF OneLine
      <3>2. \A x \in line : pinned[x] # o
        BY <2>2, <3>1 DEF OneLine
      <3>3. {x \in line \cup {o} : pinned[x] = o} = {}
        BY <1>2, <3>1, <3>2
      <3>4. {x \in line \cup {o} : pinned[x] = current} = {o}
        BY <1>2, <2>2, <3>1 DEF OneLine
      <3>5. \A p \in (line \cup {None}) \ {current} :
               /\ {x \in line \cup {o} : pinned[x] = p} = {x \in line : pinned[x] = p}
               /\ \E x \in {x \in line : pinned[x] = p} : {y \in line : pinned[y] = p} = {x}
        BY <1>2, <2>2, <3>1 DEF OneLine
      <3>6. \A p \in (line \cup {o}) \cup {None} :
               LET after == {x \in line \cup {o} : pinned[x] = p}
               IN IF p = o THEN after = {} ELSE \E x \in after : after = {x}
        BY <3>3, <3>4, <3>5
      <3>7. \A x \in line \cup {o} :
               /\ Stored("receipt", x) /\ Stored("history", x)
               /\ Begin(x) => Stored("generation", x)
               /\ pinned[x] \in (line \cup {o}) \cup {None}
        BY <1>2, <2>2, <2>3, <3>1 DEF OneLine
      <3> QED
        BY <1>2, <3>1, <3>6, <3>7 DEF OneLine, Stored, Begin
    <2> QED
      BY <1>2, <2>4, <2>5 DEF CommittedChain, Written, Begin
  <1> QED
    BY <1>4, <1>5, <1>6, <1>7, <1>8 DEF JournalIsOneLine

---------------------------------------------------------------------------
(* The theorems                                                            *)

LEMMA InvKept == Inv /\ [Next]_vars => Inv'
  <1> SUFFICES ASSUME Inv, [Next]_vars PROVE Inv'
    OBVIOUS
  <1>1. CASE UNCHANGED vars
    <2>1. UNCHANGED <<pinned, lists, file, containment, current, consumed,
                      quarantine, expired, evidence, performed, contained,
                      recoveries, runner>>
      BY <1>1 DEF vars, record, outside
    <2>2. TypeOK' /\ OnItsWay'
      BY <2>1 DEF Inv, FilesInv, TypeOK, OnItsWay, Ready, Backing, Stored, Begin
    <2> QED
      BY <2>1, <2>2, QuietKeeps DEF Inv, FilesInv, IntentsStand
  <1>2. ASSUME NEW o \in Ops, Prepare(o) PROVE Inv'
    <2>1. CASE PrepareRecovery(o)
      BY <2>1, RecoveryKeeps
    <2>2. CASE ~PrepareRecovery(o)
      <3>1. /\ Preparable(o)
            /\ \E next \in {"grant", "consume"} :
                  (next = "grant" <=> Ordinal[o] = 8) /\ WriteIntent(o, next)
            /\ pinned[o] = Unset => InOrder(o, current)
        BY <1>2, <2>2, Preparing DEF Prepare
      <3> QED
        BY <3>1, PrepareKeeps
    <2> QED
      BY <2>1, <2>2
  <1>3. ASSUME NEW o \in Ops, Control(o) PROVE Inv'
    <2>1. CASE \/ WriteGrant(o) \/ ActivateFence(o) \/ RecordMigration(o)
               \/ RecordDeployment(o) \/ TransferFence(o) \/ BindPostdeploy(o)
               \/ CopyResult(o) \/ RecordRollback(o)
      BY <2>1, FileActions, StoringKeeps
    <2>2. CASE ConsumeAuthorization(o)
      BY <2>2, ConsumeKeeps
    <2>3. CASE VerifyPostdeploy(o) \/ PerformRollback(o)
      BY <2>3, WorkKeeps
    <2>4. CASE RecoverRuntime(o)
      BY <2>4, RuntimeKeeps
    <2>5. CASE Quarantine(o)
      BY <2>5, QuarantineKeeps
    <2> QED
      BY <1>3, <2>1, <2>2, <2>3, <2>4, <2>5 DEF Control
  <1>4. ASSUME NEW o \in Ops, Commit(o) PROVE Inv'
    <2>1. \/ PublishFile(o, "generation", "history")
          \/ PublishFile(o, "history", "receipt")
          \/ PublishFile(o, "receipt", "current")
          \/ PublishCurrent(o) \/ Confirm(o)
      BY <1>4 DEF Commit, Publish, CommitIntent, CommitSnapshot, CommitQuiesce,
          CommitMigrationAuthorization, CommitMigrationExecution,
          CommitComposeDeployment, CommitPostdeploy, CommitCrossRole,
          CommitFinalization, CommitRollback
    <2>2. CASE \/ PublishFile(o, "generation", "history")
               \/ PublishFile(o, "history", "receipt")
               \/ PublishFile(o, "receipt", "current")
      BY <2>2, FileActions, StoringKeeps
    <2> QED
      BY <2>1, <2>2, CurrentKeeps, EndKeeps
  <1> QED
    BY <1>1, <1>2, <1>3, <1>4, EndKeeps DEF Next

\* The inductive invariant of the journal.
THEOREM JournalInvariant == Spec => []Inv
  BY InvInitially, InvKept, PTL DEF Spec

\* Every state of the journal is well typed; what is quarantined, verified or
\* performed had its authorization consumed.
THEOREM TypeCorrect == Spec => []TypeOK
  <1>1. Inv => TypeOK
    BY DEF Inv, FilesInv
  <1> QED
    BY <1>1, JournalInvariant, PTL

\* Whatever crashes and whatever is recovered, the journal is one line with at
\* most one publication begun beside it.
THEOREM OneJournal == Spec => []JournalIsOneLine
  <1>1. Inv => JournalIsOneLine
    BY DEF Inv
  <1> QED
    BY <1>1, JournalInvariant, PTL

\* No receipt vouches for what is not durable.
THEOREM Backed == Spec => []ReceiptsAreBacked
  <1>1. Inv => ReceiptsAreBacked
    BY DEF Inv, FilesInv
  <1> QED
    BY <1>1, JournalInvariant, PTL

\* The pointer moves by the last rename of a publication only.
LEMMA PointerMoves ==
    ASSUME Inv, [Next]_vars, current' # current
    PROVE  \E o \in Ops : PublishCurrent(o)
  <1>1. CASE UNCHANGED vars
    BY <1>1 DEF vars, record
  <1>2. ASSUME NEW o \in Ops, Prepare(o) PROVE FALSE
    <2>1. CASE PrepareRecovery(o)
      BY <2>1 DEF PrepareRecovery, record
    <2>2. CASE ~PrepareRecovery(o)
      BY <1>2, <2>2, Preparing DEF Prepare, WriteIntent
    <2> QED
      BY <2>1, <2>2
  <1>3. ASSUME NEW o \in Ops, Control(o) PROVE FALSE
    BY <1>3 DEF Control, WriteGrant, ConsumeAuthorization, ActivateFence,
        RecordMigration, RecordDeployment, TransferFence, VerifyPostdeploy,
        BindPostdeploy, CopyResult, PerformRollback, RecordRollback,
        RecoverRuntime, Quarantine, unchangedByStore, record
  <1>4. ASSUME NEW o \in Ops, Commit(o) PROVE PublishCurrent(o)
    BY <1>4 DEF Commit, Publish, PublishFile, CommitIntent, CommitSnapshot,
        CommitQuiesce, CommitMigrationAuthorization, CommitMigrationExecution,
        CommitComposeDeployment, CommitPostdeploy, CommitCrossRole,
        CommitFinalization, CommitRollback, Confirm, unchangedByStore, record
  <1>5. ASSUME NEW o \in Ops, Fail(o) \/ Contain(o) PROVE FALSE
    BY <1>5 DEF Fail, Contain, record
  <1>6. ~Crash
    BY DEF Crash, record
  <1> QED
    BY <1>1, <1>2, <1>3, <1>4, <1>5, <1>6 DEF Next

\* While anything is quarantined, only a recovery moves the journal.
THEOREM QuarantineSafety == Spec => QuarantineHolds
  <1>1. Inv /\ [Next]_vars =>
          [quarantine # {} /\ current' # current => runner.mode = "RECOVERY"]_vars
    <2> SUFFICES ASSUME Inv, [Next]_vars, quarantine # {}, current' # current
                 PROVE  runner.mode = "RECOVERY"
      OBVIOUS
    <2>1. PICK o \in Ops : PublishCurrent(o)
      BY PointerMoves
    <2>2. runner # Idle
      BY <2>1, NoneAssumption DEF PublishCurrent, At, Idle
    <2> QED
      BY <2>2 DEF Inv, FilesInv, TypeOK, OnItsWay
  <1> QED
    BY <1>1, JournalInvariant, PTL DEF Spec, QuarantineHolds

\* The journal moves by one checkpoint at a time, never back and never past
\* one, and to the next promotion only from the end of the last.
THEOREM CheckpointOrder == Spec => CheckpointsInOrder
  <1> DEFINE Step ==
        current' # current =>
          /\ current' # None
          /\ pinned[current'] = current
          /\ IF current = None THEN Begin(current')
             ELSE \/ /\ Ordinal[current'] = Ordinal[current] + 1
                     /\ Generation[current'] = Generation[current]
                  \/ /\ Begin(current') /\ Ordinal[current] \in {13, 15}
                     /\ Generation[current'] = Generation[current] + 1
  <1>1. Inv /\ [Next]_vars => [Step]_vars
    <2> SUFFICES ASSUME Inv, [Next]_vars, current' # current PROVE Step
      OBVIOUS
    <2>1. PICK o \in Ops : PublishCurrent(o)
      BY PointerMoves
    <2>2. current' = o /\ pinned[o] = current
      BY <2>1 DEF PublishCurrent, Candidate
    <2>3. current # Unset /\ o # None
      BY NoneAssumption DEF Inv, FilesInv, TypeOK
    <2>4. InOrder(o, current)
      BY <2>2, <2>3 DEF Inv, FilesInv, PinsAreInOrder
    <2> QED
      BY <2>2, <2>3, <2>4 DEF InOrder
  <1> QED
    BY <1>1, JournalInvariant, PTL DEF Spec, CheckpointsInOrder
=============================================================================
