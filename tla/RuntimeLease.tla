----------------------------- MODULE RuntimeLease -----------------------------
(***************************************************************************)
(* The runtime lease of the worker service (runtime-readiness/             *)
(* worker-lease.ts, worker-runtime-service.ts, worker/selfhost.ts): one    *)
(* row, the service slot, that at most one worker process may hold.        *)
(*                                                                         *)
(* An instance is one life of a worker process.  A statement of the        *)
(* instance and its answer are two steps: the database may have executed   *)
(* what the process never hears of, and time passes and others act before  *)
(* it does.  The supervisor's chain lets one statement be open at a time.  *)
(***************************************************************************)
EXTENDS Integers

CONSTANTS
    Instances,   \* instance ids, one per process life
    Lease,       \* ticks a lease lasts
    MaxVersion,  \* bound on the version of the row, for model checking
    None

ASSUME LeaseAssumption == Lease \in Nat \ {0}
ASSUME NoneAssumption == None \notin Instances

VARIABLES
    slot,     \* the row of worker_runtime_leases
    phase,    \* of each instance
    known,    \* the generation and version its supervisor believes in
    answer,   \* those the database returned and the process has not seen yet
    lost      \* WorkerRuntimeLeaseSupervisor.lost

vars == <<slot, phase, known, answer, lost>>

NoState == [generation |-> 0, version |-> 0]

NoSlot == [instance |-> None, generation |-> 0, version |-> 0,
           status |-> "ABSENT", ttl |-> 0]

Phases == {"new", "acquiring", "running", "round", "leaving", "gone"}

LeaseState == [generation : Nat, version : Nat]

Slot == [instance : Instances \cup {None}, generation : Nat, version : Nat,
         status : {"ABSENT", "RUNNING", "STOPPED"}, ttl : 0..Lease]

TypeOK ==
    /\ slot \in Slot
    /\ phase \in [Instances -> Phases]
    /\ known \in [Instances -> LeaseState]
    /\ answer \in [Instances -> LeaseState]
    /\ lost \in [Instances -> BOOLEAN]

Init ==
    /\ slot = NoSlot
    /\ phase = [i \in Instances |-> "new"]
    /\ known = [i \in Instances |-> NoState]
    /\ answer = [i \in Instances |-> NoState]
    /\ lost = [i \in Instances |-> FALSE]

SlotState == [generation |-> slot.generation, version |-> slot.version]

Live(i) == slot.instance = i /\ slot.status = "RUNNING" /\ slot.ttl > 0

Matches(i) ==
    slot.instance = i /\ slot.status = "RUNNING" /\ SlotState = known[i]

SetPhase(i, p) == phase' = [phase EXCEPT ![i] = p]

-----------------------------------------------------------------------------
\* The slot may be taken when nobody ever had it, when its holder stopped, or
\* when the lease ran out by the clock of the database.
Free == slot.status # "RUNNING" \/ slot.ttl = 0

\* Fault: an expired lease is taken over under the old generation.
AcquireSameGeneration(i) ==
    /\ phase[i] = "new"
    /\ Free
    /\ slot' = [instance |-> i, generation |-> 1,
                version |-> slot.version + 1, status |-> "RUNNING", ttl |-> Lease]
    /\ answer' = [answer EXCEPT ![i] =
                    [generation |-> 1, version |-> slot.version + 1]]
    /\ SetPhase(i, "acquiring")
    /\ UNCHANGED <<known, lost>>

\* acquire: insert ... on conflict do update.  A start that finds the slot
\* held exits and leaves no trace.
Acquire(i) ==
    /\ phase[i] = "new"
    /\ Free
    /\ slot.version < MaxVersion
    /\ slot' = [instance |-> i, generation |-> slot.generation + 1,
                version |-> slot.version + 1, status |-> "RUNNING", ttl |-> Lease]
    /\ answer' = [answer EXCEPT ![i] =
                    [generation |-> slot.generation + 1,
                     version |-> slot.version + 1]]
    /\ SetPhase(i, "acquiring")
    /\ UNCHANGED <<known, lost>>

Acquired(i) ==
    /\ phase[i] = "acquiring"
    /\ known' = [known EXCEPT ![i] = answer[i]]
    /\ answer' = [answer EXCEPT ![i] = NoState]
    /\ SetPhase(i, "running")
    /\ UNCHANGED <<slot, lost>>

\* Without an answer the process ends, and has no state to stop the lease with.
AcquireLost(i) ==
    /\ phase[i] = "acquiring"
    /\ answer' = [answer EXCEPT ![i] = NoState]
    /\ SetPhase(i, "gone")
    /\ UNCHANGED <<slot, known, lost>>

\* The supervisor may issue its next statement.
Idle(i) ==
    /\ phase[i] \in {"running", "round"}
    /\ ~lost[i]
    /\ answer[i] = NoState

\* renew: compare and swap on instance, generation and version.
Renew(i) ==
    /\ Idle(i)
    /\ Matches(i)
    /\ slot.ttl > 0
    /\ slot.version < MaxVersion
    /\ slot' = [instance |-> i, generation |-> slot.generation,
                version |-> slot.version + 1, status |-> "RUNNING", ttl |-> Lease]
    /\ answer' = [answer EXCEPT ![i] =
                    [generation |-> slot.generation,
                     version |-> slot.version + 1]]
    /\ UNCHANGED <<phase, known, lost>>

Renewed(i) ==
    /\ phase[i] \in {"running", "round"}
    /\ answer[i] # NoState
    /\ known' = [known EXCEPT ![i] = answer[i]]
    /\ answer' = [answer EXCEPT ![i] = NoState]
    /\ UNCHANGED <<slot, phase, lost>>

\* Fault: a renewal whose answer does not arrive is forgiven.
ForgiveLoss(i) ==
    /\ phase[i] \in {"running", "round"}
    /\ answer[i] # NoState
    /\ answer' = [answer EXCEPT ![i] = NoState]
    /\ UNCHANGED <<slot, phase, known, lost>>

\* markLost: the lease is not the instance's any more, a probe or a call
\* failed, or the answer to a renewal did not arrive.
MarkLost(i) ==
    /\ phase[i] \in {"running", "round"}
    /\ ~lost[i]
    /\ lost' = [lost EXCEPT ![i] = TRUE]
    /\ answer' = [answer EXCEPT ![i] = NoState]
    /\ UNCHANGED <<slot, phase, known>>

\* assertCurrent before a round of the poll loop.
AssertCurrent(i) ==
    /\ phase[i] = "running"
    /\ Idle(i)
    /\ Live(i)
    /\ SetPhase(i, "round")
    /\ UNCHANGED <<slot, known, answer, lost>>

EndRound(i) ==
    /\ phase[i] = "round"
    /\ SetPhase(i, "running")
    /\ UNCHANGED <<slot, known, answer, lost>>

\* A signal or the lost lease ends the poll loop; supervisor.stop awaits the
\* statement that is still open.
Leave(i) ==
    /\ phase[i] = "running"
    /\ answer[i] = NoState
    /\ SetPhase(i, "leaving")
    /\ UNCHANGED <<slot, known, answer, lost>>

\* Fault: stop names only the slot.
StopBlind(i) ==
    /\ phase[i] = "leaving"
    /\ slot' = [slot EXCEPT !.status = "STOPPED", !.ttl = 0,
                            !.version = slot.version + 1]
    /\ SetPhase(i, "gone")
    /\ UNCHANGED <<known, answer, lost>>

\* stop: the lease is given back if the state is still current, and left to
\* expire if it is not.
Stop(i) ==
    /\ phase[i] = "leaving"
    /\ \/ /\ Matches(i)
          /\ slot' = [instance |-> i, generation |-> slot.generation,
                      version |-> slot.version + 1, status |-> "STOPPED",
                      ttl |-> 0]
       \/ ~Matches(i) /\ UNCHANGED slot
    /\ SetPhase(i, "gone")
    /\ UNCHANGED <<known, answer, lost>>

\* The process dies, or is killed 25 seconds after the signal.
Crash(i) ==
    /\ phase[i] \in {"acquiring", "running", "round", "leaving"}
    /\ answer' = [answer EXCEPT ![i] = NoState]
    /\ SetPhase(i, "gone")
    /\ UNCHANGED <<slot, known, lost>>

Tick ==
    /\ slot.ttl > 0
    /\ slot' = [instance |-> slot.instance, generation |-> slot.generation,
                version |-> slot.version, status |-> slot.status,
                ttl |-> slot.ttl - 1]
    /\ UNCHANGED <<phase, known, answer, lost>>

Next ==
    \/ \E i \in Instances :
          \/ Acquire(i) \/ Acquired(i) \/ AcquireLost(i)
          \/ Renew(i) \/ Renewed(i) \/ MarkLost(i)
          \/ AssertCurrent(i) \/ EndRound(i)
          \/ Leave(i) \/ Stop(i) \/ Crash(i)
    \/ Tick

Spec == Init /\ [][Next]_vars

-----------------------------------------------------------------------------
\* The latest state the database has told an instance, heard or not.
Told(i) == IF answer[i] = NoState THEN known[i] ELSE answer[i]

Up(i) == phase[i] \in {"acquiring", "running", "round", "leaving"}

\* A process that still holds the slot and has lost no answer knows the row
\* exactly: its next renewal or its stop cannot fail for a stale version.
HolderKnowsTheRow ==
    \A i \in Instances :
      Up(i) /\ ~lost[i] /\ slot.instance = i /\ slot.status = "RUNNING"
        => Told(i) = SlotState

\* Every instance lives under a generation of its own, and one that was
\* replaced is older than the row: nothing it still sends can match.
GenerationsFence ==
    \A i \in Instances : Up(i) =>
      /\ Told(i).generation = slot.generation <=> slot.instance = i
      /\ slot.instance # i => Told(i).generation < slot.generation
      /\ \A j \in Instances \ {i} : Up(j) =>
            Told(i).generation # Told(j).generation

\* A lease that has not run out ends only by the hand of its holder: no
\* second instance overwrites it and no late process stops it.
LiveLeaseIsSafe ==
    [][\A i \in Instances : Live(i) =>
         \/ slot'.instance = i /\ slot'.status = "RUNNING"
         \/ /\ slot'.instance = i
            /\ phase[i] = "leaving" /\ phase'[i] = "gone"]_vars
=============================================================================
