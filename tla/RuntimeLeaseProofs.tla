-------------------------- MODULE RuntimeLeaseProofs --------------------------
(***************************************************************************)
(* The fencing of RuntimeLease, for any number of process lives, any lease *)
(* and any bound on the version.                                           *)
(*                                                                         *)
(* The generation grows at each takeover, so the processes that are up     *)
(* have different ones and only the last is the row's.  That survives lost *)
(* answers because a renewal keeps the generation (RenewalKeepsGeneration):*)
(* a process that falls back on what it knew is still of its generation.   *)
(***************************************************************************)
EXTENDS RuntimeLease, TLAPS

\* A process that has not asked yet is not in the row.
NewIsUnknown ==
    \A i \in Instances :
      phase[i] = "new" => slot.instance # i /\ answer[i] = NoState

\* The database answers an acquisition; a process that leaves awaits nothing.
AnswersFitPhase ==
    \A i \in Instances :
      /\ phase[i] = "acquiring" => answer[i] # NoState
      /\ phase[i] = "leaving" => answer[i] = NoState

\* The answer to a renewal has the generation the process knows.
RenewalKeepsGeneration ==
    \A i \in Instances :
      phase[i] \in {"running", "round"} /\ answer[i] # NoState
        => answer[i].generation = known[i].generation

\* The inductive invariant.
IInv ==
    /\ TypeOK /\ NewIsUnknown /\ AnswersFitPhase /\ RenewalKeepsGeneration
    /\ HolderKnowsTheRow /\ GenerationsFence

\* In the beginning nobody holds the slot.
LEMMA InitHolds == ASSUME Init PROVE IInv
  BY LeaseAssumption, NoneAssumption
     DEF Init, IInv, TypeOK, NewIsUnknown, AnswersFitPhase, RenewalKeepsGeneration,
         HolderKnowsTheRow, GenerationsFence, Slot, LeaseState, Phases, NoSlot,
         NoState, Up, Told

\* Every step keeps the invariant.
LEMMA StepHolds == ASSUME IInv, [Next]_vars PROVE IInv'
<1> USE LeaseAssumption, NoneAssumption
    DEF IInv, TypeOK, NewIsUnknown, AnswersFitPhase, RenewalKeepsGeneration,
        HolderKnowsTheRow, GenerationsFence, Slot, LeaseState, Phases, NoState,
        SlotState, Up, Told, SetPhase
<1>1. ASSUME NEW i \in Instances, Acquire(i) PROVE IInv'
  <2> USE <1>1 DEF Acquire
  <2>1. TypeOK'
    OBVIOUS
  <2>2. NewIsUnknown' /\ AnswersFitPhase' /\ RenewalKeepsGeneration'
    OBVIOUS
  <2>3. HolderKnowsTheRow'
    OBVIOUS
  <2>4. GenerationsFence'
    <3>1. ASSUME NEW j \in Instances, Up(j) PROVE Told(j).generation \in 0..slot.generation
      BY <3>1
    <3>2. Told(i)'.generation = slot.generation + 1
      OBVIOUS
    <3>3. ASSUME NEW j \in Instances \ {i} PROVE Up(j)' = Up(j) /\ Told(j)' = Told(j)
      BY <3>3
    <3>4. QED
      BY <3>1, <3>2, <3>3
  <2>5. QED
    BY <2>1, <2>2, <2>3, <2>4
<1>2. ASSUME NEW i \in Instances, Acquired(i) PROVE IInv'
  BY <1>2 DEF Acquired
<1>3. ASSUME NEW i \in Instances, AcquireLost(i) PROVE IInv'
  BY <1>3 DEF AcquireLost
<1>4. ASSUME NEW i \in Instances, Renew(i) PROVE IInv'
  BY <1>4 DEF Renew, Idle, Matches
<1>5. ASSUME NEW i \in Instances, Renewed(i) PROVE IInv'
  BY <1>5 DEF Renewed
<1>6. ASSUME NEW i \in Instances, MarkLost(i) PROVE IInv'
  BY <1>6 DEF MarkLost
<1>7. ASSUME NEW i \in Instances, AssertCurrent(i) PROVE IInv'
  BY <1>7 DEF AssertCurrent, Idle
<1>8. ASSUME NEW i \in Instances, EndRound(i) PROVE IInv'
  BY <1>8 DEF EndRound
<1>9. ASSUME NEW i \in Instances, Leave(i) PROVE IInv'
  BY <1>9 DEF Leave
<1>10. ASSUME NEW i \in Instances, Stop(i) PROVE IInv'
  BY <1>10 DEF Stop, Matches
<1>11. ASSUME NEW i \in Instances, Crash(i) PROVE IInv'
  BY <1>11 DEF Crash
<1>12. CASE Tick
  BY <1>12 DEF Tick
<1>13. CASE UNCHANGED vars
  BY <1>13 DEF vars
<1>14. QED
  BY <1>1, <1>2, <1>3, <1>4, <1>5, <1>6, <1>7, <1>8, <1>9, <1>10, <1>11, <1>12,
     <1>13 DEF Next

\* The inductive invariant holds of every state.
THEOREM LeaseInvariant == Spec => []IInv
<1>1. QED
  BY InitHolds, StepHolds, PTL DEF Spec

\* A process that holds the slot and lost no answer knows the row's generation
\* and version.
THEOREM HolderKnows == Spec => []HolderKnowsTheRow
<1>1. IInv => HolderKnowsTheRow
  BY DEF IInv
<1>2. QED
  BY <1>1, LeaseInvariant, PTL

\* A process that was replaced is older than the row, and no two that are up
\* have one generation.
THEOREM Fenced == Spec => []GenerationsFence
<1>1. IInv => GenerationsFence
  BY DEF IInv
<1>2. QED
  BY <1>1, LeaseInvariant, PTL

\* A lease that has not run out ends only by its holder's own stop.
THEOREM LiveLeaseStands == Spec => LiveLeaseIsSafe
<1> DEFINE Safe ==
      \A i \in Instances : Live(i) =>
         \/ slot'.instance = i /\ slot'.status = "RUNNING"
         \/ /\ slot'.instance = i
            /\ phase[i] = "leaving" /\ phase'[i] = "gone"
<1>1. ASSUME IInv, [Next]_vars PROVE Safe
  <2> USE LeaseAssumption DEF IInv, TypeOK, Slot, Live
  <2>1. ASSUME NEW i \in Instances, Acquire(i) PROVE Safe
    BY <1>1, <2>1 DEF Acquire, Free
  <2>2. ASSUME NEW i \in Instances, Renew(i) PROVE Safe
    BY <1>1, <2>2 DEF Renew, Matches
  <2>3. ASSUME NEW i \in Instances, Stop(i) PROVE Safe
    BY <1>1, <2>3 DEF Stop, Matches, SetPhase
  <2>4. CASE Tick
    BY <1>1, <2>4 DEF Tick
  <2>5. ASSUME UNCHANGED slot PROVE Safe
    BY <1>1, <2>5
  <2>6. ASSUME NEW i \in Instances,
               \/ Acquired(i) \/ AcquireLost(i) \/ Renewed(i) \/ MarkLost(i)
               \/ AssertCurrent(i) \/ EndRound(i) \/ Leave(i) \/ Crash(i)
        PROVE  UNCHANGED slot
    BY <2>6 DEF Acquired, AcquireLost, Renewed, MarkLost, AssertCurrent, EndRound,
         Leave, Crash
  <2>7. CASE UNCHANGED vars
    BY <2>5, <2>7 DEF vars
  <2> HIDE DEF Safe
  <2>8. QED
    BY <1>1, <2>1, <2>2, <2>3, <2>4, <2>5, <2>6, <2>7 DEF Next
<1>2. QED
  BY <1>1, LeaseInvariant, PTL DEF Spec, LiveLeaseIsSafe

=============================================================================
