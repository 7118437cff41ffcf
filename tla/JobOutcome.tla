----------------------------- MODULE JobOutcome -----------------------------
(***************************************************************************)
(* What the job queue promises to the services that enqueue work: a job    *)
(* submitted waits, and then succeeds, dies or is cancelled, once and for  *)
(* all; its business effect is applied exactly when it succeeds.  Leases,  *)
(* retries, workers and time are not visible here.                         *)
(***************************************************************************)
EXTENDS Naturals

CONSTANT Jobs

VARIABLES
    outcome,   \* what has become of the job
    effects    \* business effects applied for it

vars == <<outcome, effects>>

Init ==
    /\ outcome = [j \in Jobs |-> "NONE"]
    /\ effects = [j \in Jobs |-> 0]

Submit(j) ==
    /\ outcome[j] = "NONE"
    /\ outcome' = [outcome EXCEPT ![j] = "WAITING"]
    /\ UNCHANGED effects

Succeed(j) ==
    /\ outcome[j] = "WAITING"
    /\ outcome' = [outcome EXCEPT ![j] = "SUCCEEDED"]
    /\ effects' = [effects EXCEPT ![j] = @ + 1]

Cancel(j) ==
    /\ outcome[j] = "WAITING"
    /\ outcome' = [outcome EXCEPT ![j] = "CANCELLED"]
    /\ UNCHANGED effects

\* The recovery of expired jobs may give up on several in one transaction.
Bury(S) ==
    /\ \A j \in S : outcome[j] = "WAITING"
    /\ outcome' = [j \in Jobs |-> IF j \in S THEN "DEAD" ELSE outcome[j]]
    /\ UNCHANGED effects

Next ==
    \/ \E j \in Jobs : Submit(j) \/ Succeed(j) \/ Cancel(j)
    \/ \E S \in SUBSET Jobs : Bury(S)

Spec == Init /\ [][Next]_vars
=============================================================================
