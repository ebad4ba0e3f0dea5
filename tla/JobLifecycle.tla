---------------------------- MODULE JobLifecycle ----------------------------
(***************************************************************************)
(* What the ingestion queue promises of one job, whoever works on it: the   *)
(* job state machine of docs/phase-1-one-source-ingestion.md together with  *)
(* the attempt budget, and nothing about leases, workers or time.  Several  *)
(* jobs may move in one step, as they do when expired leases are recovered. *)
(***************************************************************************)
EXTENDS Naturals

CONSTANTS Jobs, MaxAttempts

VARIABLES
    phase,      \* phase[j]: where job j stands
    tries,      \* tries[j]: attempts started since it was last queued
    cancelled   \* cancelled[j]: a cancellation is pending or was carried out

vars == <<phase, tries, cancelled>>

Waiting == {"queued", "retrying"}
Ended == {"succeeded", "failed", "cancelled"}

Init ==
    /\ phase = [j \in Jobs |-> "absent"]
    /\ tries = [j \in Jobs |-> 0]
    /\ cancelled = [j \in Jobs |-> FALSE]

Same(j) ==
    /\ phase'[j] = phase[j]
    /\ tries'[j] = tries[j]
    /\ cancelled'[j] = cancelled[j]

\* A job is created once, and an ended one starts over with a full budget.
Enter(j) ==
    /\ phase[j] \in {"absent"} \cup Ended
    /\ phase'[j] = "queued"
    /\ tries'[j] = 0
    /\ ~cancelled'[j]

\* An attempt starts only within the budget and only on a wanted job.
Start(j) ==
    /\ phase[j] \in Waiting
    /\ tries[j] < MaxAttempts
    /\ ~cancelled[j]
    /\ phase'[j] = "running"
    /\ tries'[j] = tries[j] + 1
    /\ ~cancelled'[j]

\* An attempt ends: with a cancellation if one was asked for, else with success,
\* a retry within the budget, or failure.
Finish(j) ==
    /\ phase[j] = "running"
    /\ IF cancelled[j] THEN phase'[j] = "cancelled"
       ELSE \/ phase'[j] \in {"succeeded", "failed"}
            \/ phase'[j] = "retrying" /\ tries[j] < MaxAttempts
    /\ tries'[j] = tries[j]
    /\ cancelled'[j] = cancelled[j]

\* A cancellation ends a waiting job at once and marks a running one.
Cancel(j) ==
    /\ \/ phase[j] \in Waiting /\ phase'[j] = "cancelled"
       \/ phase[j] = "running" /\ phase'[j] = "running"
    /\ tries'[j] = tries[j]
    /\ cancelled'[j]

Next == \A j \in Jobs : Same(j) \/ Enter(j) \/ Start(j) \/ Finish(j) \/ Cancel(j)

Spec == Init /\ [][Next]_vars
=============================================================================
