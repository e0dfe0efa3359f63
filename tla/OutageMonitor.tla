----------------------------- MODULE OutageMonitor -----------------------------
(***************************************************************************)
(* What streak alerting promises a reader who sees the alerts and nothing  *)
(* else (indexer/src/alerts.ts): each protocol's outage, a streak of at    *)
(* least Threshold failed cycles, is announced once when it becomes one    *)
(* and once when it ends, so that silence means "no change".               *)
(***************************************************************************)
EXTENDS Naturals

CONSTANT Threshold

VARIABLES
    failing,    \* failed cycles since the last one that was not
    due,        \* the announcement owed, if any
    told        \* what the reader has been told last

vars == <<failing, due, told>>

Init ==
    /\ failing = 0
    /\ due = "none"
    /\ told = "up"

\* A cycle fails: the one that makes the streak an outage is announced.
Fail ==
    /\ due = "none"
    /\ failing' = failing + 1
    /\ due' = IF failing + 1 = Threshold THEN "failing" ELSE "none"
    /\ UNCHANGED told

\* A cycle succeeds: the end of an outage is announced.
Succeed ==
    /\ due = "none"
    /\ failing' = 0
    /\ due' = IF failing >= Threshold THEN "recovered" ELSE "none"
    /\ UNCHANGED told

Tell ==
    /\ due # "none"
    /\ told' = IF due = "failing" THEN "down" ELSE "up"
    /\ due' = "none"
    /\ UNCHANGED failing

Next == Fail \/ Succeed \/ Tell

Spec     == Init /\ [][Next]_vars
FairSpec == Spec /\ WF_vars(Tell)

--------------------------------------------------------------------------------

\* With nothing owed, the reader knows whether there is an outage.
Informed == due = "none" => (told = "down" <=> failing >= Threshold)
================================================================================
