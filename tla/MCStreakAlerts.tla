---------------------------- MODULE MCStreakAlerts -----------------------------
(***************************************************************************)
(* StreakAlerts for TLC.  Invocations are interchangeable.                 *)
(***************************************************************************)
EXTENDS StreakAlerts, TLC

Symmetry == Permutations(Invocations)

\* A claim the repository's comments make.

\* alerts.ts, decideAlert: "recovered" fires "only when a `failing` alert was sent for it".
RecoveredWasAnnounced ==
    \A n \in DOMAIN sent : sent[n].kind = "recovered" =>
        \E m \in 1 .. n - 1 : /\ sent[m].kind = "failing"
                              /\ Spanned(sent[m]) \subseteq Spanned(sent[n])
================================================================================
