----------------------------- MODULE StreakAlerts ------------------------------
(***************************************************************************)
(* Consecutive-failure alerting for one protocol, over the cycles that     *)
(* feed it: indexer/src/alerts.ts (streakWindow, countLeadingFailures,     *)
(* decideAlert), the part of runOne in indexer/src/cycle.ts that writes a  *)
(* row and reads the streak back (insertRunRecord, checkStreak), and the   *)
(* notifier call at the cycle's end.  Nothing is kept between cycles but   *)
(* the rows; an invocation may be killed anywhere, and invocations may     *)
(* overlap, because neither setInterval nor the cron route waits.          *)
(***************************************************************************)
EXTENDS Naturals, Sequences, FiniteSets, FiniteSetsExt

CONSTANTS
    Invocations,    \* cycle invocations that may be under way at once
    Threshold,      \* options.alertThreshold
    WindowFloor,    \* the floor of streakWindow: 20 in the code
    Faults,         \* which of "write", "read", "post", "kill" can happen
    Regimes,        \* whether invocations may overlap: TRUE, FALSE, or either
    MaxRuns,        \* bound: cycles started
    MaxOverlapping  \* bound: cycles started, when they may overlap

ASSUME StreakAssumption ==
    /\ Threshold \in Nat \ {0}
    /\ WindowFloor \in Nat
    /\ MaxRuns \in Nat /\ MaxOverlapping \in Nat
    /\ Regimes \subseteq BOOLEAN
    /\ Faults \subseteq {"write", "read", "post", "kill"}

VARIABLES
    runs,   \* risk_scores of this protocol: status by run_at, "lost" if never written
    cycle,  \* what each invocation is doing
    sent,   \* alerts the webhook delivered, in order
    overlapping     \* whether the scheduler starts a cycle before the last one is over

vars == <<runs, cycle, sent, overlapping>>

\* An alert's first and last failure are named by their place in run_at order.
NoAlert == [kind |-> "none", count |-> 0, exact |-> TRUE, first |-> 0, last |-> 0]

Idle == [pc |-> "idle", run |-> 0, alert |-> NoAlert]

Init ==
    /\ runs = <<>>
    /\ cycle = [i \in Invocations |-> Idle]
    /\ sent = <<>>
    /\ overlapping \in Regimes

--------------------------------------------------------------------------------
(* Reading the streak.                                                     *)

Written == {k \in DOMAIN runs : runs[k] \in {"ok", "failed"}}

\* Mutant of StreakWindow: no room beyond the threshold.
StreakWindowTight == Max({Threshold, WindowFloor})

StreakWindow == Max({Threshold + 2, WindowFloor})

\* listRecentRuns: the newest rows by run_at, no more than the window.
RecentRuns == {k \in Written : Cardinality({m \in Written : m > k}) < StreakWindow}

\* The failed rows from the newest of `rows` back to the first that is not one.
LeadingFailures(rows) == {k \in rows : \A m \in rows : m >= k => runs[m] = "failed"}

BuildAlert(kind, streak, exact) ==
    [kind |-> kind, count |-> Cardinality(streak), exact |-> exact,
     first |-> Min(streak), last |-> Max(streak)]

\* Mutants of DecideAlert: a failing streak alerts at every length from the threshold
\* on; "no ok run in the window" instead of counting; and a count called exact as soon
\* as it is below the window.
DecideAlertAlways(rows) ==
    IF rows = {} THEN NoAlert
    ELSE LET newest == Max(rows)
             prior  == rows \ {newest}
             streak == LeadingFailures(IF runs[newest] = "failed" THEN rows ELSE prior)
         IN  IF Cardinality(streak) < Threshold THEN NoAlert
             ELSE IF runs[newest] = "failed" THEN BuildAlert("failing", streak, TRUE)
             ELSE BuildAlert("recovered", streak,
                    Cardinality(streak) < Cardinality(prior) \/ Cardinality(rows) < StreakWindow)
DecideAlertNoOk(rows) ==
    IF rows # {} /\ \A k \in rows : runs[k] = "failed"
    THEN BuildAlert("failing", rows, TRUE)
    ELSE NoAlert
DecideAlertOverexact(rows) ==
    IF rows = {} THEN NoAlert
    ELSE LET newest == Max(rows)
             prior  == rows \ {newest}
             streak == LeadingFailures(IF runs[newest] = "failed" THEN rows ELSE prior)
         IN  IF runs[newest] = "failed" /\ Cardinality(streak) = Threshold
             THEN BuildAlert("failing", streak, TRUE)
             ELSE IF runs[newest] = "ok" /\ Cardinality(streak) >= Threshold
             THEN BuildAlert("recovered", streak, Cardinality(streak) < StreakWindow)
             ELSE NoAlert

\* decideAlert, on the rows that were read.
DecideAlert(rows) ==
    IF rows = {} THEN NoAlert
    ELSE LET newest  == Max(rows)
             prior   == rows \ {newest}
             leading == LeadingFailures(rows)
             ended   == LeadingFailures(prior)
         IN  IF runs[newest] = "failed"
             THEN IF Cardinality(leading) = Threshold
                  THEN BuildAlert("failing", leading, TRUE)
                  ELSE NoAlert
             ELSE IF Cardinality(ended) >= Threshold
                  THEN BuildAlert("recovered", ended,
                         \/ Cardinality(ended) < Cardinality(prior)
                         \/ Cardinality(rows) < StreakWindow)
                  ELSE NoAlert

--------------------------------------------------------------------------------
(* One cycle's passage over the protocol.                                  *)

RunsAllowed == IF overlapping THEN MaxOverlapping ELSE MaxRuns

\* runOne stamps runAt before it scores.
Start(i) ==
    /\ cycle[i].pc = "idle"
    /\ ~overlapping => \A j \in Invocations : cycle[j].pc = "idle"
    /\ Len(runs) < RunsAllowed
    /\ runs' = Append(runs, "running")
    /\ cycle' = [cycle EXCEPT ![i] = [Idle EXCEPT !.pc = "scoring", !.run = Len(runs) + 1]]
    /\ UNCHANGED <<sent, overlapping>>

\* The target is scored, or fails, and insertRunRecord resolves.
Write(i) ==
    /\ cycle[i].pc = "scoring"
    /\ \E status \in {"ok", "failed"} : runs' = [runs EXCEPT ![cycle[i].run] = status]
    /\ cycle' = [cycle EXCEPT ![i].pc = "reading"]
    /\ UNCHANGED <<sent, overlapping>>

\* Mutant of WriteFails: the streak is read whether or not the row landed.
WriteFailsThenReads(i) ==
    /\ "write" \in Faults
    /\ cycle[i].pc = "scoring"
    /\ runs' = [runs EXCEPT ![cycle[i].run] = "lost"]
    /\ cycle' = [cycle EXCEPT ![i].pc = "reading"]
    /\ UNCHANGED <<sent, overlapping>>

\* insertRunRecord rejects: no row, so no streak to read.
WriteFails(i) ==
    /\ "write" \in Faults
    /\ cycle[i].pc = "scoring"
    /\ runs' = [runs EXCEPT ![cycle[i].run] = "lost"]
    /\ cycle' = [cycle EXCEPT ![i] = Idle]
    /\ UNCHANGED <<sent, overlapping>>

\* checkStreak: an alert goes to the end of the cycle.
Read(i) ==
    /\ cycle[i].pc = "reading"
    /\ LET alert == DecideAlert(RecentRuns)
       IN  cycle' = [cycle EXCEPT ![i] = IF alert.kind = "none" THEN Idle
                                         ELSE [@ EXCEPT !.pc = "posting", !.alert = alert]]
    /\ UNCHANGED <<runs, sent, overlapping>>

\* checkStreak cannot read the history: logged, no alert.
ReadFails(i) ==
    /\ "read" \in Faults
    /\ cycle[i].pc = "reading"
    /\ cycle' = [cycle EXCEPT ![i] = Idle]
    /\ UNCHANGED <<runs, sent, overlapping>>

\* The notifier delivers.
Post(i) ==
    /\ cycle[i].pc = "posting"
    /\ sent' = Append(sent, cycle[i].alert)
    /\ cycle' = [cycle EXCEPT ![i] = Idle]
    /\ UNCHANGED <<runs, overlapping>>

\* The webhook refuses or times out: logged, never retried.
PostFails(i) ==
    /\ "post" \in Faults
    /\ cycle[i].pc = "posting"
    /\ cycle' = [cycle EXCEPT ![i] = Idle]
    /\ UNCHANGED <<runs, sent, overlapping>>

\* The platform kills the invocation.
Kill(i) ==
    /\ "kill" \in Faults
    /\ cycle[i].pc # "idle"
    /\ runs' = IF cycle[i].pc = "scoring"
               THEN [runs EXCEPT ![cycle[i].run] = "lost"]
               ELSE runs
    /\ cycle' = [cycle EXCEPT ![i] = Idle]
    /\ UNCHANGED <<sent, overlapping>>

Step(i) ==
    \/ Write(i)
    \/ WriteFails(i)
    \/ Read(i)
    \/ ReadFails(i)
    \/ Post(i)
    \/ PostFails(i)

\* The bound on cycles is reached.
Exhausted ==
    /\ Len(runs) = RunsAllowed
    /\ \A i \in Invocations : cycle[i].pc = "idle"
    /\ UNCHANGED vars

Next ==
    \/ \E i \in Invocations : Start(i) \/ Step(i) \/ Kill(i)
    \/ Exhausted

Spec     == Init /\ [][Next]_vars
FairSpec == Spec /\ \A i \in Invocations : WF_vars(Step(i))

--------------------------------------------------------------------------------
(* Properties.                                                             *)

\* The failed rows an alert spans, as the table has them now.
Spanned(alert) == {k \in alert.first .. alert.last : runs[k] = "failed"}

\* Whatever fails or overlaps, an alert is about failures that the table has: the rows it
\* names as the first and the latest failed, and from one to the other there are at least
\* the threshold of failed rows and no fewer than it counted (alerts.ts:95-115).  A row
\* that overlapping cycles wrote late may lie among them and be ok.
NoFalseAlarm ==
    \A n \in DOMAIN sent :
        /\ {sent[n].first, sent[n].last} \subseteq Spanned(sent[n])
        /\ Cardinality(Spanned(sent[n])) >= Max({Threshold, sent[n].count})

\* One cycle at a time, an alert's figures are the table's: nothing but failures in its
\* span, its count what lies between, and the count called exact only when the streak
\* did not begin before the span.
SerialAlertsAccurate ==
    ~overlapping => \A n \in DOMAIN sent :
        LET alert  == sent[n]
            before == {k \in Written : k < alert.first}
        IN  /\ \A k \in Written : k \in alert.first .. alert.last => runs[k] = "failed"
            /\ alert.count = Cardinality(Spanned(alert))
            /\ alert.exact => before = {} \/ runs[Max(before)] = "ok"
            /\ ~alert.exact => alert.count = StreakWindow - 1

\* One cycle at a time, an outage is announced at most once and its end at most once,
\* whichever reads, posts or invocations are lost: two alerts of a kind never share a
\* failed row.  Two cycles that have both written before either reads see the same edge.
SerialOncePerOutage ==
    ~overlapping => \A m, n \in DOMAIN sent : m # n /\ sent[m].kind = sent[n].kind =>
        Spanned(sent[m]) \cap Spanned(sent[n]) = {}

--------------------------------------------------------------------------------
(* One cycle at a time and no fault: the reader is kept informed.          *)

Owed ==
    IF \E i \in Invocations : cycle[i].pc = "reading" THEN DecideAlert(RecentRuns).kind
    ELSE IF \E i \in Invocations : cycle[i].pc = "posting"
    THEN cycle[CHOOSE i \in Invocations : cycle[i].pc = "posting"].alert.kind
    ELSE "none"

Monitor == INSTANCE OutageMonitor WITH
    failing <- Cardinality(LeadingFailures(Written)),
    due     <- Owed,
    told    <- IF sent # <<>> /\ sent[Len(sent)].kind = "failing" THEN "down" ELSE "up"

\* Deriving the alerts from the newest rows alone, with no memory of what was sent, does
\* what OutageMonitor says, and every announcement owed is eventually made.
KeepsReaderInformed == Monitor!FairSpec

\* Between cycles, the last alert tells whether the protocol is in an outage.
SilenceMeansNoChange == Monitor!Informed
================================================================================
