------------------------------- MODULE ScoreSeries -----------------------------
(***************************************************************************)
(* The history on a protocol's page: which scored runs the chart joins and *)
(* where its line breaks (dashboard/app/lib/score-series.ts), where the run *)
(* list says the rules changed (components/run-history.tsx), and how often *)
(* the page says the prices were stale (app/lib/oracle-staleness.ts).  The *)
(* window holds the newest runs; the next one enters it a time after the   *)
(* last.                                                                   *)
(***************************************************************************)
EXTENDS Sorting

CONSTANTS
    Window,         \* how many runs the page is given
    Spacings,       \* times from one run to the next
    Versions,       \* methodology versions
    Oracles,        \* what a scored run may say of its oracle
    GapFactor       \* GAP_BREAK_FACTOR

ASSUME SeriesAssumption ==
    /\ {Window, GapFactor} \subseteq Nat \ {0}
    /\ Spacings \subseteq Nat \ {0}
    /\ Versions \subseteq Nat
    /\ Oracles \subseteq {"fresh", "stale", "not-assessed"}

VARIABLE history    \* oldest first; `since` is the time from the run before

RunsDrawn == 1 .. Len(history)
SeriesInit == history = <<>>

\* A scored run carries its rulebook's version and its oracle factor, if that rulebook
\* has one: "stale" when the factor or its priceFreshness component is below 50.
NextRun(run) ==
    history' = IF Len(history) = Window THEN Append(Tail(history), run) ELSE Append(history, run)

Scored(since, version, oracle) ==
    [since |-> since, status |-> "ok", version |-> version, oracle |-> oracle]
Failed(since) == [since |-> since, status |-> "failed", version |-> 0, oracle |-> "not-assessed"]

SeriesNext ==
    \E since \in Spacings :
        \/ NextRun(Failed(since))
        \/ \E version \in Versions, oracle \in Oracles : NextRun(Scored(since, version, oracle))

--------------------------------------------------------------------------------
(* The chart.                                                              *)

Points == {i \in RunsDrawn : history[i].status = "ok"}
FailedRuns == RunsDrawn \ Points

\* When each run of the window was, from its first one on.
RunTimes ==
    LET at[k \in RunsDrawn] == IF k = 1 THEN 0 ELSE at[k - 1] + history[k].since
    IN  at

\* Time between two runs of the window.
Apart(i, j) == RunTimes[j] - RunTimes[i]

\* The spacings of all runs, failed ones included, shortest first.
Spaced == [k \in 1 .. Len(history) - 1 |-> history[k + 1].since]
Intervals == Sorted(Spaced, Spaced)

\* Mutant of Median: the upper of the two middle values.
MedianUpper == Intervals[(Len(Intervals) \div 2) + 1]

\* medianInterval: the lower of the two.
Median == Intervals[((Len(Intervals) - 1) \div 2) + 1]

\* Why the line between two neighbouring points is not drawn.
BreakKinds(i, j) ==
    {kind \in {"methodology", "failure", "gap"} :
        CASE kind = "methodology" -> history[i].version # history[j].version
          [] kind = "failure"     -> \E f \in FailedRuns : i < f /\ f < j
          [] kind = "gap"         -> Apart(i, j) > GapFactor * Median}

Neighbours(i, j) == i < j /\ \A k \in Points : k <= i \/ j <= k

\* Two neighbouring points of one segment.
JoinedPoints ==
    {pair \in Points \X Points :
        Neighbours(pair[1], pair[2]) /\ BreakKinds(pair[1], pair[2]) = {}}

\* Where the chart marks a change of rulebook.
VersionMarks ==
    {pair \in Points \X Points :
        Neighbours(pair[1], pair[2]) /\ "methodology" \in BreakKinds(pair[1], pair[2])}

--------------------------------------------------------------------------------
(* The list of runs and the staleness panel, on the same window.           *)

\* breakAfter of the row of run i: a dividing note between it and the run before it.
Dividers ==
    {i \in RunsDrawn : /\ i > 1
                       /\ history[i].status = "ok" /\ history[i - 1].status = "ok"
                       /\ history[i - 1].version < history[i].version}

Assessed == {i \in Points : history[i].oracle # "not-assessed"}
Stale    == {i \in Assessed : history[i].oracle = "stale"}

\* Math.round(100 * part / whole).
Percent(part, whole) == (200 * part + whole) \div (2 * whole)

\* Mutant of StalePercentage: of all the runs of the window.
StalePercentageOfAll ==
    IF Assessed = {} THEN 0 ELSE Percent(Cardinality(Stale), Len(history))

\* calculateOracleStaleness.
StalePercentage ==
    IF Assessed = {} THEN 0 ELSE Percent(Cardinality(Stale), Cardinality(Assessed))

\* OracleStalenessView: what the panel says, if it is there.
StalenessPanel ==
    CASE Assessed = {}        -> "absent"
      [] StalePercentage >= 50 -> "persistent"
      [] Assessed # {} /\ StalePercentage = 0 -> "remained fresh"
      [] OTHER                 -> "intermittent"

--------------------------------------------------------------------------------

\* A line is drawn only between runs that one rulebook scored, with no failed run between
\* them and no outage: whatever spacing at least half of the window's runs keep, the
\* line bridges no more than GAP_BREAK_FACTOR of it, so that an outage does not raise
\* the measure it is held against (score-series.ts:105-124, 167-190).
LineHidesNothing ==
    \A pair \in JoinedPoints :
        LET i == pair[1]  j == pair[2] IN
        /\ \A k \in i .. j : history[k].status = "ok" /\ history[k].version = history[i].version
        /\ \A usual \in Spacings :
              2 * Cardinality({k \in 2 .. Len(history) : history[k].since <= usual})
                    >= Len(history) - 1
                  => Apart(i, j) <= GapFactor * usual

\* The note between two rows of the list says what the mark on the line says: where the
\* list divides two runs the chart marks a change of rulebook between the same two, and
\* a rulebook that went up between two runs in a row has its note (run-history.tsx:50-62).
DividersMatchChart ==
    /\ \A i \in Dividers : <<i - 1, i>> \in VersionMarks
    /\ \A mark \in VersionMarks :
          LET i == mark[1]  j == mark[2] IN
          j = i + 1 /\ history[i].version < history[j].version => j \in Dividers

\* Rounding never changes what the panel says of a page of runs: "remained fresh" means no
\* assessed run was stale, and it warns when at least half of the assessed runs were,
\* whatever failed runs and runs without an oracle lie between
\* (oracle-staleness-view.tsx:34-36, 93-97).
PanelMatchesRuns ==
    Assessed # {} =>
        /\ StalenessPanel = "remained fresh" <=> Stale = {}
        /\ StalenessPanel = "persistent" <=> 2 * Cardinality(Stale) >= Cardinality(Assessed)

\* What the page says in words of its runs is what they were.
HistoryReadsAlike == DividersMatchChart /\ PanelMatchesRuns
================================================================================
