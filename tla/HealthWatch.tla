------------------------------- MODULE HealthWatch -----------------------------
(***************************************************************************)
(* The health endpoint and who watches it: the verdict computed from the   *)
(* runs of every protocol (dashboard/app/api/_health.ts, v1/health/        *)
(* route.ts) and the status page that polls it (status/page.tsx).         *)
(*                                                                         *)
(* Ages are counted in ticks up to one past the last threshold, where they *)
(* stay: nothing tells two such ages apart.  A fetch is answered at one    *)
(* moment and settles at a later one, in any order.                        *)
(***************************************************************************)
EXTENDS Integers, FiniteSets, FiniteSetsExt

CONSTANTS
    Watched,        \* slugs that may be registered
    StaleAfter,     \* thresholdMinutes
    DownMultiplier, \* downMultiplier
    MaxFetches,     \* bound: the page's fetches in flight
    Failures        \* answers without a verdict that may come back

ASSUME HealthAssumption ==
    /\ IsFiniteSet(Watched)
    /\ Failures \subseteq {"429", "500", "504", "unreachable", "unrecognised"}
    /\ StaleAfter \in Nat \ {0} /\ DownMultiplier \in Nat \ {0} /\ MaxFetches \in Nat \ {0}

VARIABLES
    okAge,      \* for each registered protocol, the age of its newest success, or Never
    fetches,    \* the status page's requests: asked, or what will come back
    page        \* the status page's state: data, error, loading; whether it is mounted

healthVars == <<okAge, fetches, page>>

Never == -1
Oldest == StaleAfter * DownMultiplier + 1

Verdicts == {"healthy", "degraded", "down"}
Answers == Verdicts \cup Failures

HealthInit ==
    /\ okAge = <<>>
    /\ fetches = [i \in 1 .. MaxFetches |-> "none"]
    /\ page = [data |-> "none", error |-> FALSE, loading |-> TRUE, open |-> FALSE]

--------------------------------------------------------------------------------
(* The verdict.                                                            *)

\* Mutant of IsCurrent: in JavaScript, null <= 30.
IsCurrentNull(age) == age <= StaleAfter

\* staleMinutes counts from the newest SUCCESS; never having had one is not current.
IsCurrent(age) == age # Never /\ age <= StaleAfter

Registered == DOMAIN okAge

OverallStatus ==
    LET current == {p \in Registered : IsCurrent(okAge[p])}
        ages    == {okAge[p] : p \in Registered} \ {Never}
    IN  CASE Registered = {}      -> "down"
          [] Registered # {} /\ current = Registered -> "healthy"
          [] current # Registered /\ current # {}    -> "degraded"
          [] Registered # {} /\ current = {} ->
                IF ages = {} \/ Min(ages) > StaleAfter * DownMultiplier THEN "down" ELSE "degraded"

\* 503 for anything but healthy, with the body either way.
HttpStatus(answer) ==
    CASE answer = "healthy"              -> 200
      [] answer \in {"degraded", "down"} -> 503
      [] answer = "429"                  -> 429
      [] answer = "500"                  -> 500
      [] answer = "504"                  -> 504
      [] answer = "unrecognised"         -> 503

HealthBodyStatuses == {200, 503}

\* interpretHealthResponse, and fetch's own rejection: whether the reader gets a body.
IsData(answer) ==
    /\ answer # "unreachable"
    /\ HttpStatus(answer) \in HealthBodyStatuses
    /\ answer \in Verdicts

--------------------------------------------------------------------------------
(* The registry goes on.                                                   *)

ReadersWait == UNCHANGED <<fetches, page>>

\* prepare upserts a protocol; its first run comes later.
Register(p) ==
    /\ p \notin Registered
    /\ okAge' = [q \in Registered \cup {p} |-> IF q = p THEN Never ELSE okAge[q]]
    /\ ReadersWait

\* A failed run leaves the newest success where it was: no step here.
Succeeded(p) ==
    /\ p \in Registered
    /\ okAge' = [okAge EXCEPT ![p] = 0]
    /\ ReadersWait

Older(age) == IF age = Never \/ age = Oldest THEN age ELSE age + 1

TimePasses ==
    /\ okAge' = [p \in Registered |-> Older(okAge[p])]
    /\ ReadersWait

--------------------------------------------------------------------------------
(* The status page.                                                        *)

\* Mount: the first fetch; a visit keeps nothing of the one before.
OpenPage ==
    /\ ~page.open
    /\ page' = [data |-> "none", error |-> FALSE, loading |-> TRUE, open |-> TRUE]
    /\ fetches' = [i \in 1 .. MaxFetches |-> IF i = 1 THEN "asked" ELSE "none"]
    /\ UNCHANGED okAge

\* Unmount clears the interval; what is still in flight reaches nobody.
ClosePage ==
    /\ page.open
    /\ page' = [page EXCEPT !.open = FALSE]
    /\ fetches' = [i \in 1 .. MaxFetches |-> "none"]
    /\ UNCHANGED okAge

\* The interval, "Refresh" or "Try again": another fetch, whatever is outstanding.
Poll(i) ==
    /\ page.open
    /\ fetches[i] = "none"
    /\ fetches' = [fetches EXCEPT ![i] = "asked"]
    /\ UNCHANGED <<okAge, page>>

\* The endpoint handles a request now, or something in between fails it.
Answered(i, answer) ==
    /\ fetches[i] = "asked"
    /\ answer \in {OverallStatus} \cup Failures
    /\ fetches' = [fetches EXCEPT ![i] = answer]
    /\ UNCHANGED <<okAge, page>>

\* Mutant of Settle: once there is data, a failed refresh is not worth a banner.
SettleQuietly(i) ==
    /\ fetches[i] \in Answers
    /\ page' = IF IsData(fetches[i])
               THEN [page EXCEPT !.data = fetches[i], !.error = FALSE, !.loading = FALSE]
               ELSE [page EXCEPT !.error = page.data = "none", !.loading = FALSE]
    /\ fetches' = [fetches EXCEPT ![i] = "none"]
    /\ UNCHANGED okAge

\* fetchHealth goes on: data replaces data and clears the error, a failure keeps the
\* data and sets the error, and either ends loading.
Settle(i) ==
    /\ fetches[i] \in Answers
    /\ page' = IF IsData(fetches[i])
               THEN [page EXCEPT !.data = fetches[i], !.error = FALSE, !.loading = FALSE]
               ELSE [page EXCEPT !.error = TRUE, !.loading = FALSE]
    /\ fetches' = [fetches EXCEPT ![i] = "none"]
    /\ UNCHANGED okAge

\* What the page renders: a skeleton, "Unable to load status", or a verdict with or
\* without the banner that its refresh failed.
Shown ==
    CASE page.loading                         -> "skeleton"
      [] ~page.loading /\ page.data # "none"  -> page.data
      [] ~page.loading /\ page.data = "none"  -> "unable"

HealthNext ==
    \/ \E p \in Watched : Register(p) \/ Succeeded(p)
    \/ TimePasses
    \/ OpenPage \/ ClosePage
    \/ \E i \in 1 .. MaxFetches : Poll(i) \/ Settle(i)
    \/ \E i \in 1 .. MaxFetches, answer \in Answers : Answered(i, answer)

--------------------------------------------------------------------------------

Rank(verdict) == CASE verdict = "healthy" -> 0 [] verdict = "degraded" -> 1 [] verdict = "down" -> 2

\* Only a recorded success can improve the verdict: not time, not a failed run, not a
\* newly registered protocol (_health.ts:192-254).
VerdictOnlyWorsens ==
    [][(\A p \in Watched : ~Succeeded(p))
            => Rank(OverallStatus') >= Rank(OverallStatus)]_healthVars

\* An outage that lasts reaches a page that stays open: it shows the verdict, or says
\* that it cannot (status/page.tsx:119-153).
OutageReachesPage ==
    <>[](page.open /\ OverallStatus = "down") => <>[](Shown = "down" \/ page.error)
================================================================================
