--------------------------------- MODULE Delivery ------------------------------
(***************************************************************************)
(* What the public API lets the CDN keep: the TTL computed from the        *)
(* lastRunAt of every protocol a body reports (dashboard/app/api/          *)
(* _cache.ts), the routes that set it (v1/protocols, v1/protocol/[id],     *)
(* v1/protocols/export, v1/coverage) and the shared copy that goes on      *)
(* being served while the indexer records newer runs.                      *)
(*                                                                         *)
(* A run is recorded `lag` after the run_at it carries.  Runs are kept as  *)
(* ages, up to an interval and the longest lag, where they stay: from      *)
(* there on nothing that lands came early.                                 *)
(***************************************************************************)
EXTENDS Integers, FiniteSets, FiniteSetsExt

CONSTANTS
    Listed,     \* registered protocols
    Interval,   \* INDEXER_INTERVAL_SECONDS
    Jitter,     \* CYCLE_JITTER_SECONDS
    MaxTtl,     \* MAX_TTL_SECONDS
    MinTtl,     \* MIN_TTL_SECONDS
    MaxLag      \* environment: longest time from a run's run_at to its row, within the
                \* interval

ASSUME DeliveryAssumption ==
    /\ IsFiniteSet(Listed)
    /\ Interval \in Nat \ {0} /\ Jitter \in 0 .. Interval
    /\ MinTtl \in Nat \ {0} /\ MaxTtl \in Nat /\ MinTtl <= MaxTtl
    /\ MaxLag \in 0 .. Interval

VARIABLES
    runAge,     \* the age of each protocol's latest run_at, or Never
    scored,     \* the protocols that have a good run, which the export is limited to
    edge        \* the CDN's copy under each URL

deliveryVars == <<runAge, scored, edge>>

NeverRun == -1
Aged == Interval + MaxLag

\* One URL for each route; a detail for each protocol.
Urls == {"/protocols", "/protocols/export"} \cup Listed

\* left: seconds the copy may still be served; hides: how long a newer run than those
\* it reports has been recorded; early: whether one of those came before it was due.
NoCopy == [left |-> 0, hides |-> 0, early |-> FALSE]

DeliveryInit ==
    /\ runAge = [p \in Listed |-> NeverRun]
    /\ scored = {}
    /\ edge = [u \in Urls |-> NoCopy]

--------------------------------------------------------------------------------

Clamp(value, low, high) == IF value < low THEN low ELSE IF value > high THEN high ELSE value

\* Mutant of CacheTtl: a fixed lifetime.
CacheTtlFixed(ages) == MaxTtl

\* Until the earliest moment the next run of any of them could land.
CacheTtl(ages) ==
    IF ages = {} \/ NeverRun \in ages THEN MinTtl
    ELSE Clamp(Interval - Jitter - Max(ages), MinTtl, MaxTtl)

\* The protocols whose runs a body reports, and so the ones its TTL looks at.
Reports(u) ==
    CASE u = "/protocols"        -> Listed
      [] u = "/protocols/export" -> scored
      [] u \in Listed            -> {u}

\* A miss: the origin answers 200 and the copy may be shared.
Fetch(u) ==
    /\ edge[u].left = 0
    /\ edge' = [edge EXCEPT ![u] = [left |-> CacheTtl({runAge[p] : p \in Reports(u)}),
                                    hides |-> 0, early |-> FALSE]]
    /\ UNCHANGED <<runAge, scored>>

\* insertRunRecord: the row is newest if its run_at is.  It comes early for a body when
\* it is stamped sooner after the last one than the schedule allows, or when the body
\* says nothing of its protocol: a first run, and a first good one for the export.
RunLands(p, status, lag) ==
    LET early(u) == \/ runAge[p] = NeverRun \/ p \notin Reports(u)
                    \/ runAge[p] - lag < Interval - Jitter
        stale(u) == /\ edge[u].left > 0
                    /\ p \in Reports(u) \/ (u = "/protocols/export" /\ status = "ok")
    IN  /\ lag <= MaxLag
        /\ runAge[p] = NeverRun \/ lag < runAge[p]
        /\ runAge' = [runAge EXCEPT ![p] = lag]
        /\ scored' = IF status = "ok" THEN scored \cup {p} ELSE scored
        /\ edge' = [u \in Urls |->
              IF stale(u) THEN [edge[u] EXCEPT !.hides = IF @ = 0 THEN 1 ELSE @,
                                               !.early = @ \/ early(u)]
              ELSE edge[u]]

DeliveryTick ==
    /\ runAge' = [p \in Listed |->
          IF runAge[p] \in {NeverRun, Aged} THEN runAge[p] ELSE runAge[p] + 1]
    /\ edge' = [u \in Urls |->
          IF edge[u].left <= 1 THEN NoCopy
          ELSE [edge[u] EXCEPT !.left = @ - 1, !.hides = IF @ = 0 THEN 0 ELSE @ + 1]]
    /\ UNCHANGED scored

DeliveryNext ==
    \/ \E u \in Urls : Fetch(u)
    \/ \E p \in Listed, status \in {"ok", "failed"}, lag \in 0 .. MaxLag : RunLands(p, status, lag)
    \/ DeliveryTick

--------------------------------------------------------------------------------

\* A shared copy hides a newer run for MAX_TTL at most, whatever the schedule does, and
\* for MIN_TTL at most when every run it hides came no earlier than the schedule
\* allows, however late its row was written (_cache.ts:26-37, 70-86).
HiddenBriefly ==
    \A u \in Urls :
        /\ edge[u].hides <= MaxTtl
        /\ edge[u].hides > MinTtl => edge[u].early
================================================================================
