------------------------------ MODULE SiteProofs ------------------------------
(***************************************************************************)
(* Proofs about what readers see, part by part.  Delivery: for any         *)
(* registry, schedule and TTL bounds, and whatever the order in which runs *)
(* land and copies are fetched, a shared copy hides a newer run only       *)
(* briefly.  HealthWatch: for any registry and thresholds, only a success  *)
(* improves the verdict.  SearchBox: whatever the words and the filters,   *)
(* and however typing, the debounce timer, selects, links and landings     *)
(* interleave, the landing of the control's own navigation leaves the box  *)
(* alone.  ScoreSeries: whatever runs a window holds, the chart's line     *)
(* joins none across a failure, a change of rules or a long silence, and   *)
(* the list and the panel say what those runs are.  RegistryPage: whatever *)
(* the board, the notes and the address, each entry is listed once, leads  *)
(* where it should and has the numeral of its place.                       *)
(***************************************************************************)
EXTENDS Delivery, HealthWatch, SearchBox, ScoreSeries, RegistryPage, Extremes

--------------------------------------------------------------------------------
(* Delivery.                                                               *)


DeliverySpec == DeliveryInit /\ [][DeliveryNext]_deliveryVars

Copies == [left : Nat, hides : Nat, early : BOOLEAN]

DeliveryType ==
    /\ runAge \in [Listed -> {a \in Int : NeverRun <= a /\ a <= Aged}]
    /\ scored \subseteq Listed
    /\ edge \in [Urls -> Copies]

\* While a copy still has more than MIN_TTL to live and no run came early, every run it
\* reports is as far from the next one as the copy from its end.
FarFromNext(u) ==
    edge[u].left > MinTtl /\ ~edge[u].early =>
        \A p \in Reports(u) : runAge[p] # NeverRun /\ edge[u].left + runAge[p] <= Interval - Jitter

\* A copy that hides a run began to when it had no more to live than it has hidden it for.
EndsInTime(u) ==
    edge[u].hides > 0 =>
        /\ edge[u].left > 0
        /\ edge[u].left + edge[u].hides <= MaxTtl + 1
        /\ ~edge[u].early => edge[u].left + edge[u].hides <= MinTtl + 1

DeliveryInv ==
    /\ DeliveryType
    /\ \A u \in Urls : edge[u].left <= MaxTtl /\ FarFromNext(u) /\ EndsInTime(u)

--------------------------------------------------------------------------------
(* The TTL.                                                                *)

LEMMA Bounds ==
    /\ Interval \in Int /\ Jitter \in Int /\ 0 <= Jitter /\ Jitter <= Interval
    /\ MinTtl \in Int /\ 0 < MinTtl /\ MaxTtl \in Int /\ MinTtl <= MaxTtl
    /\ MaxLag \in Int /\ 0 <= MaxLag /\ MaxLag <= Interval
    /\ Aged \in Int /\ Aged = Interval + MaxLag
BY DeliveryAssumption DEF Aged

\* A TTL above MIN_TTL ends when the earliest of the next runs is due.
LEMMA TtlIs ==
    ASSUME NEW ages, ages \subseteq {a \in Int : NeverRun <= a /\ a <= Aged}
    PROVE  /\ CacheTtl(ages) \in Nat /\ CacheTtl(ages) > 0
           /\ CacheTtl(ages) <= MaxTtl
           /\ CacheTtl(ages) > MinTtl =>
                \A a \in ages : a # NeverRun /\ CacheTtl(ages) + a <= Interval - Jitter
<1>1. CASE ages = {} \/ NeverRun \in ages
  BY <1>1, Bounds DEF CacheTtl
<1>2. CASE ~(ages = {} \/ NeverRun \in ages)
  <2> DEFINE top == Max(ages)
  <2>1. top \in ages /\ \A a \in ages : a <= top
    BY <1>2, Bounds, GreatestOf
  <2>2. top \in Int
    BY <2>1
  <2>3. CacheTtl(ages) = Clamp(Interval - Jitter - top, MinTtl, MaxTtl)
    BY <1>2 DEF CacheTtl
  <2> HIDE DEF top
  <2> DEFINE due == Interval - Jitter - top
  <2>4. CacheTtl(ages) = IF due < MinTtl THEN MinTtl ELSE IF due > MaxTtl THEN MaxTtl ELSE due
    BY <2>3 DEF Clamp
  <2>5. \A a \in ages : a \in Int /\ due + a <= Interval - Jitter
    BY <2>1, <2>2, Bounds
  <2>6. due \in Int
    BY <2>2, Bounds
  <2> HIDE DEF due
  <2>7. CacheTtl(ages) \in Nat /\ CacheTtl(ages) > 0 /\ CacheTtl(ages) <= MaxTtl
    BY <2>4, <2>6, Bounds
  <2>8. CacheTtl(ages) > MinTtl => CacheTtl(ages) <= due
    BY <2>4, <2>6, Bounds
  <2> QED
    BY <1>2, <2>5, <2>6, <2>7, <2>8, Bounds
<1> QED
  BY <1>1, <1>2

--------------------------------------------------------------------------------
(* The steps.                                                              *)

LEMMA ReportsListed ==
    ASSUME DeliveryType, NEW u \in Urls
    PROVE  Reports(u) \subseteq Listed
<1> QED
  BY DEF DeliveryType, Urls, Reports

LEMMA NoCopyType == NoCopy \in Copies /\ NoCopy.left = 0 /\ NoCopy.hides = 0 /\ ~NoCopy.early
BY DEF NoCopy, Copies

LEMMA FetchStep ==
    ASSUME DeliveryInv, NEW u \in Urls, Fetch(u)
    PROVE  DeliveryInv'
<1>0. DeliveryType
  BY DEF DeliveryInv
<1> DEFINE ages == {runAge[p] : p \in Reports(u)}
           copy == [left |-> CacheTtl(ages), hides |-> 0, early |-> FALSE]
<1>1. edge' = [edge EXCEPT ![u] = copy] /\ runAge' = runAge /\ scored' = scored
  BY DEF Fetch
<1>2. Reports(u) \subseteq Listed
  BY <1>0, ReportsListed
<1>3. ages \subseteq {a \in Int : NeverRun <= a /\ a <= Aged}
  BY <1>0, <1>2 DEF DeliveryType
<1>4. /\ CacheTtl(ages) \in Nat /\ CacheTtl(ages) <= MaxTtl
      /\ CacheTtl(ages) > MinTtl =>
            \A p \in Reports(u) : /\ runAge[p] # NeverRun
                                  /\ CacheTtl(ages) + runAge[p] <= Interval - Jitter
  BY <1>3, TtlIs
<1> HIDE DEF ages
<1>5. /\ copy \in Copies
      /\ copy.left = CacheTtl(ages) /\ copy.hides = 0 /\ ~copy.early
  BY <1>4 DEF Copies
<1> HIDE DEF copy
<1>6. edge' \in [Urls -> Copies] /\ edge'[u] = copy /\ \A v \in Urls : v # u => edge'[v] = edge[v]
  BY <1>0, <1>1, <1>5 DEF DeliveryType
<1>7. \A v : Reports(v)' = Reports(v)
  BY <1>1 DEF Reports
<1>8. DeliveryType'
  BY <1>0, <1>1, <1>6 DEF DeliveryType
<1>9. ASSUME NEW v \in Urls
      PROVE  edge'[v].left <= MaxTtl /\ FarFromNext(v)' /\ EndsInTime(v)'
  <2>1. CASE v = u
    BY <1>1, <1>4, <1>5, <1>6, <1>7, <2>1 DEF FarFromNext, EndsInTime
  <2>2. CASE v # u
    BY <1>1, <1>6, <1>7, <2>2 DEF DeliveryInv, FarFromNext, EndsInTime
  <2> QED
    BY <2>1, <2>2
<1> QED
  BY <1>8, <1>9 DEF DeliveryInv

\* A run that lands is as old as its row is late.
LEMMA RunLandsStep ==
    ASSUME DeliveryInv, NEW p \in Listed, NEW status \in {"ok", "failed"},
           NEW lag \in 0 .. MaxLag, RunLands(p, status, lag)
    PROVE  DeliveryInv'
<1>0. DeliveryType
  BY DEF DeliveryInv
<1> DEFINE early(u) == \/ runAge[p] = NeverRun \/ p \notin Reports(u)
                       \/ runAge[p] - lag < Interval - Jitter
           stale(u) == /\ edge[u].left > 0
                       /\ p \in Reports(u) \/ (u = "/protocols/export" /\ status = "ok")
           marked(u) == [edge[u] EXCEPT !.hides = IF @ = 0 THEN 1 ELSE @, !.early = @ \/ early(u)]
<1>1. /\ runAge' = [runAge EXCEPT ![p] = lag]
      /\ scored' = IF status = "ok" THEN scored \cup {p} ELSE scored
      /\ edge' = [u \in Urls |-> IF stale(u) THEN marked(u) ELSE edge[u]]
  BY DEF RunLands
<1>2. /\ runAge' \in [Listed -> {a \in Int : NeverRun <= a /\ a <= Aged}]
      /\ \A r \in Listed : r # p => runAge'[r] = runAge[r]
  <2>1. lag \in {a \in Int : NeverRun <= a /\ a <= Aged}
    BY Bounds DEF NeverRun
  <2> QED
    BY <1>0, <1>1, <2>1 DEF DeliveryType
<1>3. ASSUME NEW u \in Urls
      PROVE  /\ edge[u].left \in Nat /\ edge[u].hides \in Nat /\ edge[u].early \in BOOLEAN
             /\ marked(u) \in Copies
             /\ marked(u).left = edge[u].left
             /\ marked(u).hides = IF edge[u].hides = 0 THEN 1 ELSE edge[u].hides
             /\ marked(u).early = (edge[u].early \/ early(u))
  <2>1. edge[u] \in Copies
    BY <1>0 DEF DeliveryType
  <2> HIDE DEF early
  <2> QED
    BY <2>1 DEF Copies
<1>4. DeliveryType'
  <2>1. scored' \subseteq Listed
    BY <1>0, <1>1 DEF DeliveryType
  <2>2. edge' \in [Urls -> Copies]
    <3>1. \A u \in Urls : edge[u] \in Copies
      BY <1>0 DEF DeliveryType
    <3> HIDE DEF stale, marked
    <3> QED
      BY <1>1, <1>3, <3>1
  <2>3. Urls' = Urls
    OBVIOUS
  <2> QED
    BY <1>2, <2>1, <2>2 DEF DeliveryType
<1>5. ASSUME NEW u \in Urls
      PROVE  edge'[u].left <= MaxTtl /\ FarFromNext(u)' /\ EndsInTime(u)'
  <2>0. edge[u].left <= MaxTtl /\ FarFromNext(u) /\ EndsInTime(u)
    BY DEF DeliveryInv
  <2>1. CASE stale(u)
    <3>1. edge'[u] = marked(u)
      BY <1>1, <2>1
    <3>2. ASSUME ~marked(u).early
          PROVE  edge[u].left <= MinTtl
      <4>1. /\ ~edge[u].early /\ p \in Reports(u) /\ runAge[p] # NeverRun
            /\ runAge[p] - lag >= Interval - Jitter
        <5>1. ~edge[u].early /\ ~early(u)
          BY <1>3, <3>2
        <5>2. runAge[p] \in Int
          BY <1>0 DEF DeliveryType
        <5> QED
          BY <5>1, <5>2, Bounds
      <4>2. runAge[p] \in Int
        BY <1>0 DEF DeliveryType
      <4>3. edge[u].left \in Nat /\ lag \in Nat
        <5>1. edge[u].left \in Nat
          BY <1>3
        <5>2. lag \in Nat
          BY Bounds
        <5> QED
          BY <5>1, <5>2
      <4> HIDE DEF marked, stale, early
      <4>4. ~(edge[u].left + runAge[p] <= Interval - Jitter /\ edge[u].left > MinTtl)
        BY <4>1, <4>2, <4>3, Bounds
      <4>5. edge[u].left > MinTtl => edge[u].left + runAge[p] <= Interval - Jitter
        BY <2>0, <4>1 DEF FarFromNext
      <4> QED
        BY <4>3, <4>4, <4>5, Bounds
    <3>3. edge[u].left > 0
      BY <2>1
    <3> HIDE DEF marked, stale, early
    <3>4. FarFromNext(u)'
      BY <1>3, <3>1, <3>2, Bounds DEF FarFromNext
    <3>5. EndsInTime(u)'
      BY <1>3, <2>0, <3>1, <3>2, <3>3, Bounds DEF EndsInTime
    <3> QED
      BY <1>3, <2>0, <3>1, <3>4, <3>5
  <2>2. CASE ~stale(u)
    <3>1. edge'[u] = edge[u]
      BY <1>1, <2>2
    <3>2. FarFromNext(u)'
      <4> SUFFICES ASSUME edge[u].left > MinTtl, ~edge[u].early, NEW r \in Reports(u)'
                   PROVE  runAge'[r] # NeverRun /\ edge[u].left + runAge'[r] <= Interval - Jitter
        BY <3>1 DEF FarFromNext
      <4>0. edge[u].left \in Nat
        BY <1>3
      <4>1. edge[u].left > 0
        <5> HIDE DEF marked, stale, early
        <5> QED
          BY <4>0, Bounds
      <4>2. p \notin Reports(u) /\ ~(u = "/protocols/export" /\ status = "ok")
        BY <2>2, <4>1
      <4>3. Reports(u)' = Reports(u)
        <5>1. u = "/protocols/export" => scored' = scored
          BY <1>1, <4>2
        <5> HIDE DEF marked, stale, early
        <5> QED
          BY <5>1 DEF Reports
      <4>4. r \in Listed /\ r # p
        BY <1>0, <4>2, <4>3, ReportsListed
      <4> QED
        BY <1>2, <2>0, <4>3, <4>4 DEF FarFromNext
    <3> QED
      BY <2>0, <3>1, <3>2 DEF EndsInTime
  <2> QED
    BY <2>1, <2>2
<1> QED
  BY <1>4, <1>5 DEF DeliveryInv

LEMMA DeliveryTickStep ==
    ASSUME DeliveryInv, DeliveryTick
    PROVE  DeliveryInv'
<1>0. DeliveryType
  BY DEF DeliveryInv
<1>1. /\ runAge' = [p \in Listed |->
            IF runAge[p] \in {NeverRun, Aged} THEN runAge[p] ELSE runAge[p] + 1]
      /\ edge' = [u \in Urls |->
            IF edge[u].left <= 1 THEN NoCopy
            ELSE [edge[u] EXCEPT !.left = @ - 1, !.hides = IF @ = 0 THEN 0 ELSE @ + 1]]
      /\ scored' = scored
  BY DEF DeliveryTick
<1>2. ASSUME NEW p \in Listed
      PROVE  /\ runAge[p] \in Int
             /\ runAge'[p] \in {a \in Int : NeverRun <= a /\ a <= Aged}
             /\ runAge'[p] <= runAge[p] + 1
             /\ runAge[p] # NeverRun => runAge'[p] # NeverRun
  <2>1. runAge[p] \in Int /\ NeverRun <= runAge[p] /\ runAge[p] <= Aged
    BY <1>0 DEF DeliveryType
  <2>2. NeverRun \in Int /\ NeverRun = -1 /\ Aged \in Int /\ NeverRun <= Aged
    BY Bounds DEF NeverRun
  <2>3. CASE runAge[p] \in {NeverRun, Aged}
    <3>1. runAge'[p] = runAge[p]
      BY <1>1, <2>3
    <3> QED
      BY <2>1, <3>1
  <2>4. CASE runAge[p] \notin {NeverRun, Aged}
    <3>1. runAge'[p] = runAge[p] + 1
      BY <1>1, <2>4
    <3>2. runAge[p] # Aged /\ runAge[p] + 1 <= Aged
      BY <2>1, <2>2, <2>4
    <3> QED
      BY <2>1, <2>2, <3>1, <3>2
  <2> QED
    BY <2>3, <2>4
<1>3. ASSUME NEW u \in Urls
      PROVE  /\ edge[u].left \in Nat /\ edge[u].hides \in Nat /\ edge[u].early \in BOOLEAN
             /\ edge'[u] \in Copies
             /\ \/ edge'[u] = NoCopy
                \/ /\ edge[u].left > 1
                   /\ edge'[u].left = edge[u].left - 1
                   /\ edge'[u].hides = IF edge[u].hides = 0 THEN 0 ELSE edge[u].hides + 1
                   /\ edge'[u].early = edge[u].early
  <2>1. edge[u] \in Copies
    BY <1>0 DEF DeliveryType
  <2>2. edge[u].left \in Nat /\ edge[u].hides \in Nat /\ edge[u].early \in BOOLEAN
    BY <2>1 DEF Copies
  <2>3. CASE edge[u].left <= 1
    BY <1>1, <2>2, <2>3, NoCopyType
  <2>4. CASE ~(edge[u].left <= 1)
    <3>1. edge'[u] = [edge[u] EXCEPT !.left = @ - 1, !.hides = IF @ = 0 THEN 0 ELSE @ + 1]
      BY <1>1, <2>4
    <3> DEFINE hidden == IF edge[u].hides = 0 THEN 0 ELSE edge[u].hides + 1
               fewer == edge[u].left - 1
    <3>2. fewer \in Nat /\ hidden \in Nat /\ edge[u].left > 1
      BY <2>2, <2>4
    <3>3. edge'[u] = [edge[u] EXCEPT !.left = fewer, !.hides = hidden]
      BY <3>1
    <3>4. edge'[u].left = fewer /\ edge'[u].hides = hidden
      <4> HIDE DEF fewer, hidden
      <4> QED
        BY <2>1, <3>3 DEF Copies
    <3>5. edge'[u].early = edge[u].early /\ edge'[u] \in Copies
      <4> HIDE DEF fewer, hidden
      <4> QED
        BY <2>1, <3>2, <3>3 DEF Copies
    <3> QED
      BY <2>2, <3>2, <3>4, <3>5
  <2> QED
    BY <2>3, <2>4
<1>4. DeliveryType'
  <2>1. edge' \in [Urls -> Copies]
    BY <1>1, <1>3
  <2>2. runAge' \in [Listed -> {a \in Int : NeverRun <= a /\ a <= Aged}]
    BY <1>1, <1>2
  <2> QED
    BY <1>0, <1>1, <2>1, <2>2 DEF DeliveryType
<1>5. ASSUME NEW u \in Urls
      PROVE  edge'[u].left <= MaxTtl /\ FarFromNext(u)' /\ EndsInTime(u)'
  <2>0. edge[u].left <= MaxTtl /\ FarFromNext(u) /\ EndsInTime(u)
    BY DEF DeliveryInv
  <2>1. CASE edge'[u] = NoCopy
    BY <2>1, NoCopyType, Bounds DEF FarFromNext, EndsInTime
  <2>2. CASE edge'[u] # NoCopy
    <3>1. /\ edge[u].left > 1 /\ edge'[u].left = edge[u].left - 1
          /\ edge'[u].hides = IF edge[u].hides = 0 THEN 0 ELSE edge[u].hides + 1
          /\ edge'[u].early = edge[u].early
      BY <1>3, <2>2
    <3>2. FarFromNext(u)'
      <4>1. Reports(u)' = Reports(u) /\ Reports(u) \subseteq Listed
        BY <1>0, <1>1, ReportsListed DEF Reports
      <4> QED
        BY <1>2, <1>3, <2>0, <3>1, <4>1, Bounds DEF FarFromNext
    <3>3. EndsInTime(u)'
      BY <1>3, <2>0, <3>1, Bounds DEF EndsInTime
    <3> QED
      BY <1>3, <2>0, <3>1, <3>2, <3>3, Bounds
  <2> QED
    BY <2>1, <2>2
<1> QED
  BY <1>4, <1>5 DEF DeliveryInv

LEMMA DeliveryInvariant == DeliverySpec => []DeliveryInv
<1>1. DeliveryInit => DeliveryInv
  <2> SUFFICES ASSUME DeliveryInit
               PROVE  DeliveryInv
    OBVIOUS
  <2>1. DeliveryType
    BY NoCopyType, Bounds DEF DeliveryInit, DeliveryType, NeverRun
  <2>2. \A u \in Urls : edge[u] = NoCopy
    BY DEF DeliveryInit
  <2> QED
    BY <2>1, <2>2, NoCopyType, Bounds DEF DeliveryInv, FarFromNext, EndsInTime
<1>2. DeliveryInv /\ [DeliveryNext]_deliveryVars => DeliveryInv'
  <2> SUFFICES ASSUME DeliveryInv, [DeliveryNext]_deliveryVars
               PROVE  DeliveryInv'
    OBVIOUS
  <2>1. CASE UNCHANGED deliveryVars
    <3>1. runAge' = runAge /\ scored' = scored /\ edge' = edge
      BY <2>1 DEF deliveryVars
    <3>2. \A u : Reports(u)' = Reports(u)
      BY <3>1 DEF Reports
    <3> QED
      BY <3>1, <3>2 DEF DeliveryInv, DeliveryType, FarFromNext, EndsInTime
  <2> QED
    BY <2>1, FetchStep, RunLandsStep, DeliveryTickStep DEF DeliveryNext
<1> QED
  BY <1>1, <1>2, PTL DEF DeliverySpec

\* A shared copy hides a newer run for MAX_TTL at most, and for MIN_TTL at most when the
\* schedule is kept, for every registry, schedule and choice of the two bounds.
THEOREM CopiesHideBriefly == DeliverySpec => []HiddenBriefly
<1>1. DeliveryInv => HiddenBriefly
  <2> SUFFICES ASSUME DeliveryInv, NEW u \in Urls
               PROVE  /\ edge[u].hides <= MaxTtl
                      /\ edge[u].hides > MinTtl => edge[u].early
    BY DEF HiddenBriefly
  <2>1. edge[u] \in Copies /\ EndsInTime(u)
    BY DEF DeliveryInv, DeliveryType
  <2>2. edge[u].left \in Nat /\ edge[u].hides \in Nat /\ edge[u].early \in BOOLEAN
    BY <2>1 DEF Copies
  <2> QED
    BY <2>1, <2>2, Bounds DEF EndsInTime
<1> QED
  BY <1>1, DeliveryInvariant, PTL

--------------------------------------------------------------------------------
(* HealthWatch.                                                            *)

HealthSpec == HealthInit /\ [][HealthNext]_healthVars

\* The age past which a protocol no longer keeps the registry from being down.
DownAfter == StaleAfter * DownMultiplier

HealthType ==
    /\ Registered \subseteq Watched
    /\ okAge = [p \in Registered |-> okAge[p]]
    /\ \A p \in Registered : okAge[p] \in Int /\ Never <= okAge[p] /\ okAge[p] <= Oldest

\* When no protocol's success is recent enough to count.
AllLapsed == \A p \in Registered : okAge[p] = Never \/ okAge[p] > DownAfter

\* What the verdict says of the protocols.
VerdictMeans ==
    /\ OverallStatus \in Verdicts
    /\ OverallStatus = "healthy" <=> Registered # {} /\ \A p \in Registered : IsCurrent(okAge[p])
    /\ OverallStatus = "down" <=> AllLapsed

LEMMA Thresholds ==
    /\ StaleAfter \in Int /\ 0 < StaleAfter
    /\ DownAfter \in Int /\ StaleAfter <= DownAfter
    /\ Oldest = DownAfter + 1
<1>1. StaleAfter \in Nat \ {0} /\ DownMultiplier \in Nat \ {0}
  BY HealthAssumption
<1>2. \A m, n \in Nat \ {0} : m * n \in Nat /\ m <= m * n
  OBVIOUS
<1> QED
  BY <1>1, <1>2 DEF DownAfter, Oldest

LEMMA Verdict == HealthType => VerdictMeans
<1> SUFFICES ASSUME HealthType
             PROVE  VerdictMeans
  OBVIOUS
<1> DEFINE current == {p \in Registered : IsCurrent(okAge[p])}
           ages    == {okAge[p] : p \in Registered} \ {Never}
           lapsed  == ages = {} \/ Min(ages) > DownAfter
<1>1. ages \in SUBSET Nat
  BY DEF HealthType, Never
<1>2. lapsed <=> AllLapsed
  <2>1. CASE ages = {}
    BY <2>1 DEF AllLapsed
  <2>2. CASE ages # {}
    <3> HIDE DEF ages
    <3>1. Min(ages) \in ages /\ \A age \in ages : Min(ages) <= age
      BY <1>1, <2>2, LeastOf
    <3>2. AllLapsed <=> \A age \in ages : age > DownAfter
      BY DEF AllLapsed, ages
    <3>3. ASSUME NEW age \in ages, Min(ages) > DownAfter
          PROVE  age > DownAfter
      <4>1. age \in Nat /\ Min(ages) \in Nat /\ Min(ages) <= age
        BY <1>1, <3>1
      <4> QED
        BY <3>3, <4>1, Thresholds
    <3>4. (\A age \in ages : age > DownAfter) => Min(ages) > DownAfter
      BY <3>1
    <3> QED
      BY <2>2, <3>2, <3>3, <3>4
  <2> QED
    BY <2>1, <2>2
<1>3. AllLapsed => current = {}
  <2> SUFFICES ASSUME AllLapsed, NEW p \in Registered, IsCurrent(okAge[p])
               PROVE  FALSE
    OBVIOUS
  <2>1. okAge[p] # Never /\ okAge[p] <= StaleAfter /\ okAge[p] \in Int
    BY DEF IsCurrent, HealthType
  <2>2. okAge[p] > DownAfter
    BY <2>1 DEF AllLapsed
  <2> QED
    BY <2>1, <2>2, Thresholds
<1>4. /\ Registered = {} => OverallStatus = "down"
      /\ Registered # {} /\ current = Registered => OverallStatus = "healthy"
      /\ current # Registered /\ current # {} => OverallStatus = "degraded"
      /\ Registered # {} /\ current = {}
            => OverallStatus = IF lapsed THEN "down" ELSE "degraded"
  BY DEF OverallStatus, DownAfter
<1>5. Registered = {} => AllLapsed
  BY DEF AllLapsed
<1>6. current = Registered <=> \A p \in Registered : IsCurrent(okAge[p])
  OBVIOUS
<1> HIDE DEF current, lapsed
<1>7. CASE Registered = {}
  BY <1>4, <1>5, <1>7 DEF VerdictMeans, Verdicts
<1>8. CASE Registered # {} /\ current = Registered
  BY <1>3, <1>4, <1>6, <1>8 DEF VerdictMeans, Verdicts
<1>9. CASE current # Registered /\ current # {}
  <2>1. Registered # {}
    BY <1>9 DEF current
  <2> QED
    BY <1>3, <1>4, <1>6, <1>9, <2>1 DEF VerdictMeans, Verdicts
<1>10. CASE Registered # {} /\ current = {}
  BY <1>2, <1>4, <1>6, <1>10 DEF VerdictMeans, Verdicts
<1> QED
  BY <1>7, <1>8, <1>9, <1>10

\* Without a success every age stays or grows, and whoever is new has none.
AgesGrow ==
    /\ Registered \subseteq Registered'
    /\ \A p \in Registered : /\ okAge[p] = Never => okAge'[p] = Never
                             /\ okAge[p] # Never => okAge'[p] >= okAge[p]
    /\ \A p \in Registered' : p \notin Registered => okAge'[p] = Never

LEMMA HealthStep ==
    HealthType /\ [HealthNext]_healthVars
        => HealthType' /\ (AgesGrow \/ \E p \in Watched : Succeeded(p))
<1> SUFFICES ASSUME HealthType, [HealthNext]_healthVars
             PROVE  HealthType' /\ (AgesGrow \/ \E p \in Watched : Succeeded(p))
  OBVIOUS
<1>0. Never = -1 /\ Oldest \in Int /\ 0 < Oldest
  BY Thresholds DEF Never
<1>1. ASSUME okAge' = okAge
      PROVE  HealthType' /\ AgesGrow
  <2>1. Registered' = Registered /\ \A p \in Registered : okAge'[p] = okAge[p]
    BY <1>1 DEF Registered
  <2>2. HealthType'
    BY <1>1, <2>1 DEF HealthType
  <2>3. \A p \in Registered : okAge[p] \in Int
    BY DEF HealthType
  <2> QED
    BY <2>1, <2>2, <2>3 DEF AgesGrow
<1>2. ASSUME NEW p \in Watched, Register(p)
      PROVE  HealthType' /\ AgesGrow
  <2>1. /\ p \notin Registered
        /\ okAge' = [r \in Registered \cup {p} |-> IF r = p THEN Never ELSE okAge[r]]
    BY <1>2 DEF Register
  <2>2. /\ Registered' = Registered \cup {p} /\ okAge'[p] = Never
        /\ \A r \in Registered : okAge'[r] = okAge[r]
    BY <2>1 DEF Registered
  <2>3. HealthType'
    BY <1>0, <2>1, <2>2 DEF HealthType
  <2>4. AgesGrow
    BY <2>2 DEF AgesGrow, HealthType
  <2> QED
    BY <2>3, <2>4
<1>3. ASSUME NEW p \in Watched, Succeeded(p)
      PROVE  HealthType'
  <2>1. Registered' = Registered /\ \A r \in Registered : okAge'[r] = IF r = p THEN 0 ELSE okAge[r]
    BY <1>3 DEF Succeeded, Registered
  <2>2. okAge' = [r \in Registered' |-> okAge'[r]]
    BY <1>3 DEF Succeeded, Registered
  <2> QED
    BY <1>0, <2>1, <2>2 DEF HealthType
<1>4. CASE TimePasses
  <2>1. /\ Registered' = Registered
        /\ okAge' = [p \in Registered' |-> okAge'[p]]
        /\ \A p \in Registered : okAge'[p] = Older(okAge[p])
    BY <1>4 DEF TimePasses, Registered
  <2>2. \A p \in Registered :
          /\ okAge'[p] \in Int /\ Never <= okAge'[p] /\ okAge'[p] <= Oldest
          /\ okAge[p] = Never => okAge'[p] = Never
          /\ okAge[p] # Never => okAge'[p] >= okAge[p]
    BY <1>0, <2>1 DEF Older, HealthType
  <2> QED
    BY <2>1, <2>2 DEF HealthType, AgesGrow
<1>5. CASE \/ OpenPage \/ ClosePage
           \/ \E i \in 1 .. MaxFetches : Poll(i) \/ Settle(i)
           \/ \E i \in 1 .. MaxFetches, answer \in Answers : Answered(i, answer)
           \/ UNCHANGED healthVars
  <2>1. CASE OpenPage \/ ClosePage \/ UNCHANGED healthVars
    BY <1>1, <2>1 DEF OpenPage, ClosePage, healthVars
  <2>2. CASE \E i \in 1 .. MaxFetches : Poll(i) \/ Settle(i)
    BY <1>1, <2>2 DEF Poll, Settle
  <2>3. CASE \E i \in 1 .. MaxFetches, answer \in Answers : Answered(i, answer)
    BY <1>1, <2>3 DEF Answered
  <2> QED
    BY <1>5, <2>1, <2>2, <2>3
<1> QED
  BY <1>2, <1>3, <1>4, <1>5 DEF HealthNext

\* For any registry, any threshold and multiplier: no passing of time, failed run, new
\* registration or reader makes the verdict better (_health.ts:192-254).
THEOREM OnlySuccessHeals == HealthSpec => VerdictOnlyWorsens
<1>1. HealthInit => HealthType
  BY DEF HealthInit, HealthType, Registered
<1>2. HealthType' => VerdictMeans'
  BY Verdict, PTL
<1>3. ASSUME HealthType, HealthType', AgesGrow
      PROVE  Rank(OverallStatus') >= Rank(OverallStatus)
  <2>1. VerdictMeans /\ VerdictMeans'
    BY <1>2, <1>3, Verdict
  <2>2. ASSUME NEW p \in Registered
        PROVE  /\ p \in Registered' /\ okAge[p] \in Int /\ okAge'[p] \in Int
               /\ ~IsCurrent(okAge[p]) => ~IsCurrent(okAge'[p])
    <3>1. /\ p \in Registered'
          /\ okAge[p] = Never => okAge'[p] = Never
          /\ okAge[p] # Never => okAge'[p] >= okAge[p]
      BY <1>3 DEF AgesGrow
    <3>2. okAge[p] \in Int /\ okAge'[p] \in Int
      BY <1>3, <3>1 DEF HealthType
    <3> QED
      BY <3>1, <3>2, Thresholds DEF IsCurrent
  <2>3. CASE OverallStatus = "healthy"
    BY <2>1, <2>3 DEF VerdictMeans, Verdicts, Rank
  <2>4. CASE OverallStatus = "degraded"
    <3>1. PICK p \in Registered : ~IsCurrent(okAge[p])
      BY <2>1, <2>4 DEF VerdictMeans, AllLapsed
    <3>2. p \in Registered' /\ ~IsCurrent(okAge'[p])
      BY <2>2, <3>1
    <3>3. OverallStatus' # "healthy"
      BY <2>1, <3>2 DEF VerdictMeans
    <3> QED
      BY <2>1, <2>4, <3>3 DEF VerdictMeans, Verdicts, Rank
  <2>5. CASE OverallStatus = "down"
    <3>1. AllLapsed
      BY <2>1, <2>5 DEF VerdictMeans
    <3>2. ASSUME NEW p \in Registered'
          PROVE  okAge'[p] = Never \/ okAge'[p] > DownAfter
      <4>1. CASE p \in Registered
        <5>1. /\ okAge[p] = Never => okAge'[p] = Never
              /\ okAge[p] # Never => okAge'[p] >= okAge[p]
          BY <1>3, <4>1, Zenon DEF AgesGrow
        <5>2. okAge[p] = Never \/ okAge[p] > DownAfter
          BY <3>1, <4>1 DEF AllLapsed
        <5>3. okAge[p] \in Int /\ okAge'[p] \in Int
          BY <2>2, <4>1
        <5> QED
          BY <5>1, <5>2, <5>3, Thresholds
      <4>2. CASE p \notin Registered
        BY <1>3, <4>2 DEF AgesGrow
      <4> QED
        BY <4>1, <4>2
    <3>3. AllLapsed'
      BY <3>2 DEF AllLapsed
    <3> QED
      BY <2>1, <2>5, <3>3 DEF VerdictMeans, Rank
  <2> QED
    BY <2>1, <2>3, <2>4, <2>5 DEF VerdictMeans, Verdicts
<1>4. HealthType /\ [HealthNext]_healthVars
        => [(\A p \in Watched : ~Succeeded(p))
                => Rank(OverallStatus') >= Rank(OverallStatus)]_healthVars
  BY <1>3, HealthStep
<1> QED
  BY <1>1, <1>4, HealthStep, PTL DEF HealthSpec, VerdictOnlyWorsens

--------------------------------------------------------------------------------
(* SearchBox.                                                              *)


SearchSpec == SearchInit /\ [][SearchNext]_searchVars

Timers == [q : Texts, status : Filters]
Navigations == [to : Addresses, own : BOOLEAN]

SearchType ==
    /\ q \in Texts /\ pushed \in Texts
    /\ params \in Addresses
    /\ timer # <<>> => timer[1] \in Timers
    /\ going # <<>> => going[1] \in Navigations

\* A navigation of the control's own carries the text it pushed last: whatever pushes a
\* text navigates to it at once, and any other navigation supersedes this one.
OwnCarriesPushed == going # <<>> /\ going[1].own => going[1].to.q = Carried(pushed)

SearchInv == SearchType /\ OwnCarriesPushed

LEMMA CarriedType ==
    ASSUME NEW text \in Texts
    PROVE  Carried(text) \in Texts
BY DEF Carried, Parsed, Trimmed, Texts, Beyond

LEMMA AddressType ==
    ASSUME NEW text \in Texts, NEW filter \in Filters
    PROVE  /\ Address(text, filter) \in Addresses
           /\ Address(text, filter).q = Carried(text)
BY DEF Address, Addresses

LEMMA AddressParts ==
    ASSUME NEW a \in Addresses
    PROVE  a.q \in Texts /\ a.status \in Filters
<1>1. PICK text \in Texts, filter \in Filters : a = Address(text, filter)
  BY DEF Addresses
<1> QED
  BY <1>1, CarriedType DEF Address

LEMMA EmptyType == Empty \in Texts
BY SearchAssumption DEF Empty, Texts, Beyond

LEMMA SearchInitially == SearchInit => SearchInv
<1> SUFFICES ASSUME SearchInit
             PROVE  SearchInv
  OBVIOUS
<1>1. params \in Addresses
  BY EmptyType, AddressType, SearchAssumption DEF SearchInit
<1> QED
  BY <1>1, EmptyType DEF SearchInit, SearchInv, SearchType, OwnCarriesPushed

\* What a navigation of the control's own leaves behind.
LEMMA ReplaceKeeps ==
    ASSUME NEW text \in Texts, NEW filter \in Filters, Replace(text, filter)
    PROVE  /\ going' # <<>>
           /\ going'[1] \in Navigations
           /\ going'[1].to.q = Carried(text)
<1>1. /\ Address(text, filter) \in Addresses
      /\ Address(text, filter).q = Carried(text)
  BY AddressType
<1>2. [to |-> Address(text, filter), own |-> TRUE] \in Navigations
  BY <1>1 DEF Navigations
<1> QED
  BY <1>1, <1>2 DEF Replace

LEMMA SearchStep == SearchInv /\ [SearchNext]_searchVars => SearchInv'
<1> SUFFICES ASSUME SearchInv, [SearchNext]_searchVars
             PROVE  SearchInv'
  OBVIOUS
<1>0. SearchType /\ OwnCarriesPushed
  BY DEF SearchInv
<1>s. params.status \in Filters
  BY <1>0, AddressParts DEF SearchType
<1>1. CASE \E text \in Texts : TypeText(text)
  <2>1. PICK text \in Texts : TypeText(text)
    BY <1>1
  <2>2. [q |-> text, status |-> params.status] \in Timers
    BY <1>s DEF Timers
  <2> QED
    BY <1>0, <2>1, <2>2 DEF TypeText, SearchInv, SearchType, OwnCarriesPushed
<1>2. CASE DebounceFires
  <2>1. timer[1] \in Timers
    BY <1>0, <1>2 DEF DebounceFires, SearchType
  <2>2. timer[1].q \in Texts /\ timer[1].status \in Filters
    BY <2>1 DEF Timers
  <2>3. going'[1] \in Navigations /\ going'[1].to.q = Carried(timer[1].q)
    BY <1>2, <2>2, ReplaceKeeps DEF DebounceFires
  <2> QED
    BY <1>0, <1>2, <2>2, <2>3 DEF DebounceFires, SearchInv, SearchType, OwnCarriesPushed
<1>3. CASE \E filter \in Filters : Go(filter)
  <2>1. PICK filter \in Filters : Go(filter)
    BY <1>3
  <2>2. going'[1] \in Navigations /\ going'[1].to.q = Carried(q)
    BY <1>0, <2>1, ReplaceKeeps DEF Go, SearchType
  <2> QED
    BY <1>0, <2>1, <2>2 DEF Go, SearchInv, SearchType, OwnCarriesPushed
<1>4. CASE ClearSearch
  <2>1. going'[1] \in Navigations /\ going'[1].to.q = Carried(Empty)
    BY <1>s, <1>4, EmptyType, ReplaceKeeps DEF ClearSearch
  <2> QED
    BY <1>0, <1>4, <2>1, EmptyType DEF ClearSearch, SearchInv, SearchType, OwnCarriesPushed
<1>5. CASE \E address \in Addresses : Leave(address)
  <2>1. PICK address \in Addresses : Leave(address)
    BY <1>5
  <2>2. going'[1] \in Navigations /\ ~going'[1].own
    BY <2>1 DEF Leave, Navigations
  <2> QED
    BY <1>0, <2>1, <2>2 DEF Leave, SearchInv, SearchType, OwnCarriesPushed
<1>6. CASE Land
  <2> DEFINE to    == going[1].to
             adopt == to.q # params.q /\ to.q # pushed
             text  == IF adopt THEN to.q ELSE q
             known == IF adopt THEN to.q ELSE pushed
  <2>1. /\ going # <<>> /\ going' = <<>>
        /\ params' = to /\ q' = text /\ pushed' = known
        /\ timer' = IF text = q /\ to.status = params.status THEN timer
                    ELSE IF text = known THEN <<>>
                    ELSE <<[q |-> text, status |-> to.status]>>
    BY <1>6 DEF Land, LandAdopting
  <2>2. to \in Addresses
    BY <1>0, <2>1 DEF SearchType, Navigations
  <2>3. to.q \in Texts /\ to.status \in Filters
    BY <2>2, AddressParts
  <2>4. text \in Texts /\ known \in Texts
    BY <1>0, <2>3 DEF SearchType
  <2>5. [q |-> text, status |-> to.status] \in Timers
    BY <2>3, <2>4 DEF Timers
  <2>6. timer' # <<>> => timer'[1] \in Timers
    <3> HIDE DEF to, text, known
    <3>1. CASE text = q /\ to.status = params.status
      BY <1>0, <2>1, <3>1 DEF SearchType
    <3>2. CASE ~(text = q /\ to.status = params.status) /\ text = known
      BY <2>1, <3>2
    <3>3. CASE ~(text = q /\ to.status = params.status) /\ text # known
      BY <2>1, <2>5, <3>3
    <3> QED
      BY <3>1, <3>2, <3>3
  <2> HIDE DEF to, text, known
  <2> QED
    BY <2>1, <2>2, <2>4, <2>6 DEF SearchInv, SearchType, OwnCarriesPushed
<1>7. CASE UNCHANGED searchVars
  BY <1>0, <1>7 DEF searchVars, SearchInv, SearchType, OwnCarriesPushed
<1> QED
  BY <1>1, <1>2, <1>3, <1>4, <1>5, <1>6, <1>7 DEF SearchNext

LEMMA SearchInvariant == SearchSpec => []SearchInv
BY SearchInitially, SearchStep, PTL DEF SearchSpec

\* The landing of the control's own navigation never changes what has been typed since, if
\* an address carries the text that was pushed as it is, and otherwise puts nothing in the
\* box but what the address left of that text (registry-controls.tsx:87-118 and
\* registry-query.ts:119, 165, 185), for every set of words and filters.
THEOREM OwnLandingNeverFights == SearchSpec => OwnLandingKeepsTyping
<1> DEFINE Kept == /\ pushed = Carried(pushed) => q' = q
                   /\ q' \in {q, Carried(pushed)}
<1>1. ASSUME SearchInv, Land, going[1].own
      PROVE  Kept
  <2>1. going # <<>> /\ going[1].to.q = Carried(pushed)
    BY <1>1 DEF SearchInv, OwnCarriesPushed, Land, LandAdopting
  <2> QED
    BY <1>1, <2>1 DEF Land, LandAdopting
<1>2. SearchInv => [Land /\ going[1].own => Kept]_searchVars
  BY <1>1
<1> QED
  BY <1>2, SearchInvariant, PTL DEF OwnLandingKeepsTyping

--------------------------------------------------------------------------------
(* Sorting.                                                                *)

\* A sequence that has each member of a finite set once, in their order.
Enumerates(list, S, R) ==
    /\ list \in Seq(S) /\ Len(list) = Cardinality(S)
    /\ \A x \in S : Place(R, S)[x] + 1 \in DOMAIN list /\ list[Place(R, S)[x] + 1] = x
    /\ \A k \in DOMAIN list : Place(R, S)[list[k]] = k - 1
    /\ \A k, m \in DOMAIN list : k < m <=> <<list[k], list[m]>> \in R

LEMMA Ordering ==
    ASSUME NEW S, IsFiniteSet(S), NEW R, StrictlyOrders(R, S)
    PROVE  Enumerates(InOrder(S, R), S, R)
<1> DEFINE n == Cardinality(S)
           place == Place(R, S)
           list == InOrder(S, R)
<1>1. /\ n \in Nat
      /\ place \in [S -> 0 .. n - 1]
      /\ \A x, y \in S : place[x] < place[y] <=> <<x, y>> \in R
      /\ \A x, y \in S : place[x] = place[y] => x = y
      /\ \A k \in 0 .. n - 1 : \E x \in S : place[x] = k
  BY Ranking DEF Ranked
<1> DEFINE ahead(x) == Cardinality({y \in S : <<y, x>> \in R})
<1>2. list = [k \in 1 .. n |-> CHOOSE x \in S : ahead(x) = k - 1]
  BY DEF InOrder
<1>7. \A x \in S : place[x] = ahead(x)
  BY DEF Place
<1> HIDE DEF n, place, list, ahead
<1>3. ASSUME NEW k \in 1 .. n
      PROVE  list[k] \in S /\ place[list[k]] = k - 1
  <2>1. k - 1 \in 0 .. n - 1
    BY <1>1
  <2>2. \E x \in S : ahead(x) = k - 1
    BY <1>1, <1>7, <2>1
  <2>3. list[k] \in S /\ ahead(list[k]) = k - 1
    BY <1>2, <2>2
  <2> QED
    BY <1>7, <2>3
<1>4. list \in Seq(S) /\ Len(list) = n /\ DOMAIN list = 1 .. n
  BY <1>1, <1>2, <1>3
<1>5. ASSUME NEW x \in S
      PROVE  place[x] + 1 \in 1 .. n /\ list[place[x] + 1] = x
  <2>1. place[x] \in 0 .. n - 1 /\ place[x] + 1 \in 1 .. n /\ (place[x] + 1) - 1 = place[x]
    BY <1>1
  <2> QED
    BY <1>1, <1>3, <2>1
<1>6. ASSUME NEW k \in 1 .. n, NEW m \in 1 .. n
      PROVE  k < m <=> <<list[k], list[m]>> \in R
  BY <1>1, <1>3
<1> QED
  BY <1>3, <1>4, <1>5, <1>6 DEF Enumerates, n, place, list

\* Where each place of a sorted sequence takes its element from: no position is lost, and
\* what comes first has the smaller key.
Arranges(at, seq, key, n) ==
    /\ at \in [1 .. n -> 1 .. n]
    /\ Sorted(seq, key) = [k \in 1 .. n |-> seq[at[k]]]
    /\ \A i \in 1 .. n : \E k \in 1 .. n : at[k] = i
    /\ \A k, m \in 1 .. n : at[k] = at[m] => k = m
    /\ \A k, m \in 1 .. n : k <= m => key[at[k]] <= key[at[m]]

LEMMA StableSort ==
    ASSUME NEW n \in Nat, NEW key, DOMAIN key = 1 .. n, \A i \in 1 .. n : key[i] \in Int,
           NEW seq, DOMAIN seq = 1 .. n
    PROVE  \E at : Arranges(at, seq, key, n)
<1> DEFINE D == 1 .. n
           R == Precedes(key)
           at == InOrder(D, R)
<1>1. IsFiniteSet(D) /\ Cardinality(D) = n
  <2>1. 1 \in Int /\ n \in Int
    OBVIOUS
  <2>2. IsFiniteSet(1 .. n) /\ Cardinality(1 .. n) = IF 1 > n THEN 0 ELSE n - 1 + 1
    BY <2>1, FS_Interval
  <2> QED
    BY <2>2
<1>2. \A i, j \in D : <<i, j>> \in R <=> key[i] < key[j] \/ (key[i] = key[j] /\ i < j)
  BY DEF Precedes
<1>3. \A i \in D : key[i] \in Int /\ i \in Int
  OBVIOUS
<1>0. DOMAIN key = D /\ DOMAIN seq = D
  OBVIOUS
<1> HIDE DEF D, R
<1>4. StrictlyOrders(R, D)
  <2>1. \A i \in D : <<i, i>> \notin R
    BY <1>2, <1>3
  <2>2. \A i, j \in D : i # j => <<i, j>> \in R \/ <<j, i>> \in R
    BY <1>2, <1>3
  <2>3. \A i, j, k \in D : <<i, j>> \in R /\ <<j, k>> \in R => <<i, k>> \in R
    BY <1>2, <1>3
  <2> QED
    BY <2>1, <2>2, <2>3 DEF StrictlyOrders
<1>5. Enumerates(at, D, R)
  BY <1>1, <1>4, Ordering
<1>6. Sorted(seq, key) = [k \in D |-> seq[at[k]]]
  BY <1>0 DEF Sorted, R
<1> HIDE DEF at
<1>7. at \in [D -> D] /\ DOMAIN at = D
  <2>1. at \in Seq(D) /\ Len(at) = n
    BY <1>1, <1>5 DEF Enumerates
  <2>2. at \in [1 .. n -> D]
    BY <2>1
  <2> QED
    BY <2>2 DEF D
<1>8. \A i \in D : \E k \in D : at[k] = i
  BY <1>5, <1>7 DEF Enumerates
<1>9. \A k, m \in D : k < m <=> <<at[k], at[m]>> \in R
  BY <1>5, <1>7 DEF Enumerates
<1>10. \A k, m \in D : at[k] = at[m] => k = m
  <2> SUFFICES ASSUME NEW k \in D, NEW m \in D, at[k] = at[m], k # m
               PROVE  FALSE
    OBVIOUS
  <2>1. k < m \/ m < k
    BY <1>3
  <2>2. at[k] \in D /\ at[m] \in D
    BY <1>7
  <2>3. <<at[k], at[m]>> \in R \/ <<at[m], at[k]>> \in R
    BY <1>9, <2>1
  <2> QED
    BY <2>2, <2>3, <1>4 DEF StrictlyOrders
<1>11. ASSUME NEW k \in D, NEW m \in D, k <= m
       PROVE  key[at[k]] <= key[at[m]]
  <2>1. at[k] \in D /\ at[m] \in D
    BY <1>7
  <2>2. k = m \/ k < m
    BY <1>3, <1>11
  <2>3. CASE k = m
    BY <1>3, <2>1, <2>3
  <2>4. CASE k < m
    <3>1. <<at[k], at[m]>> \in R
      BY <1>9, <2>4
    <3>2. key[at[k]] < key[at[m]] \/ key[at[k]] = key[at[m]]
      BY <1>2, <2>1, <3>1
    <3> QED
      BY <1>3, <2>1, <3>2
  <2> QED
    BY <2>2, <2>3, <2>4
<1>12. Arranges(at, seq, key, n)
  BY <1>6, <1>7, <1>8, <1>10, <1>11 DEF D, Arranges
<1> QED
  BY <1>12

--------------------------------------------------------------------------------
(* ScoreSeries.                                                            *)

SeriesSpec == SeriesInit /\ [][SeriesNext]_history

\* What a window may hold.
Runs == [since : Spacings, status : {"ok", "failed"}, version : Nat,
         oracle : {"fresh", "stale", "not-assessed"}]

\* The window is never longer than it may be.
SeriesType == history \in Seq(Runs) /\ Len(history) <= Window

LEMMA SeriesTyped == SeriesSpec => []SeriesType
<1>1. SeriesInit => SeriesType
  BY SeriesAssumption DEF SeriesInit, SeriesType
<1>2. SeriesType /\ [SeriesNext]_history => SeriesType'
  <2> SUFFICES ASSUME SeriesType, [SeriesNext]_history
               PROVE  SeriesType'
    OBVIOUS
  <2>1. CASE SeriesNext
    <3>1. PICK run \in Runs : NextRun(run)
      BY <2>1, SeriesAssumption DEF SeriesNext, Failed, Scored, Runs
    <3>2. history \in Seq(Runs) /\ Len(history) <= Window /\ Window \in Nat /\ Window # 0
      BY SeriesAssumption DEF SeriesType
    <3>3. CASE Len(history) = Window
      <4>1. history # <<>>
        BY <3>2, <3>3
      <4>2. Tail(history) \in Seq(Runs) /\ Len(Tail(history)) = Len(history) - 1
        BY <3>2, <4>1
      <4> QED
        BY <3>1, <3>2, <3>3, <4>2 DEF NextRun, SeriesType
    <3>4. CASE Len(history) # Window
      BY <3>1, <3>2, <3>4 DEF NextRun, SeriesType
    <3> QED
      BY <3>3, <3>4
  <2>2. CASE UNCHANGED history
    BY <2>2 DEF SeriesType
  <2> QED
    BY <2>1, <2>2
<1> QED
  BY <1>1, <1>2, PTL DEF SeriesSpec

\* What the window holds.
LEMMA RunsOf ==
    ASSUME SeriesType
    PROVE  /\ Len(history) \in Nat /\ Len(history) <= Window
           /\ \A k \in 1 .. Len(history) : history[k] \in Runs
           /\ Points \subseteq RunsDrawn /\ IsFiniteSet(RunsDrawn)
           /\ Cardinality(RunsDrawn) = Len(history)
<1>1. /\ Len(history) \in Nat /\ Len(history) <= Window
      /\ \A k \in 1 .. Len(history) : history[k] \in Runs
  BY DEF SeriesType
<1>2. IsFiniteSet(RunsDrawn) /\ Cardinality(RunsDrawn) = Len(history)
  <2>1. Len(history) \in Int /\ 1 \in Int
    BY <1>1
  <2>2. IsFiniteSet(1 .. Len(history))
        /\ Cardinality(1 .. Len(history)) = IF 1 > Len(history) THEN 0 ELSE Len(history) - 1 + 1
    BY <2>1, FS_Interval
  <2> QED
    BY <1>1, <2>2 DEF RunsDrawn
<1> QED
  BY <1>1, <1>2 DEF Points

\* Rounding to a percentage does not move a share across a half, nor to nothing, as long as
\* the runs are a hundred or fewer.
LEMMA RoundedShare ==
    ASSUME NEW n \in Nat, n > 0, n <= 100, NEW s \in 0 .. n
    PROVE  /\ Percent(s, n) = 0 <=> s = 0
           /\ Percent(s, n) >= 50 <=> 2 * s >= n
<1> DEFINE m == 200 * s + n
           d == 2 * n
           share == m \div d
<1>1. m \in Int /\ d \in Int /\ d > 0
  OBVIOUS
<1>2. Percent(s, n) = share
  BY DEF Percent
<1> HIDE DEF share
<1>3. share \in Int /\ d * share <= m /\ m < d * share + d
  BY <1>1, Quotient DEF share
<1>4. ASSUME s = 0
      PROVE  share = 0
  <2>1. m < d /\ m >= 0
    BY <1>4
  <2>2. share < 1
    <3> SUFFICES ASSUME share >= 1
                 PROVE  FALSE
      BY <1>3
    <3>1. d * share >= d
      BY <1>1, <1>3
    <3> QED
      BY <1>1, <1>3, <2>1, <3>1
  <2>3. share > -1
    <3> SUFFICES ASSUME share <= -1
                 PROVE  FALSE
      BY <1>3
    <3>1. d * share <= -d
      BY <1>1, <1>3
    <3> QED
      BY <1>1, <1>3, <2>1, <3>1
  <2> QED
    BY <1>3, <2>2, <2>3
<1>5. ASSUME s # 0
      PROVE  share # 0
  <2>1. m >= d
    BY <1>5
  <2> QED
    BY <1>1, <1>3, <2>1
<1>6. ASSUME 2 * s >= n
      PROVE  share >= 50
  <2>1. m >= d * 50
    BY <1>6
  <2> SUFFICES ASSUME share <= 49
               PROVE  FALSE
    BY <1>3
  <2>2. d * share <= d * 49
    BY <1>1, <1>3
  <2> QED
    BY <1>1, <1>3, <2>1, <2>2
<1>7. ASSUME 2 * s < n
      PROVE  share < 50
  <2>1. 200 * s < 99 * n
    <3>1. CASE n = 100
      BY <1>7, <3>1
    <3>2. CASE n < 100
      BY <1>7, <3>2
    <3> QED
      BY <3>1, <3>2
  <2>2. m < d * 50
    BY <2>1
  <2> SUFFICES ASSUME share >= 50
               PROVE  FALSE
    BY <1>3
  <2>3. d * share >= d * 50
    BY <1>1, <1>3
  <2> QED
    BY <1>1, <1>3, <2>2, <2>3
<1> QED
  BY <1>2, <1>3, <1>4, <1>5, <1>6, <1>7

\* The notes between the rows of the list and the words of the panel are true of any window
\* of a hundred runs or fewer (a page is given DETAIL_HISTORY_LIMIT of them, 50).  Of 101
\* assessed runs with 50 stale the panel would say that most were.
THEOREM HistoryIsTold ==
    ASSUME Window <= 100
    PROVE  SeriesSpec => []HistoryReadsAlike
<1>1. SeriesType => HistoryReadsAlike
  <2> SUFFICES ASSUME SeriesType
               PROVE  HistoryReadsAlike
    OBVIOUS
  <2>0. /\ Len(history) \in Nat /\ Len(history) <= Window /\ Window \in Nat
        /\ \A k \in RunsDrawn : history[k] \in Runs
        /\ \A k \in Points : k \in RunsDrawn /\ history[k].status = "ok"
        /\ RunsDrawn = 1 .. Len(history)
    BY RunsOf, SeriesAssumption DEF RunsDrawn, Points
  <2>1. ASSUME NEW i \in Dividers
        PROVE  <<i - 1, i>> \in VersionMarks
    <3>1. /\ i \in 1 .. Len(history) /\ i - 1 \in 1 .. Len(history)
          /\ history[i].status = "ok" /\ history[i - 1].status = "ok"
          /\ history[i - 1].version < history[i].version
      BY <2>0 DEF Dividers, RunsDrawn
    <3>2. history[i - 1].version # history[i].version
      <4>1. history[i - 1] \in Runs /\ history[i] \in Runs
        BY <2>0, <3>1
      <4>2. history[i - 1].version \in Nat /\ history[i].version \in Nat
        BY <4>1 DEF Runs
      <4> QED
        BY <3>1, <4>2
    <3>3. Neighbours(i - 1, i)
      BY <2>0, <3>1 DEF Neighbours
    <3>4. "methodology" \in BreakKinds(i - 1, i)
      BY <3>2 DEF BreakKinds
    <3>5. i - 1 \in Points /\ i \in Points
      BY <3>1 DEF Points, RunsDrawn
    <3> QED
      BY <3>3, <3>4, <3>5 DEF VersionMarks
  <2>2. ASSUME NEW mark \in VersionMarks, mark[2] = mark[1] + 1,
               history[mark[1]].version < history[mark[2]].version
        PROVE  mark[2] \in Dividers
    <3>1. mark[1] \in Points /\ mark[2] \in Points
      BY DEF VersionMarks
    <3>2. mark[1] \in 1 .. Len(history) /\ mark[2] \in 1 .. Len(history)
      BY <2>0, <3>1
    <3>3. mark[2] > 1 /\ mark[2] - 1 = mark[1]
      BY <2>2, <2>0, <3>2
    <3> QED
      BY <2>0, <2>2, <3>1, <3>3 DEF Dividers
  <2>3. PanelMatchesRuns
    <3> SUFFICES ASSUME Assessed # {}
                 PROVE  /\ StalenessPanel = "remained fresh" <=> Stale = {}
                        /\ StalenessPanel = "persistent" <=>
                              2 * Cardinality(Stale) >= Cardinality(Assessed)
      BY DEF PanelMatchesRuns
    <3>1. /\ Assessed \in SUBSET RunsDrawn /\ Stale \in SUBSET Assessed
          /\ IsFiniteSet(RunsDrawn) /\ Cardinality(RunsDrawn) = Len(history)
      BY <2>0, RunsOf DEF Assessed, Stale
    <3>2. /\ IsFiniteSet(Assessed) /\ Cardinality(Assessed) <= Len(history)
          /\ IsFiniteSet(Stale) /\ Cardinality(Stale) <= Cardinality(Assessed)
      BY <3>1, FS_Subset
    <3>3. /\ Cardinality(Assessed) \in Nat /\ Cardinality(Stale) \in Nat
          /\ Cardinality(Assessed) # 0 /\ (Cardinality(Stale) = 0 <=> Stale = {})
      BY <3>2, FS_CardinalityType, FS_EmptySet
    <3> DEFINE n == Cardinality(Assessed)
               s == Cardinality(Stale)
    <3>4. n \in Nat /\ n > 0 /\ n <= 100 /\ s \in 0 .. n
      BY <2>0, <3>2, <3>3
    <3>5. StalePercentage = Percent(s, n)
      BY DEF StalePercentage
    <3> HIDE DEF n, s
    <3>6. (Percent(s, n) = 0 <=> s = 0) /\ (Percent(s, n) >= 50 <=> 2 * s >= n)
      BY <3>4, RoundedShare
    <3>7. (StalePercentage = 0 <=> Stale = {}) /\ (StalePercentage >= 50 <=> 2 * s >= n)
      BY <3>3, <3>5, <3>6 DEF s
    <3>8. ~(StalePercentage >= 50 /\ StalePercentage = 0)
      OBVIOUS
    <3>9. /\ StalePercentage >= 50 => StalenessPanel = "persistent"
          /\ StalePercentage = 0 => StalenessPanel = "remained fresh"
          /\ ~(StalePercentage >= 50) /\ StalePercentage # 0 => StalenessPanel = "intermittent"
      <4> DEFINE half == StalePercentage >= 50
                 none == StalePercentage = 0
                 words == CASE Assessed = {} -> "absent" [] half -> "persistent"
                            [] Assessed # {} /\ none -> "remained fresh"
                            [] OTHER -> "intermittent"
      <4>1. StalenessPanel = words
        BY DEF StalenessPanel
      <4>2. ~(half /\ none)
        BY <3>8
      <4> HIDE DEF half, none
      <4>3. /\ half => words = "persistent"
            /\ none => words = "remained fresh"
            /\ ~half /\ ~none => words = "intermittent"
        BY <4>2
      <4> QED
        BY <4>1, <4>3 DEF half, none
    <3> QED
      BY <3>7, <3>8, <3>9 DEF n, s
  <2> QED
    BY <2>1, <2>2, <2>3 DEF HistoryReadsAlike, DividersMatchChart
<1> QED
  BY <1>1, SeriesTyped, PTL

\* A window's run times are numbers.
LEMMA RunTimesType ==
    ASSUME SeriesType
    PROVE  \A k \in RunsDrawn : RunTimes[k] \in Int
<1> DEFINE n == Len(history)
           Since(f, k) == IF k = 1 THEN 0 ELSE f[k - 1] + history[k].since
           Times(f, m) == f = [k \in 1 .. m |-> Since(f, k)]
<1>1. n \in Nat /\ \A k \in 1 .. n : history[k].since \in Int
  <2>1. \A k \in 1 .. n : history[k] \in Runs
    BY RunsOf
  <2>2. Spacings \subseteq Int
    BY SeriesAssumption
  <2> QED
    BY <2>1, <2>2, RunsOf DEF Runs
<1>2. ASSUME NEW m \in Nat, m < n, NEW f, Times(f, m)
      PROVE  \E g : Times(g, m + 1)
  <2> DEFINE g == [k \in 1 .. m + 1 |-> IF k = m + 1 THEN Since(f, k) ELSE f[k]]
  <2>1. ASSUME NEW k \in 1 .. m + 1
        PROVE  g[k] = Since(g, k)
    <3>1. CASE k = 1 /\ m = 0
      BY <3>1
    <3>2. CASE k = 1 /\ m # 0
      BY <3>2, <1>2
    <3>3. CASE k # 1
      <4>1. k - 1 \in 1 .. m /\ g[k - 1] = f[k - 1]
        BY <3>3
      <4>2. CASE k = m + 1
        BY <3>3, <4>1, <4>2
      <4>3. CASE k # m + 1
        <5>1. k \in 1 .. m /\ f[k] = Since(f, k)
          BY <4>3, <1>2
        <5> QED
          BY <3>3, <4>1, <4>3, <5>1
      <4> QED
        BY <4>2, <4>3
    <3> QED
      BY <3>1, <3>2, <3>3
  <2>2. DOMAIN g = 1 .. m + 1
    OBVIOUS
  <2>3. g = [k \in 1 .. m + 1 |-> g[k]]
    OBVIOUS
  <2> HIDE DEF g
  <2>4. [k \in 1 .. m + 1 |-> g[k]] = [k \in 1 .. m + 1 |-> Since(g, k)]
    BY <2>1
  <2> QED
    BY <2>3, <2>4
<1>3. \A m \in 0 .. n : \E f : Times(f, m)
  <2> DEFINE Lacking == {m \in 0 .. n : ~(\E f : Times(f, m))}
  <2> SUFFICES ASSUME Lacking # {}
               PROVE  FALSE
    OBVIOUS
  <2>1. Lacking \in SUBSET Nat
    BY <1>1
  <2> DEFINE least == Min(Lacking)
  <2>2. least \in Lacking /\ \A m \in Lacking : least <= m
    BY <2>1, LeastOf
  <2> HIDE DEF least
  <2>3. least \in 0 .. n /\ ~(\E f : Times(f, least))
    BY <2>2
  <2>4. least # 0
    <3>1. Times(<<>>, 0)
      OBVIOUS
    <3> QED
      BY <2>3, <3>1
  <2>5. least - 1 \in Nat /\ least - 1 < n /\ least - 1 \in 0 .. n /\ \E f : Times(f, least - 1)
    <3>1. least - 1 \in Nat /\ least - 1 < n /\ least - 1 \in 0 .. n /\ ~(least <= least - 1)
      BY <1>1, <2>3, <2>4
    <3>2. least - 1 \notin Lacking
      BY <2>2, <3>1
    <3> HIDE DEF Times
    <3>3. \E f : Times(f, least - 1)
      BY <3>1, <3>2
    <3> QED
      BY <3>1, <3>3
  <2>6. PICK f : Times(f, least - 1)
    BY <2>5
  <2>7. \E g : Times(g, (least - 1) + 1)
    BY <1>2, <2>5, <2>6
  <2>8. (least - 1) + 1 = least
    BY <1>1, <2>3
  <2> QED
    BY <2>3, <2>7, <2>8
<1>4. RunTimes = CHOOSE f : Times(f, n)
  BY DEF RunTimes, RunsDrawn
<1>5. n \in 0 .. n
  BY <1>1
<1> HIDE DEF Times
<1>6. Times(RunTimes, n)
  BY <1>3, <1>4, <1>5
<1>7. \A k \in 1 .. n : RunTimes[k] = Since(RunTimes, k)
  BY <1>6 DEF Times
<1> DEFINE Odd == {k \in 1 .. n : RunTimes[k] \notin Int}
<1>8. Odd = {}
  <2> SUFFICES ASSUME Odd # {}
               PROVE  FALSE
    OBVIOUS
  <2>1. Odd \in SUBSET Nat
    BY <1>1
  <2> DEFINE least == Min(Odd)
  <2>2. least \in Odd /\ \A m \in Odd : least <= m
    BY <2>1, LeastOf
  <2> HIDE DEF least
  <2>3. least \in 1 .. n /\ RunTimes[least] \notin Int
    BY <2>2
  <2>4. least # 1
    BY <1>7, <2>3
  <2>5. least - 1 \in 1 .. n /\ least - 1 \notin Odd
    BY <1>1, <2>2, <2>3, <2>4
  <2>6. RunTimes[least - 1] \in Int
    BY <2>5
  <2>7. RunTimes[least] = RunTimes[least - 1] + history[least].since
    BY <1>7, <2>3, <2>4
  <2> QED
    BY <1>1, <2>3, <2>6, <2>7
<1> QED
  BY <1>8 DEF RunsDrawn

\* Half of a number of spacings and the place of their median.
LEMMA MiddleIs ==
    ASSUME NEW n \in Nat, n > 0
    PROVE  /\ ((n - 1) \div 2) + 1 \in 1 .. n
           /\ 2 * ((n - 1) \div 2) < n
<1> DEFINE half == (n - 1) \div 2
<1>1. half \in Int /\ 2 * half <= n - 1 /\ n - 1 < 2 * half + 2
  <2>1. n - 1 \in Int /\ 2 \in Int /\ 2 > 0
    OBVIOUS
  <2> QED
    BY <2>1, Quotient
<1> HIDE DEF half
<1>2. half + 1 \in 1 .. n /\ 2 * half < n
  BY <1>1
<1> QED
  BY <1>2 DEF half

\* The median is one of the spacings, and no longer than one that half of them keep.
LEMMA MedianIsUsual ==
    ASSUME SeriesType, Len(history) > 1, NEW usual \in Int,
           2 * Cardinality({k \in 2 .. Len(history) : history[k].since <= usual})
               >= Len(history) - 1
    PROVE  Median \in Int /\ Median <= usual
<1> DEFINE n == Len(history) - 1
           U == {k \in 2 .. Len(history) : history[k].since <= usual}
           m == ((n - 1) \div 2) + 1
<1>0. Len(history) \in Nat /\ \A k \in 1 .. Len(history) : history[k].since \in Int
  <2>1. Spacings \subseteq Int
    BY SeriesAssumption
  <2> QED
    BY <2>1, RunsOf DEF Runs
<1>1. n \in Nat /\ n > 0
  BY <1>0
<1>2. m \in 1 .. n /\ 2 * (m - 1) < n
  <2> DEFINE half == (n - 1) \div 2
  <2>1. half + 1 \in 1 .. n /\ 2 * half < n
    BY <1>1, MiddleIs
  <2>2. half \in Int
    <3>1. n - 1 \in Int /\ 2 \in Int /\ 2 > 0
      BY <1>1
    <3> QED
      BY <3>1, Quotient
  <2>3. m = half + 1
    OBVIOUS
  <2> HIDE DEF half, m
  <2> QED
    BY <2>1, <2>2, <2>3
<1>3. /\ DOMAIN Spaced = 1 .. n
      /\ \A k \in 1 .. n : Spaced[k] = history[k + 1].since /\ Spaced[k] \in Int
  <2>1. Spaced = [k \in 1 .. n |-> history[k + 1].since]
    BY DEF Spaced
  <2>2. \A k \in 1 .. n : k + 1 \in 1 .. Len(history)
    BY <1>0
  <2> QED
    BY <1>0, <2>1, <2>2
<1>4. PICK at : Arranges(at, Spaced, Spaced, n)
  <2>1. n \in Nat /\ DOMAIN Spaced = 1 .. n /\ \A i \in 1 .. n : Spaced[i] \in Int
    BY <1>1, <1>3
  <2> HIDE DEF n
  <2> QED
    BY <2>1, StableSort
<1>9. /\ at \in [1 .. n -> 1 .. n]
      /\ Intervals = [k \in 1 .. n |-> Spaced[at[k]]]
      /\ \A i \in 1 .. n : \E k \in 1 .. n : at[k] = i
      /\ \A k, j \in 1 .. n : k <= j => Spaced[at[k]] <= Spaced[at[j]]
  BY <1>4 DEF Arranges, Intervals
<1>5. Len(Intervals) = n
  BY <1>1, <1>9
<1>6. Median = Spaced[at[m]]
  <2>1. Median = Intervals[m]
    BY <1>5 DEF Median
  <2> HIDE DEF m, n
  <2> QED
    BY <1>2, <1>9, <2>1
<1>7. Median \in Int
  <2>1. at[m] \in 1 .. n
    BY <1>2, <1>9
  <2> QED
    BY <1>3, <1>6, <2>1
<1>8. Median <= usual
  <2> SUFFICES ASSUME usual < Median
               PROVE  FALSE
    BY <1>7
  <2> DEFINE f == [u \in U |-> CHOOSE k \in 1 .. n : at[k] = u - 1]
  <2>1. ASSUME NEW u \in U
        PROVE  /\ f[u] \in 1 .. n /\ at[f[u]] = u - 1
               /\ f[u] \in 1 .. m - 1 /\ u \in Int
    <3>1. u \in 2 .. Len(history) /\ u - 1 \in 1 .. n /\ (u - 1) + 1 = u
      BY <1>0
    <3>2. f[u] \in 1 .. n /\ at[f[u]] = u - 1
      BY <1>9, <3>1
    <3> HIDE DEF f, m
    <3>3. Spaced[at[f[u]]] <= usual
      BY <1>3, <3>1, <3>2
    <3>4. f[u] < m
      <4> SUFFICES ASSUME m <= f[u]
                   PROVE  FALSE
        BY <1>2, <3>2
      <4>1. Spaced[at[m]] <= Spaced[at[f[u]]]
        BY <1>2, <1>9, <3>2
      <4>2. Spaced[at[f[u]]] \in Int /\ Spaced[at[m]] \in Int
        BY <1>2, <1>3, <1>9, <3>2
      <4> QED
        BY <1>6, <3>3, <4>1, <4>2
    <3> QED
      BY <1>2, <3>1, <3>2, <3>4
  <2>2. f \in Injection(U, 1 .. m - 1)
    <3>1. f \in [U -> 1 .. m - 1]
      <4>1. \A u \in U : f[u] \in 1 .. m - 1
        BY <2>1
      <4> QED
        BY <4>1
    <3>2. \A u, v \in U : f[u] = f[v] => u = v
      <4> SUFFICES ASSUME NEW u \in U, NEW v \in U, f[u] = f[v]
                   PROVE  u = v
        OBVIOUS
      <4>1. at[f[u]] = u - 1 /\ at[f[v]] = v - 1 /\ u \in Int /\ v \in Int
        BY <2>1
      <4> HIDE DEF f
      <4> QED
        BY <4>1
    <3> HIDE DEF f, U, m
    <3> QED
      BY <3>1, <3>2 DEF Injection, IsInjective
  <2> HIDE DEF f, U, m
  <2>3. IsFiniteSet(1 .. m - 1) /\ Cardinality(1 .. m - 1) = m - 1
    <3>1. 1 \in Int /\ m \in Int /\ m - 1 \in Int /\ m >= 1
      BY <1>2
    <3>2. IsFiniteSet(1 .. m - 1)
          /\ Cardinality(1 .. m - 1) = IF 1 > m - 1 THEN 0 ELSE m - 1 - 1 + 1
      BY <3>1, FS_Interval
    <3> QED
      BY <3>1, <3>2
  <2>4. IsFiniteSet(U) /\ Cardinality(U) <= m - 1
    BY <2>2, <2>3, FS_Injection
  <2>5. Cardinality(U) \in Nat
    BY <2>4, FS_CardinalityType
  <2>6. 2 * Cardinality(U) >= n
    BY DEF U
  <2>7. m \in Int /\ n \in Int /\ 2 * (m - 1) < n
    BY <1>1, <1>2
  <2> HIDE DEF n
  <2> QED
    BY <2>4, <2>5, <2>6, <2>7
<1> QED
  BY <1>7, <1>8

\* The chart's line joins two runs only if they follow each other, one rulebook scored both,
\* and the time between them is within GAP_BREAK_FACTOR of any spacing that half of the
\* window's runs keep: whatever the window's length, and however long its outages were.
THEOREM LinesHideNothing == SeriesSpec => []LineHidesNothing
<1>1. SeriesType => LineHidesNothing
  <2> SUFFICES ASSUME SeriesType, NEW pair \in JoinedPoints
               PROVE  /\ \A k \in pair[1] .. pair[2] :
                            /\ history[k].status = "ok"
                            /\ history[k].version = history[pair[1]].version
                      /\ \A usual \in Spacings :
                            2 * Cardinality({k \in 2 .. Len(history) : history[k].since <= usual})
                                  >= Len(history) - 1
                                => Apart(pair[1], pair[2]) <= GapFactor * usual
    BY DEF LineHidesNothing
  <2> DEFINE i == pair[1]
             j == pair[2]
  <2>0. Len(history) \in Nat /\ RunsDrawn = 1 .. Len(history)
    BY RunsOf DEF RunsDrawn
  <2>1. i \in Points /\ j \in Points /\ Neighbours(i, j) /\ BreakKinds(i, j) = {}
    BY DEF JoinedPoints
  <2>2. /\ i \in 1 .. Len(history) /\ j \in 1 .. Len(history) /\ i < j
        /\ history[i].status = "ok" /\ history[j].status = "ok"
        /\ \A k \in Points : k <= i \/ j <= k
    BY <2>0, <2>1 DEF Points, Neighbours
  <2> HIDE DEF i, j
  <2>3. /\ history[i].version = history[j].version
        /\ ~(\E f \in FailedRuns : i < f /\ f < j)
        /\ ~(Apart(i, j) > GapFactor * Median)
    BY <2>1 DEF BreakKinds
  <2>4. ASSUME NEW k \in i .. j
        PROVE  k = i \/ k = j
    <3>1. k \in RunsDrawn
      BY <2>0, <2>2
    <3>2. k \in Points \/ k \in FailedRuns
      BY <3>1 DEF FailedRuns
    <3> QED
      BY <2>2, <2>3, <2>4, <3>2
  <2>5. \A k \in i .. j : history[k].status = "ok" /\ history[k].version = history[i].version
    BY <2>2, <2>3, <2>4
  <2>6. ASSUME NEW usual \in Spacings,
               2 * Cardinality({k \in 2 .. Len(history) : history[k].since <= usual})
                   >= Len(history) - 1
        PROVE  Apart(i, j) <= GapFactor * usual
    <3>1. usual \in Int /\ GapFactor \in Nat
      BY SeriesAssumption
    <3>2. Len(history) > 1
      BY <2>0, <2>2
    <3>3. Median \in Int /\ Median <= usual
      BY <2>6, <3>1, <3>2, MedianIsUsual
    <3>4. GapFactor * Median <= GapFactor * usual
      <4>1. \A a, b \in Int, g \in Nat : a <= b => g * a <= g * b
        BY Z3
      <4> QED
        BY <3>1, <3>3, <4>1
    <3>5. Apart(i, j) \in Int
      <4>1. RunTimes[i] \in Int /\ RunTimes[j] \in Int
        BY <2>0, <2>2, RunTimesType
      <4> QED
        BY <4>1 DEF Apart
    <3>6. GapFactor * Median \in Int /\ GapFactor * usual \in Int
      BY <3>1, <3>3
    <3> QED
      BY <2>3, <3>4, <3>5, <3>6
  <2> QED
    BY <2>5, <2>6 DEF i, j
<1> QED
  BY <1>1, SeriesTyped, PTL

--------------------------------------------------------------------------------
(* Lists without repeats.                                                  *)

\* A sequence that has each member of a set once.
Lists(s, S) ==
    /\ s \in Seq(S)
    /\ \A x \in S : \E k \in DOMAIN s : s[k] = x
    /\ \A k, m \in DOMAIN s : s[k] = s[m] => k = m

\* The empty one.
LEMMA ListsNone == Lists(<<>>, {})
BY DEF Lists

\* What a set is put in order as.
LEMMA OrderLists ==
    ASSUME NEW S, IsFiniteSet(S), NEW R, StrictlyOrders(R, S)
    PROVE  Lists(InOrder(S, R), S)
<1> DEFINE list == InOrder(S, R)
           place == Place(R, S)
<1>1. /\ list \in Seq(S)
      /\ DOMAIN list = 1 .. Len(list) /\ Len(list) \in Nat
      /\ \A x \in S : place[x] + 1 \in DOMAIN list /\ list[place[x] + 1] = x
      /\ \A k \in DOMAIN list : place[list[k]] = k - 1
  BY Ordering DEF Enumerates
<1> HIDE DEF list, place
<1>2. \A k, m \in DOMAIN list : list[k] = list[m] => k = m
  <2> SUFFICES ASSUME NEW k \in DOMAIN list, NEW m \in DOMAIN list, list[k] = list[m]
               PROVE  k = m
    OBVIOUS
  <2>1. k - 1 = m - 1
    BY <1>1
  <2>2. k \in Int /\ m \in Int
    BY <1>1
  <2> QED
    BY <2>1, <2>2
<1> QED
  BY <1>1, <1>2 DEF Lists, list

\* One list after another.
LEMMA ConcatLists ==
    ASSUME NEW S, NEW T, S \cap T = {}, NEW s, NEW t, Lists(s, S), Lists(t, T)
    PROVE  Lists(s \o t, S \cup T)
<1>1. /\ s \in Seq(S \cup T) /\ t \in Seq(S \cup T)
      /\ Len(s) \in Nat /\ Len(t) \in Nat
      /\ DOMAIN s = 1 .. Len(s) /\ DOMAIN t = 1 .. Len(t)
  <2>1. s \in Seq(S) /\ t \in Seq(T)
    BY DEF Lists
  <2> QED
    BY <2>1
<1> DEFINE u == s \o t
<1>2. /\ u \in Seq(S \cup T) /\ DOMAIN u = 1 .. Len(s) + Len(t)
      /\ \A k \in 1 .. Len(s) : u[k] = s[k]
      /\ \A k \in 1 .. Len(s) + Len(t) : k > Len(s) => u[k] = t[k - Len(s)]
  BY <1>1
<1>3. /\ \A k \in 1 .. Len(s) : s[k] \in S
      /\ \A k \in 1 .. Len(t) : t[k] \in T
  BY <1>1 DEF Lists
<1> HIDE DEF u
<1>4. ASSUME NEW x \in S \cup T
      PROVE  \E k \in DOMAIN u : u[k] = x
  <2>1. CASE x \in S
    <3>1. PICK k \in 1 .. Len(s) : s[k] = x
      BY <1>1, <2>1 DEF Lists
    <3>2. k \in DOMAIN u /\ u[k] = x
      BY <1>1, <1>2, <3>1
    <3> QED
      BY <3>2
  <2>2. CASE x \in T
    <3>1. PICK k \in 1 .. Len(t) : t[k] = x
      BY <1>1, <2>2 DEF Lists
    <3>2. k + Len(s) \in 1 .. Len(s) + Len(t) /\ k + Len(s) > Len(s)
          /\ (k + Len(s)) - Len(s) = k
      BY <1>1, <3>1
    <3>3. k + Len(s) \in DOMAIN u /\ u[k + Len(s)] = x
      BY <1>2, <3>1, <3>2
    <3> QED
      BY <3>3
  <2> QED
    BY <2>1, <2>2
<1>5. ASSUME NEW k \in DOMAIN u, NEW m \in DOMAIN u, u[k] = u[m]
      PROVE  k = m
  <2>1. k \in 1 .. Len(s) + Len(t) /\ m \in 1 .. Len(s) + Len(t)
    BY <1>2
  <2>2. CASE k <= Len(s) /\ m <= Len(s)
    <3>1. k \in DOMAIN s /\ m \in DOMAIN s /\ s[k] = s[m]
      BY <1>1, <1>2, <1>5, <2>1, <2>2
    <3> QED
      BY <3>1 DEF Lists
  <2>3. CASE k > Len(s) /\ m > Len(s)
    <3>1. k - Len(s) \in DOMAIN t /\ m - Len(s) \in DOMAIN t /\ t[k - Len(s)] = t[m - Len(s)]
      BY <1>1, <1>2, <1>5, <2>1, <2>3
    <3>2. k - Len(s) = m - Len(s)
      BY <3>1 DEF Lists
    <3> QED
      BY <1>1, <2>1, <3>2
  <2>4. CASE k <= Len(s) /\ m > Len(s)
    <3>1. u[k] \in S
      BY <1>1, <1>2, <1>3, <2>1, <2>4
    <3>2. m - Len(s) \in 1 .. Len(t) /\ u[m] = t[m - Len(s)]
      BY <1>1, <1>2, <2>1, <2>4
    <3> QED
      BY <1>3, <1>5, <3>1, <3>2
  <2>5. CASE k > Len(s) /\ m <= Len(s)
    <3>1. u[m] \in S
      BY <1>1, <1>2, <1>3, <2>1, <2>5
    <3>2. k - Len(s) \in 1 .. Len(t) /\ u[k] = t[k - Len(s)]
      BY <1>1, <1>2, <2>1, <2>5
    <3> QED
      BY <1>3, <1>5, <3>1, <3>2
  <2> QED
    BY <1>1, <2>1, <2>2, <2>3, <2>4, <2>5
<1> QED
  BY <1>2, <1>4, <1>5 DEF Lists, u

\* A list made of another's items, each as one of its own.
LEMMA MapLists ==
    ASSUME NEW S, NEW s, Lists(s, S), NEW g, DOMAIN g = S,
           \A x, y \in S : g[x] = g[y] => x = y,
           NEW t, DOMAIN t = DOMAIN s, t = [k \in DOMAIN s |-> g[s[k]]]
    PROVE  Lists(t, {g[x] : x \in S})
<1>1. /\ s \in Seq(S) /\ DOMAIN s = 1 .. Len(s) /\ Len(s) \in Nat
      /\ \A k \in DOMAIN s : s[k] \in S
  BY DEF Lists
<1>2. t \in Seq({g[x] : x \in S})
  BY <1>1
<1>3. ASSUME NEW y \in {g[x] : x \in S}
      PROVE  \E k \in DOMAIN t : t[k] = y
  <2>1. PICK x \in S : y = g[x]
    OBVIOUS
  <2>2. PICK k \in DOMAIN s : s[k] = x
    BY DEF Lists
  <2> QED
    BY <2>1, <2>2
<1>4. \A k, m \in DOMAIN t : t[k] = t[m] => k = m
  BY <1>1 DEF Lists
<1> QED
  BY <1>2, <1>3, <1>4 DEF Lists

\* A list sorted.
LEMMA SortLists ==
    ASSUME NEW S, NEW s, Lists(s, S), NEW key, DOMAIN key = DOMAIN s,
           \A k \in DOMAIN s : key[k] \in Int
    PROVE  Lists(Sorted(s, key), S)
<1> DEFINE n == Len(s)
           t == Sorted(s, key)
<1>1. s \in Seq(S) /\ DOMAIN s = 1 .. n /\ n \in Nat /\ \A k \in 1 .. n : s[k] \in S
  BY DEF Lists
<1> HIDE DEF n
<1>2. PICK at : Arranges(at, s, key, n)
  BY <1>1, StableSort
<1>3. /\ at \in [1 .. n -> 1 .. n]
      /\ t = [k \in 1 .. n |-> s[at[k]]]
      /\ \A i \in 1 .. n : \E k \in 1 .. n : at[k] = i
      /\ \A k, m \in 1 .. n : at[k] = at[m] => k = m
  BY <1>2 DEF Arranges
<1> HIDE DEF t
<1>4. t \in Seq(S) /\ DOMAIN t = 1 .. n
  BY <1>1, <1>3
<1>5. ASSUME NEW x \in S
      PROVE  \E k \in DOMAIN t : t[k] = x
  <2>1. PICK i \in 1 .. n : s[i] = x
    BY <1>1 DEF Lists
  <2>2. PICK k \in 1 .. n : at[k] = i
    BY <1>3
  <2> QED
    BY <1>3, <1>4, <2>1, <2>2
<1>6. \A k, m \in DOMAIN t : t[k] = t[m] => k = m
  <2> SUFFICES ASSUME NEW k \in 1 .. n, NEW m \in 1 .. n, t[k] = t[m]
               PROVE  k = m
    BY <1>4
  <2>1. at[k] \in DOMAIN s /\ at[m] \in DOMAIN s /\ s[at[k]] = s[at[m]]
    BY <1>1, <1>3
  <2>2. at[k] = at[m]
    BY <2>1 DEF Lists
  <2> QED
    BY <1>3, <2>2
<1> QED
  BY <1>4, <1>5, <1>6 DEF Lists, t

\* What a filter keeps of a list without repeats has none either.
LEMMA FilterLists ==
    ASSUME NEW T, NEW targets \in Seq(T),
           \A i, j \in DOMAIN targets : targets[i] = targets[j] => i = j,
           NEW kept \in SUBSET DOMAIN targets
    PROVE  Lists(Filtered(targets, kept), {targets[i] : i \in kept})
<1> DEFINE n == Cardinality(kept)
           ahead(i) == Cardinality({j \in kept : j < i})
           at == [k \in 1 .. n |-> CHOOSE i \in kept : ahead(i) = k - 1]
           s == Filtered(targets, kept)
<1>1. IsFiniteSet(kept) /\ kept \subseteq Int
  <2>1. DOMAIN targets = 1 .. Len(targets) /\ Len(targets) \in Nat
    OBVIOUS
  <2>2. IsFiniteSet(DOMAIN targets)
    BY <2>1, FS_Interval
  <2> QED
    BY <2>1, <2>2, FS_Subset
<1>2. n \in Nat /\ \A k \in 1 .. n : \E i \in kept : ahead(i) = k - 1
  BY <1>1, InPlace
<1>3. s = [k \in 1 .. n |-> targets[at[k]]]
  BY DEF Filtered
<1>4. /\ s \in Seq({targets[i] : i \in kept})
      /\ Members(s) = {targets[i] : i \in kept}
  BY FilteredKeeps
<1> HIDE DEF n, ahead
<1>5. \A k \in 1 .. n : at[k] \in kept /\ ahead(at[k]) = k - 1
  BY <1>2
<1> HIDE DEF at, s
<1>6. ASSUME NEW k \in DOMAIN s, NEW m \in DOMAIN s, s[k] = s[m]
      PROVE  k = m
  <2>1. k \in 1 .. n /\ m \in 1 .. n
    BY <1>3
  <2>2. at[k] = at[m]
    BY <1>3, <1>5, <1>6, <2>1
  <2>3. k - 1 = m - 1
    BY <1>5, <2>1, <2>2
  <2> QED
    BY <1>2, <2>1, <2>3
<1>7. \A x \in {targets[i] : i \in kept} : \E k \in DOMAIN s : s[k] = x
  BY <1>4 DEF Members
<1> QED
  BY <1>4, <1>6, <1>7 DEF Lists, s

\* Lists of sets that have nothing in common.
ListsEach(seqs, sets, n) ==
    /\ n \in Nat
    /\ seqs = [i \in 1 .. n |-> seqs[i]]
    /\ \A i \in 1 .. n : Lists(seqs[i], sets[i])
    /\ \A i, j \in 1 .. n : i # j => sets[i] \cap sets[j] = {}

\* Such lists one after another.
LEMMA FlattenLists ==
    ASSUME NEW n, NEW seqs, NEW sets, ListsEach(seqs, sets, n)
    PROVE  Lists(FlattenSeq(seqs), UNION {sets[i] : i \in 1 .. n})
<1> DEFINE Flat(f, i) == IF i = 1 THEN seqs[i] ELSE f[i - 1] \o seqs[i]
           Flattens(f, m) == f = [i \in 1 .. m |-> Flat(f, i)]
           So(m) == UNION {sets[i] : i \in 1 .. m}
<1> USE DEF ListsEach
<1>1. Len(seqs) = n /\ n \in Nat
  <2>1. seqs \in Seq({seqs[i] : i \in 1 .. n})
    OBVIOUS
  <2> QED
    BY <2>1
<1>2. ASSUME NEW m \in Nat, NEW f, Flattens(f, m)
      PROVE  \E g : Flattens(g, m + 1)
  <2>0. \A i \in 1 .. m : f[i] = Flat(f, i)
    BY <1>2
  <2> DEFINE g == [i \in 1 .. m + 1 |-> IF i = m + 1 THEN Flat(f, i) ELSE f[i]]
  <2>1. ASSUME NEW i \in 1 .. m + 1
        PROVE  g[i] = Flat(g, i)
    <3>1. CASE i = 1 /\ m = 0
      BY <3>1
    <3>2. CASE i = 1 /\ m # 0
      BY <3>2, <1>2
    <3>3. CASE i # 1
      <4>1. i - 1 \in 1 .. m /\ g[i - 1] = f[i - 1]
        BY <3>3
      <4>2. CASE i = m + 1
        BY <3>3, <4>1, <4>2
      <4>3. CASE i # m + 1
        <5>1. i \in 1 .. m
          BY <4>3
        <5> QED
          BY <2>0, <3>3, <4>1, <4>3, <5>1
      <4> QED
        BY <4>2, <4>3
    <3> QED
      BY <3>1, <3>2, <3>3
  <2>2. g = [i \in 1 .. m + 1 |-> g[i]]
    OBVIOUS
  <2> HIDE DEF g
  <2>3. [i \in 1 .. m + 1 |-> g[i]] = [i \in 1 .. m + 1 |-> Flat(g, i)]
    BY <2>1
  <2> QED
    BY <2>2, <2>3
<1>3. \A m \in 0 .. n : \E f : Flattens(f, m)
  <2> HIDE DEF Flattens
  <2> DEFINE Lacking == {m \in 0 .. n : ~(\E f : Flattens(f, m))}
  <2> SUFFICES ASSUME Lacking # {}
               PROVE  FALSE
    OBVIOUS
  <2>1. Lacking \in SUBSET Nat
    OBVIOUS
  <2> DEFINE least == Min(Lacking)
  <2>2. least \in Lacking /\ \A m \in Lacking : least <= m
    BY <2>1, LeastOf
  <2> HIDE DEF least
  <2>3. least \in 0 .. n /\ ~(\E f : Flattens(f, least))
    BY <2>2
  <2>4. least # 0
    <3>1. Flattens(<<>>, 0)
      BY DEF Flattens
    <3> QED
      BY <2>3, <3>1
  <2>5. least - 1 \in Nat /\ least - 1 \in 0 .. n /\ ~(least <= least - 1)
    BY <2>3, <2>4
  <2>6. least - 1 \notin Lacking
    BY <2>2, <2>5
  <2>7. PICK f : Flattens(f, least - 1)
    BY <2>5, <2>6
  <2>8. \E g : Flattens(g, (least - 1) + 1)
    BY <1>2, <2>5, <2>7
  <2>9. (least - 1) + 1 = least
    BY <2>3
  <2> QED
    BY <2>3, <2>8, <2>9
<1>4. CASE n = 0
  <2>1. FlattenSeq(seqs) = <<>>
    BY <1>1, <1>4 DEF FlattenSeq
  <2>2. UNION {sets[i] : i \in 1 .. n} = {}
    BY <1>4
  <2> QED
    BY <2>1, <2>2, ListsNone
<1>5. CASE n # 0
  <2> DEFINE flat == CHOOSE f : Flattens(f, n)
  <2>1. FlattenSeq(seqs) = flat[n]
    BY <1>1, <1>5 DEF FlattenSeq
  <2>2. Flattens(flat, n)
    <3>1. n \in 0 .. n
      OBVIOUS
    <3> HIDE DEF Flattens
    <3> QED
      BY <1>3, <3>1
  <2> HIDE DEF flat
  <2>3. \A i \in 1 .. n : flat[i] = Flat(flat, i)
    BY <2>2
  <2> DEFINE Wrong == {m \in 1 .. n : ~Lists(flat[m], So(m))}
  <2>4. Wrong = {}
    <3> SUFFICES ASSUME Wrong # {}
                 PROVE  FALSE
      OBVIOUS
    <3>1. Wrong \in SUBSET Nat
      OBVIOUS
    <3> DEFINE least == Min(Wrong)
    <3>2. least \in Wrong /\ \A m \in Wrong : least <= m
      BY <3>1, LeastOf
    <3> HIDE DEF least
    <3>3. least \in 1 .. n /\ ~Lists(flat[least], So(least))
      BY <3>2
    <3>4. CASE least = 1
      <4>1. flat[1] = seqs[1] /\ So(1) = sets[1]
        BY <2>3, <3>3, <3>4
      <4> QED
        BY <3>3, <3>4, <4>1
    <3>5. CASE least # 1
      <4>1. least - 1 \in 1 .. n /\ ~(least <= least - 1)
        BY <3>3, <3>5
      <4>2. least - 1 \notin Wrong
        BY <3>2, <4>1
      <4>3. Lists(flat[least - 1], So(least - 1))
        BY <4>1, <4>2
      <4>4. flat[least] = flat[least - 1] \o seqs[least]
        BY <2>3, <3>3, <3>5
      <4>5. So(least) = So(least - 1) \cup sets[least]
        <5>1. 1 .. least = (1 .. least - 1) \cup {least}
          BY <3>3
        <5> QED
          BY <5>1
      <4>6. So(least - 1) \cap sets[least] = {}
        <5>1. \A i \in 1 .. least - 1 : i \in 1 .. n /\ i # least
          BY <3>3
        <5> QED
          BY <3>3, <5>1
      <4>7. Lists(seqs[least], sets[least])
        BY <3>3
      <4> HIDE DEF So
      <4>8. Lists(flat[least - 1] \o seqs[least], So(least - 1) \cup sets[least])
        BY <4>3, <4>6, <4>7, ConcatLists
      <4> QED
        BY <3>3, <4>4, <4>5, <4>8
    <3> QED
      BY <3>4, <3>5
  <2>5. n \in 1 .. n
    BY <1>5
  <2>6. Lists(flat[n], So(n))
    BY <2>4, <2>5
  <2> QED
    BY <2>1, <2>6
<1> QED
  BY <1>4, <1>5

\* Lists of the images of the groups of S, along a list of what f may say of a member.
GroupsOf(list, S, f, g, held, seqs) ==
    /\ list \in Seq(STRING) /\ \A i, j \in DOMAIN list : list[i] = list[j] => i = j
    /\ \A x \in S : \E i \in DOMAIN list : f[x] = list[i]
    /\ \A x, y \in S : g[x] = g[y] => x = y
    /\ held = Filtered(list, {i \in DOMAIN list : {x \in S : f[x] = list[i]} # {}})
    /\ seqs = [i \in DOMAIN held |-> seqs[i]]
    /\ \A i \in DOMAIN held : Lists(seqs[i], {g[x] : x \in {y \in S : f[y] = held[i]}})

\* Such lists one after another, without those of groups that have no member.
LEMMA GroupLists ==
    ASSUME NEW list, NEW S, NEW f, NEW g, NEW held, NEW seqs,
           GroupsOf(list, S, f, g, held, seqs)
    PROVE  Lists(FlattenSeq(seqs), {g[x] : x \in S})
<1> USE DEF GroupsOf
<1> DEFINE under(c) == {x \in S : f[x] = c}
           kept == {i \in DOMAIN list : under(list[i]) # {}}
           sets == [i \in DOMAIN held |-> {g[x] : x \in under(held[i])}]
<1>1. Lists(held, {list[i] : i \in kept})
  <2>1. kept \in SUBSET DOMAIN list
    OBVIOUS
  <2> QED
    BY <2>1, FilterLists
<1> DEFINE n == Len(held)
<1>2. n \in Nat /\ DOMAIN held = 1 .. n
  <2>1. held \in Seq({list[i] : i \in kept})
    BY <1>1 DEF Lists
  <2> QED
    BY <2>1
<1> HIDE DEF n, kept
<1>9. \A i \in 1 .. n : sets[i] = {g[x] : x \in under(held[i])}
  BY <1>2
<1> HIDE DEF sets
<1>3. \A i, j \in DOMAIN held : held[i] = held[j] => i = j
  BY <1>1 DEF Lists
<1>4. \A i, j \in 1 .. n : i # j => sets[i] \cap sets[j] = {}
  <2> SUFFICES ASSUME NEW i \in 1 .. n, NEW j \in 1 .. n, i # j,
                      NEW z \in sets[i], z \in sets[j]
               PROVE  FALSE
    OBVIOUS
  <2>1. PICK x \in S : f[x] = held[i] /\ z = g[x]
    BY <1>9
  <2>2. PICK y \in S : f[y] = held[j] /\ z = g[y]
    BY <1>9
  <2>3. g[x] = g[y] /\ x \in S /\ y \in S
    BY <2>1, <2>2
  <2>4. x = y
    BY <2>3
  <2> QED
    BY <1>2, <1>3, <2>1, <2>2, <2>4
<1>5. UNION {sets[i] : i \in 1 .. n} = {g[x] : x \in S}
  <2>1. ASSUME NEW x \in S
        PROVE  \E i \in 1 .. n : g[x] \in sets[i]
    <3>1. PICK i \in DOMAIN list : f[x] = list[i]
      OBVIOUS
    <3>2. list[i] \in {list[j] : j \in kept}
      BY <3>1 DEF kept
    <3>3. PICK k \in DOMAIN held : held[k] = list[i]
      BY <1>1, <3>2 DEF Lists
    <3>4. k \in 1 .. n /\ x \in under(held[k])
      BY <1>2, <3>1, <3>3
    <3>5. sets[k] = {g[y] : y \in under(held[k])}
      BY <1>9, <3>4
    <3>6. g[x] \in sets[k]
      BY <3>4, <3>5
    <3> QED
      BY <3>4, <3>6
  <2>2. \A i \in 1 .. n : sets[i] \subseteq {g[x] : x \in S}
    BY <1>9
  <2> QED
    BY <2>1, <2>2
<1>6. \A i \in 1 .. n : Lists(seqs[i], sets[i])
  <2> SUFFICES ASSUME NEW i \in 1 .. n
               PROVE  Lists(seqs[i], sets[i])
    OBVIOUS
  <2>1. Lists(seqs[i], {g[x] : x \in {y \in S : f[y] = held[i]}})
    BY <1>2
  <2>2. sets[i] = {g[x] : x \in {y \in S : f[y] = held[i]}}
    BY <1>9
  <2> QED
    BY <2>1, <2>2
<1>7. seqs = [i \in 1 .. n |-> seqs[i]]
  BY <1>2
<1>8. Lists(FlattenSeq(seqs), UNION {sets[i] : i \in 1 .. n})
  <2>1. ListsEach(seqs, sets, n)
    BY <1>2, <1>4, <1>6, <1>7 DEF ListsEach
  <2> QED
    BY <2>1, FlattenLists
<1> QED
  BY <1>5, <1>8

--------------------------------------------------------------------------------
(* RegistryPage.                                                           *)

RegistrySpec == RegistryInit /\ [][RegistryNext]_registryVars

\* A board, or what a request fetched of it.
IsBoard(b) ==
    /\ DOMAIN b \subseteq Ids
    /\ \A id \in DOMAIN b : b[id] \in [category : CategorySet, score : Grades \cup {Unscored}]

\* The listed entries that are ranked, and those an entry is ranked among.
Ranks(chosen, fetched) ==
    {id \in MatchedProtocols(chosen, fetched) : fetched[id].score # Unscored}
Peers(c, chosen, fetched) == {id \in Ranks(chosen, fetched) : fetched[id].category = c}

\* The numeral of an entry: its place among its peers.
Numeral(id, chosen, fetched) ==
    LET peers == Peers(fetched[id].category, chosen, fetched)
    IN  IF chosen.sort = "score-desc" /\ id \in Ranks(chosen, fetched)
        THEN Place(RankedBefore(peers, fetched, chosen.sort), peers)[id] + 1 ELSE 0

\* One row for each entry that the params select.
ScoredRow(chosen, fetched) ==
    [id \in MatchedProtocols(chosen, fetched) |-> ProtocolRow(id, Numeral(id, chosen, fetched))]
NotedRow(chosen, fetched) ==
    [id \in MatchedCoverage(chosen, CoverageToPublish(DOMAIN fetched)) |-> CoverageRow(id)]
EntryRows(chosen, fetched) ==
    {ScoredRow(chosen, fetched)[id] : id \in MatchedProtocols(chosen, fetched)}
        \cup {NotedRow(chosen, fetched)[id] :
                 id \in MatchedCoverage(chosen, CoverageToPublish(DOMAIN fetched))}

\* What the constants are.
LEMMA RegistryConstants ==
    /\ Ids \subseteq Int /\ IsFiniteSet(Ids) /\ DOMAIN Notes \subseteq Ids
    /\ Grades \subseteq Int /\ Unscored \in Int
BY RegistryAssumption DEF Unscored

\* Ids are in the order of their names.
LEMMA NamesOrder ==
    ASSUME NEW ids \in SUBSET Ids
    PROVE  IsFiniteSet(ids) /\ StrictlyOrders(ByName(ids), ids)
<1>1. IsFiniteSet(ids) /\ \A x \in ids : x \in Int
  BY RegistryConstants, FS_Subset
<1>2. \A x, y \in ids : <<x, y>> \in ByName(ids) <=> x < y
  BY DEF ByName
<1> QED
  BY <1>1, <1>2 DEF StrictlyOrders

\* Scored entries are in the order of their scores, and of their names where those tie.
LEMMA ScoresOrder ==
    ASSUME NEW fetched, IsBoard(fetched), NEW ids \in SUBSET DOMAIN fetched, NEW sort \in Sorts
    PROVE  /\ IsFiniteSet(ids) /\ StrictlyOrders(RankedBefore(ids, fetched, sort), ids)
           /\ sort = "score-desc" =>
                \A x, y \in ids : fetched[x].score > fetched[y].score =>
                    <<x, y>> \in RankedBefore(ids, fetched, sort)
<1>1. ids \in SUBSET Ids
  BY DEF IsBoard
<1>2. IsFiniteSet(ids) /\ StrictlyOrders(ByName(ids), ids) /\ \A x \in ids : x \in Int
  BY <1>1, NamesOrder, RegistryConstants
<1>3. \A x \in ids : fetched[x].score \in Int
  BY RegistryConstants DEF IsBoard
<1>4. \A x, y \in ids : <<x, y>> \in ByName(ids) <=> x < y
  BY DEF ByName
<1> DEFINE before == RankedBefore(ids, fetched, sort)
<1>5. CASE sort = "name"
  <2>1. before = ByName(ids)
    BY <1>5 DEF RankedBefore
  <2> QED
    BY <1>2, <1>5, <2>1
<1>6. CASE sort = "score-asc"
  <2>1. \A x, y \in ids : <<x, y>> \in before <=>
           \/ fetched[x].score < fetched[y].score
           \/ fetched[x].score = fetched[y].score /\ x < y
    BY <1>4, <1>6 DEF RankedBefore
  <2> HIDE DEF before
  <2>2. StrictlyOrders(before, ids)
    BY <1>2, <1>3, <2>1 DEF StrictlyOrders
  <2> QED
    BY <1>2, <1>6, <2>2 DEF before
<1>7. CASE sort = "score-desc"
  <2>1. \A x, y \in ids : <<x, y>> \in before <=>
           \/ fetched[x].score > fetched[y].score
           \/ fetched[x].score = fetched[y].score /\ x < y
    BY <1>4, <1>7 DEF RankedBefore
  <2> HIDE DEF before
  <2>2. StrictlyOrders(before, ids)
    BY <1>2, <1>3, <2>1 DEF StrictlyOrders
  <2> QED
    BY <1>2, <1>7, <2>1, <2>2 DEF before
<1> QED
  BY <1>5, <1>6, <1>7 DEF Sorts

\* A row says which entry it is about.
LEMMA RowsDiffer ==
    ASSUME NEW chosen, NEW fetched
    PROVE  /\ \A id \in MatchedProtocols(chosen, fetched) :
                 /\ ScoredRow(chosen, fetched)[id] = ProtocolRow(id, Numeral(id, chosen, fetched))
                 /\ ScoredRow(chosen, fetched)[id].id = id
                 /\ ScoredRow(chosen, fetched)[id].kind = "scored"
                 /\ ScoredRow(chosen, fetched)[id].rank = Numeral(id, chosen, fetched)
           /\ \A id \in MatchedCoverage(chosen, CoverageToPublish(DOMAIN fetched)) :
                 /\ NotedRow(chosen, fetched)[id] = CoverageRow(id)
                 /\ NotedRow(chosen, fetched)[id].id = id
                 /\ NotedRow(chosen, fetched)[id].kind = "coverage"
                 /\ NotedRow(chosen, fetched)[id].rank = 0
BY DEF ScoredRow, NotedRow, ProtocolRow, CoverageRow

\* What params select.
LEMMA Matched ==
    ASSUME NEW chosen, NEW fetched, IsBoard(fetched)
    PROVE  /\ MatchedProtocols(chosen, fetched) \in SUBSET Ids
           /\ MatchedProtocols(chosen, fetched) \in SUBSET DOMAIN fetched
           /\ Ranks(chosen, fetched) \in SUBSET MatchedProtocols(chosen, fetched)
           /\ MatchedCoverage(chosen, CoverageToPublish(DOMAIN fetched)) \in SUBSET Ids
           /\ MatchedCoverage(chosen, CoverageToPublish(DOMAIN fetched)) \in SUBSET DOMAIN Notes
           /\ MatchedProtocols(chosen, fetched)
                \cap MatchedCoverage(chosen, CoverageToPublish(DOMAIN fetched)) = {}
           /\ \A id \in MatchedProtocols(chosen, fetched) : fetched[id].category \in CategorySet
BY RegistryConstants DEF MatchedProtocols, MatchedCoverage, CoverageToPublish, Ranks, IsBoard

\* The ranked groups and their blocks.
LEMMA RankedLists ==
    ASSUME NEW chosen, chosen.sort \in Sorts, NEW fetched, IsBoard(fetched),
           NEW ids, ids = Ranks(chosen, fetched),
           NEW groups, groups = RankedGroups(ids, fetched, chosen.sort)
    PROVE  /\ Lists(FlattenSeq(groups), ids)
           /\ Lists(FlattenSeq([i \in DOMAIN groups |-> RankedBlock(groups[i], chosen.sort)]),
                    {ScoredRow(chosen, fetched)[id] : id \in ids})
<1> DEFINE inCategory(c) == {id \in ids : fetched[id].category = c}
           sort == chosen.sort
           f == [id \in ids |-> fetched[id].category]
           row == ScoredRow(chosen, fetched)
           held == Filtered(Categories, {i \in DOMAIN Categories : inCategory(Categories[i]) # {}})
           blocks == [i \in DOMAIN groups |-> RankedBlock(groups[i], sort)]
<1>1. groups = [i \in DOMAIN held |-> SortRanked(inCategory(held[i]), fetched, sort)]
  BY DEF RankedGroups
<1>2. \A c : {x \in ids : f[x] = c} = inCategory(c)
  OBVIOUS
<1>3. held = Filtered(Categories,
                      {i \in DOMAIN Categories : {x \in ids : f[x] = Categories[i]} # {}})
  BY <1>2
<1>4. /\ Categories \in Seq(STRING)
      /\ \A i, j \in DOMAIN Categories : Categories[i] = Categories[j] => i = j
  BY RegistryAssumption
<1>5. \A x \in ids : \E i \in DOMAIN Categories : f[x] = Categories[i]
  BY Matched DEF CategorySet
<1>6. ids \in SUBSET DOMAIN fetched /\ ids \in SUBSET MatchedProtocols(chosen, fetched)
  BY Matched
<1>7. \A c : inCategory(c) \in SUBSET DOMAIN fetched /\ inCategory(c) = Peers(c, chosen, fetched)
  BY <1>6 DEF Peers
<1> HIDE DEF held, f
<1>8. ASSUME NEW i \in DOMAIN held
      PROVE  /\ Lists(groups[i], inCategory(held[i]))
             /\ Lists(blocks[i], {row[id] : id \in inCategory(held[i])})
  <2> DEFINE peers == inCategory(held[i])
             before == RankedBefore(peers, fetched, sort)
  <2>1. groups[i] = InOrder(peers, before)
    BY <1>1 DEF SortRanked
  <2>2. IsFiniteSet(peers) /\ StrictlyOrders(before, peers)
    <3>1. peers \in SUBSET DOMAIN fetched
      BY <1>7
    <3> HIDE DEF peers
    <3> QED
      BY <3>1, ScoresOrder
  <2>3. \A id \in peers : fetched[id].category = held[i] /\ id \in ids
    OBVIOUS
  <2>4. peers = Peers(held[i], chosen, fetched)
    BY <1>7
  <2>5. blocks[i] = RankedBlock(groups[i], sort)
    BY <1>1
  <2> HIDE DEF peers, before
  <2>6. Lists(groups[i], peers) /\ Enumerates(groups[i], peers, before)
    BY <2>1, <2>2, OrderLists, Ordering
  <2>7. \A k \in DOMAIN groups[i] :
           groups[i][k] \in peers /\ Place(before, peers)[groups[i][k]] = k - 1
    BY <2>6 DEF Lists, Enumerates
  <2>8. ASSUME NEW k \in DOMAIN groups[i]
        PROVE  row[groups[i][k]] = ProtocolRow(groups[i][k], IF sort = "score-desc" THEN k ELSE 0)
    <3> DEFINE id == groups[i][k]
    <3>1. /\ id \in peers /\ id \in ids /\ fetched[id].category = held[i]
          /\ Place(before, peers)[id] = k - 1
      BY <2>3, <2>7
    <3>2. k \in Int
      BY <2>6 DEF Lists
    <3>3. row[id] = ProtocolRow(id, Numeral(id, chosen, fetched))
      BY <1>6, <3>1, RowsDiffer
    <3> HIDE DEF id
    <3>4. Numeral(id, chosen, fetched) =
             IF sort = "score-desc" THEN Place(before, peers)[id] + 1 ELSE 0
      BY <2>4, <3>1 DEF Numeral, before
    <3>5. (k - 1) + 1 = k
      BY <3>2
    <3> QED
      BY <3>1, <3>3, <3>4, <3>5 DEF id
  <2> DEFINE g == [id \in peers |-> row[id]]
  <2>9. blocks[i] = [k \in DOMAIN groups[i] |-> g[groups[i][k]]]
    BY <2>5, <2>7, <2>8 DEF RankedBlock
  <2>10. \A x, y \in peers : g[x] = g[y] => x = y
    BY <1>6, <2>3, RowsDiffer
  <2>11. DOMAIN blocks[i] = DOMAIN groups[i] /\ DOMAIN g = peers
    BY <2>9
  <2>12. {g[x] : x \in peers} = {row[id] : id \in peers}
    OBVIOUS
  <2> HIDE DEF g, row, blocks
  <2>13. Lists(blocks[i], {g[x] : x \in peers})
    BY <2>6, <2>9, <2>10, <2>11, MapLists
  <2> QED
    BY <2>6, <2>12, <2>13 DEF peers
<1> HIDE DEF inCategory
<1>9. DOMAIN groups = DOMAIN held
  BY <1>1
<1>10. Lists(FlattenSeq(groups), ids)
  <2> DEFINE same == [x \in ids |-> x]
  <2>1. \A i \in DOMAIN held : {same[x] : x \in {y \in ids : f[y] = held[i]}} = inCategory(held[i])
    BY <1>2
  <2>2. groups = [i \in DOMAIN held |-> groups[i]]
    BY <1>1
  <2>3. \A x, y \in ids : same[x] = same[y] => x = y
    OBVIOUS
  <2>4. {same[x] : x \in ids} = ids
    OBVIOUS
  <2> HIDE DEF same
  <2>5. \A i \in DOMAIN held : Lists(groups[i], {same[x] : x \in {y \in ids : f[y] = held[i]}})
    BY <1>8, <2>1
  <2>6. GroupsOf(Categories, ids, f, same, held, groups)
    BY <1>3, <1>4, <1>5, <2>2, <2>3, <2>5 DEF GroupsOf
  <2>7. Lists(FlattenSeq(groups), {same[x] : x \in ids})
    BY <2>6, GroupLists
  <2> QED
    BY <2>4, <2>7
<1>11. Lists(FlattenSeq(blocks), {row[id] : id \in ids})
  <2>1. \A i \in DOMAIN held : {row[x] : x \in {y \in ids : f[y] = held[i]}}
                                 = {row[id] : id \in inCategory(held[i])}
    BY <1>2
  <2>2. blocks = [i \in DOMAIN held |-> blocks[i]]
    BY <1>9
  <2>3. \A x, y \in ids : row[x] = row[y] => x = y
    BY <1>6, RowsDiffer
  <2> HIDE DEF row, blocks
  <2>4. \A i \in DOMAIN held : Lists(blocks[i], {row[x] : x \in {y \in ids : f[y] = held[i]}})
    BY <1>8, <2>1
  <2>5. GroupsOf(Categories, ids, f, row, held, blocks)
    BY <1>3, <1>4, <1>5, <2>2, <2>3, <2>4 DEF GroupsOf
  <2> QED
    BY <2>5, GroupLists
<1> QED
  BY <1>10, <1>11

\* The coverage section: every status with its notes.
LEMMA CoverageLists ==
    ASSUME NEW ids \in SUBSET DOMAIN Notes
    PROVE  Lists(FlattenSeq(GroupCoverage(ids)), ids)
<1> DEFINE under(s) == {id \in ids : Notes[id] = s}
           f == [id \in ids |-> Notes[id]]
           groups == GroupCoverage(ids)
           held == Filtered(StatusOrder, {i \in DOMAIN StatusOrder : under(StatusOrder[i]) # {}})
<1>1. groups = [i \in DOMAIN held |-> InOrder(under(held[i]), ByName(under(held[i])))]
  BY DEF GroupCoverage
<1>2. \A c : {x \in ids : f[x] = c} = under(c)
  OBVIOUS
<1>3. held = Filtered(StatusOrder,
                      {i \in DOMAIN StatusOrder : {x \in ids : f[x] = StatusOrder[i]} # {}})
  BY <1>2
<1>4. /\ StatusOrder \in Seq(STRING)
      /\ \A i, j \in DOMAIN StatusOrder : StatusOrder[i] = StatusOrder[j] => i = j
  BY RegistryAssumption
<1>5. \A x \in ids : \E i \in DOMAIN StatusOrder : f[x] = StatusOrder[i]
  BY RegistryAssumption
<1> HIDE DEF held, f
<1>6. ASSUME NEW i \in DOMAIN held
      PROVE  Lists(groups[i], under(held[i]))
  <2> DEFINE those == under(held[i])
  <2>1. groups[i] = InOrder(those, ByName(those))
    BY <1>1
  <2>2. those \in SUBSET Ids
    BY RegistryConstants
  <2> HIDE DEF those, groups
  <2>3. IsFiniteSet(those) /\ StrictlyOrders(ByName(those), those)
    BY <2>2, NamesOrder
  <2>4. Lists(groups[i], those)
    BY <2>1, <2>3, OrderLists
  <2> QED
    BY <2>4 DEF those
<1> DEFINE same == [x \in ids |-> x]
<1>7. \A i \in DOMAIN held : {same[x] : x \in {y \in ids : f[y] = held[i]}} = under(held[i])
  BY <1>2
<1>8. groups = [i \in DOMAIN held |-> groups[i]]
  BY <1>1
<1>9. \A x, y \in ids : same[x] = same[y] => x = y
  OBVIOUS
<1>10. {same[x] : x \in ids} = ids
  OBVIOUS
<1> HIDE DEF same, under, groups
<1>11. \A i \in DOMAIN held : Lists(groups[i], {same[x] : x \in {y \in ids : f[y] = held[i]}})
  BY <1>6, <1>7
<1>12. GroupsOf(StatusOrder, ids, f, same, held, groups)
  BY <1>3, <1>4, <1>5, <1>8, <1>9, <1>11 DEF GroupsOf
<1>13. Lists(FlattenSeq(groups), {same[x] : x \in ids})
  BY <1>12, GroupLists
<1> QED
  BY <1>10, <1>13 DEF groups

\* Rows of entries that are not ranked.
LEMMA PendingRows ==
    ASSUME NEW S, NEW s, Lists(s, S)
    PROVE  Lists(PendingBlock(s), {ProtocolRow(id, 0) : id \in S})
<1> DEFINE g == [id \in S |-> ProtocolRow(id, 0)]
           t == PendingBlock(s)
<1>1. \A x, y \in S : g[x] = g[y] => x = y
  BY DEF ProtocolRow
<1>2. \A k \in DOMAIN s : s[k] \in S
  BY DEF Lists
<1>3. t = [k \in DOMAIN s |-> g[s[k]]] /\ DOMAIN t = DOMAIN s
  BY <1>2 DEF PendingBlock
<1>4. {g[x] : x \in S} = {ProtocolRow(id, 0) : id \in S} /\ DOMAIN g = S
  OBVIOUS
<1> HIDE DEF g, t
<1>5. Lists(t, {g[x] : x \in S})
  BY <1>1, <1>3, <1>4, MapLists
<1> QED
  BY <1>4, <1>5 DEF t

\* Rows of notes.
LEMMA NotedRows ==
    ASSUME NEW S, NEW s, Lists(s, S), NEW t, t = [k \in DOMAIN s |-> CoverageRow(s[k])]
    PROVE  Lists(t, {CoverageRow(id) : id \in S})
<1> DEFINE g == [id \in S |-> CoverageRow(id)]
<1>1. \A x, y \in S : g[x] = g[y] => x = y
  BY DEF CoverageRow
<1>2. \A k \in DOMAIN s : s[k] \in S
  BY DEF Lists
<1>3. t = [k \in DOMAIN s |-> g[s[k]]] /\ DOMAIN t = DOMAIN s
  BY <1>2
<1>4. {g[x] : x \in S} = {CoverageRow(id) : id \in S} /\ DOMAIN g = S
  OBVIOUS
<1> HIDE DEF g
<1>5. Lists(t, {g[x] : x \in S})
  BY <1>1, <1>3, <1>4, MapLists
<1> QED
  BY <1>4, <1>5

\* Whatever the layout, the page has one row for each entry that its params select.
LEMMA PageLists ==
    ASSUME NEW chosen, chosen.sort \in Sorts, NEW fetched, IsBoard(fetched),
           NEW v, v = BuildRegistryView(chosen, fetched, CoverageToPublish(DOMAIN fetched))
    PROVE  Lists(Rows(v), EntryRows(chosen, fetched))
<1> DEFINE matched == MatchedProtocols(chosen, fetched)
           noted == MatchedCoverage(chosen, CoverageToPublish(DOMAIN fetched))
           ranked == Ranks(chosen, fetched)
           pending == matched \ ranked
           row == ScoredRow(chosen, fetched)
           note == NotedRow(chosen, fetched)
           blocks == [i \in DOMAIN v.groups |-> RankedBlock(v.groups[i], v.sort)]
<1>1. /\ v.sort = chosen.sort
      /\ v.groups = RankedGroups(ranked, fetched, chosen.sort)
      /\ v.pending = InOrder(pending, ByName(pending))
      /\ v.coverage = noted
  BY DEF BuildRegistryView, Ranks
<1>2. /\ Lists(FlattenSeq(v.groups), ranked)
      /\ Lists(FlattenSeq(blocks), {row[id] : id \in ranked})
  <2> DEFINE groups == RankedGroups(ranked, fetched, chosen.sort)
  <2>1. ranked = Ranks(chosen, fetched) /\ groups = RankedGroups(ranked, fetched, chosen.sort)
    OBVIOUS
  <2>2. v.groups = groups /\ v.sort = chosen.sort
    BY <1>1
  <2> HIDE DEF ranked, groups, row
  <2>3. /\ Lists(FlattenSeq(groups), ranked)
        /\ Lists(FlattenSeq([i \in DOMAIN groups |-> RankedBlock(groups[i], chosen.sort)]),
                 {ScoredRow(chosen, fetched)[id] : id \in ranked})
    BY <2>1, RankedLists
  <2> QED
    BY <2>2, <2>3 DEF row
<1>3. /\ matched \in SUBSET Ids /\ ranked \in SUBSET matched
      /\ noted \in SUBSET Ids /\ noted \in SUBSET DOMAIN Notes
      /\ matched \cap noted = {}
  BY Matched
<1>4. Lists(v.pending, pending)
  <2>1. pending \in SUBSET Ids
    BY <1>3
  <2>2. IsFiniteSet(pending) /\ StrictlyOrders(ByName(pending), pending)
    BY <2>1, NamesOrder
  <2> HIDE DEF pending
  <2> QED
    BY <1>1, <2>2, OrderLists
<1>5. /\ \A id \in matched : /\ row[id].id = id /\ row[id].kind = "scored"
                            /\ row[id] = ProtocolRow(id, Numeral(id, chosen, fetched))
      /\ \A id \in noted : /\ note[id].id = id /\ note[id].kind = "coverage"
                          /\ note[id] = CoverageRow(id)
  BY RowsDiffer
<1>6. EntryRows(chosen, fetched) = {row[id] : id \in matched} \cup {note[id] : id \in noted}
  BY DEF EntryRows
<1>7. {CoverageRow(id) : id \in noted} = {note[id] : id \in noted}
  BY <1>5
<1>8. \A id \in pending : row[id] = ProtocolRow(id, 0)
  <2>1. \A id \in pending : Numeral(id, chosen, fetched) = 0
    BY DEF Numeral
  <2> QED
    BY <1>5, <2>1
<1>9. {ProtocolRow(id, 0) : id \in pending} = {row[id] : id \in pending}
  BY <1>8
<1>10. {row[id] : id \in matched} \cap {note[id] : id \in noted} = {}
  <2> SUFFICES ASSUME NEW x \in matched, NEW y \in noted, row[x] = note[y]
               PROVE  FALSE
    OBVIOUS
  <2>1. row[x].kind = "scored" /\ note[y].kind = "coverage"
    BY <1>5
  <2> QED
    BY <2>1
<1> HIDE DEF matched, noted, ranked, row, note, blocks
<1>11. CASE v.sort # "name"
  <2> DEFINE section == CoverageSection(v.coverage)
  <2>1. Rows(v) = FlattenSeq(blocks) \o PendingBlock(v.pending) \o section
    BY <1>11 DEF Rows, RankedView, blocks
  <2>2. Lists(PendingBlock(v.pending), {row[id] : id \in pending})
    BY <1>4, <1>9, PendingRows
  <2>3. Lists(section, {note[id] : id \in noted})
    <3> DEFINE listed == FlattenSeq(GroupCoverage(noted))
    <3>1. Lists(listed, noted)
      BY <1>3, CoverageLists
    <3>2. section = [i \in DOMAIN listed |-> CoverageRow(listed[i])]
      BY <1>1 DEF CoverageSection
    <3> HIDE DEF section, listed
    <3> QED
      BY <1>7, <3>1, <3>2, NotedRows
  <2>4. {row[id] : id \in ranked} \cap {row[id] : id \in pending} = {}
    BY <1>3, <1>5
  <2>5. {row[id] : id \in ranked} \cup {row[id] : id \in pending} = {row[id] : id \in matched}
    BY <1>3
  <2> HIDE DEF section, pending
  <2>6. Lists(FlattenSeq(blocks) \o PendingBlock(v.pending), {row[id] : id \in matched})
    BY <1>2, <2>2, <2>4, <2>5, ConcatLists
  <2>7. Lists((FlattenSeq(blocks) \o PendingBlock(v.pending)) \o section,
              {row[id] : id \in matched} \cup {note[id] : id \in noted})
    BY <1>10, <2>3, <2>6, ConcatLists
  <2> QED
    BY <1>6, <2>1, <2>7
<1>12. CASE v.sort = "name"
  <2> DEFINE notes == InOrder(v.coverage, ByName(v.coverage))
             names == FlattenSeq(v.groups) \o v.pending
             lower == [i \in DOMAIN notes |-> CoverageRow(notes[i])]
             merged == PendingBlock(names) \o lower
             key == [i \in DOMAIN merged |-> merged[i].id]
  <2>1. Rows(v) = Sorted(merged, key)
    BY <1>12 DEF Rows, AlphabeticalList
  <2>2. Lists(names, matched)
    <3>1. ranked \cap pending = {} /\ ranked \cup pending = matched
      BY <1>3
    <3> HIDE DEF pending
    <3> QED
      BY <1>2, <1>4, <3>1, ConcatLists
  <2>3. Lists(notes, noted)
    <3>1. IsFiniteSet(noted) /\ StrictlyOrders(ByName(noted), noted)
      BY <1>3, NamesOrder
    <3> QED
      BY <1>1, <3>1, OrderLists
  <2>4. {row[id] : id \in matched} = {ProtocolRow(id, 0) : id \in matched}
    <3>1. \A id \in matched : Numeral(id, chosen, fetched) = 0
      BY <1>1, <1>12 DEF Numeral
    <3> QED
      BY <1>5, <3>1
  <2>5. Lists(PendingBlock(names), {row[id] : id \in matched})
    BY <2>2, <2>4, PendingRows
  <2>6. Lists(lower, {note[id] : id \in noted})
    <3> HIDE DEF notes
    <3>1. lower = [k \in DOMAIN notes |-> CoverageRow(notes[k])]
      OBVIOUS
    <3> HIDE DEF lower
    <3> QED
      BY <1>7, <2>3, <3>1, NotedRows
  <2> HIDE DEF notes, names, lower, pending
  <2>7. Lists(merged, {row[id] : id \in matched} \cup {note[id] : id \in noted})
    BY <1>10, <2>5, <2>6, ConcatLists
  <2>8. \A r \in {row[id] : id \in matched} \cup {note[id] : id \in noted} : r.id \in Int
    <3>1. \A id \in matched : row[id].id \in Int
      BY <1>3, <1>5, RegistryConstants
    <3>2. \A id \in noted : note[id].id \in Int
      <4>1. \A id \in noted : note[id].id = id /\ id \in Int
        BY <1>3, <1>5, RegistryConstants
      <4> QED
        BY <4>1
    <3> QED
      BY <3>1, <3>2
  <2> HIDE DEF merged
  <2>9. DOMAIN key = DOMAIN merged /\ \A k \in DOMAIN merged : key[k] \in Int
    BY <2>7, <2>8 DEF Lists
  <2> HIDE DEF key
  <2>10. Lists(Sorted(merged, key), {row[id] : id \in matched} \cup {note[id] : id \in noted})
    BY <2>7, <2>9, SortLists
  <2> QED
    BY <1>6, <2>1, <2>10
<1> QED
  BY <1>11, <1>12

\* What a row says, and that there is one for each entry and no other.
LEMMA RowsSay ==
    ASSUME NEW chosen, NEW fetched, IsBoard(fetched)
    PROVE  /\ \A r \in EntryRows(chosen, fetched) :
                 \/ /\ r.id \in MatchedProtocols(chosen, fetched)
                    /\ r.kind = "scored" /\ r.rank = Numeral(r.id, chosen, fetched)
                 \/ /\ r.id \in MatchedCoverage(chosen, CoverageToPublish(DOMAIN fetched))
                    /\ r.kind = "coverage" /\ r.rank = 0
           /\ \A r, s \in EntryRows(chosen, fetched) : r.id = s.id => r = s
           /\ \A id \in MatchedProtocols(chosen, fetched)
                   \cup MatchedCoverage(chosen, CoverageToPublish(DOMAIN fetched)) :
                 \E r \in EntryRows(chosen, fetched) : r.id = id
<1> DEFINE matched == MatchedProtocols(chosen, fetched)
           noted == MatchedCoverage(chosen, CoverageToPublish(DOMAIN fetched))
           row == ScoredRow(chosen, fetched)
           note == NotedRow(chosen, fetched)
<1>1. /\ \A id \in matched : /\ row[id].id = id /\ row[id].kind = "scored"
                            /\ row[id].rank = Numeral(id, chosen, fetched)
      /\ \A id \in noted : note[id].id = id /\ note[id].kind = "coverage" /\ note[id].rank = 0
  BY RowsDiffer
<1>2. EntryRows(chosen, fetched) = {row[id] : id \in matched} \cup {note[id] : id \in noted}
  BY DEF EntryRows
<1>3. matched \cap noted = {}
  BY Matched
<1> HIDE DEF matched, noted, row, note
<1>4. \A r \in EntryRows(chosen, fetched) :
         \/ r.id \in matched /\ r = row[r.id]
         \/ r.id \in noted /\ r = note[r.id]
  BY <1>1, <1>2
<1>5. \A r \in EntryRows(chosen, fetched) :
         \/ r.id \in matched /\ r.kind = "scored" /\ r.rank = Numeral(r.id, chosen, fetched)
         \/ r.id \in noted /\ r.kind = "coverage" /\ r.rank = 0
  <2> SUFFICES ASSUME NEW r \in EntryRows(chosen, fetched)
               PROVE  \/ /\ r.id \in matched /\ r.kind = "scored"
                         /\ r.rank = Numeral(r.id, chosen, fetched)
                      \/ r.id \in noted /\ r.kind = "coverage" /\ r.rank = 0
    OBVIOUS
  <2> DEFINE id == r.id
  <2>1. \/ id \in matched /\ r = row[id]
        \/ id \in noted /\ r = note[id]
    BY <1>4
  <2> HIDE DEF id
  <2>2. \/ id \in matched /\ r.kind = "scored" /\ r.rank = Numeral(id, chosen, fetched)
        \/ id \in noted /\ r.kind = "coverage" /\ r.rank = 0
    BY <1>1, <2>1
  <2> QED
    BY <2>2 DEF id
<1>6. \A r, s \in EntryRows(chosen, fetched) : r.id = s.id => r = s
  BY <1>3, <1>4
<1>7. \A id \in matched \cup noted : \E r \in EntryRows(chosen, fetched) : r.id = id
  BY <1>1, <1>2
<1> QED
  BY <1>5, <1>6, <1>7 DEF matched, noted

\* As many of the listed rows as of their ids.
LEMMA RowsCounted ==
    ASSUME NEW chosen, NEW fetched, IsBoard(fetched),
           NEW rows, Lists(rows, EntryRows(chosen, fetched)), NEW some \in SUBSET DOMAIN rows
    PROVE  Cardinality({rows[i].id : i \in some}) = Cardinality(some)
<1> DEFINE ids == {rows[i].id : i \in some}
           of == [i \in some |-> rows[i].id]
<1>1. IsFiniteSet(some)
  <2>1. rows \in Seq(EntryRows(chosen, fetched))
    BY DEF Lists
  <2>2. DOMAIN rows = 1 .. Len(rows) /\ Len(rows) \in Nat
    BY <2>1
  <2>3. IsFiniteSet(DOMAIN rows)
    BY <2>2, FS_Interval
  <2> QED
    BY <2>3, FS_Subset
<1>2. \A i \in DOMAIN rows : rows[i] \in EntryRows(chosen, fetched)
  BY DEF Lists
<1>3. \A i, j \in some : of[i] = of[j] => i = j
  <2> SUFFICES ASSUME NEW i \in some, NEW j \in some, of[i] = of[j]
               PROVE  i = j
    OBVIOUS
  <2>1. rows[i] = rows[j]
    BY <1>2, RowsSay
  <2> QED
    BY <2>1 DEF Lists
<1>4. of \in Bijection(some, ids)
  <2>1. of \in [some -> ids] /\ \A x \in ids : \E i \in some : of[i] = x
    OBVIOUS
  <2> HIDE DEF ids, of
  <2> QED
    BY <1>3, <2>1 DEF Bijection, Injection, Surjection, IsInjective
<1>5. ExistsBijection(some, ids)
  BY <1>4 DEF ExistsBijection
<1> QED
  BY <1>1, <1>5, FS_Bijection

--------------------------------------------------------------------------------
(* What is on screen.                                                      *)

Pages == [id : Ids, row : {"scored", "coverage"}, answered : BOOLEAN,
          shows : {"detail", "error", "not found", "redirect", "note"}]

\* The page on screen has the rows that its params select of what it fetched, and the
\* board has not lost any of that.
ViewRight ==
    view # NoView =>
        /\ view.params.sort \in Sorts
        /\ IsBoard(view.fetched) /\ DOMAIN view.fetched \subseteq DOMAIN board
        /\ Lists(view.rows, EntryRows(view.params, view.fetched))

\* A note gives way only to an entry that there is.
OpenedRight ==
    /\ opened = NoPage \/ opened \in Pages
    /\ opened.shows = "redirect" => opened.id \in DOMAIN board
    /\ RowsLead

RegistryInv == IsBoard(board) /\ ViewRight /\ OpenedRight

LEMMA RegistryInitially == RegistryInit => RegistryInv
<1> SUFFICES ASSUME RegistryInit
             PROVE  RegistryInv
  OBVIOUS
<1>1. IsBoard(board)
  BY DEF RegistryInit, IsBoard
<1>2. ViewRight /\ OpenedRight
  BY DEF RegistryInit, ViewRight, OpenedRight, RowsLead, NoPage
<1> QED
  BY <1>1, <1>2 DEF RegistryInv

\* The board keeps what it has.
LEMMA BoardStep ==
    ASSUME RegistryInv, [RegistryNext]_registryVars
    PROVE  IsBoard(board') /\ DOMAIN board \subseteq DOMAIN board'
<1>1. IsBoard(board)
  BY DEF RegistryInv
<1>2. CASE UNCHANGED board
  BY <1>1, <1>2
<1>3. ASSUME NEW id \in Ids, BoardGains(id)
      PROVE  IsBoard(board') /\ DOMAIN board \subseteq DOMAIN board'
  <2>1. CategoryOf[id] \in CategorySet
    BY RegistryAssumption DEF CategorySet
  <2> QED
    BY <1>1, <1>3, <2>1 DEF BoardGains, IsBoard
<1>4. ASSUME NEW id \in Ids, NEW score \in Grades, BoardScores(id, score)
      PROVE  IsBoard(board') /\ DOMAIN board \subseteq DOMAIN board'
  <2>1. DOMAIN board' = DOMAIN board
    BY <1>4 DEF BoardScores
  <2>2. \A other \in DOMAIN board : board'[other] =
           IF other = id THEN [board[id] EXCEPT !.score = score] ELSE board[other]
    BY <1>4 DEF BoardScores
  <2>3. \A other \in DOMAIN board :
           board[other] \in [category : CategorySet, score : Grades \cup {Unscored}]
    BY <1>1 DEF IsBoard
  <2>4. \A other \in DOMAIN board :
           board'[other] \in [category : CategorySet, score : Grades \cup {Unscored}]
    BY <2>2, <2>3
  <2> QED
    BY <1>1, <2>1, <2>4 DEF IsBoard
<1> QED
  BY <1>2, <1>3, <1>4 DEF RegistryNext, registryVars, Visit, Follow, Redirected, LeavePage

LEMMA ViewStep ==
    ASSUME RegistryInv, [RegistryNext]_registryVars
    PROVE  ViewRight'
<1>1. ViewRight /\ IsBoard(board) /\ DOMAIN board \subseteq DOMAIN board'
  BY BoardStep DEF RegistryInv
<1>2. CASE UNCHANGED view
  BY <1>1, <1>2 DEF ViewRight
<1>3. CASE view' = NoView
  BY <1>3 DEF ViewRight
<1>4. ASSUME NEW raw \in RawAddresses, NEW answered \in BOOLEAN, Visit(raw, answered)
      PROVE  ViewRight'
  <2> DEFINE fetched == IF answered THEN board ELSE <<>>
             published == CoverageToPublish(DOMAIN fetched)
             chosen == ParseParams(raw, published, fetched)
             v == BuildRegistryView(chosen, fetched, published)
  <2>1. view' = [rows |-> Rows(v), params |-> chosen, fetched |-> fetched] /\ board' = board
    BY <1>4 DEF Visit
  <2>2. IsBoard(fetched) /\ DOMAIN fetched \subseteq DOMAIN board
    <3>1. CASE answered
      BY <1>1, <3>1
    <3>2. CASE ~answered
      <4>1. DOMAIN fetched = {}
        BY <3>2
      <4> QED
        BY <4>1 DEF IsBoard
    <3> QED
      BY <3>1, <3>2
  <2>3. chosen.sort \in Sorts
    BY DEF ParseParams, Sorts
  <2>4. v = BuildRegistryView(chosen, fetched, CoverageToPublish(DOMAIN fetched))
    OBVIOUS
  <2> HIDE DEF fetched, chosen, v
  <2>5. Lists(Rows(v), EntryRows(chosen, fetched))
    BY <2>2, <2>3, <2>4, PageLists
  <2>6. view'.rows = Rows(v) /\ view'.params = chosen /\ view'.fetched = fetched
    BY <2>1
  <2> QED
    BY <2>1, <2>2, <2>3, <2>5, <2>6 DEF ViewRight
<1> QED
  BY <1>2, <1>3, <1>4
     DEF RegistryNext, registryVars, Follow, Redirected, LeavePage, BoardGains, BoardScores

LEMMA OpenedStep ==
    ASSUME RegistryInv, [RegistryNext]_registryVars
    PROVE  OpenedRight'
<1>1. OpenedRight /\ ViewRight /\ DOMAIN board \subseteq DOMAIN board'
  BY BoardStep DEF RegistryInv
<1>2. CASE UNCHANGED opened
  BY <1>1, <1>2 DEF OpenedRight, RowsLead
<1>3. CASE opened' = NoPage
  <2>1. opened'.shows = "nothing"
    BY <1>3 DEF NoPage
  <2> QED
    BY <1>3, <2>1 DEF OpenedRight, RowsLead
<1>4. ASSUME NEW id \in Ids, NEW kind \in {"scored", "coverage"},
             NEW rank \in 0 .. Cardinality(Ids), NEW answered \in BOOLEAN,
             Follow([id |-> id, kind |-> kind, rank |-> rank], answered)
      PROVE  OpenedRight'
  <2> DEFINE row == [id |-> id, kind |-> kind, rank |-> rank]
             shows == IF kind = "scored" THEN ProtocolDetailPage(id, answered)
                      ELSE CoveragePage(id, answered)
  <2>1. /\ view # NoView /\ row \in {view.rows[i] : i \in DOMAIN view.rows}
        /\ opened' = [id |-> id, row |-> kind, answered |-> answered, shows |-> shows]
        /\ board' = board
    BY <1>4 DEF Follow
  <2>2. /\ IsBoard(view.fetched) /\ DOMAIN view.fetched \subseteq DOMAIN board
        /\ Lists(view.rows, EntryRows(view.params, view.fetched))
    BY <1>1, <2>1 DEF ViewRight
  <2>3. row \in EntryRows(view.params, view.fetched)
    BY <2>1, <2>2 DEF Lists
  <2>4. \/ kind = "scored" /\ id \in DOMAIN board
        \/ kind = "coverage" /\ id \in DOMAIN Notes
    <3>1. \/ /\ row.id \in MatchedProtocols(view.params, view.fetched)
             /\ row.kind = "scored"
          \/ /\ row.id \in MatchedCoverage(view.params, CoverageToPublish(DOMAIN view.fetched))
             /\ row.kind = "coverage"
      BY <2>2, <2>3, RowsSay
    <3>2. row.id = id /\ row.kind = kind
      OBVIOUS
    <3> HIDE DEF row
    <3> QED
      BY <2>2, <3>1, <3>2, Matched
  <2>5. /\ shows \in {"detail", "error", "redirect", "note"}
        /\ shows = "redirect" => id \in DOMAIN board
        /\ kind = "scored" /\ answered => shows = "detail"
    BY <2>4 DEF ProtocolDetailPage, CoveragePage
  <2> HIDE DEF shows
  <2>6. opened' \in Pages
    BY <2>1, <2>5 DEF Pages
  <2>7. /\ opened'.id = id /\ opened'.row = kind /\ opened'.answered = answered
        /\ opened'.shows = shows
    BY <2>1
  <2> QED
    BY <2>1, <2>5, <2>6, <2>7 DEF OpenedRight, RowsLead
<1>5. ASSUME NEW answered \in BOOLEAN, Redirected(answered)
      PROVE  OpenedRight'
  <2> DEFINE shows == ProtocolDetailPage(opened.id, answered)
  <2>1. /\ opened.shows = "redirect"
        /\ opened' = [opened EXCEPT !.shows = shows, !.answered = answered]
        /\ board' = board
    BY <1>5 DEF Redirected
  <2>2. opened \in Pages /\ opened.id \in DOMAIN board
    BY <1>1, <2>1 DEF OpenedRight, NoPage
  <2>3. shows \in {"detail", "error"} /\ (answered => shows = "detail")
    BY <2>2 DEF ProtocolDetailPage
  <2> HIDE DEF shows
  <2>4. /\ opened' \in Pages /\ opened'.shows = shows /\ opened'.answered = answered
        /\ opened'.row = opened.row
    BY <2>1, <2>2, <2>3 DEF Pages
  <2> QED
    BY <2>3, <2>4 DEF OpenedRight, RowsLead
<1> QED
  BY <1>2, <1>3, <1>4, <1>5
     DEF RegistryNext, registryVars, Visit, LeavePage, BoardGains, BoardScores

LEMMA RegistryInvariant == RegistrySpec => []RegistryInv
<1>1. RegistryInv /\ [RegistryNext]_registryVars => RegistryInv'
  BY BoardStep, ViewStep, OpenedStep DEF RegistryInv
<1> QED
  BY <1>1, RegistryInitially, PTL DEF RegistrySpec

\* Whatever the board and the notes hold, however an address filters and sorts them and
\* however long the page is left open, the page lists each entry its params select once,
\* as scored or as not scored, and each row leads to its entry.
THEOREM EveryEntryListed == RegistrySpec => []EveryEntryOnce
<1>1. RegistryInv => EveryEntryOnce
  <2> SUFFICES ASSUME RegistryInv
               PROVE  ListedOnce
    BY DEF RegistryInv, OpenedRight, EveryEntryOnce
  <2> SUFFICES ASSUME view # NoView
               PROVE  LET chosen == view.params  fetched == view.fetched
                          listed == {view.rows[i].id : i \in DOMAIN view.rows}
                      IN  /\ Len(view.rows) = Cardinality(listed)
                          /\ chosen.status = "all" /\ chosen.category = "all"
                                => listed = (DOMAIN fetched \cup DOMAIN Notes) \cap chosen.q
                          /\ \A i \in DOMAIN view.rows :
                                (view.rows[i].kind = "scored")
                                    = (view.rows[i].id \in DOMAIN fetched)
    BY DEF ListedOnce
  <2> DEFINE chosen == view.params
             fetched == view.fetched
             rows == view.rows
             listed == {rows[i].id : i \in DOMAIN rows}
             matched == MatchedProtocols(chosen, fetched)
             noted == MatchedCoverage(chosen, CoverageToPublish(DOMAIN fetched))
  <2>1. IsBoard(fetched) /\ Lists(rows, EntryRows(chosen, fetched))
    BY DEF RegistryInv, ViewRight
  <2> HIDE DEF chosen, fetched, rows
  <2>2. /\ rows \in Seq(EntryRows(chosen, fetched))
        /\ \A i \in DOMAIN rows : rows[i] \in EntryRows(chosen, fetched)
        /\ \A r \in EntryRows(chosen, fetched) : \E i \in DOMAIN rows : rows[i] = r
    BY <2>1 DEF Lists
  <2>3. Len(rows) = Cardinality(listed)
    <3>1. Cardinality(listed) = Cardinality(DOMAIN rows)
      BY <2>1, RowsCounted
    <3>2. DOMAIN rows = 1 .. Len(rows) /\ Len(rows) \in Nat
      BY <2>2
    <3>3. Cardinality(1 .. Len(rows)) = Len(rows)
      <4>1. 1 \in Int /\ Len(rows) \in Int
        BY <3>2
      <4>2. Cardinality(1 .. Len(rows)) = IF 1 > Len(rows) THEN 0 ELSE Len(rows) - 1 + 1
        BY <4>1, FS_Interval
      <4> QED
        BY <3>2, <4>2
    <3> QED
      BY <3>1, <3>2, <3>3
  <2>4. \A i \in DOMAIN rows : \/ rows[i].id \in matched /\ rows[i].kind = "scored"
                               \/ rows[i].id \in noted /\ rows[i].kind = "coverage"
    BY <2>1, <2>2, RowsSay
  <2>5. listed = matched \cup noted
    <3>1. listed \subseteq matched \cup noted
      BY <2>4
    <3>2. ASSUME NEW id \in matched \cup noted
          PROVE  id \in listed
      <4>1. PICK r \in EntryRows(chosen, fetched) : r.id = id
        BY <2>1, RowsSay
      <4>2. PICK i \in DOMAIN rows : rows[i] = r
        BY <2>2
      <4> QED
        BY <4>1, <4>2
    <3> QED
      BY <3>1, <3>2
  <2>6. matched \subseteq DOMAIN fetched /\ noted \cap DOMAIN fetched = {}
    BY DEF MatchedProtocols, MatchedCoverage, CoverageToPublish
  <2>7. \A i \in DOMAIN rows : (rows[i].kind = "scored") = (rows[i].id \in DOMAIN fetched)
    BY <2>4, <2>6
  <2>8. chosen.status = "all" /\ chosen.category = "all"
          => matched = DOMAIN fetched \cap chosen.q
             /\ noted = (DOMAIN Notes \ DOMAIN fetched) \cap chosen.q
    BY DEF MatchedProtocols, MatchedCoverage, CoverageToPublish
  <2> HIDE DEF listed, matched, noted
  <2>9. chosen.status = "all" /\ chosen.category = "all"
          => listed = (DOMAIN fetched \cup DOMAIN Notes) \cap chosen.q
    BY <2>5, <2>8
  <2> QED
    BY <2>3, <2>7, <2>9 DEF listed, rows, chosen, fetched
<1> QED
  BY <1>1, RegistryInvariant, PTL

\* Numerals count the peers of an entry from the best score down.
LEMMA NumeralsRank ==
    ASSUME NEW chosen, chosen.sort = "score-desc", NEW fetched, IsBoard(fetched), NEW c
    PROVE  LET peers == Peers(c, chosen, fetched)
           IN  /\ peers \subseteq DOMAIN fetched
               /\ {Numeral(id, chosen, fetched) : id \in peers} = 1 .. Cardinality(peers)
               /\ \A x, y \in peers : fetched[x].score > fetched[y].score =>
                     Numeral(x, chosen, fetched) < Numeral(y, chosen, fetched)
<1> DEFINE peers == Peers(c, chosen, fetched)
           before == RankedBefore(peers, fetched, chosen.sort)
           place == Place(before, peers)
           n == Cardinality(peers)
<1>1. /\ peers \in SUBSET DOMAIN fetched /\ peers \in SUBSET Ranks(chosen, fetched)
      /\ \A id \in peers : fetched[id].category = c
  BY Matched DEF Peers
<1>2. \A id \in peers : Numeral(id, chosen, fetched) = place[id] + 1
  BY <1>1 DEF Numeral
<1>3. chosen.sort \in Sorts
  BY DEF Sorts
<1> HIDE DEF peers
<1>4. /\ IsFiniteSet(peers) /\ StrictlyOrders(before, peers)
      /\ \A x, y \in peers : fetched[x].score > fetched[y].score => <<x, y>> \in before
  BY <1>1, <1>3, ScoresOrder
<1>5. /\ n \in Nat /\ place \in [peers -> 0 .. n - 1]
      /\ \A x, y \in peers : place[x] < place[y] <=> <<x, y>> \in before
      /\ \A k \in 0 .. n - 1 : \E x \in peers : place[x] = k
  BY <1>4, Ranking DEF Ranked
<1> HIDE DEF before, place, n
<1>6. \A id \in peers : place[id] + 1 \in 1 .. n
  BY <1>5
<1>7. ASSUME NEW k \in 1 .. n
      PROVE  \E id \in peers : place[id] + 1 = k
  <2>1. k - 1 \in 0 .. n - 1 /\ (k - 1) + 1 = k
    BY <1>5
  <2>2. PICK id \in peers : place[id] = k - 1
    BY <1>5, <2>1
  <2> QED
    BY <2>1, <2>2
<1>8. {Numeral(id, chosen, fetched) : id \in peers} = 1 .. n
  BY <1>2, <1>6, <1>7
<1>9. \A x, y \in peers : fetched[x].score > fetched[y].score =>
         Numeral(x, chosen, fetched) < Numeral(y, chosen, fetched)
  <2> SUFFICES ASSUME NEW x \in peers, NEW y \in peers, fetched[x].score > fetched[y].score
               PROVE  Numeral(x, chosen, fetched) < Numeral(y, chosen, fetched)
    OBVIOUS
  <2>1. place[x] \in Int /\ place[y] \in Int
    <3>1. place[x] \in 0 .. n - 1 /\ place[y] \in 0 .. n - 1
      BY <1>5
    <3> QED
      BY <3>1
  <2>2. <<x, y>> \in before
    BY <1>4
  <2>3. place[x] < place[y]
    BY <1>5, <2>2
  <2>4. place[x] + 1 < place[y] + 1
    BY <2>1, <2>3
  <2> QED
    BY <1>2, <2>4
<1> QED
  BY <1>1, <1>8, <1>9 DEF peers, n

\* Whatever else the page lists, the numerals of a category count its scored entries from
\* 1 on, a higher score before a lower one, and nothing else has a numeral.
THEOREM NumeralsMeanScores == RegistrySpec => []RanksMeanScores
<1>1. RegistryInv => RanksMeanScores
  <2> DEFINE chosen == view.params
             fetched == view.fetched
             rows == view.rows
             matched == MatchedProtocols(chosen, fetched)
             ranked == {i \in DOMAIN rows : /\ rows[i].kind = "scored"
                                            /\ fetched[rows[i].id].score # Unscored}
             entry(i) == fetched[rows[i].id]
             better(i) == {j \in ranked : /\ entry(j).category = entry(i).category
                                          /\ entry(j).score > entry(i).score}
             same(i) == {j \in ranked : entry(j).category = entry(i).category}
  <2> SUFFICES ASSUME RegistryInv, view # NoView, chosen.sort = "score-desc"
               PROVE  /\ \A i \in DOMAIN rows : rows[i].rank # 0 <=> i \in ranked
                      /\ \A i \in ranked :
                            /\ {rows[j].rank : j \in same(i)} = 1 .. Cardinality(same(i))
                            /\ \A j \in better(i) : rows[j].rank < rows[i].rank
    BY DEF RanksMeanScores
  <2>1. IsBoard(fetched) /\ Lists(rows, EntryRows(chosen, fetched))
    BY DEF RegistryInv, ViewRight
  <2> HIDE DEF chosen, fetched, rows
  <2>2. /\ \A i \in DOMAIN rows : rows[i] \in EntryRows(chosen, fetched)
        /\ \A r \in EntryRows(chosen, fetched) : \E i \in DOMAIN rows : rows[i] = r
    BY <2>1 DEF Lists
  <2>3. \A i \in DOMAIN rows :
           \/ /\ rows[i].id \in matched /\ rows[i].kind = "scored"
              /\ rows[i].rank = Numeral(rows[i].id, chosen, fetched)
           \/ rows[i].kind = "coverage" /\ rows[i].rank = 0
    BY <2>1, <2>2, RowsSay
  <2>4. \A i \in DOMAIN rows : i \in ranked <=>
           rows[i].kind = "scored" /\ rows[i].id \in Ranks(chosen, fetched)
    BY <2>3 DEF Ranks
  <2>5. \A id \in Ranks(chosen, fetched) : \E i \in ranked : rows[i].id = id
    <3> SUFFICES ASSUME NEW id \in Ranks(chosen, fetched)
                 PROVE  \E i \in ranked : rows[i].id = id
      OBVIOUS
    <3>1. id \in matched /\ fetched[id].score # Unscored
      BY DEF Ranks
    <3>2. PICK r \in EntryRows(chosen, fetched) : r.id = id
      BY <2>1, <3>1, RowsSay
    <3>3. PICK i \in DOMAIN rows : rows[i] = r
      BY <2>2
    <3>4. rows[i].id = id
      BY <3>2, <3>3
    <3>5. rows[i].kind = "scored"
      <4>1. id \notin MatchedCoverage(chosen, CoverageToPublish(DOMAIN fetched))
        BY <2>1, <3>1, Matched
      <4> QED
        BY <2>1, <2>2, <3>4, <4>1, RowsSay
    <3> QED
      BY <3>1, <3>4, <3>5
  <2>6. \A i \in DOMAIN rows : i \in ranked =>
           /\ rows[i].id \in Peers(entry(i).category, chosen, fetched)
           /\ rows[i].rank = Numeral(rows[i].id, chosen, fetched)
    BY <2>3, <2>4 DEF Peers
  <2>7. ASSUME NEW i \in ranked
        PROVE  /\ {rows[j].rank : j \in same(i)} = 1 .. Cardinality(same(i))
               /\ \A j \in better(i) : rows[j].rank < rows[i].rank
               /\ rows[i].rank # 0
    <3> DEFINE c == entry(i).category
               peers == Peers(c, chosen, fetched)
    <3>1. /\ {Numeral(id, chosen, fetched) : id \in peers} = 1 .. Cardinality(peers)
          /\ \A x, y \in peers : fetched[x].score > fetched[y].score =>
                Numeral(x, chosen, fetched) < Numeral(y, chosen, fetched)
      BY <2>1, NumeralsRank
    <3>2. \A j \in same(i) :
             rows[j].id \in peers /\ rows[j].rank = Numeral(rows[j].id, chosen, fetched)
      BY <2>6
    <3>3. \A id \in peers : \E j \in same(i) : rows[j].id = id
      <4> SUFFICES ASSUME NEW id \in peers
                   PROVE  \E j \in same(i) : rows[j].id = id
        OBVIOUS
      <4>1. id \in Ranks(chosen, fetched) /\ fetched[id].category = c
        BY DEF Peers
      <4>2. PICK j \in ranked : rows[j].id = id
        BY <2>5, <4>1
      <4> QED
        BY <4>1, <4>2
    <3>4. {rows[j].id : j \in same(i)} = peers
      BY <3>2, <3>3
    <3>5. Cardinality(peers) = Cardinality(same(i))
      <4>1. same(i) \in SUBSET DOMAIN rows
        OBVIOUS
      <4> HIDE DEF same, peers
      <4> QED
        BY <2>1, <3>4, <4>1, RowsCounted
    <3>6. {rows[j].rank : j \in same(i)} = {Numeral(id, chosen, fetched) : id \in peers}
      BY <3>2, <3>3
    <3>7. \A j \in better(i) : rows[j].rank < rows[i].rank
      <4> SUFFICES ASSUME NEW j \in better(i)
                   PROVE  rows[j].rank < rows[i].rank
        OBVIOUS
      <4>1. j \in same(i) /\ i \in same(i) /\ fetched[rows[j].id].score > fetched[rows[i].id].score
        OBVIOUS
      <4> HIDE DEF same, better
      <4> QED
        BY <3>1, <3>2, <4>1
    <3>8. rows[i].rank # 0
      <4>1. i \in same(i)
        OBVIOUS
      <4>2. rows[i].rank \in 1 .. Cardinality(peers)
        BY <3>1, <3>6, <4>1
      <4>3. \A k \in 1 .. Cardinality(peers) : k # 0
        OBVIOUS
      <4> QED
        BY <4>2, <4>3
    <3> QED
      BY <3>1, <3>5, <3>6, <3>7, <3>8
  <2>8. ASSUME NEW i \in DOMAIN rows, rows[i].rank # 0
        PROVE  i \in ranked
    <3>1. rows[i].kind = "scored" /\ rows[i].rank = Numeral(rows[i].id, chosen, fetched)
      BY <2>3, <2>8
    <3>2. rows[i].id \in Ranks(chosen, fetched)
      BY <2>8, <3>1 DEF Numeral
    <3> QED
      BY <2>4, <3>1, <3>2
  <2> QED
    BY <2>7, <2>8
<1> QED
  BY <1>1, RegistryInvariant, PTL
================================================================================
