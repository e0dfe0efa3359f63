------------------------------ MODULE StreakProofs -----------------------------
(***************************************************************************)
(* Proofs about StreakAlerts: for any threshold, window, number of         *)
(* invocations and choice of faults, and however the invocations overlap,  *)
(* no alert is sent without its streak of failed rows.  One cycle at a     *)
(* time, whatever fails, an alert's figures stay those of the table and    *)
(* no outage is announced twice; when nothing fails either, reading the    *)
(* newest rows implements OutageMonitor.                                   *)
(***************************************************************************)
EXTENDS StreakAlerts, FiniteSetTheorems, SequenceTheorems, Extremes

Status == {"running", "ok", "failed", "lost"}

AnyAlert ==
    [kind : {"failing", "recovered"}, count : Nat, exact : BOOLEAN, first : Nat, last : Nat]

CycleType ==
    [pc : {"idle", "scoring", "reading", "posting"}, run : Nat, alert : AnyAlert \cup {NoAlert}]

Typed ==
    /\ runs \in Seq(Status)
    /\ cycle \in [Invocations -> CycleType]
    /\ sent \in Seq(AnyAlert)

\* The rows an alert spans are there, its first and last failed, and enough of them did.
Backed(alert) ==
    /\ alert.first .. alert.last \subseteq DOMAIN runs
    /\ {alert.first, alert.last} \subseteq Spanned(alert)
    /\ Cardinality(Spanned(alert)) >= Threshold
    /\ Cardinality(Spanned(alert)) >= alert.count

\* A cycle that scores has a row of its own that is not written yet.
OwnRun(i) == cycle[i].pc = "scoring" =>
    /\ cycle[i].run \in DOMAIN runs
    /\ runs[cycle[i].run] = "running"

\* The alerts that are sent or about to be.
Announced(alert) ==
    \/ \E i \in Invocations : cycle[i].pc = "posting" /\ cycle[i].alert = alert
    \/ \E n \in DOMAIN sent : sent[n] = alert

StreakInv ==
    /\ Typed
    /\ \A i \in Invocations : OwnRun(i)
    /\ \A i, j \in Invocations : i # j /\ cycle[i].pc = "scoring" /\ cycle[j].pc = "scoring"
            => cycle[i].run # cycle[j].run
    /\ \A i \in Invocations : cycle[i].pc = "posting" => cycle[i].alert \in AnyAlert
    /\ \A alert \in AnyAlert : Announced(alert) => Backed(alert)

--------------------------------------------------------------------------------
(* The rows.                                                               *)

LEMMA Rows ==
    ASSUME Typed
    PROVE  /\ Len(runs) \in Nat /\ DOMAIN runs = 1 .. Len(runs)
           /\ IsFiniteSet(DOMAIN runs) /\ DOMAIN runs \subseteq Nat
<1>1. Len(runs) \in Nat /\ DOMAIN runs = 1 .. Len(runs)
  BY DEF Typed
<1> QED
  BY <1>1, FS_Interval

\* Every set of failed rows makes an alert that is backed.
LEMMA BuiltBacked ==
    ASSUME Typed, NEW streak \in SUBSET DOMAIN runs, \A k \in streak : runs[k] = "failed",
           Cardinality(streak) >= Threshold,
           NEW kind \in {"failing", "recovered"}, NEW exact \in BOOLEAN
    PROVE  /\ BuildAlert(kind, streak, exact) \in AnyAlert
           /\ Backed(BuildAlert(kind, streak, exact))
<1> DEFINE alert == BuildAlert(kind, streak, exact)
<1>1. Len(runs) \in Nat /\ DOMAIN runs = 1 .. Len(runs) /\ streak \in SUBSET Nat
  BY Rows
<1>2. IsFiniteSet(streak) /\ Cardinality(streak) \in Nat
  BY Rows, FS_Subset, FS_CardinalityType
<1>3. streak # {}
  BY <1>2, FS_EmptySet, StreakAssumption
<1>4. Min(streak) \in streak /\ \A k \in streak : Min(streak) <= k
  BY <1>1, <1>3, LeastOf
<1>5. Max(streak) \in streak /\ \A k \in streak : k <= Max(streak)
  <2>1. \A k \in streak : k <= Len(runs)
    BY <1>1
  <2>2. streak \in SUBSET Int /\ Len(runs) \in Int
    BY <1>1
  <2> QED
    BY <1>3, <2>1, <2>2, GreatestOf
<1>6. /\ alert.first = Min(streak) /\ alert.last = Max(streak)
      /\ alert.count = Cardinality(streak)
      /\ alert \in AnyAlert
  <2>1. Min(streak) \in Nat /\ Max(streak) \in Nat
    BY <1>1, <1>4, <1>5
  <2> QED
    BY <1>2, <2>1 DEF BuildAlert, AnyAlert
<1> HIDE DEF alert
<1>7. alert.first .. alert.last \subseteq DOMAIN runs
  <2>1. Min(streak) \in 1 .. Len(runs) /\ Max(streak) \in 1 .. Len(runs)
    BY <1>1, <1>4, <1>5
  <2> QED
    BY <1>1, <1>6, <2>1
<1>8. streak \subseteq Spanned(alert)
  <2> SUFFICES ASSUME NEW k \in streak
               PROVE  k \in Spanned(alert)
    OBVIOUS
  <2>1. k \in Nat /\ Min(streak) \in Nat /\ Max(streak) \in Nat
    BY <1>1, <1>4, <1>5
  <2>2. k \in alert.first .. alert.last
    BY <1>4, <1>5, <1>6, <2>1
  <2> QED
    BY <2>2 DEF Spanned
<1>9. IsFiniteSet(Spanned(alert)) /\ Cardinality(Spanned(alert)) \in Nat
  <2>1. Spanned(alert) \in SUBSET DOMAIN runs
    BY <1>7 DEF Spanned
  <2> QED
    BY <2>1, Rows, FS_Subset, FS_CardinalityType
<1>10. Cardinality(streak) <= Cardinality(Spanned(alert))
  BY <1>8, <1>9, FS_Subset
<1>11. Backed(alert)
  <2>1. Threshold \in Nat
    BY StreakAssumption
  <2>2. {alert.first, alert.last} \subseteq Spanned(alert)
    BY <1>4, <1>5, <1>6, <1>8
  <2> QED
    BY <1>2, <1>6, <1>7, <1>9, <1>10, <2>1, <2>2 DEF Backed
<1> QED
  BY <1>6, <1>11 DEF alert

\* decideAlert fires on failed rows only, and on a threshold of them.
LEMMA DecidedBacked ==
    ASSUME Typed, NEW rows \in SUBSET DOMAIN runs, DecideAlert(rows).kind # "none"
    PROVE  DecideAlert(rows) \in AnyAlert /\ Backed(DecideAlert(rows))
<1> DEFINE newest  == Max(rows)
           prior   == rows \ {newest}
           leading == LeadingFailures(rows)
           ended   == LeadingFailures(prior)
           exact   == Cardinality(ended) < Cardinality(prior) \/ Cardinality(rows) < StreakWindow
<1>1. rows # {}
  BY DEF DecideAlert, NoAlert
<1>2. \A S \in SUBSET DOMAIN runs :
        /\ LeadingFailures(S) \in SUBSET DOMAIN runs
        /\ \A k \in LeadingFailures(S) : runs[k] = "failed"
  <2> SUFFICES ASSUME NEW S \in SUBSET DOMAIN runs, NEW k \in LeadingFailures(S)
               PROVE  k \in DOMAIN runs /\ runs[k] = "failed"
    OBVIOUS
  <2>1. k \in S /\ \A m \in S : m >= k => runs[m] = "failed"
    BY DEF LeadingFailures
  <2>2. k >= k
    BY <2>1, Rows
  <2> QED
    BY <2>1, <2>2
<1>3. Threshold \in Nat
  BY StreakAssumption
<1>4. DecideAlert(rows) =
        IF runs[newest] = "failed"
        THEN IF Cardinality(leading) = Threshold THEN BuildAlert("failing", leading, TRUE)
             ELSE NoAlert
        ELSE IF Cardinality(ended) >= Threshold THEN BuildAlert("recovered", ended, exact)
             ELSE NoAlert
  BY <1>1 DEF DecideAlert
<1>5. leading \in SUBSET DOMAIN runs /\ \A k \in leading : runs[k] = "failed"
  BY <1>2
<1>6. ended \in SUBSET DOMAIN runs /\ \A k \in ended : runs[k] = "failed"
  <2>1. prior \in SUBSET DOMAIN runs
    OBVIOUS
  <2> QED
    BY <1>2, <2>1
<1>7. exact \in BOOLEAN
  OBVIOUS
<1> HIDE DEF newest, prior, leading, ended, exact
<1>8. CASE runs[newest] = "failed" /\ Cardinality(leading) = Threshold
  <2>1. Cardinality(leading) >= Threshold
    BY <1>3, <1>8
  <2> QED
    BY <1>4, <1>5, <1>8, <2>1, BuiltBacked
<1>9. CASE runs[newest] # "failed" /\ Cardinality(ended) >= Threshold
  BY <1>4, <1>6, <1>7, <1>9, BuiltBacked
<1>10. NoAlert.kind = "none"
  BY DEF NoAlert
<1> QED
  BY <1>4, <1>8, <1>9, <1>10

\* Failed rows stay, and so does what an alert says of them.
LEMMA StaysBacked ==
    ASSUME Typed', NEW alert \in AnyAlert, Backed(alert),
           \A k \in DOMAIN runs : k \in DOMAIN runs' /\ (runs[k] = "failed" => runs'[k] = "failed")
    PROVE  Backed(alert)'
<1>1. /\ alert.first .. alert.last \subseteq DOMAIN runs
      /\ Cardinality(Spanned(alert)) >= Threshold
      /\ Cardinality(Spanned(alert)) >= alert.count
      /\ {alert.first, alert.last} \subseteq Spanned(alert)
  BY DEF Backed
<1>2. alert.first .. alert.last \subseteq DOMAIN runs'
  BY <1>1
<1> DEFINE now == {k \in alert.first .. alert.last : runs[k] = "failed"}
           then == {k \in alert.first .. alert.last : runs'[k] = "failed"}
<1>3. now = Spanned(alert) /\ then = Spanned(alert)'
  BY DEF Spanned
<1>4. now \subseteq then
  BY <1>1
<1>5. alert.first \in Nat /\ alert.last \in Nat /\ alert.count \in Nat /\ Threshold \in Nat
  BY StreakAssumption DEF AnyAlert
<1>6. IsFiniteSet(alert.first .. alert.last)
  <2>1. alert.first \in Int /\ alert.last \in Int
    BY <1>5
  <2> QED
    BY <2>1, FS_Interval
<1>7. IsFiniteSet(then) /\ Cardinality(then) \in Nat
  BY <1>6, FS_Subset, FS_CardinalityType
<1>8. Cardinality(now) \in Nat /\ Cardinality(now) <= Cardinality(then)
  BY <1>4, <1>7, FS_Subset, FS_CardinalityType
<1>9. Cardinality(then) >= Threshold /\ Cardinality(then) >= alert.count
  <2>1. Cardinality(now) >= Threshold /\ Cardinality(now) >= alert.count
    BY <1>1, <1>3
  <2> HIDE DEF now, then
  <2> QED
    BY <1>5, <1>7, <1>8, <2>1
<1>10. {alert.first, alert.last} \subseteq then
  BY <1>1, <1>3, <1>4
<1> QED
  BY <1>2, <1>3, <1>9, <1>10 DEF Backed

--------------------------------------------------------------------------------
(* The steps.                                                              *)

\* What an invocation does to itself alone: it goes on with the run it has, or stops.
LEMMA OneMoves ==
    ASSUME StreakInv, NEW i \in Invocations, NEW c \in CycleType,
           cycle' = [cycle EXCEPT ![i] = c], c.pc \in {"idle", "reading"},
           NEW r \in Seq(Status), runs' = r, DOMAIN r = DOMAIN runs,
           \A k \in DOMAIN runs : r[k] = runs[k] \/ (cycle[i].pc = "scoring" /\ k = cycle[i].run),
           sent' = sent
    PROVE  StreakInv'
<1>0. Typed /\ \A j \in Invocations : OwnRun(j)
  BY DEF StreakInv
<1>1. Typed'
  BY <1>0 DEF Typed
<1>2. \A j \in Invocations : cycle'[j] = IF j = i THEN c ELSE cycle[j]
  BY <1>0 DEF Typed
<1>3. ASSUME NEW j \in Invocations
      PROVE  OwnRun(j)'
  <2>1. CASE j = i
    BY <1>2, <2>1 DEF OwnRun
  <2>2. CASE j # i
    <3> SUFFICES ASSUME cycle'[j].pc = "scoring"
                 PROVE  cycle'[j].run \in DOMAIN runs' /\ runs'[cycle'[j].run] = "running"
      BY DEF OwnRun
    <3>1. cycle'[j] = cycle[j] /\ cycle[j].pc = "scoring"
      BY <1>2, <2>2
    <3>2. cycle[j].run \in DOMAIN runs /\ runs[cycle[j].run] = "running"
      BY <1>0, <3>1 DEF OwnRun
    <3>3. ~(cycle[i].pc = "scoring" /\ cycle[j].run = cycle[i].run)
      BY <2>2, <3>1 DEF StreakInv
    <3> QED
      BY <3>1, <3>2, <3>3
  <2> QED
    BY <2>1, <2>2
<1>4. \A j, k \in Invocations :
        j # k /\ cycle'[j].pc = "scoring" /\ cycle'[k].pc = "scoring"
            => cycle'[j].run # cycle'[k].run
  BY <1>2 DEF StreakInv
<1>5. \A j \in Invocations : cycle'[j].pc = "posting" => cycle'[j].alert \in AnyAlert
  BY <1>2 DEF StreakInv
<1>6. ASSUME NEW alert \in AnyAlert, Announced(alert)'
      PROVE  Backed(alert)'
  <2>1. Announced(alert)
    BY <1>2, <1>6 DEF Announced
  <2>2. Backed(alert)
    BY <2>1 DEF StreakInv
  <2>3. \A k \in DOMAIN runs : k \in DOMAIN runs' /\ (runs[k] = "failed" => runs'[k] = "failed")
    <3>1. cycle[i].pc = "scoring" => runs[cycle[i].run] = "running"
      BY <1>0 DEF OwnRun
    <3> QED
      BY <3>1
  <2> QED
    BY <1>1, <2>2, <2>3, StaysBacked
<1> QED
  BY <1>1, <1>3, <1>4, <1>5, <1>6 DEF StreakInv

LEMMA StepKeepsBacked ==
    ASSUME StreakInv, NEW i \in Invocations, Start(i) \/ Step(i) \/ Kill(i)
    PROVE  StreakInv'
<1>0. /\ Typed /\ \A j \in Invocations : OwnRun(j)
      /\ runs \in Seq(Status) /\ sent \in Seq(AnyAlert)
      /\ cycle \in [Invocations -> CycleType] /\ cycle[i] \in CycleType
  BY DEF StreakInv, Typed
<1>1. Len(runs) \in Nat /\ DOMAIN runs = 1 .. Len(runs) /\ DOMAIN sent = 1 .. Len(sent)
  BY <1>0
<1>2. Idle \in CycleType /\ Idle.pc = "idle" /\ NoAlert \in {NoAlert}
  BY DEF Idle, CycleType
<1>3. CASE Start(i)
  <2> DEFINE n == Len(runs) + 1
  <2>0. n \in Nat
    BY <1>1
  <2> DEFINE c == [Idle EXCEPT !.pc = "scoring", !.run = n]
  <2>1. runs' = Append(runs, "running") /\ cycle' = [cycle EXCEPT ![i] = c] /\ sent' = sent
    BY <1>3 DEF Start
  <2>2. c \in CycleType /\ c.pc = "scoring" /\ c.run = n
    <3> HIDE DEF n
    <3> QED
      BY <2>0 DEF Idle, CycleType
  <2> HIDE DEF c
  <2>3. /\ runs' \in Seq(Status) /\ Len(runs') = n /\ DOMAIN runs' = 1 .. n
        /\ runs'[n] = "running"
        /\ \A k \in DOMAIN runs : runs'[k] = runs[k]
    BY <1>0, <1>1, <2>1 DEF Status
  <2>4. \A j \in Invocations : cycle'[j] = IF j = i THEN c ELSE cycle[j]
    BY <1>0, <2>1
  <2>5. Typed'
    BY <1>0, <2>1, <2>2, <2>3 DEF Typed
  <2>6. \A k \in DOMAIN runs : k \in DOMAIN runs' /\ k # n
    BY <1>1, <2>3
  <2>7. n \in DOMAIN runs'
    BY <1>1, <2>3
  <2> HIDE DEF n
  <2>8. \A j \in Invocations : OwnRun(j)'
    BY <1>0, <2>2, <2>3, <2>4, <2>6, <2>7 DEF OwnRun
  <2>9. \A j, k \in Invocations :
          j # k /\ cycle'[j].pc = "scoring" /\ cycle'[k].pc = "scoring"
            => cycle'[j].run # cycle'[k].run
    BY <1>0, <2>2, <2>4, <2>6 DEF StreakInv, OwnRun
  <2>10. \A j \in Invocations : cycle'[j].pc = "posting" => cycle'[j].alert \in AnyAlert
    BY <2>2, <2>4 DEF StreakInv
  <2>11. ASSUME NEW alert \in AnyAlert, Announced(alert)'
         PROVE  Backed(alert)'
    <3>1. Announced(alert)
      BY <2>1, <2>2, <2>4, <2>11 DEF Announced
    <3>2. Backed(alert)
      BY <3>1 DEF StreakInv
    <3> QED
      BY <2>3, <2>5, <2>6, <3>2, StaysBacked
  <2> QED
    BY <2>5, <2>8, <2>9, <2>10, <2>11 DEF StreakInv
\* The row is settled, or lost, and the cycle reads on or stops.
<1>4. ASSUME cycle[i].pc = "scoring", NEW status \in Status, NEW c \in CycleType,
             runs' = [runs EXCEPT ![cycle[i].run] = status], cycle' = [cycle EXCEPT ![i] = c],
             c.pc \in {"idle", "reading"}, sent' = sent
      PROVE  StreakInv'
  <2>1. cycle[i].run \in 1 .. Len(runs)
    BY <1>0, <1>1, <1>4 DEF OwnRun
  <2> DEFINE r == [runs EXCEPT ![cycle[i].run] = status]
  <2>2. /\ r \in Seq(Status) /\ DOMAIN r = DOMAIN runs
        /\ \A k \in DOMAIN runs : r[k] = runs[k] \/ k = cycle[i].run
    BY <1>0, <1>1, <2>1, ExceptSeq
  <2> HIDE DEF r
  <2>3. runs' = r
    BY <1>4 DEF r
  <2> QED
    BY <1>4, <2>2, <2>3, OneMoves
<1>5. CASE Write(i)
  <2>1. PICK status \in {"ok", "failed"} : runs' = [runs EXCEPT ![cycle[i].run] = status]
    BY <1>5 DEF Write
  <2> DEFINE c == [cycle[i] EXCEPT !.pc = "reading"]
  <2>2. c \in CycleType /\ c.pc = "reading"
    BY <1>0 DEF CycleType
  <2>3. cycle' = [cycle EXCEPT ![i] = c] /\ sent' = sent /\ cycle[i].pc = "scoring"
    BY <1>5 DEF Write
  <2>4. status \in Status
    BY DEF Status
  <2> HIDE DEF c
  <2> QED
    BY <1>4, <2>1, <2>2, <2>3, <2>4
<1>6. CASE WriteFails(i)
  BY <1>2, <1>4, <1>6 DEF WriteFails, Status
\* Nothing is written and the invocation stops.
<1>7. ASSUME runs' = runs, cycle' = [cycle EXCEPT ![i] = Idle], sent' = sent
      PROVE  StreakInv'
  BY <1>0, <1>2, <1>7, OneMoves
<1>8. CASE Kill(i)
  <2>1. CASE cycle[i].pc = "scoring"
    BY <1>2, <1>4, <1>8, <2>1 DEF Kill, Status
  <2>2. CASE cycle[i].pc # "scoring"
    BY <1>7, <1>8, <2>2 DEF Kill
  <2> QED
    BY <2>1, <2>2
<1>9. CASE ReadFails(i) \/ PostFails(i)
  BY <1>7, <1>9 DEF ReadFails, PostFails
<1>10. CASE Read(i)
  <2> DEFINE alert == DecideAlert(RecentRuns)
  <2>1. CASE alert.kind = "none"
    BY <1>7, <1>10, <2>1 DEF Read
  <2>2. CASE alert.kind # "none"
    <3>1. RecentRuns \in SUBSET DOMAIN runs
      BY DEF RecentRuns, Written
    <3>2. alert \in AnyAlert /\ Backed(alert)
      BY <1>0, <2>2, <3>1, DecidedBacked
    <3> DEFINE c == [cycle[i] EXCEPT !.pc = "posting", !.alert = alert]
    <3>3. cycle' = [cycle EXCEPT ![i] = c] /\ runs' = runs /\ sent' = sent
      BY <1>10, <2>2 DEF Read
    <3> HIDE DEF alert
    <3>4. c \in CycleType /\ c.pc = "posting" /\ c.alert = alert
      BY <1>0, <3>2 DEF CycleType
    <3> HIDE DEF c
    <3>5. \A j \in Invocations : cycle'[j] = IF j = i THEN c ELSE cycle[j]
      BY <1>0, <3>3
    <3>6. Typed'
      BY <1>0, <3>3, <3>4 DEF Typed
    <3>7. /\ \A j \in Invocations : OwnRun(j)'
          /\ \A j, k \in Invocations :
                j # k /\ cycle'[j].pc = "scoring" /\ cycle'[k].pc = "scoring"
                  => cycle'[j].run # cycle'[k].run
          /\ \A j \in Invocations : cycle'[j].pc = "posting" => cycle'[j].alert \in AnyAlert
      BY <3>2, <3>3, <3>4, <3>5 DEF StreakInv, OwnRun
    <3>8. ASSUME NEW a \in AnyAlert, Announced(a)'
          PROVE  Backed(a)'
      <4>1. a = alert \/ Announced(a)
        BY <3>3, <3>4, <3>5, <3>8 DEF Announced
      <4>2. Backed(a)
        BY <3>2, <4>1 DEF StreakInv
      <4> QED
        BY <3>3, <3>6, <4>2, StaysBacked
    <3> QED
      BY <3>6, <3>7, <3>8 DEF StreakInv
  <2> QED
    BY <2>1, <2>2
<1>11. CASE Post(i)
  <2> DEFINE alert == cycle[i].alert
  <2>1. /\ cycle[i].pc = "posting"
        /\ sent' = Append(sent, alert) /\ runs' = runs /\ cycle' = [cycle EXCEPT ![i] = Idle]
    BY <1>11 DEF Post
  <2>2. alert \in AnyAlert /\ Announced(alert)
    BY <2>1 DEF StreakInv, Announced
  <2> HIDE DEF alert
  <2>3. \A j \in Invocations : cycle'[j] = IF j = i THEN Idle ELSE cycle[j]
    BY <1>0, <2>1
  <2>4. Typed'
    BY <1>0, <1>2, <2>1, <2>2 DEF Typed
  <2>5. /\ \A j \in Invocations : OwnRun(j)'
        /\ \A j, k \in Invocations :
              j # k /\ cycle'[j].pc = "scoring" /\ cycle'[k].pc = "scoring"
                => cycle'[j].run # cycle'[k].run
        /\ \A j \in Invocations : cycle'[j].pc = "posting" => cycle'[j].alert \in AnyAlert
    BY <1>2, <2>1, <2>3 DEF StreakInv, OwnRun
  <2>6. \A n \in DOMAIN sent' : sent'[n] = alert \/ \E m \in DOMAIN sent : sent'[n] = sent[m]
    BY <1>0, <1>1, <2>1, <2>2, AppendProperties
  <2>7. ASSUME NEW a \in AnyAlert, Announced(a)'
        PROVE  Backed(a)'
    <3>1. a = alert \/ Announced(a)
      BY <1>2, <2>3, <2>6, <2>7 DEF Announced
    <3>2. Backed(a)
      BY <2>2, <3>1 DEF StreakInv
    <3> QED
      BY <2>1, <2>4, <3>2, StaysBacked
  <2> QED
    BY <2>4, <2>5, <2>7 DEF StreakInv
<1> QED
  BY <1>3, <1>5, <1>6, <1>8, <1>9, <1>10, <1>11 DEF Step

LEMMA InitStreak ==
    ASSUME Init
    PROVE  StreakInv
<1>1. Typed
  BY DEF Init, Typed, CycleType, Idle
<1>2. (\A i \in Invocations : cycle[i] = Idle) /\ sent = <<>>
  BY DEF Init
<1> QED
  BY <1>1, <1>2 DEF StreakInv, OwnRun, Announced, Idle

LEMMA StepStreak ==
    ASSUME StreakInv, [Next]_vars
    PROVE  StreakInv'
<1>1. CASE UNCHANGED vars
  BY <1>1 DEF vars, StreakInv, Typed, OwnRun, Announced, Backed, Spanned
<1> QED
  BY <1>1, StepKeepsBacked DEF Next, Exhausted

LEMMA StreakInvariant == Spec => []StreakInv
<1>1. Init => StreakInv
  BY InitStreak
<1>2. StreakInv /\ [Next]_vars => StreakInv'
  BY StepStreak
<1> QED
  BY <1>1, <1>2, PTL DEF Spec

\* For any threshold, window and number of overlapping invocations, and whatever is lost or
\* killed: the rows that an alert names as its first and latest failure did fail, and it
\* spans a threshold of failed rows and no fewer than it counted, at every later time too.
\* An ok row that was written late may lie in between (decideAlert, alerts.ts).
THEOREM AlarmsAreReal == Spec => []NoFalseAlarm
<1>1. StreakInv => NoFalseAlarm
  <2> SUFFICES ASSUME StreakInv, NEW n \in DOMAIN sent
               PROVE  /\ {sent[n].first, sent[n].last} \subseteq Spanned(sent[n])
                      /\ Cardinality(Spanned(sent[n])) >= Max({Threshold, sent[n].count})
    BY DEF NoFalseAlarm
  <2> DEFINE alert == sent[n]
  <2>1. alert \in AnyAlert
    BY DEF StreakInv, Typed
  <2>2. Announced(alert)
    BY DEF Announced
  <2> HIDE DEF alert
  <2>3. Backed(alert)
    BY <2>1, <2>2 DEF StreakInv
  <2>4. Threshold \in Nat /\ alert.count \in Nat
    BY <2>1, StreakAssumption DEF AnyAlert
  <2>5. Max({Threshold, alert.count}) \in {Threshold, alert.count}
    <3>1. \E x \in {Threshold, alert.count} : \A y \in {Threshold, alert.count} : x >= y
      BY <2>4
    <3> QED
      BY <3>1 DEF Max
  <2>6. Cardinality(Spanned(alert)) >= Max({Threshold, alert.count})
    BY <2>3, <2>5 DEF Backed
  <2>7. {alert.first, alert.last} \subseteq Spanned(alert)
    BY <2>3 DEF Backed
  <2> QED
    BY <2>6, <2>7 DEF alert
<1> QED
  BY <1>1, StreakInvariant, PTL

--------------------------------------------------------------------------------
(* One cycle at a time.                                                    *)

\* One cycle at a time: no two invocations are under way, and the one that is has the
\* newest row, written by the time it reads.
Alone ==
    /\ \A i, j \in Invocations : cycle[i].pc # "idle" /\ cycle[j].pc # "idle" => i = j
    /\ \A i \in Invocations : cycle[i].pc # "idle" =>
          cycle[i].run = Len(runs) /\ Len(runs) \in DOMAIN runs
    /\ \A i \in Invocations : cycle[i].pc \in {"reading", "posting"} => Len(runs) \in Written

\* The run that ended the streak whose last failure is `last`: the next one written.
Ended(last, k) == k > last /\ runs[k] = "ok" /\ \A m \in Written : m > last => m >= k

\* What the rows before `first` say of a streak: that it did not begin among them.
Begins(first) ==
    LET before == {k \in Written : k < first}
    IN  before = {} \/ runs[Max(before)] = "ok"

\* An alert's figures are the table's.
Accurate(alert) ==
    /\ alert.first \in Written /\ alert.last \in Written /\ alert.first <= alert.last
    /\ \A k \in Written : k \in alert.first .. alert.last => runs[k] = "failed"
    /\ alert.count = Cardinality(Spanned(alert))
    /\ alert.exact => Begins(alert.first)
    /\ ~alert.exact => alert.count = StreakWindow - 1
    /\ alert.kind = "failing" => alert.exact /\ alert.count = Threshold
    /\ alert.kind = "recovered" => \E k \in Written : Ended(alert.last, k)

\* An alert of an earlier run than the newest.
Earlier(alert) ==
    IF alert.kind = "failing" THEN alert.last < Len(runs)
    ELSE \E k \in Written : alert.last < k /\ k < Len(runs)

\* An alert of the newest run.
Newest(alert) ==
    IF alert.kind = "failing" THEN alert.last = Len(runs)
    ELSE alert.last < Len(runs) /\ \A k \in Written : ~(alert.last < k /\ k < Len(runs))

OneEach ==
    \A m, n \in DOMAIN sent :
        m # n /\ sent[m].kind = sent[n].kind => sent[m].last # sent[n].last

--------------------------------------------------------------------------------
(* The window and the streak.                                              *)

LEMMA ExtremeRows ==
    ASSUME Typed, NEW S \in SUBSET DOMAIN runs, S # {}
    PROVE  /\ Min(S) \in S /\ \A k \in S : Min(S) <= k
           /\ Max(S) \in S /\ \A k \in S : k <= Max(S)
<1>1. Len(runs) \in Nat /\ DOMAIN runs = 1 .. Len(runs) /\ S \in SUBSET Nat
  BY Rows
<1>2. \A k \in S : k <= Len(runs)
  BY <1>1
<1>3. S \in SUBSET Int /\ Len(runs) \in Int
  BY <1>1
<1>4. Min(S) \in S /\ \A k \in S : Min(S) <= k
  BY <1>1, LeastOf
<1> QED
  BY <1>2, <1>3, <1>4, GreatestOf

\* Two more than the threshold, at the least.
LEMMA WindowType == StreakWindow \in Nat /\ StreakWindow >= Threshold + 2
<1>1. Threshold + 2 \in Nat /\ WindowFloor \in Nat
  BY StreakAssumption
<1>2. \E x \in {Threshold + 2, WindowFloor} : \A y \in {Threshold + 2, WindowFloor} : x >= y
  BY <1>1
<1>3. /\ StreakWindow \in {Threshold + 2, WindowFloor}
      /\ \A y \in {Threshold + 2, WindowFloor} : StreakWindow >= y
  BY <1>2 DEF StreakWindow, Max
<1> QED
  BY <1>1, <1>3

LEMMA SomeRows ==
    ASSUME Typed, NEW S \in SUBSET Written
    PROVE  /\ S \in SUBSET DOMAIN runs /\ S \in SUBSET Nat
           /\ IsFiniteSet(S) /\ Cardinality(S) \in Nat
<1>1. S \in SUBSET DOMAIN runs
  BY DEF Written
<1> QED
  BY <1>1, Rows, FS_Subset, FS_CardinalityType

\* The window holds the newest rows: with a row it holds every later one, and when it is
\* not full it holds them all.
LEMMA WindowOfNewest ==
    ASSUME Typed
    PROVE  /\ RecentRuns \in SUBSET Written
           /\ \A k \in RecentRuns, m \in Written : m >= k => m \in RecentRuns
           /\ Cardinality(RecentRuns) < StreakWindow => RecentRuns = Written
           /\ Cardinality(RecentRuns) <= StreakWindow
<1> DEFINE Later(k) == {m \in Written : m > k}
<1>1. /\ RecentRuns = {k \in Written : Cardinality(Later(k)) < StreakWindow}
      /\ RecentRuns \in SUBSET Written
      /\ IsFiniteSet(RecentRuns) /\ Cardinality(RecentRuns) \in Nat
  BY SomeRows DEF RecentRuns
<1>2. Written \in SUBSET Nat /\ \A k \in Written :
        Later(k) \in SUBSET Written /\ IsFiniteSet(Later(k)) /\ Cardinality(Later(k)) \in Nat
  BY SomeRows
<1>3. StreakWindow \in Nat
  BY WindowType
<1>4. ASSUME NEW k \in RecentRuns, NEW m \in Written, m >= k
      PROVE  m \in RecentRuns
  <2>1. k \in Written /\ Later(m) \subseteq Later(k)
    <3>1. k \in Written /\ k \in Nat /\ m \in Nat
      BY <1>1, <1>2
    <3>2. \A n \in Written : n \in Nat /\ (n > m => n > k)
      <4>1. Written \in SUBSET Nat
        BY <1>2
      <4> QED
        BY <1>4, <3>1, <4>1
    <3> QED
      BY <3>1, <3>2
  <2>2. Cardinality(Later(m)) <= Cardinality(Later(k))
    BY <1>2, <2>1, FS_Subset
  <2>3. Cardinality(Later(k)) < StreakWindow
    BY <1>1
  <2> HIDE DEF Later
  <2>4. Cardinality(Later(m)) < StreakWindow
    BY <1>2, <1>3, <2>1, <2>2, <2>3
  <2> QED
    BY <1>1, <2>4
<1>5. ASSUME Cardinality(RecentRuns) < StreakWindow
      PROVE  RecentRuns = Written
  <2> SUFFICES ASSUME Written \ RecentRuns # {}
               PROVE  FALSE
    BY <1>1
  <2> DEFINE k == Max(Written \ RecentRuns)
  <2>1. k \in Written \ RecentRuns /\ \A m \in Written \ RecentRuns : m <= k
    <3>1. Written \ RecentRuns \in SUBSET DOMAIN runs
      BY DEF Written
    <3> QED
      BY <3>1, ExtremeRows
  <2> HIDE DEF k
  <2>2. Later(k) \subseteq RecentRuns
    <3>1. Written \in SUBSET Nat
      BY <1>2
    <3>2. \A m \in Written : m \in Nat /\ k \in Nat /\ (m > k => ~(m <= k))
      BY <2>1, <3>1
    <3> QED
      BY <2>1, <3>2
  <2>3. Cardinality(Later(k)) <= Cardinality(RecentRuns)
    BY <1>1, <2>2, FS_Subset
  <2>4. Cardinality(Later(k)) < StreakWindow
    <3> HIDE DEF Later
    <3> QED
      BY <1>1, <1>2, <1>3, <1>5, <2>1, <2>3
  <2> QED
    BY <1>1, <2>1, <2>4
<1>6. Cardinality(RecentRuns) <= StreakWindow
  <2>1. CASE RecentRuns = {}
    BY <1>3, <2>1, FS_EmptySet
  <2>2. CASE RecentRuns # {}
    <3> DEFINE k == Min(RecentRuns)
    <3>1. k \in RecentRuns /\ \A m \in RecentRuns : k <= m
      BY <1>1, <2>2, ExtremeRows DEF Written
    <3> HIDE DEF k
    <3>2. k \in Written /\ RecentRuns \ {k} \subseteq Later(k)
      <4>1. Written \in SUBSET Nat /\ RecentRuns \in SUBSET Written
        BY <1>1, <1>2
      <4> QED
        BY <3>1, <4>1
    <3>3. Cardinality(RecentRuns \ {k}) <= Cardinality(Later(k))
      BY <1>2, <3>2, FS_Subset
    <3>4. Cardinality(RecentRuns \ {k}) = Cardinality(RecentRuns) - 1
      BY <1>1, <3>1, FS_RemoveElement
    <3>5. Cardinality(Later(k)) < StreakWindow
      BY <1>1, <3>1
    <3> HIDE DEF Later
    <3> QED
      BY <1>1, <1>2, <1>3, <3>2, <3>3, <3>4, <3>5
  <2> QED
    BY <2>1, <2>2
<1> QED
  BY <1>1, <1>4, <1>5, <1>6

\* The failed rows at the end of a stretch of the table are all of it from the first of them
\* on; unless they are the whole of a stretch with rows before it, the streak begins there.
LEMMA StreakOf ==
    ASSUME Typed, NEW X \in SUBSET Written, LeadingFailures(X) # {},
           \A k \in X, m \in Written : k <= m /\ m <= Max(X) => m \in X
    PROVE  LET S == LeadingFailures(X)
           IN  /\ S \in SUBSET X /\ Min(S) \in S /\ Max(S) = Max(X) /\ Max(X) \in S
               /\ Min(S) <= Max(S)
               /\ \A k \in Written : k \in Min(S) .. Max(S) => k \in S /\ runs[k] = "failed"
               /\ {k \in Min(S) .. Max(S) : runs[k] = "failed"} = S
               /\ S # X => Begins(Min(S))
               /\ (\A k \in Written : k <= Max(X) => k \in X) => Begins(Min(S))
<1> DEFINE S == LeadingFailures(X)
<1>1. /\ S = {k \in X : \A m \in X : m >= k => runs[m] = "failed"}
      /\ S \in SUBSET X /\ X # {} /\ X \in SUBSET DOMAIN runs /\ S \in SUBSET DOMAIN runs
  BY DEF LeadingFailures, Written
<1>2. /\ Min(S) \in S /\ \A k \in S : Min(S) <= k
      /\ Max(S) \in S /\ \A k \in S : k <= Max(S)
      /\ Max(X) \in X /\ \A k \in X : k <= Max(X)
  BY <1>1, ExtremeRows
<1>3. Written \in SUBSET Nat /\ DOMAIN runs \in SUBSET Nat /\ DOMAIN runs = 1 .. Len(runs)
      /\ Len(runs) \in Nat
  BY SomeRows, Rows
<1>4. \A k \in S : \A m \in X : m >= k => m \in S /\ runs[m] = "failed"
  BY <1>1, <1>3
<1>5. Max(X) \in S /\ Max(S) = Max(X)
  <2>1. Max(X) >= Min(S) /\ Max(X) \in Nat /\ Max(S) \in Nat
    BY <1>1, <1>2, <1>3
  <2>2. Max(X) \in S
    BY <1>2, <1>4, <2>1
  <2>3. Max(X) <= Max(S) /\ Max(S) <= Max(X)
    BY <1>1, <1>2, <2>2
  <2> QED
    BY <2>1, <2>2, <2>3
<1>6. Min(S) \in X /\ Min(S) \in Nat /\ Max(X) \in Nat /\ Min(S) <= Max(X)
  BY <1>1, <1>2, <1>3, <1>5
<1> HIDE DEF S
<1>7. ASSUME NEW k \in Written, k \in Min(S) .. Max(S)
      PROVE  k \in S /\ runs[k] = "failed"
  <2>1. k >= Min(S) /\ k <= Max(X)
    BY <1>5, <1>6, <1>7
  <2>2. k \in X
    BY <1>6, <2>1
  <2> QED
    BY <1>2, <1>4, <2>1, <2>2
<1>8. {k \in Min(S) .. Max(S) : runs[k] = "failed"} = S
  <2>1. ASSUME NEW k \in Min(S) .. Max(S), runs[k] = "failed"
        PROVE  k \in S
    <3>1. Min(S) \in DOMAIN runs /\ Max(S) \in DOMAIN runs
      BY <1>1, <1>2
    <3>2. k \in DOMAIN runs
      BY <1>3, <3>1
    <3> QED
      BY <1>7, <2>1, <3>2 DEF Written
  <2>2. ASSUME NEW k \in S
        PROVE  k \in Min(S) .. Max(S) /\ runs[k] = "failed"
    <3>1. k \in X /\ k \in Nat /\ Min(S) \in Nat /\ Max(S) \in Nat
      BY <1>1, <1>2, <1>3
    <3>2. runs[k] = "failed"
      BY <1>4, <3>1
    <3> QED
      BY <1>2, <3>1, <3>2
  <2> QED
    BY <2>1, <2>2
<1> DEFINE before == {k \in Written : k < Min(S)}
<1>9. before # {} => Max(before) \in before /\ \A k \in before : k <= Max(before)
  BY ExtremeRows DEF Written
\* A row of the stretch before the streak, if there is one: the last of them is not failed.
<1>10. ASSUME NEW p \in X, p < Min(S)
       PROVE  Begins(Min(S))
  <2>1. p \in before
    BY <1>10
  <2> DEFINE b == Max(before)
  <2>2. b \in before /\ b \in Written /\ b \in Nat /\ b < Min(S) /\ p <= b
    BY <1>3, <1>9, <2>1
  <2> HIDE DEF b
  <2>3. b \in X
    BY <1>3, <1>6, <2>2
  <2>4. b \notin S
    BY <1>2, <1>6, <2>2
  <2>5. PICK m \in X : m >= b /\ runs[m] # "failed"
    BY <1>1, <2>3, <2>4
  <2>6. m \in Written /\ m \in Nat
    BY <1>3, <2>5
  <2>7. m < Min(S)
    BY <1>2, <1>4, <1>6, <2>5, <2>6
  <2>8. m <= b
    BY <1>9, <2>6, <2>7 DEF b
  <2>9. runs[b] # "failed" /\ runs[b] \in {"ok", "failed"}
    BY <2>2, <2>5, <2>6, <2>8 DEF Written
  <2> QED
    BY <2>9 DEF b, Begins
<1>11. S # X => Begins(Min(S))
  <2> SUFFICES ASSUME S # X
               PROVE  Begins(Min(S))
    OBVIOUS
  <2>1. PICK p \in X : p \notin S
    BY <1>1
  <2>2. p \in Nat /\ p < Min(S)
    BY <1>2, <1>3, <1>4, <1>6, <2>1
  <2> QED
    BY <1>10, <2>2
<1>12. (\A k \in Written : k <= Max(X) => k \in X) => Begins(Min(S))
  <2> SUFFICES ASSUME \A k \in Written : k <= Max(X) => k \in X
               PROVE  Begins(Min(S))
    OBVIOUS
  <2>1. CASE before = {}
    BY <2>1 DEF Begins
  <2>2. CASE before # {}
    <3>1. PICK p \in Written : p < Min(S)
      BY <2>2
    <3>2. p \in Nat /\ p <= Max(X)
      BY <1>3, <1>6, <3>1
    <3> QED
      BY <1>10, <3>1, <3>2
  <2> QED
    BY <2>1, <2>2
<1> QED
  BY <1>1, <1>2, <1>5, <1>6, <1>7, <1>8, <1>11, <1>12 DEF S

\* When the newest row has just been written, what decideAlert makes of the window is
\* accurate, and about the streak that this row makes or ends.
LEMMA DecidedAccurate ==
    ASSUME Typed, Len(runs) \in Written, DecideAlert(RecentRuns).kind # "none"
    PROVE  Accurate(DecideAlert(RecentRuns)) /\ Newest(DecideAlert(RecentRuns))
<1> DEFINE newest  == Max(RecentRuns)
           prior   == RecentRuns \ {newest}
           leading == LeadingFailures(RecentRuns)
           ended   == LeadingFailures(prior)
           exact   == \/ Cardinality(ended) < Cardinality(prior)
                      \/ Cardinality(RecentRuns) < StreakWindow
           alert   == DecideAlert(RecentRuns)
<1>1. /\ RecentRuns \in SUBSET Written /\ Written \in SUBSET Nat /\ RecentRuns \in SUBSET DOMAIN runs
      /\ Len(runs) \in Nat /\ \A k \in Written : k <= Len(runs)
      /\ IsFiniteSet(RecentRuns) /\ Cardinality(RecentRuns) \in Nat
  <2>1. Len(runs) \in Nat /\ DOMAIN runs = 1 .. Len(runs)
    BY Rows
  <2>2. RecentRuns \in SUBSET Written /\ Written \in SUBSET Nat /\ Written \in SUBSET DOMAIN runs
    BY WindowOfNewest, SomeRows
  <2>3. IsFiniteSet(RecentRuns) /\ Cardinality(RecentRuns) \in Nat
    BY <2>2, SomeRows
  <2> QED
    BY <2>1, <2>2, <2>3
<1>2. RecentRuns # {}
  BY DEF DecideAlert, NoAlert
<1>3. newest \in RecentRuns /\ \A k \in RecentRuns : k <= newest
  BY <1>1, <1>2, ExtremeRows
<1>4. newest = Len(runs) /\ newest \in Nat
  <2>1. newest <= Len(runs) /\ newest \in Nat
    BY <1>1, <1>3
  <2>2. Len(runs) \in RecentRuns
    BY <1>1, <1>3, <2>1, WindowOfNewest
  <2> QED
    BY <1>1, <1>3, <2>1, <2>2
<1>5. alert =
        IF runs[newest] = "failed"
        THEN IF Cardinality(leading) = Threshold THEN BuildAlert("failing", leading, TRUE)
             ELSE NoAlert
        ELSE IF Cardinality(ended) >= Threshold THEN BuildAlert("recovered", ended, exact)
             ELSE NoAlert
  BY <1>2 DEF DecideAlert
<1>6. NoAlert.kind = "none"
  BY DEF NoAlert
<1>7. Threshold \in Nat /\ Threshold > 0 /\ StreakWindow \in Nat /\ StreakWindow >= Threshold + 2
  BY StreakAssumption, WindowType
<1>8. \A S : IsFiniteSet(S) /\ Cardinality(S) >= Threshold => S # {}
  BY <1>7, FS_EmptySet
<1>9. Cardinality(RecentRuns) < StreakWindow => RecentRuns = Written
  BY WindowOfNewest
<1> HIDE DEF newest, leading
<1>10. CASE runs[newest] = "failed"
  <2>1. Cardinality(leading) = Threshold /\ alert = BuildAlert("failing", leading, TRUE)
    BY <1>5, <1>6, <1>10
  <2>2. leading \in SUBSET RecentRuns /\ IsFiniteSet(leading)
    <3>1. leading \in SUBSET RecentRuns
      BY DEF leading, LeadingFailures
    <3> QED
      BY <1>1, <3>1, FS_Subset
  <2>3. LeadingFailures(RecentRuns) # {}
    BY <1>7, <1>8, <2>1, <2>2 DEF leading
  <2>4. \A k \in RecentRuns, m \in Written : k <= m /\ m <= Max(RecentRuns) => m \in RecentRuns
    BY <1>1, WindowOfNewest
  <2>5. /\ Min(leading) \in leading /\ Max(leading) = newest /\ newest \in leading
        /\ Min(leading) <= Max(leading)
        /\ \A k \in Written : k \in Min(leading) .. Max(leading) => runs[k] = "failed"
        /\ {k \in Min(leading) .. Max(leading) : runs[k] = "failed"} = leading
        /\ leading # RecentRuns => Begins(Min(leading))
        /\ (\A k \in Written : k <= newest => k \in RecentRuns) => Begins(Min(leading))
    BY <1>1, <2>3, <2>4, StreakOf DEF leading, newest
  <2>6. Begins(Min(leading))
    <3>1. CASE RecentRuns = Written
      BY <2>5, <3>1
    <3>2. CASE ~(Cardinality(RecentRuns) < StreakWindow)
      <4>1. leading # RecentRuns
        BY <1>1, <1>7, <2>1, <3>2
      <4> QED
        BY <2>5, <4>1
    <3> QED
      BY <1>9, <3>1, <3>2
  <2>7. /\ alert.kind = "failing" /\ alert.first = Min(leading) /\ alert.last = Max(leading)
        /\ alert.count = Cardinality(leading) /\ alert.exact = TRUE
    BY <2>1 DEF BuildAlert
  <2> HIDE DEF alert
  <2>8. Spanned(alert) = leading
    BY <2>5, <2>7 DEF Spanned
  <2>9. Min(leading) \in Written /\ Max(leading) \in Written
    BY <1>1, <2>2, <2>5
  <2>10. Accurate(alert)
    BY <2>1, <2>5, <2>6, <2>7, <2>8, <2>9 DEF Accurate
  <2>11. Newest(alert)
    BY <1>4, <2>5, <2>7 DEF Newest
  <2> QED
    BY <2>10, <2>11 DEF alert
<1>11. CASE runs[newest] # "failed"
  <2>1. Cardinality(ended) >= Threshold /\ alert = BuildAlert("recovered", ended, exact)
    BY <1>5, <1>6, <1>11
  <2>2. /\ prior \in SUBSET RecentRuns /\ prior \in SUBSET Written /\ prior \in SUBSET DOMAIN runs
        /\ IsFiniteSet(prior) /\ Cardinality(prior) = Cardinality(RecentRuns) - 1
        /\ \A k \in prior : k < newest
    <3>1. \A k \in prior : k \in Nat /\ k <= newest /\ k # newest
      BY <1>1, <1>3
    <3> QED
      BY <1>1, <1>3, <1>4, <3>1, FS_RemoveElement
  <2>3. ended \in SUBSET prior /\ IsFiniteSet(ended) /\ Cardinality(ended) \in Nat
        /\ Cardinality(ended) <= Cardinality(prior)
        /\ (Cardinality(ended) = Cardinality(prior) => ended = prior)
    <3>1. ended \in SUBSET prior
      BY DEF LeadingFailures
    <3> HIDE DEF ended, prior
    <3> QED
      BY <2>2, <3>1, FS_Subset, FS_CardinalityType
  <2>4. ended # {} /\ prior # {}
    BY <1>8, <2>1, <2>3
  <2>5. Max(prior) \in prior /\ \A k \in prior : k <= Max(prior)
    BY <2>2, <2>4, ExtremeRows
  <2>6. Max(prior) \in Nat /\ Max(prior) < newest
    BY <1>1, <2>2, <2>5
  <2>7. \A k \in prior, m \in Written : k <= m /\ m < newest => m \in prior
    BY <1>1, <2>2, WindowOfNewest
  <2>8. \A k \in prior, m \in Written : k <= m /\ m <= Max(prior) => m \in prior
    BY <1>1, <1>4, <2>6, <2>7
  <2> HIDE DEF prior
  <2>9. /\ Min(ended) \in ended /\ Max(ended) = Max(prior)
        /\ Min(ended) <= Max(ended)
        /\ \A k \in Written : k \in Min(ended) .. Max(ended) => runs[k] = "failed"
        /\ {k \in Min(ended) .. Max(ended) : runs[k] = "failed"} = ended
        /\ ended # prior => Begins(Min(ended))
        /\ (\A k \in Written : k <= Max(prior) => k \in prior) => Begins(Min(ended))
    BY <2>2, <2>4, <2>8, StreakOf
  <2> HIDE DEF ended
  <2>10. exact => Begins(Min(ended))
    <3>1. CASE Cardinality(ended) < Cardinality(prior)
      BY <2>3, <2>9, <3>1
    <3>2. CASE RecentRuns = Written
      <4>1. \A k \in Written : k <= Max(prior) => k \in prior
        <5>1. \A k \in Written : k <= Max(prior) => k # newest
          BY <1>1, <1>4, <2>6
        <5> QED
          BY <3>2, <5>1 DEF prior
      <4> QED
        BY <2>9, <4>1
    <3> QED
      BY <1>9, <3>1, <3>2
  <2>11. ~exact => Cardinality(ended) = StreakWindow - 1
    <3>1. Cardinality(RecentRuns) <= StreakWindow
      BY WindowOfNewest
    <3> QED
      BY <1>1, <1>7, <2>2, <2>3, <3>1
  <2>12. runs[newest] = "ok" /\ newest \in Written
    BY <1>1, <1>3, <1>11 DEF Written
  <2>13. Ended(Max(prior), newest)
    <3>1. \A m \in Written : m > Max(prior) => m >= newest
      <4> SUFFICES ASSUME NEW m \in Written, m > Max(prior), m < newest
                   PROVE  FALSE
        BY <1>1, <1>4
      <4>1. m \in prior
        BY <1>1, <2>5, <2>6, <2>7
      <4> QED
        BY <1>1, <2>5, <2>6, <4>1
    <3> QED
      BY <2>6, <2>12, <3>1 DEF Ended
  <2>14. /\ alert.kind = "recovered" /\ alert.first = Min(ended) /\ alert.last = Max(ended)
         /\ alert.count = Cardinality(ended) /\ alert.exact = exact
    BY <2>1 DEF BuildAlert
  <2> HIDE DEF alert, exact
  <2>15. Spanned(alert) = ended
    BY <2>9, <2>14 DEF Spanned
  <2>16. Min(ended) \in Written /\ Max(ended) \in Written
    BY <2>2, <2>3, <2>5, <2>9
  <2>17. Accurate(alert)
    BY <2>9, <2>10, <2>11, <2>12, <2>13, <2>14, <2>15, <2>16 DEF Accurate
  <2>18. Newest(alert)
    <3>1. \A k \in Written : ~(Max(prior) < k /\ k < Len(runs))
      BY <1>1, <1>4, <2>6, <2>13 DEF Ended
    <3> QED
      BY <1>4, <2>6, <2>9, <2>14, <3>1 DEF Newest
  <2> QED
    BY <2>17, <2>18 DEF alert
<1> QED
  BY <1>10, <1>11

Sent(alert) == \E n \in DOMAIN sent : sent[n] = alert

SerialInv ==
    /\ Alone
    /\ \A alert \in AnyAlert : Announced(alert) => Accurate(alert)
    /\ \A i \in Invocations, alert \in AnyAlert :
          cycle[i].pc # "idle" /\ Sent(alert) => Earlier(alert)
    /\ \A i \in Invocations, alert \in AnyAlert :
          cycle[i].pc = "posting" /\ cycle[i].alert = alert => Newest(alert)
    /\ OneEach

\* A step writes at most one row, newer than those that are written; it changes none.
Grows ==
    /\ Written \subseteq Written'
    /\ \A k \in Written : runs'[k] = runs[k]
    /\ \A k \in Written' \ Written, m \in Written : m < k

\* What is accurate remains so as the table grows.
LEMMA StaysAccurate ==
    ASSUME Typed, Typed', Grows, NEW alert \in AnyAlert, Accurate(alert)
    PROVE  Accurate(alert)'
<1>1. Written \in SUBSET Nat /\ Written' \in SUBSET Nat
  BY Rows, SomeRows DEF Typed, Written
<1>2. alert.first \in Written /\ alert.last \in Written /\ alert.first <= alert.last
  BY DEF Accurate
<1>3. alert.first \in Written' /\ alert.last \in Written'
  BY <1>2 DEF Grows
<1>4. alert.first \in Nat /\ alert.last \in Nat
  BY <1>1, <1>2
<1>5. \A k \in Written' : k <= alert.last => k \in Written /\ runs'[k] = runs[k]
  <2> SUFFICES ASSUME NEW k \in Written', k <= alert.last
               PROVE  k \in Written /\ runs'[k] = runs[k]
    OBVIOUS
  <2>1. k \in Nat /\ ~(alert.last < k)
    BY <1>1, <1>4
  <2> QED
    BY <1>2, <2>1 DEF Grows
<1>6. \A k \in Written' : k \in alert.first .. alert.last => runs'[k] = "failed"
  <2>1. \A k \in Written : k \in alert.first .. alert.last => runs[k] = "failed"
    BY DEF Accurate
  <2> QED
    BY <1>4, <1>5, <2>1
<1>7. Spanned(alert)' = Spanned(alert)
  <2>1. \A k \in alert.first .. alert.last : runs'[k] = "failed" <=> runs[k] = "failed"
    <3> SUFFICES ASSUME NEW k \in alert.first .. alert.last
                 PROVE  runs'[k] = "failed" <=> runs[k] = "failed"
      OBVIOUS
    <3>1. k \in DOMAIN runs /\ k \in DOMAIN runs' /\ k <= alert.last
      <4>1. DOMAIN runs = 1 .. Len(runs) /\ DOMAIN runs' = 1 .. Len(runs')
            /\ Len(runs) \in Nat /\ Len(runs') \in Nat
        BY DEF Typed
      <4>2. alert.first \in 1 .. Len(runs) /\ alert.last \in 1 .. Len(runs)
            /\ alert.first \in 1 .. Len(runs') /\ alert.last \in 1 .. Len(runs')
        BY <1>2, <1>3, <4>1 DEF Written
      <4> QED
        BY <4>1, <4>2
    <3>2. runs'[k] = "failed" => k \in Written'
      BY <3>1 DEF Written
    <3>3. runs[k] = "failed" => k \in Written
      BY <3>1 DEF Written
    <3> QED
      BY <1>5, <3>1, <3>2, <3>3 DEF Grows
  <2> QED
    BY <2>1 DEF Spanned
<1>8. Begins(alert.first) => Begins(alert.first)'
  <2> DEFINE before == {k \in Written : k < alert.first}
             then == {k \in Written' : k < alert.first}
  <2>1. then = before
    <3>1. \A k \in Written' : k < alert.first => k \in Written
      <4> SUFFICES ASSUME NEW k \in Written', k < alert.first
                   PROVE  k \in Written
        OBVIOUS
      <4>1. k \in Nat /\ k <= alert.last
        BY <1>1, <1>2, <1>4
      <4> QED
        BY <1>5, <4>1
    <3> QED
      BY <3>1 DEF Grows
  <2>2. before # {} => Max(before) \in Written
    <3>1. before \in SUBSET DOMAIN runs
      BY DEF Written
    <3>2. before # {} => Max(before) \in before
      BY <3>1, ExtremeRows
    <3> QED
      BY <3>2
  <2>3. Begins(alert.first) <=> before = {} \/ runs[Max(before)] = "ok"
    BY DEF Begins
  <2>4. Begins(alert.first)' <=> then = {} \/ runs'[Max(then)] = "ok"
    BY DEF Begins
  <2> QED
    BY <2>1, <2>2, <2>3, <2>4 DEF Grows
<1>9. ASSUME NEW k \in Written, Ended(alert.last, k)
      PROVE  k \in Written' /\ Ended(alert.last, k)'
  <2>1. k > alert.last /\ runs[k] = "ok" /\ \A m \in Written : m > alert.last => m >= k
    BY <1>9 DEF Ended
  <2>2. k \in Written' /\ runs'[k] = "ok"
    BY <2>1 DEF Grows
  <2>3. \A m \in Written' : m > alert.last => m >= k
    <3> SUFFICES ASSUME NEW m \in Written', m > alert.last
                 PROVE  m >= k
      OBVIOUS
    <3>1. CASE m \in Written
      BY <2>1, <3>1
    <3>2. CASE m \notin Written
      <4>1. k < m /\ k \in Nat /\ m \in Nat
        BY <1>1, <3>2 DEF Grows
      <4> QED
        BY <4>1
    <3> QED
      BY <3>1, <3>2
  <2> QED
    BY <2>1, <2>2, <2>3 DEF Ended
<1>10. StreakWindow' = StreakWindow
  BY DEF StreakWindow
<1>11. alert.kind = "recovered" => \E k \in Written' : Ended(alert.last, k)'
  BY <1>9 DEF Accurate
<1> QED
  BY <1>2, <1>3, <1>6, <1>7, <1>8, <1>10, <1>11 DEF Accurate

\* An alert of an earlier run stays one.
LEMMA StaysEarlier ==
    ASSUME Typed, Typed', Grows, Len(runs) <= Len(runs'), NEW alert \in AnyAlert, Earlier(alert)
    PROVE  Earlier(alert)'
<1>1. Len(runs) \in Nat /\ Len(runs') \in Nat /\ alert.last \in Nat /\ Written \in SUBSET Nat
  <2>1. Len(runs) \in Nat /\ Len(runs') \in Nat
    BY DEF Typed
  <2>2. alert.last \in Nat
    BY DEF AnyAlert
  <2>3. Written \in SUBSET Nat
    BY SomeRows
  <2> QED
    BY <2>1, <2>2, <2>3
<1>2. CASE alert.kind = "failing"
  BY <1>1, <1>2 DEF Earlier
<1>3. CASE alert.kind # "failing"
  <2>1. PICK k \in Written : alert.last < k /\ k < Len(runs)
    BY <1>3 DEF Earlier
  <2>2. k \in Nat /\ k \in Written'
    BY <1>1 DEF Grows
  <2>3. k < Len(runs')
    BY <1>1, <2>1, <2>2
  <2> QED
    BY <1>3, <2>1, <2>2, <2>3 DEF Earlier
<1> QED
  BY <1>2, <1>3

\* One cycle at a time, only the newest row can be written, and only once.
LEMMA SerialGrows ==
    ASSUME StreakInv, Typed', Alone, NEW i \in Invocations, Start(i) \/ Step(i) \/ Kill(i)
    PROVE  /\ Grows /\ Len(runs) <= Len(runs')
           /\ ~Start(i) => Len(runs') = Len(runs)
<1>0. /\ runs \in Seq(Status) /\ Len(runs) \in Nat /\ DOMAIN runs = 1 .. Len(runs)
      /\ Written \in SUBSET Nat /\ \A k \in Written : k <= Len(runs)
  BY Rows, SomeRows DEF StreakInv, Typed, Written
<1>1. CASE runs' = runs
  BY <1>0, <1>1 DEF Grows, Written
<1>2. ASSUME cycle[i].pc = "scoring", NEW status \in Status,
             runs' = [runs EXCEPT ![cycle[i].run] = status]
      PROVE  Grows /\ Len(runs') = Len(runs)
  <2>1. cycle[i].run = Len(runs) /\ Len(runs) \in DOMAIN runs /\ runs[Len(runs)] = "running"
    BY <1>2 DEF Alone, StreakInv, OwnRun
  <2>2. /\ Len(runs') = Len(runs) /\ DOMAIN runs' = DOMAIN runs
        /\ \A k \in DOMAIN runs : k # Len(runs) => runs'[k] = runs[k]
    BY <1>0, <1>2, <2>1
  <2>3. Len(runs) \notin Written /\ \A k \in Written : k # Len(runs) /\ k \in DOMAIN runs
    BY <2>1 DEF Written
  <2>4. \A k \in Written : runs'[k] = runs[k] /\ k \in Written'
    BY <2>2, <2>3 DEF Written
  <2>5. \A k \in Written' \ Written : k = Len(runs)
    BY <2>2 DEF Written
  <2>6. \A m \in Written : m < Len(runs)
    <3> SUFFICES ASSUME NEW m \in Written
                 PROVE  m < Len(runs)
      OBVIOUS
    <3>1. m \in Nat /\ m <= Len(runs) /\ m # Len(runs) /\ Len(runs) \in Nat
      BY <1>0, <2>3
    <3> QED
      BY <3>1
  <2> QED
    BY <2>2, <2>4, <2>5, <2>6 DEF Grows
<1>3. CASE Start(i)
  <2>1. runs' = Append(runs, "running")
    BY <1>3 DEF Start
  <2>2. /\ Len(runs') = Len(runs) + 1 /\ DOMAIN runs' = 1 .. Len(runs) + 1
        /\ runs'[Len(runs) + 1] = "running"
        /\ \A k \in DOMAIN runs : runs'[k] = runs[k]
    BY <1>0, <2>1 DEF Status
  <2>3. Written' = Written
    <3>1. \A k \in DOMAIN runs' : k \in DOMAIN runs \/ k = Len(runs) + 1
      BY <1>0, <2>2
    <3>2. \A k \in DOMAIN runs : k \in DOMAIN runs'
      BY <1>0, <2>2
    <3> QED
      BY <2>2, <3>1, <3>2 DEF Written
  <2>4. \A k \in Written : runs'[k] = runs[k]
    BY <2>2 DEF Written
  <2> QED
    BY <1>0, <1>3, <2>2, <2>3, <2>4 DEF Grows
<1>4. CASE Write(i) \/ WriteFails(i) \/ (Kill(i) /\ cycle[i].pc = "scoring")
  <2>1. cycle[i].pc = "scoring"
    BY <1>4 DEF Write, WriteFails
  <2>2. PICK status \in Status : runs' = [runs EXCEPT ![cycle[i].run] = status]
    BY <1>4 DEF Write, WriteFails, Kill, Status
  <2>3. Grows /\ Len(runs') = Len(runs)
    BY <1>2, <2>1, <2>2
  <2> QED
    BY <1>0, <2>3
<1>5. CASE (Kill(i) /\ cycle[i].pc # "scoring") \/ Read(i) \/ ReadFails(i) \/ Post(i) \/ PostFails(i)
  <2>1. runs' = runs
    BY <1>5 DEF Kill, Read, ReadFails, Post, PostFails
  <2> QED
    BY <1>0, <1>1, <2>1
<1> QED
  BY <1>3, <1>4, <1>5 DEF Step

\* Each alert is of one run, so an earlier one of its kind has another last failure.
LEMMA EarlierDiffers ==
    ASSUME Typed, NEW a \in AnyAlert, NEW b \in AnyAlert, a.kind = b.kind, Earlier(a), Newest(b)
    PROVE  a.last # b.last
<1>1. Len(runs) \in Nat /\ Written \in SUBSET Nat
  BY Rows, SomeRows
<1>2. a.last \in Nat /\ b.last \in Nat
  BY DEF AnyAlert
<1>3. CASE a.kind = "failing"
  BY <1>1, <1>2, <1>3 DEF Earlier, Newest
<1>4. CASE a.kind # "failing"
  <2>1. PICK k \in Written : a.last < k /\ k < Len(runs)
    BY <1>4 DEF Earlier
  <2>2. ~(b.last < k)
    BY <1>4, <2>1 DEF Newest
  <2> QED
    BY <2>1, <2>2
<1> QED
  BY <1>3, <1>4

\* An alert sent before the newest row began is of an earlier run.
LEMMA SentEarlier ==
    ASSUME Typed, Typed', NEW alert \in AnyAlert, Accurate(alert), Written' = Written,
           Len(runs') = Len(runs) + 1
    PROVE  Earlier(alert)'
<1>1. Len(runs) \in Nat /\ Written \in SUBSET Nat /\ \A k \in Written : k <= Len(runs)
  BY Rows, SomeRows DEF Written
<1>2. alert.last \in Written /\ alert.kind \in {"failing", "recovered"}
  BY DEF Accurate, AnyAlert
<1>3. \A k \in Written : k < Len(runs')
  <2> SUFFICES ASSUME NEW k \in Written
               PROVE  k < Len(runs) + 1
    OBVIOUS
  <2>1. k \in Nat /\ k <= Len(runs) /\ Len(runs) \in Nat
    BY <1>1
  <2> QED
    BY <2>1
<1>4. CASE alert.kind = "failing"
  BY <1>2, <1>3, <1>4 DEF Earlier
<1>5. CASE alert.kind = "recovered"
  <2>1. PICK k \in Written : k > alert.last
    BY <1>5 DEF Accurate, Ended
  <2>2. k \in Nat /\ alert.last \in Nat
    BY <1>1, <1>2
  <2>3. alert.last < k /\ k < Len(runs') /\ k \in Written'
    BY <1>3, <2>1, <2>2
  <2> QED
    BY <1>5, <2>3 DEF Earlier
<1> QED
  BY <1>2, <1>4, <1>5

LEMMA SerialStep ==
    ASSUME StreakInv, StreakInv', SerialInv, ~overlapping,
           NEW i \in Invocations, Start(i) \/ Step(i) \/ Kill(i)
    PROVE  SerialInv'
<1>0. /\ Typed /\ Typed' /\ Alone
      /\ cycle \in [Invocations -> CycleType] /\ cycle[i] \in CycleType
      /\ Len(runs) \in Nat /\ DOMAIN runs = 1 .. Len(runs)
      /\ DOMAIN runs' = 1 .. Len(runs')
      /\ DOMAIN sent = 1 .. Len(sent) /\ Len(sent) \in Nat
      /\ \A n \in DOMAIN sent : sent[n] \in AnyAlert
  <2>1. Typed /\ Typed' /\ Alone
    BY DEF StreakInv, SerialInv
  <2>2. Len(runs) \in Nat /\ DOMAIN runs = 1 .. Len(runs)
    BY <2>1 DEF Typed
  <2>3. DOMAIN runs' = 1 .. Len(runs')
    BY <2>1 DEF Typed
  <2> QED
    BY <2>1, <2>2, <2>3 DEF Typed
<1>1. Grows /\ Len(runs) <= Len(runs') /\ (~Start(i) => Len(runs') = Len(runs))
  BY <1>0, SerialGrows
<1>2. Idle.pc = "idle"
  BY DEF Idle
<1>3. ASSUME NEW alert \in AnyAlert, Announced(alert)
      PROVE  Accurate(alert)'
  <2>1. Accurate(alert)
    BY <1>3 DEF SerialInv
  <2> QED
    BY <1>0, <1>1, <2>1, StaysAccurate
\* The invocation stops, and nobody is under way.
<1>4. ASSUME cycle[i].pc # "idle", cycle' = [cycle EXCEPT ![i] = Idle], sent' = sent
      PROVE  SerialInv'
  <2>1. \A j \in Invocations : cycle'[j].pc = "idle"
    BY <1>0, <1>2, <1>4 DEF Alone
  <2>2. \A alert \in AnyAlert : Announced(alert)' => Announced(alert)
    BY <1>4, <2>1 DEF Announced
  <2>3. Alone'
    BY <2>1 DEF Alone
  <2>4. OneEach'
    BY <1>4 DEF SerialInv, OneEach
  <2> QED
    BY <1>3, <2>1, <2>2, <2>3, <2>4 DEF SerialInv
<1>5. CASE Start(i)
  <2> DEFINE c == [Idle EXCEPT !.pc = "scoring", !.run = Len(runs) + 1]
  <2>1. /\ \A j \in Invocations : cycle[j].pc = "idle"
        /\ runs' = Append(runs, "running") /\ cycle' = [cycle EXCEPT ![i] = c] /\ sent' = sent
    BY <1>5 DEF Start
  <2>2. c.pc = "scoring" /\ c.run = Len(runs) + 1
    BY DEF Idle
  <2> HIDE DEF c
  <2>3. \A j \in Invocations : cycle'[j] = IF j = i THEN c ELSE cycle[j]
    BY <1>0, <2>1
  <2>4. Len(runs') = Len(runs) + 1 /\ runs'[Len(runs) + 1] = "running"
        /\ \A k \in DOMAIN runs : runs'[k] = runs[k]
    BY <1>0, <2>1 DEF Typed, Status
  <2>5. Written' = Written
    <3>1. \A k \in DOMAIN runs' : k \in DOMAIN runs \/ k = Len(runs) + 1
      BY <1>0, <2>4
    <3>2. \A k \in DOMAIN runs : k \in DOMAIN runs'
      BY <1>0, <2>4
    <3> QED
      BY <2>4, <3>1, <3>2 DEF Written
  <2>6. Len(runs') \in DOMAIN runs'
    BY <1>0, <2>4
  <2>7. Alone'
    BY <2>1, <2>2, <2>3, <2>4, <2>6 DEF Alone
  <2>8. \A alert \in AnyAlert : Announced(alert)' => Announced(alert)
    BY <2>1, <2>2, <2>3 DEF Announced
  <2>9. ASSUME NEW alert \in AnyAlert, Sent(alert)'
        PROVE  Earlier(alert)'
    <3>1. Announced(alert)
      BY <2>1, <2>9 DEF Sent, Announced
    <3>2. Accurate(alert)
      BY <3>1 DEF SerialInv
    <3> QED
      BY <1>0, <2>4, <2>5, <3>2, SentEarlier
  <2>10. \A j \in Invocations : cycle'[j].pc # "posting"
    BY <2>1, <2>2, <2>3
  <2>11. OneEach'
    BY <2>1 DEF SerialInv, OneEach
  <2> QED
    BY <1>3, <2>7, <2>8, <2>9, <2>10, <2>11 DEF SerialInv
<1>6. CASE Write(i)
  <2> DEFINE c == [cycle[i] EXCEPT !.pc = "reading"]
  <2>1. cycle[i].pc = "scoring" /\ cycle' = [cycle EXCEPT ![i] = c] /\ sent' = sent
    BY <1>6 DEF Write
  <2>2. c.pc = "reading" /\ c.run = cycle[i].run
    BY <1>0 DEF CycleType
  <2> HIDE DEF c
  <2>3. \A j \in Invocations : cycle'[j] = IF j = i THEN c ELSE cycle[j]
    BY <1>0, <2>1
  <2>4. cycle[i].run = Len(runs) /\ Len(runs) \in DOMAIN runs
        /\ \A j \in Invocations : j # i => cycle[j].pc = "idle"
    BY <1>0, <2>1 DEF Alone
  <2>5. Len(runs') = Len(runs)
    BY <1>1, <2>1 DEF Start
  <2>6. Len(runs') \in Written'
    <3>1. PICK status \in {"ok", "failed"} : runs' = [runs EXCEPT ![cycle[i].run] = status]
      BY <1>6 DEF Write
    <3>2. runs'[Len(runs)] = status /\ Len(runs) \in DOMAIN runs'
      BY <1>0, <2>4, <3>1 DEF Typed
    <3> QED
      BY <2>5, <3>2 DEF Written
  <2>7. Alone'
    <3>1. Len(runs') \in DOMAIN runs'
      BY <2>6 DEF Written
    <3> QED
      BY <2>2, <2>3, <2>4, <2>5, <2>6, <3>1 DEF Alone
  <2>8. \A alert \in AnyAlert : Announced(alert)' => Announced(alert)
    BY <2>1, <2>2, <2>3 DEF Announced
  <2>9. ASSUME NEW alert \in AnyAlert, Sent(alert)'
        PROVE  Earlier(alert)'
    <3>1. Sent(alert)
      BY <2>1, <2>9 DEF Sent
    <3>2. Earlier(alert)
      BY <2>1, <3>1 DEF SerialInv
    <3> QED
      BY <1>0, <1>1, <3>2, StaysEarlier
  <2>10. \A j \in Invocations : cycle'[j].pc # "posting"
    BY <2>2, <2>3, <2>4
  <2>11. OneEach'
    BY <2>1 DEF SerialInv, OneEach
  <2> QED
    BY <1>3, <2>7, <2>8, <2>9, <2>10, <2>11 DEF SerialInv
<1>7. CASE Read(i)
  <2> DEFINE alert == DecideAlert(RecentRuns)
  <2>0. cycle[i].pc = "reading" /\ runs' = runs /\ sent' = sent
    BY <1>7 DEF Read
  <2>1. CASE alert.kind = "none"
    <3>1. cycle' = [cycle EXCEPT ![i] = Idle]
      BY <1>7, <2>1 DEF Read
    <3> QED
      BY <1>4, <2>0, <3>1
  <2>2. CASE alert.kind # "none"
    <3>1. Len(runs) \in Written /\ cycle[i].run = Len(runs) /\ Len(runs) \in DOMAIN runs
          /\ \A j \in Invocations : j # i => cycle[j].pc = "idle"
      BY <1>0, <2>0 DEF Alone
    <3>2. PICK a \in AnyAlert : a = alert
      <4>1. RecentRuns \in SUBSET DOMAIN runs
        BY DEF RecentRuns, Written
      <4> QED
        BY <1>0, <2>2, <4>1, DecidedBacked
    <3>3. Accurate(a) /\ Newest(a)
      <4>1. Accurate(alert) /\ Newest(alert)
        BY <1>0, <2>2, <3>1, DecidedAccurate
      <4> HIDE DEF alert
      <4> QED
        BY <3>2, <4>1
    <3> DEFINE c == [cycle[i] EXCEPT !.pc = "posting", !.alert = a]
    <3>4. cycle' = [cycle EXCEPT ![i] = c]
      BY <1>7, <2>2, <3>2 DEF Read
    <3> HIDE DEF alert
    <3>5. c.pc = "posting" /\ c.alert = a /\ c.run = cycle[i].run
      BY <1>0 DEF CycleType
    <3> HIDE DEF c
    <3>6. \A j \in Invocations : cycle'[j] = IF j = i THEN c ELSE cycle[j]
      BY <1>0, <3>4
    <3>7. Written' = Written /\ Len(runs') = Len(runs) /\ DOMAIN runs' = DOMAIN runs
      BY <2>0 DEF Written
    <3>8. Alone'
      BY <3>1, <3>5, <3>6, <3>7 DEF Alone
    <3>9. \A b \in AnyAlert : Announced(b)' => b = a \/ Announced(b)
      BY <2>0, <3>5, <3>6 DEF Announced
    <3>10. Accurate(a)'
      BY <1>0, <1>1, <3>3, StaysAccurate
    <3>11. ASSUME NEW b \in AnyAlert, Sent(b)'
           PROVE  Earlier(b)'
      <4>1. Sent(b)
        BY <2>0, <3>11 DEF Sent
      <4>2. Earlier(b)
        BY <2>0, <4>1 DEF SerialInv
      <4> QED
        BY <1>0, <1>1, <4>2, StaysEarlier
    <3>12. Newest(a)'
      BY <3>3, <3>7 DEF Newest
    <3>13. \A j \in Invocations : cycle'[j].pc = "posting" => cycle'[j].alert = a
      BY <3>1, <3>5, <3>6
    <3>14. OneEach'
      BY <2>0 DEF SerialInv, OneEach
    <3> QED
      BY <1>3, <3>8, <3>9, <3>10, <3>11, <3>12, <3>13, <3>14 DEF SerialInv
  <2> QED
    BY <2>1, <2>2
<1>8. CASE Post(i)
  <2> DEFINE alert == cycle[i].alert
  <2>1. /\ cycle[i].pc = "posting" /\ sent' = Append(sent, alert)
        /\ cycle' = [cycle EXCEPT ![i] = Idle]
    BY <1>8 DEF Post
  <2>2. alert \in AnyAlert /\ Announced(alert) /\ Newest(alert)
    <3>1. alert \in AnyAlert
      BY <2>1 DEF StreakInv
    <3> QED
      BY <2>1, <3>1 DEF SerialInv, Announced
  <2> HIDE DEF alert
  <2>3. \A j \in Invocations : cycle'[j].pc = "idle"
    BY <1>0, <1>2, <2>1 DEF Alone
  <2>4. /\ DOMAIN sent' = 1 .. Len(sent) + 1 /\ sent'[Len(sent) + 1] = alert
        /\ \A n \in DOMAIN sent : sent'[n] = sent[n]
    BY <1>0, <2>1, <2>2, AppendProperties DEF Typed
  <2>5. \A n \in DOMAIN sent' : n = Len(sent) + 1 \/ n \in DOMAIN sent
    BY <1>0, <2>4
  <2>6. \A a \in AnyAlert : Announced(a)' => Announced(a)
    BY <2>2, <2>3, <2>4, <2>5 DEF Announced
  <2>7. \A n \in DOMAIN sent : sent[n].kind = alert.kind => sent[n].last # alert.last
    <3> SUFFICES ASSUME NEW n \in DOMAIN sent, sent[n].kind = alert.kind
                 PROVE  sent[n].last # alert.last
      OBVIOUS
    <3>1. sent[n] \in AnyAlert /\ Sent(sent[n])
      BY <1>0 DEF Sent
    <3>2. Earlier(sent[n])
      BY <2>1, <3>1 DEF SerialInv
    <3> QED
      BY <1>0, <2>2, <3>1, <3>2, EarlierDiffers
  <2>8. OneEach'
    BY <2>4, <2>5, <2>7 DEF SerialInv, OneEach
  <2>9. Alone'
    BY <2>3 DEF Alone
  <2> QED
    BY <1>3, <2>3, <2>6, <2>8, <2>9 DEF SerialInv
<1>9. CASE WriteFails(i) \/ ReadFails(i) \/ PostFails(i) \/ Kill(i)
  BY <1>4, <1>9 DEF WriteFails, ReadFails, PostFails, Kill
<1> QED
  BY <1>5, <1>6, <1>7, <1>8, <1>9 DEF Step

\* Two alerts of a kind that end at different failures share none: the later one would
\* count past its threshold, or span the run that ended the earlier one's streak.
LEMMA Apart ==
    ASSUME Typed, NEW a \in AnyAlert, NEW b \in AnyAlert, a.kind = b.kind,
           Accurate(a), Accurate(b), a.last < b.last
    PROVE  Spanned(a) \cap Spanned(b) = {}
<1> SUFFICES ASSUME NEW r \in Spanned(a) \cap Spanned(b)
             PROVE  FALSE
  OBVIOUS
<1>1. /\ a.first \in Nat /\ a.last \in Nat /\ b.first \in Nat /\ b.last \in Nat
      /\ a.kind \in {"failing", "recovered"}
  BY DEF AnyAlert
<1>2. /\ a.first \in Written /\ a.last \in Written /\ b.first \in Written /\ b.last \in Written
      /\ a.first <= a.last /\ b.first <= b.last
      /\ \A k \in Written : k \in a.first .. a.last => runs[k] = "failed"
      /\ \A k \in Written : k \in b.first .. b.last => runs[k] = "failed"
  BY DEF Accurate
<1>3. r \in Nat /\ a.first <= r /\ r <= a.last /\ b.first <= r /\ r <= b.last
  BY <1>1 DEF Spanned
<1>4. Written \in SUBSET Nat /\ DOMAIN runs = 1 .. Len(runs) /\ Len(runs) \in Nat
  BY SomeRows, Rows
\* Nothing failed just before a streak begins.
<1>5. ASSUME NEW f \in Written, NEW g \in Written, Begins(g), f < g
      PROVE  \E k \in Written : f <= k /\ k < g /\ runs[k] = "ok"
  <2> DEFINE before == {k \in Written : k < g}
  <2>1. before \in SUBSET DOMAIN runs /\ f \in before
    BY <1>5 DEF Written
  <2>2. Max(before) \in before /\ f <= Max(before)
    BY <2>1, ExtremeRows
  <2>3. runs[Max(before)] = "ok"
    BY <1>5, <2>1 DEF Begins
  <2> QED
    BY <2>2, <2>3
<1>6. CASE a.kind = "failing"
  <2>1. Begins(a.first) /\ Begins(b.first) /\ b.count = Threshold /\ a.count = Threshold
        /\ a.count = Cardinality(Spanned(a)) /\ b.count = Cardinality(Spanned(b))
    BY <1>6 DEF Accurate
  <2>2. ~(b.first < a.first)
    <3> SUFFICES ASSUME b.first < a.first
                 PROVE  FALSE
      OBVIOUS
    <3>1. PICK k \in Written : b.first <= k /\ k < a.first /\ runs[k] = "ok"
      BY <1>2, <1>5, <2>1
    <3>2. k \in b.first .. b.last
      BY <1>1, <1>3, <1>4, <3>1
    <3> QED
      BY <1>2, <3>1, <3>2
  <2>3. ~(a.first < b.first)
    <3> SUFFICES ASSUME a.first < b.first
                 PROVE  FALSE
      OBVIOUS
    <3>1. PICK k \in Written : a.first <= k /\ k < b.first /\ runs[k] = "ok"
      BY <1>2, <1>5, <2>1
    <3>2. k \in a.first .. a.last
      BY <1>1, <1>3, <1>4, <3>1
    <3> QED
      BY <1>2, <3>1, <3>2
  <2>4. a.first = b.first
    BY <1>1, <2>2, <2>3
  <2>5. b.last \in Spanned(b) /\ b.last \notin Spanned(a)
    BY <1>1, <1>2 DEF Spanned
  <2>6. Spanned(a) \subseteq Spanned(b) \ {b.last}
    <3>1. \A k \in a.first .. a.last : k \in b.first .. b.last /\ k # b.last
      BY <1>1, <2>4
    <3> QED
      BY <3>1 DEF Spanned
  <2>7. IsFiniteSet(Spanned(b)) /\ Cardinality(Spanned(b)) \in Nat
    <3>1. IsFiniteSet(b.first .. b.last)
      BY <1>1, FS_Interval
    <3>2. Spanned(b) \in SUBSET (b.first .. b.last)
      BY DEF Spanned
    <3> QED
      BY <3>1, <3>2, FS_Subset, FS_CardinalityType
  <2>8. IsFiniteSet(Spanned(b) \ {b.last})
        /\ Cardinality(Spanned(b) \ {b.last}) = Cardinality(Spanned(b)) - 1
    BY <2>5, <2>7, FS_RemoveElement
  <2>9. Cardinality(Spanned(a)) <= Cardinality(Spanned(b) \ {b.last})
    BY <2>6, <2>8, FS_Subset
  <2> QED
    BY <2>1, <2>7, <2>8, <2>9
<1>7. CASE a.kind = "recovered"
  <2>1. PICK k \in Written : Ended(a.last, k)
    BY <1>7 DEF Accurate
  <2>2. k > a.last /\ runs[k] = "ok" /\ \A m \in Written : m > a.last => m >= k
    BY <2>1 DEF Ended
  <2>3. k \in Nat /\ b.last >= k
    BY <1>1, <1>2, <1>4, <2>2
  <2>4. k \in b.first .. b.last
    BY <1>1, <1>3, <2>2, <2>3
  <2> QED
    BY <1>2, <2>2, <2>4
<1> QED
  BY <1>1, <1>6, <1>7

LEMMA SerialInvariant == Spec => [](StreakInv /\ (~overlapping => SerialInv))
<1>1. Init => StreakInv /\ (~overlapping => SerialInv)
  <2> SUFFICES ASSUME Init
               PROVE  StreakInv /\ SerialInv
    OBVIOUS
  <2>1. (\A i \in Invocations : cycle[i].pc = "idle") /\ sent = <<>>
    BY DEF Init, Idle
  <2>2. SerialInv
    BY <2>1 DEF SerialInv, Alone, Announced, Sent, OneEach
  <2> QED
    BY <2>2, InitStreak
<1>2. StreakInv /\ (~overlapping => SerialInv) /\ [Next]_vars
        => StreakInv' /\ (~overlapping => SerialInv)'
  <2> SUFFICES ASSUME StreakInv, ~overlapping => SerialInv, [Next]_vars
               PROVE  StreakInv' /\ (~overlapping => SerialInv)'
    OBVIOUS
  <2>1. StreakInv'
    BY StepStreak
  <2>2. CASE UNCHANGED vars
    <3>1. /\ runs' = runs /\ cycle' = cycle /\ sent' = sent /\ overlapping' = overlapping
          /\ Written' = Written /\ StreakWindow' = StreakWindow
      BY <2>2 DEF vars, Written, StreakWindow
    <3>2. Alone' <=> Alone
      BY <3>1 DEF Alone
    <3>3. ASSUME NEW alert \in AnyAlert
          PROVE  /\ Announced(alert)' <=> Announced(alert)
                 /\ Sent(alert)' <=> Sent(alert)
                 /\ Earlier(alert)' <=> Earlier(alert)
                 /\ Newest(alert)' <=> Newest(alert)
      BY <3>1 DEF Announced, Sent, Earlier, Newest
    <3>4. ASSUME NEW alert \in AnyAlert
          PROVE  Accurate(alert)' <=> Accurate(alert)
      <4>1. Begins(alert.first)' <=> Begins(alert.first)
        BY <3>1 DEF Begins
      <4>2. \A k \in Written : Ended(alert.last, k)' <=> Ended(alert.last, k)
        BY <3>1 DEF Ended
      <4>3. Spanned(alert)' = Spanned(alert)
        BY <3>1 DEF Spanned
      <4> QED
        BY <3>1, <4>1, <4>2, <4>3 DEF Accurate
    <3>5. OneEach' <=> OneEach
      BY <3>1 DEF OneEach
    <3> QED
      BY <2>1, <3>1, <3>2, <3>3, <3>4, <3>5 DEF SerialInv
  <2>3. ASSUME NEW i \in Invocations, Start(i) \/ Step(i) \/ Kill(i)
        PROVE  (~overlapping => SerialInv)'
    <3>1. overlapping' = overlapping
      BY <2>3 DEF Start, Step, Kill, Write, WriteFails, Read, ReadFails, Post, PostFails
    <3> QED
      BY <2>1, <2>3, <3>1, SerialStep
  <2> QED
    BY <2>1, <2>2, <2>3 DEF Next, Exhausted
<1> QED
  BY <1>1, <1>2, PTL DEF Spec

\* For any threshold, window and faults, as long as cycles do not overlap: nothing but
\* failures lies in an alert's span, its count is theirs, and a count that decideAlert
\* calls exact is of the whole streak.
THEOREM FiguresAreTheTables == Spec => []SerialAlertsAccurate
<1>1. StreakInv /\ (~overlapping => SerialInv) => SerialAlertsAccurate
  <2> SUFFICES ASSUME StreakInv, ~overlapping, SerialInv, NEW n \in DOMAIN sent
               PROVE  LET alert  == sent[n]
                          before == {k \in Written : k < alert.first}
                      IN  /\ \A k \in Written : k \in alert.first .. alert.last => runs[k] = "failed"
                          /\ alert.count = Cardinality(Spanned(alert))
                          /\ alert.exact => before = {} \/ runs[Max(before)] = "ok"
                          /\ ~alert.exact => alert.count = StreakWindow - 1
    BY DEF SerialAlertsAccurate
  <2>1. sent[n] \in AnyAlert /\ Announced(sent[n])
    BY DEF StreakInv, Typed, Announced
  <2>2. Accurate(sent[n])
    BY <2>1 DEF SerialInv
  <2> QED
    BY <2>2 DEF Accurate, Begins
<1> QED
  BY <1>1, SerialInvariant, PTL

\* For any threshold, window and faults, as long as cycles do not overlap: no failed run is
\* in two alerts of the same kind, whichever reads, posts and invocations are lost.
THEOREM OutagesAreAnnouncedOnce == Spec => []SerialOncePerOutage
<1>1. StreakInv /\ (~overlapping => SerialInv) => SerialOncePerOutage
  <2> SUFFICES ASSUME StreakInv, ~overlapping, SerialInv,
                      NEW m \in DOMAIN sent, NEW n \in DOMAIN sent,
                      m # n, sent[m].kind = sent[n].kind
               PROVE  Spanned(sent[m]) \cap Spanned(sent[n]) = {}
    BY DEF SerialOncePerOutage
  <2>1. \A x \in DOMAIN sent : sent[x] \in AnyAlert /\ Announced(sent[x])
    BY DEF StreakInv, Typed, Announced
  <2>2. Typed /\ Accurate(sent[m]) /\ Accurate(sent[n])
    BY <2>1 DEF StreakInv, SerialInv
  <2>3. sent[m].last \in Nat /\ sent[n].last \in Nat
    BY <2>1 DEF AnyAlert
  <2>4. sent[m].last # sent[n].last
    BY DEF SerialInv, OneEach
  <2>5. CASE sent[m].last < sent[n].last
    BY <2>1, <2>2, <2>5, Apart
  <2>6. CASE sent[n].last < sent[m].last
    BY <2>1, <2>2, <2>6, Apart
  <2> QED
    BY <2>3, <2>4, <2>5, <2>6
<1> QED
  BY <1>1, SerialInvariant, PTL

--------------------------------------------------------------------------------
(* One cycle at a time and no fault: OutageMonitor.                        *)

\* The newest rows of a set show its streak, unless they all failed; then, if they are
\* more than a threshold, so is the streak.
LEMMA NewestShowStreak ==
    ASSUME Typed, NEW Y \in SUBSET Written, NEW X \in SUBSET Y,
           \A k \in X, m \in Y : m >= k => m \in X,
           X = Y \/ Cardinality(X) > Threshold
    PROVE  \/ LeadingFailures(X) = LeadingFailures(Y)
           \/ /\ Cardinality(LeadingFailures(X)) > Threshold
              /\ Cardinality(LeadingFailures(Y)) > Threshold
<1>1. /\ LeadingFailures(X) = {k \in X : \A m \in X : m >= k => runs[m] = "failed"}
      /\ LeadingFailures(Y) = {k \in Y : \A m \in Y : m >= k => runs[m] = "failed"}
  BY DEF LeadingFailures
<1>2. Y \in SUBSET Nat /\ IsFiniteSet(Y) /\ Cardinality(Y) \in Nat
  BY SomeRows
<1>3. LeadingFailures(X) \subseteq LeadingFailures(Y)
  BY <1>1
<1>4. CASE LeadingFailures(X) # X
  <2>1. PICK p \in X : p \notin LeadingFailures(X)
    BY <1>1, <1>4
  <2>2. PICK bad \in X : runs[bad] # "failed"
    BY <1>1, <2>1
  <2>3. ASSUME NEW k \in LeadingFailures(Y)
        PROVE  k \in LeadingFailures(X)
    <3>1. k \in Y /\ \A m \in Y : m >= k => runs[m] = "failed"
      BY <1>1
    <3>2. k \in Nat /\ bad \in Nat
      BY <1>2, <3>1
    <3>3. k \in X
      <4>1. ~(bad >= k)
        BY <2>2, <3>1
      <4>2. k >= bad
        BY <3>2, <4>1
      <4> QED
        BY <3>1, <4>2
    <3> QED
      BY <1>1, <3>1, <3>3
  <2> QED
    BY <1>3, <2>3
<1>5. CASE LeadingFailures(X) = X /\ X # Y
  <2>1. Threshold \in Nat /\ Cardinality(X) > Threshold
    BY <1>5, StreakAssumption
  <2>2. LeadingFailures(Y) \in SUBSET Y
    BY <1>1
  <2>3. IsFiniteSet(LeadingFailures(Y)) /\ Cardinality(LeadingFailures(Y)) \in Nat
    BY <1>2, <2>2, FS_Subset, FS_CardinalityType
  <2>4. Cardinality(X) <= Cardinality(LeadingFailures(Y)) /\ Cardinality(X) \in Nat
    BY <1>3, <1>5, <2>3, FS_Subset, FS_CardinalityType
  <2> QED
    BY <1>5, <2>1, <2>3, <2>4
<1> QED
  BY <1>4, <1>5

\* The window is wide enough: what decideAlert makes of it, it would make of the table.
LEMMA DecidedKind ==
    Typed /\ Len(runs) \in Written =>
      DecideAlert(RecentRuns).kind =
        IF runs[Len(runs)] = "failed"
        THEN IF Cardinality(LeadingFailures(Written)) = Threshold THEN "failing" ELSE "none"
        ELSE IF Cardinality(LeadingFailures(Written \ {Len(runs)})) >= Threshold
             THEN "recovered" ELSE "none"
<1> SUFFICES ASSUME Typed, Len(runs) \in Written
             PROVE  DecideAlert(RecentRuns).kind =
                      IF runs[Len(runs)] = "failed"
                      THEN IF Cardinality(LeadingFailures(Written)) = Threshold
                           THEN "failing" ELSE "none"
                      ELSE IF Cardinality(LeadingFailures(Written \ {Len(runs)})) >= Threshold
                           THEN "recovered" ELSE "none"
  OBVIOUS
<1> DEFINE newest  == Max(RecentRuns)
           prior   == RecentRuns \ {newest}
           older   == Written \ {newest}
<1>1. /\ RecentRuns \in SUBSET Written /\ Written \in SUBSET Nat /\ RecentRuns \in SUBSET DOMAIN runs
      /\ Len(runs) \in Nat /\ \A k \in Written : k <= Len(runs)
      /\ IsFiniteSet(RecentRuns) /\ Cardinality(RecentRuns) \in Nat
      /\ IsFiniteSet(Written)
  <2>1. Len(runs) \in Nat /\ DOMAIN runs = 1 .. Len(runs)
    BY Rows
  <2>2. RecentRuns \in SUBSET Written /\ Written \in SUBSET Nat /\ Written \in SUBSET DOMAIN runs
    BY WindowOfNewest, SomeRows
  <2>3. IsFiniteSet(RecentRuns) /\ Cardinality(RecentRuns) \in Nat /\ IsFiniteSet(Written)
    BY <2>2, SomeRows
  <2> QED
    BY <2>1, <2>2, <2>3
<1>2. Threshold \in Nat /\ Threshold > 0 /\ StreakWindow \in Nat /\ StreakWindow >= Threshold + 2
  BY StreakAssumption, WindowType
<1>3. Len(runs) \in RecentRuns
  <2>1. {m \in Written : m > Len(runs)} = {}
    <3>1. \A m \in Written : ~(m > Len(runs))
      <4> SUFFICES ASSUME NEW m \in Written
                   PROVE  ~(m > Len(runs))
        OBVIOUS
      <4>1. m \in Nat /\ Len(runs) \in Nat /\ m <= Len(runs)
        BY <1>1
      <4> QED
        BY <4>1
    <3> QED
      BY <3>1
  <2>2. 0 < StreakWindow
    BY <1>2
  <2> QED
    BY <2>1, <2>2, FS_EmptySet DEF RecentRuns
<1>4. newest = Len(runs)
  <2>1. newest \in RecentRuns /\ \A k \in RecentRuns : k <= newest
    BY <1>1, <1>3, ExtremeRows
  <2>2. newest <= Len(runs) /\ Len(runs) <= newest /\ newest \in Nat
    BY <1>1, <1>3, <2>1
  <2> QED
    BY <1>1, <2>2
<1> HIDE DEF newest
<1>5. RecentRuns = Written \/ Cardinality(RecentRuns) >= Threshold + 2
  BY <1>1, <1>2, WindowOfNewest
<1>6. \/ LeadingFailures(RecentRuns) = LeadingFailures(Written)
      \/ /\ Cardinality(LeadingFailures(RecentRuns)) > Threshold
         /\ Cardinality(LeadingFailures(Written)) > Threshold
  <2>1. RecentRuns = Written \/ Cardinality(RecentRuns) > Threshold
    BY <1>1, <1>2, <1>5
  <2> QED
    BY <1>1, <2>1, NewestShowStreak, WindowOfNewest
<1>7. \/ LeadingFailures(prior) = LeadingFailures(older)
      \/ /\ Cardinality(LeadingFailures(prior)) > Threshold
         /\ Cardinality(LeadingFailures(older)) > Threshold
  <2>1. newest \in RecentRuns
    BY <1>3, <1>4
  <2>2. Cardinality(prior) = Cardinality(RecentRuns) - 1
    BY <1>1, <2>1, FS_RemoveElement
  <2>3. prior = older \/ Cardinality(prior) > Threshold
    <3>1. RecentRuns = Written => prior = older
      OBVIOUS
    <3> HIDE DEF prior, older
    <3> QED
      BY <1>1, <1>2, <1>5, <2>2, <3>1
  <2>4. older \in SUBSET Written /\ prior \in SUBSET older
    BY <1>1
  <2>5. \A k \in prior, m \in older : m >= k => m \in prior
    BY WindowOfNewest
  <2> QED
    BY <2>3, <2>4, <2>5, NewestShowStreak
<1>8. Typed => \A X \in SUBSET Written : Cardinality(LeadingFailures(X)) \in Nat
  <2> SUFFICES ASSUME NEW X \in SUBSET Written
               PROVE  Cardinality(LeadingFailures(X)) \in Nat
    OBVIOUS
  <2>1. LeadingFailures(X) \in SUBSET Written
    BY DEF LeadingFailures
  <2> QED
    BY <2>1, SomeRows
<1>9. Cardinality(LeadingFailures(RecentRuns)) = Threshold
        <=> Cardinality(LeadingFailures(Written)) = Threshold
  BY <1>1, <1>2, <1>6, <1>8
<1>10. Cardinality(LeadingFailures(prior)) >= Threshold
         <=> Cardinality(LeadingFailures(older)) >= Threshold
  <2>1. prior \in SUBSET Written /\ older \in SUBSET Written
    BY <1>1
  <2>2. Cardinality(LeadingFailures(prior)) \in Nat /\ Cardinality(LeadingFailures(older)) \in Nat
    BY <1>8, <2>1
  <2> HIDE DEF prior, older
  <2> QED
    BY <1>2, <1>7, <2>2
<1>11. DecideAlert(RecentRuns).kind =
         IF runs[newest] = "failed"
         THEN IF Cardinality(LeadingFailures(RecentRuns)) = Threshold THEN "failing" ELSE "none"
         ELSE IF Cardinality(LeadingFailures(prior)) >= Threshold THEN "recovered" ELSE "none"
  <2>1. RecentRuns # {}
    BY <1>3
  <2>2. /\ NoAlert.kind = "none"
        /\ \A S, e : /\ BuildAlert("failing", S, e).kind = "failing"
                     /\ BuildAlert("recovered", S, e).kind = "recovered"
    BY DEF NoAlert, BuildAlert
  <2> QED
    BY <2>1, <2>2 DEF DecideAlert, newest
<1> QED
  BY <1>4, <1>9, <1>10, <1>11

\* What OutageMonitor's variables stand for.
Failing == Cardinality(LeadingFailures(Written))
Told == IF sent # <<>> /\ sent[Len(sent)].kind = "failing" THEN "down" ELSE "up"

\* What is owed is what the one invocation under way owes.
OneOwes ==
    \A i \in Invocations :
      (\A j \in Invocations : j # i => cycle[j].pc = "idle") =>
        Owed = IF cycle[i].pc = "reading" THEN DecideAlert(RecentRuns).kind
               ELSE IF cycle[i].pc = "posting" THEN cycle[i].alert.kind
               ELSE "none"

LEMMA OwedByOne == OneOwes
<1> USE DEF OneOwes
<1> SUFFICES ASSUME NEW i \in Invocations, \A j \in Invocations : j # i => cycle[j].pc = "idle"
             PROVE  Owed = IF cycle[i].pc = "reading" THEN DecideAlert(RecentRuns).kind
                           ELSE IF cycle[i].pc = "posting" THEN cycle[i].alert.kind
                           ELSE "none"
  OBVIOUS
<1>1. CASE cycle[i].pc = "reading"
  BY <1>1 DEF Owed
<1>2. CASE cycle[i].pc = "posting"
  <2>1. (CHOOSE j \in Invocations : cycle[j].pc = "posting") = i
    BY <1>2
  <2> QED
    BY <1>2, <2>1 DEF Owed
<1>3. CASE cycle[i].pc \notin {"reading", "posting"}
  BY <1>3 DEF Owed
<1> QED
  BY <1>1, <1>2, <1>3

\* A written run adds to the streak or ends it.
LEMMA StreakGoesOn ==
    ASSUME Typed, Typed', Len(runs) \in Nat, Len(runs) \notin Written, Len(runs') = Len(runs),
           Written' = Written \cup {Len(runs)}, \A k \in Written : runs'[k] = runs[k]
    PROVE  /\ runs'[Len(runs)] = "failed" => Failing' = Failing + 1
           /\ runs'[Len(runs)] # "failed" => Failing' = 0
           /\ Cardinality(LeadingFailures(Written \ {Len(runs)}))' = Failing
<1> DEFINE n == Len(runs)
           S == {k \in Written : \A m \in Written : m >= k => runs[m] = "failed"}
           T == {k \in Written' : \A m \in Written' : m >= k => runs'[m] = "failed"}
<1>1. LeadingFailures(Written) = S /\ LeadingFailures(Written)' = T
  BY DEF LeadingFailures
<1>2. Written \in SUBSET Nat /\ IsFiniteSet(Written) /\ \A k \in Written : k < n
  <2>1. Written \in SUBSET Nat /\ IsFiniteSet(Written) /\ DOMAIN runs = 1 .. n
    BY SomeRows, Rows
  <2>2. \A k \in Written : k \in 1 .. n /\ k # n
    BY <2>1 DEF Written
  <2> QED
    BY <2>1, <2>2
<1>3. \A k \in Written : k \in Nat /\ n >= k /\ ~(k >= n)
  <2> SUFFICES ASSUME NEW k \in Written
               PROVE  k \in Nat /\ n >= k /\ ~(k >= n)
    OBVIOUS
  <2>1. k \in Nat /\ k < n /\ n \in Nat
    BY <1>2
  <2> QED
    BY <2>1
<1>4. S \in SUBSET Written /\ IsFiniteSet(S) /\ n \notin S
  <2>1. S \in SUBSET Written
    OBVIOUS
  <2> QED
    BY <1>2, <2>1, FS_Subset
<1>5. n >= n
  OBVIOUS
<1> HIDE DEF n
<1>6. Len(runs) = n /\ Written' = Written \cup {n}
  BY DEF n
<1>7. ASSUME runs'[n] = "failed"
      PROVE  T = S \cup {n}
  BY <1>3, <1>5, <1>6, <1>7
<1>8. ASSUME runs'[n] # "failed"
      PROVE  T = {}
  BY <1>3, <1>5, <1>6, <1>8
<1>9. Cardinality(LeadingFailures(Written \ {Len(runs)}))' = Cardinality(S)
  <2>1. (Written \ {Len(runs)})' = Written
    BY <1>3, <1>6
  <2>2. LeadingFailures(Written \ {Len(runs)})' =
          {k \in Written : \A m \in Written : m >= k => runs'[m] = "failed"}
    BY <2>1 DEF LeadingFailures
  <2>3. LeadingFailures(Written \ {Len(runs)})' = S
    BY <2>2
  <2> QED
    BY <2>3
<1> HIDE DEF S, T
<1>10. runs'[n] = "failed" => Cardinality(T) = Cardinality(S) + 1
  BY <1>4, <1>7, FS_AddElement
<1>11. runs'[n] # "failed" => Cardinality(T) = 0
  BY <1>8, FS_EmptySet
<1> QED
  BY <1>1, <1>6, <1>9, <1>10, <1>11 DEF Failing

LEMMA MonitorStep ==
    ASSUME Faults = {}, StreakInv, StreakInv', SerialInv, SerialInv', ~overlapping, [Next]_vars
    PROVE  [Monitor!Next]_(Monitor!vars)
<1>0. /\ Typed /\ Typed' /\ Alone /\ Alone'
      /\ cycle \in [Invocations -> CycleType]
      /\ Len(runs) \in Nat /\ DOMAIN runs = 1 .. Len(runs)
  <2>1. Typed /\ Typed' /\ Alone /\ Alone'
    BY DEF StreakInv, SerialInv
  <2>2. Len(runs) \in Nat /\ DOMAIN runs = 1 .. Len(runs)
    BY <2>1 DEF Typed
  <2> QED
    BY <2>1, <2>2 DEF Typed
<1>1. ASSUME Failing' = Failing, Owed' = Owed, Told' = Told
      PROVE  [Monitor!Next]_(Monitor!vars)
  BY <1>1 DEF Monitor!vars, Failing, Told
<1>2. ASSUME runs' = runs
      PROVE  Failing' = Failing
  BY <1>2 DEF Failing, LeadingFailures, Written
<1>3. ASSUME NEW i \in Invocations, cycle[i].pc # "idle"
      PROVE  Owed = IF cycle[i].pc = "reading" THEN DecideAlert(RecentRuns).kind
                    ELSE IF cycle[i].pc = "posting" THEN cycle[i].alert.kind
                    ELSE "none"
  BY <1>0, <1>3, OwedByOne DEF Alone, OneOwes
<1>4. ASSUME NEW i \in Invocations, cycle'[i].pc # "idle"
      PROVE  Owed' = IF cycle'[i].pc = "reading" THEN DecideAlert(RecentRuns)'.kind
                     ELSE IF cycle'[i].pc = "posting" THEN cycle'[i].alert.kind
                     ELSE "none"
  <2>1. OneOwes'
    BY OwedByOne, PTL
  <2>2. \A j \in Invocations : j # i => cycle'[j].pc = "idle"
    BY <1>0, <1>4 DEF Alone
  <2> QED
    BY <2>1, <2>2 DEF OneOwes
<1>5. ASSUME \A i \in Invocations : cycle[i].pc = "idle"
      PROVE  Owed = "none"
  BY <1>5 DEF Owed
<1>6. ASSUME \A i \in Invocations : cycle'[i].pc = "idle"
      PROVE  Owed' = "none"
  BY <1>6 DEF Owed
<1>7. ASSUME NEW i \in Invocations, Start(i)
      PROVE  [Monitor!Next]_(Monitor!vars)
  <2> DEFINE c == [Idle EXCEPT !.pc = "scoring", !.run = Len(runs) + 1]
  <2>1. /\ \A j \in Invocations : cycle[j].pc = "idle"
        /\ runs' = Append(runs, "running") /\ cycle' = [cycle EXCEPT ![i] = c] /\ sent' = sent
    BY <1>7 DEF Start
  <2>2. c.pc = "scoring"
    BY DEF Idle
  <2> HIDE DEF c
  <2>3. cycle'[i].pc = "scoring"
    BY <1>0, <2>1, <2>2
  <2>4. Owed = "none" /\ Owed' = "none"
    BY <1>4, <1>5, <2>1, <2>3
  <2>5. Written' = Written /\ \A k \in Written : runs'[k] = runs[k]
    <3>1. /\ \A k \in DOMAIN runs : runs'[k] = runs[k] /\ k \in DOMAIN runs'
          /\ DOMAIN runs' = DOMAIN runs \cup {Len(runs) + 1}
          /\ runs'[Len(runs) + 1] = "running"
      BY <1>0, <2>1 DEF Typed, Status
    <3> QED
      BY <3>1 DEF Written
  <2>6. Failing' = Failing
    BY <2>5 DEF Failing, LeadingFailures
  <2>7. Told' = Told
    BY <2>1 DEF Told
  <2> QED
    BY <1>1, <2>4, <2>6, <2>7
<1>8. ASSUME NEW i \in Invocations, Write(i)
      PROVE  [Monitor!Next]_(Monitor!vars)
  <2> DEFINE n == Len(runs)
             c == [cycle[i] EXCEPT !.pc = "reading"]
  <2>1. cycle[i].pc = "scoring" /\ cycle' = [cycle EXCEPT ![i] = c] /\ sent' = sent
    BY <1>8 DEF Write
  <2>2. cycle'[i].pc = "reading"
    <3>1. c.pc = "reading"
      BY <1>0 DEF CycleType
    <3> HIDE DEF c
    <3> QED
      BY <1>0, <2>1, <3>1
  <2>3. cycle[i].run = n /\ n \in DOMAIN runs /\ runs[n] = "running"
    BY <1>0, <2>1 DEF Alone, StreakInv, OwnRun
  <2>4. PICK status \in {"ok", "failed"} : runs' = [runs EXCEPT ![n] = status]
    BY <1>8, <2>3 DEF Write
  <2>5. /\ Len(runs') = n /\ DOMAIN runs' = DOMAIN runs /\ runs'[n] = status
        /\ \A k \in DOMAIN runs : k # n => runs'[k] = runs[k]
    BY <1>0, <2>3, <2>4 DEF Typed
  <2>6. n \notin Written /\ \A k \in Written : k # n /\ k \in DOMAIN runs
    BY <2>3 DEF Written
  <2>7. Written' = Written \cup {n} /\ \A k \in Written : runs'[k] = runs[k]
    BY <2>3, <2>5, <2>6 DEF Written
  <2>8. /\ runs'[n] = "failed" => Failing' = Failing + 1
        /\ runs'[n] # "failed" => Failing' = 0
        /\ Cardinality(LeadingFailures(Written \ {Len(runs)}))' = Failing
    BY <1>0, <2>5, <2>6, <2>7, StreakGoesOn
  <2>9. Owed = "none" /\ Owed' = DecideAlert(RecentRuns)'.kind
    BY <1>3, <1>4, <2>1, <2>2
  <2>10. (Typed /\ Len(runs) \in Written =>
            DecideAlert(RecentRuns).kind =
              IF runs[Len(runs)] = "failed"
              THEN IF Cardinality(LeadingFailures(Written)) = Threshold THEN "failing" ELSE "none"
              ELSE IF Cardinality(LeadingFailures(Written \ {Len(runs)})) >= Threshold
                   THEN "recovered" ELSE "none")'
    BY DecidedKind, PTL
  <2>11. (DecideAlert(RecentRuns).kind)' =
           IF status = "failed" THEN IF Failing' = Threshold THEN "failing" ELSE "none"
           ELSE IF Failing >= Threshold THEN "recovered" ELSE "none"
    BY <1>0, <2>5, <2>7, <2>8, <2>10 DEF Failing
  <2>12. Told' = Told
    BY <2>1 DEF Told
  <2>13. CASE status = "failed"
    <3>1. Failing' = Failing + 1 /\ Owed' = IF Failing + 1 = Threshold THEN "failing" ELSE "none"
      BY <2>5, <2>8, <2>9, <2>11, <2>13
    <3>2. Monitor!Fail
      BY <2>9, <2>12, <3>1 DEF Monitor!Fail, Failing, Told
    <3> QED
      BY <3>2 DEF Monitor!Next
  <2>14. CASE status = "ok"
    <3>1. Failing' = 0 /\ Owed' = IF Failing >= Threshold THEN "recovered" ELSE "none"
      BY <2>5, <2>8, <2>9, <2>11, <2>14
    <3>2. Monitor!Succeed
      BY <2>9, <2>12, <3>1 DEF Monitor!Succeed, Failing, Told
    <3> QED
      BY <3>2 DEF Monitor!Next
  <2> QED
    BY <2>13, <2>14
<1>9. ASSUME NEW i \in Invocations, Read(i)
      PROVE  [Monitor!Next]_(Monitor!vars)
  <2> DEFINE alert == DecideAlert(RecentRuns)
  <2>1. cycle[i].pc = "reading" /\ runs' = runs /\ sent' = sent
    BY <1>9 DEF Read
  <2>2. Owed = alert.kind
    BY <1>3, <2>1
  <2>3. Owed' = alert.kind
    <3>1. CASE alert.kind = "none"
      <4>1. cycle' = [cycle EXCEPT ![i] = Idle]
        BY <1>9, <3>1 DEF Read
      <4>2. \A j \in Invocations : cycle'[j].pc = "idle"
        BY <1>0, <2>1, <4>1 DEF Alone, Idle
      <4> QED
        BY <1>6, <3>1, <4>2
    <3>2. CASE alert.kind # "none"
      <4> DEFINE c == [cycle[i] EXCEPT !.pc = "posting", !.alert = alert]
      <4>1. cycle' = [cycle EXCEPT ![i] = c]
        BY <1>9, <3>2 DEF Read
      <4> HIDE DEF alert
      <4>2. c.pc = "posting" /\ c.alert = alert
        BY <1>0 DEF CycleType
      <4> HIDE DEF c
      <4>3. cycle'[i] = c
        BY <1>0, <4>1
      <4> QED
        BY <1>4, <4>2, <4>3
    <3> QED
      BY <3>1, <3>2
  <2>4. Failing' = Failing /\ Told' = Told
    BY <1>2, <2>1 DEF Told
  <2> QED
    BY <1>1, <2>2, <2>3, <2>4
<1>10. ASSUME NEW i \in Invocations, Post(i)
       PROVE  [Monitor!Next]_(Monitor!vars)
  <2> DEFINE alert == cycle[i].alert
  <2>1. /\ cycle[i].pc = "posting" /\ sent' = Append(sent, alert) /\ runs' = runs
        /\ cycle' = [cycle EXCEPT ![i] = Idle]
    BY <1>10 DEF Post
  <2>2. alert \in AnyAlert
    BY <2>1 DEF StreakInv
  <2>3. Owed = alert.kind /\ alert.kind \in {"failing", "recovered"}
    BY <1>3, <2>1, <2>2 DEF AnyAlert
  <2>4. \A j \in Invocations : cycle'[j].pc = "idle"
    BY <1>0, <2>1 DEF Alone, Idle
  <2> HIDE DEF alert
  <2>5. Len(sent') = Len(sent) + 1 /\ sent'[Len(sent')] = alert /\ sent' # <<>>
    BY <1>0, <2>1, <2>2, AppendProperties DEF Typed
  <2>6. Owed' = "none" /\ Failing' = Failing
        /\ Told' = IF Owed = "failing" THEN "down" ELSE "up"
    BY <1>2, <1>6, <2>1, <2>3, <2>4, <2>5 DEF Told
  <2>7. Monitor!Tell
    BY <2>3, <2>6 DEF Monitor!Tell, Failing, Told
  <2> QED
    BY <2>7 DEF Monitor!Next
<1>11. CASE UNCHANGED vars
  <2>1. Failing' = Failing /\ Told' = Told
    BY <1>2, <1>11 DEF vars, Told
  <2>2. Owed' = Owed
    BY <1>11 DEF vars, Owed, RecentRuns, DecideAlert, LeadingFailures, BuildAlert, Written, StreakWindow
  <2> QED
    BY <1>1, <2>1, <2>2
<1>12. \A i \in Invocations : ~WriteFails(i) /\ ~ReadFails(i) /\ ~PostFails(i) /\ ~Kill(i)
  BY DEF WriteFails, ReadFails, PostFails, Kill
<1> QED
  BY <1>7, <1>8, <1>9, <1>10, <1>11, <1>12 DEF Next, Step, Exhausted

\* While no step fails and cycles do not overlap.
LEMMA SerialForever ==
    ASSUME Faults = {}
    PROVE  Spec /\ ~overlapping => /\ [](StreakInv /\ SerialInv /\ ~overlapping)
                                   /\ [][Monitor!Next]_(Monitor!vars)
<1> DEFINE I == StreakInv /\ SerialInv /\ ~overlapping
<1>1. Spec => [](StreakInv /\ (~overlapping => SerialInv))
  BY SerialInvariant
<1>2. ASSUME [Next]_vars
      PROVE  overlapping' = overlapping
  BY <1>2 DEF Next, vars, Start, Step, Kill, Write, WriteFails, Read, ReadFails, Post, PostFails,
              Exhausted
<1>3. ~overlapping /\ [Next]_vars => ~overlapping'
  BY <1>2
<1>4. I /\ I' /\ [Next]_vars => [Monitor!Next]_(Monitor!vars)
  BY MonitorStep
<1> QED
  BY <1>1, <1>3, <1>4, PTL DEF Spec

\* As long as cycles do not overlap and nothing is lost, deriving alerts from the newest
\* rows alone implements OutageMonitor, whatever the threshold and the window.
THEOREM MonitorImplemented ==
    ASSUME Faults = {}
    PROVE  Spec /\ ~overlapping => Monitor!Spec
<1>1. Init => Monitor!Init
  <2> SUFFICES ASSUME Init
               PROVE  Monitor!Init
    OBVIOUS
  <2>1. Written = {} /\ sent = <<>> /\ \A i \in Invocations : cycle[i].pc = "idle"
    BY DEF Init, Written, Idle
  <2>2. Cardinality(LeadingFailures(Written)) = 0
    BY <2>1, FS_EmptySet DEF LeadingFailures
  <2>3. Owed = "none"
    BY <2>1 DEF Owed
  <2> QED
    BY <2>1, <2>2, <2>3 DEF Monitor!Init
<1> QED
  BY <1>1, SerialForever, PTL DEF Spec, Monitor!Spec

\* What OutageMonitor keeps between its announcements.
ReaderInv ==
    /\ Failing \in Nat
    /\ Owed \in {"none", "failing", "recovered"}
    /\ Told \in {"down", "up"}
    /\ Owed = "none" => (Told = "down" <=> Failing >= Threshold)
    /\ Owed = "failing" => Failing = Threshold
    /\ Owed = "recovered" => Failing < Threshold

\* Under the same conditions the last alert tells, between cycles, whether the protocol is
\* in an outage.
THEOREM ReaderIsInformed ==
    ASSUME Faults = {}
    PROVE  Spec /\ ~overlapping => []SilenceMeansNoChange
<1>0. Threshold \in Nat /\ Threshold > 0
  BY StreakAssumption
<1>1. Monitor!Init => ReaderInv
  BY <1>0 DEF Monitor!Init, ReaderInv, Failing, Told
<1>2. ReaderInv /\ [Monitor!Next]_(Monitor!vars) => ReaderInv'
  <2> SUFFICES ASSUME ReaderInv, [Monitor!Next]_(Monitor!vars)
               PROVE  ReaderInv'
    OBVIOUS
  <2>1. CASE Monitor!Fail
    <3>1. Owed = "none" /\ Failing' = Failing + 1 /\ Told' = Told
          /\ Owed' = IF Failing + 1 = Threshold THEN "failing" ELSE "none"
      BY <2>1 DEF Monitor!Fail, Failing, Told
    <3> QED
      BY <1>0, <3>1 DEF ReaderInv
  <2>2. CASE Monitor!Succeed
    <3>1. Owed = "none" /\ Failing' = 0 /\ Told' = Told
          /\ Owed' = IF Failing >= Threshold THEN "recovered" ELSE "none"
      BY <2>2 DEF Monitor!Succeed, Failing, Told
    <3> QED
      BY <1>0, <3>1 DEF ReaderInv
  <2>3. CASE Monitor!Tell
    <3>1. Owed # "none" /\ Owed' = "none" /\ Failing' = Failing
          /\ Told' = IF Owed = "failing" THEN "down" ELSE "up"
      BY <2>3 DEF Monitor!Tell, Failing, Told
    <3> QED
      BY <1>0, <3>1 DEF ReaderInv
  <2>4. CASE UNCHANGED Monitor!vars
    <3>1. Failing' = Failing /\ Owed' = Owed /\ Told' = Told
      BY <2>4 DEF Monitor!vars, Failing, Told
    <3> QED
      BY <3>1 DEF ReaderInv
  <2> QED
    BY <2>1, <2>2, <2>3, <2>4 DEF Monitor!Next
<1>3. ReaderInv => SilenceMeansNoChange
  BY DEF ReaderInv, SilenceMeansNoChange, Monitor!Informed, Failing, Told
<1> QED
  BY <1>1, <1>2, <1>3, MonitorImplemented, PTL DEF Monitor!Spec
================================================================================
