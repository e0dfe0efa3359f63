------------------------------ MODULE CycleProofs ------------------------------
(***************************************************************************)
(* What Cycle guarantees for every number of targets, every concurrency    *)
(* and every setting of the budget, checked by TLAPS.                      *)
(***************************************************************************)
EXTENDS Cycle, FiniteSetTheorems, TLAPS

--------------------------------------------------------------------------------
(* Budget arithmetic.                                                      *)

\* Waves is a natural number.
LEMMA WavesType ==
    ASSUME NEW q \in Int, NEW c \in Nat \ {0}
    PROVE  Waves(q, c) \in Nat
  BY DEF Waves, MaxOf

\* More targets never take fewer waves.
LEMMA WavesMonotone ==
    ASSUME NEW p \in Int, NEW q \in Int, p <= q, NEW c \in Nat \ {0}
    PROVE  Waves(p, c) <= Waves(q, c)
  BY DEF Waves, MaxOf

\* One more target is at most one more wave; `c` more are exactly one more.
LEMMA WavesStep ==
    ASSUME NEW q \in Nat, NEW c \in Nat \ {0}
    PROVE  /\ Waves(q + c, c) = Waves(q, c) + 1
           /\ Waves(q + 1, c) <= Waves(q, c) + 1
<1>1. Waves(q + c, c) = Waves(q, c) + 1
  BY DEF Waves, MaxOf
<1>2. Waves(q + 1, c) <= Waves(q + c, c)
  BY WavesMonotone
<1> QED
  BY <1>1, <1>2, WavesType

\* Multiplication by a duration is monotone.
LEMMA ScaleMonotone ==
    ASSUME NEW a \in Int, NEW b \in Int, a <= b, NEW d \in Nat
    PROVE  a * d <= b * d
  OBVIOUS

--------------------------------------------------------------------------------
(* Types.                                                                  *)

LEMMA DeadlineType ==
    ASSUME NEW b \in Int, NEW n \in Int, NEW q \in Int, NEW c \in Nat \ {0}, NEW a \in Nat
    PROVE  TargetDeadline(b, n, q, c, a) \in Int
  BY WavesType DEF TargetDeadline, MaxOf, MinOf

\* The retry loop's functions keep a job a job.
LEMMA SettleType ==
    ASSUME now \in Nat, NEW j \in JobType, NEW o \in {"ok"} \cup Causes
    PROVE  Settle(j, o) \in JobType
<1>1. now + MaxPersist \in Nat
  BY CycleAssumption
<1>2. o \in {"none", "ok"} \cup Causes
  OBVIOUS
<1> QED
  BY <1>1, <1>2 DEF Settle, JobType

LEMMA BeginAttemptType ==
    ASSUME now \in Nat, NEW j \in JobType, j.made < Attempts
    PROVE  BeginAttempt(j) \in JobType
<1>1. CASE j.deadline - now <= 0
  <2>1. (IF j.outcome = "none" THEN "deadline" ELSE j.outcome) \in {"ok"} \cup Causes
    BY DEF JobType, Causes
  <2> QED
    BY <1>1, <2>1, SettleType DEF BeginAttempt
<1>2. CASE ~(j.deadline - now <= 0)
  <2>1. now + MinOf(AttemptTimeout, j.deadline - now) \in Nat
    BY <1>2, CycleAssumption DEF MinOf, JobType
  <2>2. j.made + 1 \in 0 .. Attempts
    BY CycleAssumption DEF JobType
  <2>3. BeginAttempt(j) = [j EXCEPT !.pc = "attempt", !.begun = now, !.made = j.made + 1,
                       !.timer = now + MinOf(AttemptTimeout, j.deadline - now)]
    BY <1>2 DEF BeginAttempt
  <2> QED
    BY <2>1, <2>2, <2>3 DEF JobType
<1> QED
  BY <1>1, <1>2

LEMMA AfterFailureType ==
    ASSUME now \in Nat, NEW j \in JobType, NEW c \in Causes
    PROVE  AfterFailure(j, c) \in JobType
<1>1. ASSUME NEW d \in Nat
      PROVE  [j EXCEPT !.pc = "backoff", !.outcome = c, !.timer = now + d] \in JobType
  <2>1. now + d \in Nat /\ c \in {"none", "ok"} \cup Causes
    OBVIOUS
  <2> QED
    BY <2>1 DEF JobType
<1>2. Backoff(BaseDelay, j.attempt) \in Nat
  BY BackoffAssumption DEF JobType
<1>3. Settle(j, c) \in JobType
  BY SettleType
<1> QED
  BY <1>1, <1>2, <1>3 DEF AfterFailure

LEMMA IdleType == IdleJob \in JobType
  BY CycleAssumption DEF IdleJob, JobType

LEMMA RecordedType ==
    ASSUME NEW j \in JobType, NEW p \in {"ready", "streak"}
    PROVE  Recorded(j, p) \in JobType
<1>1. (IF p = "streak" THEN j.timer ELSE 0) \in Nat /\ j.target \in {-1} \cup Targets
  BY DEF JobType
<1> QED
  BY <1>1, IdleType DEF Recorded, JobType

\* What a picked target's job looks like before its first attempt.
PickedJob ==
    [IdleJob EXCEPT !.target   = cursor,
                    !.pickedAt = now,
                    !.deadline = TargetDeadline(Budget, now, N - (cursor + 1),
                                                Concurrency, AttemptTimeout)]

LEMMA PickedType ==
    ASSUME now \in Nat, cursor \in Nat, cursor < N
    PROVE  PickedJob \in JobType /\ PickedJob.made = 0
<1>1. TargetDeadline(Budget, now, N - (cursor + 1), Concurrency, AttemptTimeout) \in Int
  BY DeadlineType, CycleAssumption
<1>2. cursor \in {-1} \cup Targets
  BY CycleAssumption DEF Targets
<1>3. PickedJob \in JobType
  BY <1>1, <1>2, IdleType DEF PickedJob, JobType
<1>4. PickedJob.made = 0
  BY DEF PickedJob, IdleJob
<1> QED
  BY <1>3, <1>4

LEMMA AgainType ==
    ASSUME NEW j \in JobType, j.attempt < Attempts
    PROVE  /\ Again(j) \in JobType
           /\ Again(j).made = j.made
           /\ Again(j).attempt = j.attempt + 1
           /\ Again(j).target = j.target
<1>1. j.attempt + 1 \in 1 .. Attempts
  BY CycleAssumption DEF JobType
<1> QED
  BY <1>1 DEF Again, JobType

\* A job that runs or backs off has made as many attempts as its counter says and
\* backs off only with one left, and every job under way has a target: what keeps
\* `made` and `alerts` within their types.
Counting ==
    \A w \in Pool :
        /\ job[w].pc \notin {"ready", "exited"} => job[w].target \in Targets
        /\ job[w].pc = "attempt" => job[w].made = job[w].attempt
        /\ job[w].pc = "backoff" => /\ job[w].made = job[w].attempt
                                    /\ job[w].attempt < Attempts

LEMMA BeginAttemptCounts ==
    ASSUME now \in Nat, NEW j \in JobType
    PROVE  /\ BeginAttempt(j).pc \in {"attempt", "write"}
           /\ BeginAttempt(j).target = j.target
           /\ BeginAttempt(j).pc = "attempt" => /\ BeginAttempt(j).made = j.made + 1
                                               /\ BeginAttempt(j).attempt = j.attempt
  BY DEF BeginAttempt, Settle, JobType

LEMMA AfterFailureCounts ==
    ASSUME now \in Nat, NEW j \in JobType, NEW c \in Causes
    PROVE  /\ AfterFailure(j, c).pc \in {"backoff", "write"}
           /\ AfterFailure(j, c).target = j.target
           /\ AfterFailure(j, c).pc = "backoff" => /\ AfterFailure(j, c).made = j.made
                                                  /\ AfterFailure(j, c).attempt = j.attempt
                                                  /\ j.attempt # Attempts
  BY DEF AfterFailure, Settle, JobType

LEMMA TypeStep ==
    ASSUME TypeOK, Counting, [Next]_vars
    PROVE  TypeOK' /\ Counting'
<1>0. /\ \A w \in Pool : job[w] \in JobType
      /\ \A w \in Pool : job[w].made \in 0 .. Attempts /\ job[w].attempt \in 1 .. Attempts
      /\ now \in Nat /\ cursor \in Nat /\ job \in [Pool -> JobType]
      /\ Attempts \in Nat
  BY CycleAssumption DEF TypeOK, JobType
\* Only a worker's own job changes, to a job that keeps the count.
<1>1. ASSUME NEW w \in Pool, NEW j \in JobType, job' = [job EXCEPT ![w] = j],
             j.pc \notin {"ready", "exited"} => j.target \in Targets,
             j.pc = "attempt" => j.made = j.attempt,
             j.pc = "backoff" => j.made = j.attempt /\ j.attempt < Attempts
      PROVE  job' \in [Pool -> JobType] /\ Counting'
  BY <1>0, <1>1 DEF Counting
<1>2. ASSUME NEW w \in Pool, Pick(w)
      PROVE  TypeOK' /\ Counting'
  <2>0. cursor \in Targets
    BY <1>0, <1>2, CycleAssumption DEF Pick, Targets
  <2>1. /\ PickedJob \in JobType /\ PickedJob.made = 0
        /\ PickedJob.attempt = 1 /\ PickedJob.target = cursor
    BY <1>0, <1>2, PickedType DEF Pick, PickedJob, IdleJob
  <2>2. BeginAttempt(PickedJob) \in JobType
    BY <1>0, <2>1, BeginAttemptType, CycleAssumption
  <2>3. job' = [job EXCEPT ![w] = BeginAttempt(PickedJob)]
    BY <1>2 DEF Pick, PickedJob
  <2>4. /\ BeginAttempt(PickedJob).pc \in {"attempt", "write"}
        /\ BeginAttempt(PickedJob).target \in Targets
        /\ BeginAttempt(PickedJob).pc = "attempt" =>
             BeginAttempt(PickedJob).made = BeginAttempt(PickedJob).attempt
    BY <1>0, <2>0, <2>1, BeginAttemptCounts
  <2>5. job' \in [Pool -> JobType] /\ Counting'
    BY <1>1, <2>2, <2>3, <2>4
  <2> QED
    BY <1>2, <2>5 DEF Pick, TypeOK
<1>3. ASSUME NEW w \in Pool, Exit(w)
      PROVE  TypeOK' /\ Counting'
  <2>1. [job[w] EXCEPT !.pc = "exited"] \in JobType
    BY <1>0 DEF JobType
  <2>2. job' = [job EXCEPT ![w] = [job[w] EXCEPT !.pc = "exited"]]
    BY <1>3 DEF Exit
  <2>3. job' \in [Pool -> JobType] /\ Counting'
    BY <1>1, <2>1, <2>2, <1>0 DEF JobType
  <2> QED
    BY <1>3, <2>3 DEF Exit, TypeOK
<1>4. ASSUME NEW w \in Pool, AttemptSucceeds(w)
      PROVE  TypeOK' /\ Counting'
  <2>1. Settle(job[w], "ok") \in JobType
    BY <1>0, SettleType
  <2>2. /\ Settle(job[w], "ok").pc = "write"
        /\ Settle(job[w], "ok").target \in Targets
    BY <1>0, <1>4 DEF Settle, JobType, AttemptSucceeds, Counting
  <2>3. job' = [job EXCEPT ![w] = Settle(job[w], "ok")]
    BY <1>4 DEF AttemptSucceeds
  <2>4. job' \in [Pool -> JobType] /\ Counting'
    BY <1>1, <2>1, <2>2, <2>3
  <2> QED
    BY <1>4, <2>4 DEF AttemptSucceeds, TypeOK
\* A failed attempt, however it failed.
<1>5. ASSUME NEW w \in Pool, NEW c \in Causes, job[w].pc = "attempt",
             job' = [job EXCEPT ![w] = AfterFailure(@, c)]
      PROVE  job' \in [Pool -> JobType] /\ Counting'
  <2>1. AfterFailure(job[w], c) \in JobType
    BY <1>0, AfterFailureType
  <2>2. job' = [job EXCEPT ![w] = AfterFailure(job[w], c)]
    BY <1>5
  <2>3. job[w].made = job[w].attempt /\ job[w].target \in Targets
    BY <1>5 DEF Counting
  <2>4. job[w].attempt \in 1 .. Attempts /\ job[w] \in JobType
    BY <1>0
  <2>5. /\ AfterFailure(job[w], c).pc \in {"backoff", "write"}
        /\ AfterFailure(job[w], c).target \in Targets
        /\ AfterFailure(job[w], c).pc = "backoff" =>
             /\ AfterFailure(job[w], c).made = AfterFailure(job[w], c).attempt
             /\ AfterFailure(job[w], c).attempt < Attempts
    <3>1. /\ AfterFailure(job[w], c).pc \in {"backoff", "write"}
          /\ AfterFailure(job[w], c).target = job[w].target
          /\ AfterFailure(job[w], c).pc = "backoff" =>
               /\ AfterFailure(job[w], c).made = job[w].made
               /\ AfterFailure(job[w], c).attempt = job[w].attempt
               /\ job[w].attempt # Attempts
      BY <1>0, <2>4, AfterFailureCounts
    <3>2. job[w].attempt # Attempts => job[w].attempt < Attempts
      BY <1>0
    <3> QED
      BY <2>3, <3>1, <3>2
  <2> QED
    BY <1>1, <2>1, <2>2, <2>5
<1>6. ASSUME NEW w \in Pool, AttemptFails(w)
      PROVE  TypeOK' /\ Counting'
  <2>1. job' \in [Pool -> JobType] /\ Counting'
    BY <1>5, <1>6 DEF AttemptFails, Causes
  <2> QED
    BY <1>6, <2>1 DEF AttemptFails, TypeOK
<1>7. ASSUME NEW w \in Pool, AttemptTimesOut(w)
      PROVE  TypeOK' /\ Counting'
  <2>1. job' \in [Pool -> JobType] /\ Counting'
    BY <1>5, <1>7 DEF AttemptTimesOut, Causes
  <2> QED
    BY <1>7, <2>1 DEF AttemptTimesOut, TypeOK
<1>8. ASSUME NEW w \in Pool, Wake(w)
      PROVE  TypeOK' /\ Counting'
  <2>1. job[w].made = job[w].attempt /\ job[w].attempt < Attempts /\ job[w].target \in Targets
    BY <1>8 DEF Counting, Wake
  <2>3. /\ Again(job[w]) \in JobType
        /\ Again(job[w]).made = job[w].made
        /\ Again(job[w]).attempt = job[w].attempt + 1
        /\ Again(job[w]).target = job[w].target
    BY <1>0, <2>1, AgainType
  <2>4. BeginAttempt(Again(job[w])) \in JobType
    <3>1. Again(job[w]).made < Attempts
      BY <2>1, <2>3
    <3> QED
      BY <1>0, <2>3, <3>1, BeginAttemptType
  <2>5. job' = [job EXCEPT ![w] = BeginAttempt(Again(job[w]))]
    BY <1>8 DEF Wake
  <2>6. /\ BeginAttempt(Again(job[w])).pc \in {"attempt", "write"}
        /\ BeginAttempt(Again(job[w])).target \in Targets
        /\ BeginAttempt(Again(job[w])).pc = "attempt" =>
             BeginAttempt(Again(job[w])).made = BeginAttempt(Again(job[w])).attempt
    BY <1>0, <2>1, <2>3, BeginAttemptCounts
  <2>7. job' \in [Pool -> JobType] /\ Counting'
    BY <1>1, <2>4, <2>5, <2>6
  <2> QED
    BY <1>8, <2>7 DEF Wake, TypeOK
<1>9. ASSUME NEW w \in Pool, WriteLands(w) \/ WriteFails(w) \/ StreakRead(w)
      PROVE  TypeOK' /\ Counting'
  <2>0. job[w].target \in Targets
    BY <1>9 DEF WriteLands, WriteFails, StreakRead, Counting
  <2>1. PICK p \in {"ready", "streak"} : job' = [job EXCEPT ![w] = Recorded(job[w], p)]
    BY <1>9 DEF WriteLands, WriteFails, StreakRead
  <2>2. /\ Recorded(job[w], p) \in JobType
        /\ Recorded(job[w], p).pc = p /\ Recorded(job[w], p).target = job[w].target
    BY <1>0, RecordedType DEF Recorded, IdleJob
  <2>3. job' \in [Pool -> JobType] /\ Counting'
    BY <1>1, <2>0, <2>1, <2>2
  <2>4. Result(job[w]) \in [status : {"none", "ok", "failed"}, attempts : 0 .. Attempts,
                           made : 0 .. Attempts]
    BY <1>0, CycleAssumption DEF Result
  <2>5. slots' \in [Targets -> [status : {"none", "ok", "failed"}, attempts : 0 .. Attempts,
                               made : 0 .. Attempts]]
    BY <1>9, <2>4 DEF WriteLands, WriteFails, StreakRead, TypeOK
  <2>6. rows' \in [Targets -> Nat]
    BY <1>9 DEF WriteLands, WriteFails, StreakRead, TypeOK
  <2>7. alerts' \in SUBSET Targets
    BY <1>9, <2>0 DEF WriteLands, WriteFails, StreakRead, TypeOK
  <2> QED
    BY <1>9, <2>3, <2>5, <2>6, <2>7 DEF WriteLands, WriteFails, StreakRead, TypeOK
<1>10. CASE ReturnQuietly \/ Notify \/ NotifySettles \/ OrphanSettles \/ Kill \/ Tick
  BY <1>10, CycleAssumption
     DEF ReturnQuietly, Notify, NotifySettles, OrphanSettles, Kill, Tick, Counting, TypeOK
<1>11. CASE Over \/ UNCHANGED vars
  BY <1>11 DEF Over, vars, Counting, TypeOK
<1> QED
  BY <1>2, <1>3, <1>4, <1>6, <1>7, <1>8, <1>9, <1>10, <1>11 DEF Next, WorkerStep

\* Every variable keeps its type: in particular no job makes more attempts than the
\* policy allows, however failures, timeouts and backoffs alternate (withRetry).
THEOREM TypeCorrect == Spec => [](TypeOK /\ Counting)
<1>1. Init => TypeOK /\ Counting
  BY IdleType, CycleAssumption DEF Init, TypeOK, Counting, NotRun, IdleJob
<1>2. TypeOK /\ Counting /\ [Next]_vars => TypeOK' /\ Counting'
  BY TypeStep
<1> QED
  BY <1>1, <1>2, PTL DEF Spec

--------------------------------------------------------------------------------
(* Time.  Late(t) bounds when target t is picked in any cycle, Latest(t)   *)
(* in a feasible one: each wave before t's own costs an attempt less than  *)
(* the reservation and the persistence of one target.                      *)

Overhead(t) == (t \div Concurrency) * MaxPersist
Late(t)     == Budget + Overhead(t)
Latest(t)   == Budget - Waves(N - t, Concurrency) * AttemptTimeout + Overhead(t)
LoopEnd     == Budget + Waves(N, Concurrency) * MaxPersist

LEMMA OverheadType ==
    ASSUME NEW t \in Targets
    PROVE  Overhead(t) \in Nat
<1>1. t \in Nat /\ t \div Concurrency \in Nat
  BY CycleAssumption DEF Targets
<1> QED
  BY <1>1, CycleAssumption DEF Overhead

LEMMA BoundTypes ==
    ASSUME NEW t \in Targets
    PROVE  /\ Late(t) \in Nat /\ Budget <= Late(t)
           /\ Latest(t) \in Int
           /\ LoopEnd \in Nat
<1>1. Waves(N - t, Concurrency) \in Nat /\ Waves(N, Concurrency) \in Nat
  BY WavesType, CycleAssumption DEF Targets
<1>2. /\ Waves(N - t, Concurrency) * AttemptTimeout \in Nat
      /\ Waves(N, Concurrency) * MaxPersist \in Nat
  BY <1>1, CycleAssumption
<1> QED
  BY <1>2, OverheadType, CycleAssumption DEF Late, Latest, LoopEnd

\* A target one pool behind another: the earlier one's last moment is in time for
\* the later one's pick, with or without feasibility.
LEMMA OneWaveLater ==
    ASSUME NEW t \in Targets, NEW u \in Targets, t + Concurrency <= u
    PROVE  /\ Late(t) + MaxPersist <= Late(u)
           /\ Latest(t) + AttemptTimeout + MaxPersist <= Latest(u)
<1> DEFINE c == Concurrency
           q == N - u
<1>1. /\ t \in Nat /\ u \in Nat /\ q \in Nat /\ c \in Nat \ {0} /\ N \in Nat
      /\ AttemptTimeout \in Nat /\ MaxPersist \in Nat /\ Budget \in Nat
  BY CycleAssumption DEF Targets
<1>2. (t \div c) + 1 <= u \div c
  <2>1. (t + c) \div c = (t \div c) + 1
    BY <1>1
  <2>2. (t + c) \div c <= u \div c
    BY <1>1
  <2> QED
    BY <2>1, <2>2
<1>3. Overhead(t) + MaxPersist <= Overhead(u)
  <2>1. t \div c \in Nat /\ u \div c \in Nat
    BY <1>1
  <2>2. ((t \div c) + 1) * MaxPersist <= (u \div c) * MaxPersist
    BY <1>1, <1>2, <2>1, ScaleMonotone
  <2>3. ((t \div c) + 1) * MaxPersist = (t \div c) * MaxPersist + MaxPersist
    BY <1>1, <2>1
  <2> QED
    BY <2>2, <2>3 DEF Overhead
<1>4. Waves(q, c) + 1 <= Waves(N - t, c)
  <2>1. q + c <= N - t
    BY <1>1
  <2>2. Waves(q + c, c) <= Waves(N - t, c)
    BY <1>1, <2>1, WavesMonotone
  <2> QED
    BY <1>1, <2>2, WavesStep
<1>5. Waves(q, c) * AttemptTimeout + AttemptTimeout <= Waves(N - t, c) * AttemptTimeout
  <2>1. Waves(q, c) \in Nat /\ Waves(N - t, c) \in Nat
    BY <1>1, WavesType
  <2>2. (Waves(q, c) + 1) * AttemptTimeout <= Waves(N - t, c) * AttemptTimeout
    BY <1>1, <1>4, <2>1, ScaleMonotone
  <2>3. (Waves(q, c) + 1) * AttemptTimeout = Waves(q, c) * AttemptTimeout + AttemptTimeout
    BY <1>1, <2>1
  <2> QED
    BY <2>2, <2>3
<1>6. /\ Overhead(t) \in Nat /\ Overhead(u) \in Nat
      /\ Waves(q, c) * AttemptTimeout \in Nat /\ Waves(N - t, c) * AttemptTimeout \in Nat
  <2>1. Waves(q, c) \in Nat /\ Waves(N - t, c) \in Nat
    BY <1>1, WavesType
  <2> QED
    BY <1>1, <2>1, OverheadType
<1>7. Late(t) + MaxPersist <= Late(u)
  BY <1>1, <1>3, <1>6 DEF Late
<1>8. Latest(t) + AttemptTimeout + MaxPersist <= Latest(u)
  BY <1>1, <1>3, <1>5, <1>6 DEF Latest
<1> QED
  BY <1>7, <1>8

\* The last wave's persistence ends within LoopEnd, and a feasible cycle's bounds
\* start no earlier than the cycle and leave room for one attempt.
LEMMA BoundLimits ==
    ASSUME NEW t \in Targets
    PROVE  /\ Late(t) + MaxPersist <= LoopEnd
           /\ Feasible => 0 <= Latest(t)
           /\ Latest(t) + AttemptTimeout <= Budget + Overhead(t)
<1> DEFINE c == Concurrency
<1>1. /\ t \in Nat /\ t < N /\ N - t \in Nat /\ c \in Nat \ {0} /\ N \in Nat
      /\ AttemptTimeout \in Nat /\ MaxPersist \in Nat /\ Budget \in Nat
  BY CycleAssumption DEF Targets
<1>2. Waves(N, c) \in Nat /\ Waves(N - t, c) \in Nat /\ t \div c \in Nat /\ Overhead(t) \in Nat
  <2>1. Waves(N, c) \in Nat /\ Waves(N - t, c) \in Nat
    BY <1>1, WavesType
  <2>2. t \div c \in Nat
    BY <1>1
  <2> QED
    BY <2>1, <2>2, OverheadType
<1>3. (t \div c) + 1 <= Waves(N, c)
  <2>1. (t + c) \div c = (t \div c) + 1
    BY <1>1
  <2>2. Waves(N, c) = (N + c - 1) \div c
    BY <1>1 DEF Waves, MaxOf
  <2>3. t + c <= N + c - 1
    BY <1>1
  <2>4. (t + c) \div c <= (N + c - 1) \div c
    BY <1>1, <2>3
  <2> QED
    BY <2>1, <2>2, <2>4
<1>4. Late(t) + MaxPersist <= LoopEnd
  <2>1. ((t \div c) + 1) * MaxPersist <= Waves(N, c) * MaxPersist
    BY <1>1, <1>2, <1>3, ScaleMonotone
  <2>2. ((t \div c) + 1) * MaxPersist = Overhead(t) + MaxPersist
    BY <1>1, <1>2 DEF Overhead
  <2>3. Waves(N, c) * MaxPersist \in Nat
    BY <1>1, <1>2
  <2> QED
    BY <1>1, <1>2, <2>1, <2>2, <2>3 DEF Late, LoopEnd
<1>5. Feasible => 0 <= Latest(t)
  <2>1. Waves(N - t, c) * AttemptTimeout <= Waves(N, c) * AttemptTimeout
    <3>1. Waves(N - t, c) <= Waves(N, c)
      BY <1>1, WavesMonotone
    <3> QED
      BY <1>1, <1>2, <3>1, ScaleMonotone
  <2>2. Waves(N - t, c) * AttemptTimeout \in Nat /\ Waves(N, c) * AttemptTimeout \in Nat
    BY <1>1, <1>2
  <2> QED
    BY <1>1, <1>2, <2>1, <2>2 DEF Feasible, CycleFeasible, Latest
<1>6. Latest(t) + AttemptTimeout <= Budget + Overhead(t)
  <2>1. 1 <= Waves(N - t, c)
    BY <1>1 DEF Waves, MaxOf
  <2>2. 1 * AttemptTimeout <= Waves(N - t, c) * AttemptTimeout
    BY <1>1, <1>2, <2>1, ScaleMonotone
  <2>3. Waves(N - t, c) * AttemptTimeout \in Nat
    BY <1>1, <1>2
  <2> QED
    BY <1>1, <1>2, <2>2, <2>3 DEF Latest
<1> QED
  BY <1>4, <1>5, <1>6

\* targetDeadline lies between one attempt from now and the end of the budget, and
\* for a target picked in time no later than one attempt after its latest pick.
LEMMA DeadlineBounds ==
    ASSUME NEW t \in Targets, NEW n \in Nat
    PROVE  LET d == TargetDeadline(Budget, n, N - (t + 1), Concurrency, AttemptTimeout)
           IN  /\ d <= Budget
               /\ n + MinOf(AttemptTimeout, Budget - n) <= d
               /\ n <= Latest(t) => d <= Latest(t) + AttemptTimeout
<1> DEFINE c == Concurrency
           q == N - (t + 1)
           d == TargetDeadline(Budget, n, q, c, AttemptTimeout)
           r == Waves(q, c) * AttemptTimeout
<1>1. /\ q \in Nat /\ c \in Nat \ {0} /\ AttemptTimeout \in Nat /\ Budget \in Nat
      /\ N - t = q + 1 /\ Overhead(t) \in Nat
  BY CycleAssumption, OverheadType DEF Targets
<1>2. Waves(q, c) \in Nat /\ Waves(N - t, c) \in Nat /\ Waves(N - t, c) <= Waves(q, c) + 1
  <2>1. Waves(q, c) \in Nat /\ Waves(N - t, c) \in Nat
    BY <1>1, WavesType
  <2>2. Waves(q + 1, c) <= Waves(q, c) + 1
    BY <1>1, WavesStep
  <2> QED
    BY <1>1, <2>1, <2>2
<1>3. r \in Nat
  BY <1>1, <1>2
<1>4. d = MaxOf(Budget - r, n + MinOf(AttemptTimeout, Budget - n))
  BY DEF TargetDeadline
<1>5. Waves(N - t, c) * AttemptTimeout <= r + AttemptTimeout
  <2>1. Waves(N - t, c) * AttemptTimeout <= (Waves(q, c) + 1) * AttemptTimeout
    BY <1>1, <1>2, ScaleMonotone
  <2>2. (Waves(q, c) + 1) * AttemptTimeout = r + AttemptTimeout
    BY <1>1, <1>2
  <2> QED
    BY <2>1, <2>2
<1>6. Waves(N - t, c) * AttemptTimeout \in Nat
  BY <1>1, <1>2
<1>7. d <= Budget /\ n + MinOf(AttemptTimeout, Budget - n) <= d
  BY <1>1, <1>3, <1>4 DEF MaxOf, MinOf
<1>8. n <= Latest(t) => d <= Latest(t) + AttemptTimeout
  BY <1>1, <1>3, <1>4, <1>5, <1>6 DEF MaxOf, MinOf, Latest
<1> QED
  BY <1>7, <1>8

--------------------------------------------------------------------------------
(* The inductive invariant.  Punctual(j, n, c) is what holds of a worker's *)
(* job j at time n with the cursor at c.                                   *)

\* Before its first pick a worker waits at time 0; it exits at the end of the list.
Placed(j, n, c) ==
    /\ j.target < c
    /\ j.target = -1 => j.pc = "exited" \/ (j.pc = "ready" /\ n = 0)
    /\ j.pc = "exited" => c >= N

\* An attempt or a backoff ends by the deadline, which respects both bounds.
OnTime(j, n) ==
    j.pc \in {"attempt", "backoff"} =>
        /\ n <= j.timer /\ j.timer <= j.deadline /\ j.deadline <= Budget
        /\ j.pickedAt + MinOf(AttemptTimeout, Budget - j.pickedAt) <= j.deadline
        /\ Feasible => j.deadline <= Latest(j.target) + AttemptTimeout

\* So does persistence, but for its own length.
Persisted(j, n) ==
    /\ j.pc \in {"write", "streak"} =>
         /\ n <= j.timer
         /\ j.timer <= Late(j.target) + MaxPersist
         /\ Feasible => j.timer <= Latest(j.target) + AttemptTimeout + MaxPersist
    /\ j.pc = "ready" /\ j.target # -1 =>
         /\ n <= Late(j.target) + MaxPersist
         /\ Feasible => n <= Latest(j.target) + AttemptTimeout + MaxPersist

\* What an attempt was given, and what a failure for want of time implies.
Granted(j) ==
    /\ j.pc = "attempt" =>
         /\ j.timer = j.begun + MinOf(AttemptTimeout, j.deadline - j.begun)
         /\ j.made >= 1
         /\ j.made = 1 => j.begun = j.pickedAt
         /\ j.attempt > 1 => j.deadline - j.begun > MinAttempt
    /\ j.pc = "backoff" => j.deadline - j.timer > MinAttempt /\ j.outcome # "none"
    /\ j.pc # "write" => j.outcome # "deadline"
    /\ Feasible => /\ j.pc \in {"attempt", "backoff", "write"} => j.pickedAt <= Latest(j.target)
                   /\ j.outcome = "deadline" => AttemptTimeout <= Overhead(j.target)

Punctual(j, n, c) == Placed(j, n, c) /\ OnTime(j, n) /\ Persisted(j, n) /\ Granted(j)

Apart == \A v, w \in Pool : v # w /\ job[v].target # -1 => job[v].target # job[w].target

Timing ==
    /\ \A w \in Pool : Punctual(job[w], now, cursor)
    /\ Apart
    /\ phase = "running" => now <= LoopEnd
    /\ now <= LoopEnd + MaxNotify
    /\ phase = "notifying" => AllExited /\ tailEnds <= LoopEnd + MaxNotify

\* The size of an interval whose length is known.
LEMMA IntervalSize ==
    ASSUME NEW a \in Int, NEW b \in Int, NEW length \in Nat, b - a + 1 = length
    PROVE  IsFiniteSet(a .. b) /\ Cardinality(a .. b) = length
<1>1. CASE a > b
  BY <1>1, FS_Interval
<1>2. CASE ~(a > b)
  BY <1>2, FS_Interval
<1> QED
  BY <1>1, <1>2

\* Once the clock has moved, a worker about to pick has someone a whole pool behind it:
\* otherwise all the workers would share fewer targets than there are workers.
LEMMA SomeoneOlder ==
    ASSUME TypeOK, \A w \in Pool : Placed(job[w], now, cursor), Apart,
           cursor < N, now # 0
    PROVE  \E v \in Pool : /\ job[v].target \in Targets
                           /\ job[v].target + Concurrency <= cursor
                           /\ job[v].pc # "exited"
<1> DEFINE f == [w \in Pool |-> job[w].target]
           old == cursor - Concurrency
           recent == (IF old >= 0 THEN old + 1 ELSE 0) .. cursor - 1
<1>1. /\ cursor \in Nat /\ N \in Nat /\ Concurrency \in Nat \ {0} /\ now \in Nat
      /\ \A w \in Pool : job[w].target \in {-1} \cup Targets
  BY CycleAssumption DEF TypeOK, JobType
<1>2. \A w \in Pool : job[w].target \in Targets /\ job[w].target < cursor /\ job[w].pc # "exited"
  BY <1>1 DEF Placed
<1>3. SUFFICES ASSUME \A v \in Pool : ~(job[v].target + Concurrency <= cursor)
               PROVE  FALSE
  BY <1>2
<1>4. f \in [Pool -> recent]
  <2>1. ASSUME NEW w \in Pool
        PROVE  job[w].target \in recent
    BY <1>1, <1>2, <1>3 DEF Targets
  <2> QED
    BY <2>1
<1>5. /\ IsFiniteSet(Pool) /\ IsFiniteSet(recent)
      /\ Cardinality(recent) < Cardinality(Pool)
  <2>1. MinOf(Concurrency, N) \in Nat /\ MinOf(Concurrency, N) >= 1
    BY <1>1 DEF MinOf
  <2>2. IsFiniteSet(Pool) /\ Cardinality(Pool) = MinOf(Concurrency, N)
    BY <2>1, FS_Interval DEF Pool
  <2>3. CASE old >= 0
    <3>1. recent = old + 1 .. cursor - 1
      BY <2>3
    <3>2. IsFiniteSet(recent) /\ Cardinality(recent) = Concurrency - 1
      <4>1. /\ old + 1 \in Int /\ cursor - 1 \in Int /\ Concurrency - 1 \in Nat
            /\ (cursor - 1) - (old + 1) + 1 = Concurrency - 1
        BY <1>1
      <4> HIDE DEF old, recent, f
      <4> QED
        BY <3>1, <4>1, IntervalSize
    <3> QED
      BY <1>1, <2>2, <2>3, <3>2 DEF MinOf
  <2>4. CASE ~(old >= 0)
    <3>1. recent = 0 .. cursor - 1
      BY <2>4
    <3>2. IsFiniteSet(recent) /\ Cardinality(recent) = cursor
      <4>1. 0 \in Int /\ cursor - 1 \in Int /\ cursor \in Nat /\ (cursor - 1) - 0 + 1 = cursor
        BY <1>1
      <4> HIDE DEF old, recent, f
      <4> QED
        BY <3>1, <4>1, IntervalSize
    <3> QED
      BY <1>1, <2>2, <2>4, <3>2 DEF MinOf
  <2> QED
    BY <2>3, <2>4
<1>6. \E x, y \in Pool : x # y /\ f[x] = f[y]
  <2> HIDE DEF f, recent
  <2> QED
    BY <1>4, <1>5, FS_PigeonHole
<1>7. PICK x, y \in Pool : x # y /\ job[x].target = job[y].target
  BY <1>6
<1>8. job[x].target # -1
  BY <1>1, <1>2 DEF Targets
<1> QED
  BY <1>7, <1>8 DEF Apart

\* So a pick is in time.
LEMMA PickInTime ==
    ASSUME TypeOK, Timing, cursor < N
    PROVE  /\ cursor \in Targets
           /\ now <= Late(cursor)
           /\ Feasible => now <= Latest(cursor)
<1>1. /\ cursor \in Nat /\ N \in Nat /\ now \in Nat /\ Budget \in Nat
      /\ MaxPersist \in Nat /\ AttemptTimeout \in Nat /\ job \in [Pool -> JobType]
  BY CycleAssumption DEF TypeOK
<1>2. cursor \in Targets
  BY <1>1 DEF Targets
<1>3. CASE now = 0
  BY <1>1, <1>2, <1>3, BoundTypes, BoundLimits
<1>4. CASE now # 0
  <2>1. PICK v \in Pool : /\ job[v].target \in Targets
                         /\ job[v].target + Concurrency <= cursor
                         /\ job[v].pc # "exited"
    BY <1>4, SomeoneOlder DEF Timing, Punctual
  <2> DEFINE t == job[v].target
  <2>2. t # -1 /\ t \in Targets
    BY <2>1 DEF Targets
  <2>3. /\ Late(t) + MaxPersist <= Late(cursor)
        /\ Latest(t) + AttemptTimeout + MaxPersist <= Latest(cursor)
    BY <1>2, <2>1, OneWaveLater
  <2>4. /\ Late(t) \in Nat /\ Latest(t) \in Int /\ Late(cursor) \in Nat /\ Latest(cursor) \in Int
        /\ Budget <= Late(t)
    BY <1>2, <2>2, BoundTypes
  <2>5. /\ job[v].pc \in {"ready", "attempt", "backoff", "write", "streak"}
        /\ job[v].timer \in Int /\ job[v].deadline \in Int
    BY <1>1, <2>1 DEF JobType
  <2>6. OnTime(job[v], now) /\ Persisted(job[v], now)
    BY DEF Timing, Punctual
  <2>7. /\ now <= Late(t) + MaxPersist
        /\ Feasible => now <= Latest(t) + AttemptTimeout + MaxPersist
    BY <1>1, <2>2, <2>4, <2>5, <2>6 DEF OnTime, Persisted
  <2> QED
    BY <1>1, <1>2, <2>3, <2>4, <2>7
<1> QED
  BY <1>3, <1>4

--------------------------------------------------------------------------------
(* Each function of the retry loop keeps a job punctual.                   *)

\* withRetry gives up, or succeeds: persistence starts now.
LEMMA SettlePunctual ==
    ASSUME now \in Nat, NEW c \in Nat, NEW j \in JobType, NEW o \in {"ok"} \cup Causes,
           j.target \in Targets, j.target < c,
           now <= Late(j.target),
           Feasible => /\ now <= Latest(j.target) + AttemptTimeout
                       /\ j.pickedAt <= Latest(j.target)
                       /\ o = "deadline" => AttemptTimeout <= Overhead(j.target)
    PROVE  Punctual(Settle(j, o), now, c)
<1> DEFINE k == Settle(j, o)
<1>1. /\ k.pc = "write" /\ k.target = j.target /\ k.pickedAt = j.pickedAt
      /\ k.timer = now + MaxPersist /\ k.outcome = o
  BY DEF Settle, JobType
<1>2. /\ MaxPersist \in Nat /\ AttemptTimeout \in Nat
      /\ Late(j.target) \in Nat /\ Latest(j.target) \in Int /\ j.target \in Nat
  BY CycleAssumption, BoundTypes DEF Targets
<1> HIDE DEF k
<1>3. Placed(k, now, c)
  BY <1>1, <1>2 DEF Placed
<1>4. OnTime(k, now)
  BY <1>1 DEF OnTime
<1>5. Persisted(k, now)
  BY <1>1, <1>2 DEF Persisted
<1>6. Granted(k)
  BY <1>1 DEF Granted
<1> QED
  BY <1>3, <1>4, <1>5, <1>6 DEF Punctual, k

\* An attempt starts, the first at the pick and a retry with time worth having.
LEMMA BeginAttemptPunctual ==
    ASSUME now \in Nat, NEW c \in Nat, NEW j \in JobType,
           j.target \in Targets, j.target < c,
           j.deadline <= Budget,
           j.pickedAt + MinOf(AttemptTimeout, Budget - j.pickedAt) <= j.deadline,
           now <= Late(j.target),
           Feasible => /\ now <= Latest(j.target) + AttemptTimeout
                       /\ j.pickedAt <= Latest(j.target)
                       /\ j.deadline <= Latest(j.target) + AttemptTimeout,
           \/ j.made = 0 /\ j.attempt = 1 /\ j.outcome = "none" /\ j.pickedAt = now
           \/ /\ j.made >= 1 /\ j.outcome \notin {"none", "deadline"}
              /\ j.deadline - now > MinAttempt
    PROVE  Punctual(BeginAttempt(j), now, c)
<1>1. /\ MinAttempt \in Nat /\ AttemptTimeout \in Nat \ {0} /\ Budget \in Nat /\ MaxPersist \in Nat
      /\ Overhead(j.target) \in Nat /\ j.target \in Nat
      /\ Latest(j.target) \in Int
      /\ Latest(j.target) + AttemptTimeout <= Budget + Overhead(j.target)
  BY CycleAssumption, BoundLimits, BoundTypes, OverheadType DEF Targets
<1>2. /\ j.deadline \in Int /\ j.pickedAt \in Nat /\ j.made \in Nat /\ j.attempt \in Nat
      /\ j.outcome \in {"none", "ok"} \cup Causes
  BY CycleAssumption DEF JobType
<1>3. CASE j.deadline - now <= 0
  <2>1. j.made = 0 /\ j.outcome = "none" /\ j.pickedAt = now
    BY <1>1, <1>2, <1>3
  <2>2. BeginAttempt(j) = Settle(j, "deadline")
    BY <1>3, <2>1 DEF BeginAttempt
  <2>3. Feasible => AttemptTimeout <= Overhead(j.target)
    BY <1>1, <1>2, <1>3, <2>1 DEF MinOf
  <2>4. "deadline" \in {"ok"} \cup Causes
    BY DEF Causes
  <2> QED
    BY <2>2, <2>3, <2>4, SettlePunctual
<1>4. CASE ~(j.deadline - now <= 0)
  <2> DEFINE k == BeginAttempt(j)
  <2>1. /\ k.pc = "attempt" /\ k.target = j.target /\ k.pickedAt = j.pickedAt
        /\ k.deadline = j.deadline /\ k.attempt = j.attempt /\ k.outcome = j.outcome
        /\ k.made = j.made + 1 /\ k.begun = now
        /\ k.timer = now + MinOf(AttemptTimeout, j.deadline - now)
    BY <1>4 DEF BeginAttempt, JobType
  <2>2. now <= k.timer /\ k.timer <= k.deadline
    BY <1>1, <1>2, <1>4, <2>1 DEF MinOf
  <2> HIDE DEF k
  <2>3. Placed(k, now, c)
    BY <1>1, <2>1 DEF Placed
  <2>4. OnTime(k, now)
    BY <2>1, <2>2 DEF OnTime
  <2>5. Persisted(k, now)
    BY <2>1 DEF Persisted
  <2>6. Granted(k)
    BY <1>1, <1>2, <2>1 DEF Granted
  <2> QED
    BY <2>3, <2>4, <2>5, <2>6 DEF Punctual, k
<1> QED
  BY <1>3, <1>4, <1>2, <1>1

\* A failed attempt gives up or backs off, and only with a worthwhile retry ahead.
LEMMA AfterFailurePunctual ==
    ASSUME now \in Nat, NEW c \in Nat, NEW j \in JobType, NEW o \in {"error", "timeout"},
           j.target \in Targets, j.pc = "attempt", Punctual(j, now, c)
    PROVE  Punctual(AfterFailure(j, o), now, c)
<1> DEFINE d == Backoff(BaseDelay, j.attempt)
<1>1. /\ MinAttempt \in Nat /\ AttemptTimeout \in Nat /\ Budget \in Nat
      /\ Late(j.target) \in Nat /\ Budget <= Late(j.target) /\ Latest(j.target) \in Int
      /\ j.deadline \in Int /\ j.timer \in Nat /\ j.target \in Nat
  BY CycleAssumption, BoundTypes DEF JobType, Targets
<1>2. d \in Nat
  BY BackoffAssumption DEF JobType
<1>3. /\ now <= j.deadline /\ j.deadline <= Budget /\ j.target < c
      /\ j.pickedAt + MinOf(AttemptTimeout, Budget - j.pickedAt) <= j.deadline
      /\ Feasible => /\ j.deadline <= Latest(j.target) + AttemptTimeout
                     /\ j.pickedAt <= Latest(j.target)
  BY <1>1 DEF Punctual, Placed, OnTime, Granted
<1>4. CASE j.attempt = Attempts \/ j.deadline - now <= d + MinAttempt
  <2>1. AfterFailure(j, o) = Settle(j, o)
    BY <1>4 DEF AfterFailure
  <2>2. o \in {"ok"} \cup Causes /\ o # "deadline"
    BY DEF Causes
  <2>3. now <= Late(j.target) /\ (Feasible => now <= Latest(j.target) + AttemptTimeout)
    BY <1>1, <1>3
  <2> QED
    BY <1>3, <2>1, <2>2, <2>3, SettlePunctual
<1>5. CASE ~(j.attempt = Attempts \/ j.deadline - now <= d + MinAttempt)
  <2> DEFINE k == AfterFailure(j, o)
  <2>1. /\ k.pc = "backoff" /\ k.target = j.target /\ k.pickedAt = j.pickedAt
        /\ k.deadline = j.deadline /\ k.outcome = o /\ k.timer = now + d
    BY <1>5 DEF AfterFailure, JobType
  <2>2. now <= k.timer /\ k.timer <= k.deadline /\ k.deadline - k.timer > MinAttempt
    BY <1>1, <1>2, <1>5, <2>1
  <2> HIDE DEF k
  <2>3. Placed(k, now, c)
    BY <1>1, <1>3, <2>1 DEF Placed
  <2>4. OnTime(k, now)
    BY <1>3, <2>1, <2>2 DEF OnTime
  <2>5. Persisted(k, now)
    BY <2>1 DEF Persisted
  <2>6. Granted(k)
    BY <1>3, <2>1, <2>2 DEF Granted
  <2> QED
    BY <2>3, <2>4, <2>5, <2>6 DEF Punctual, k
<1> QED
  BY <1>4, <1>5

\* The outcome is recorded: within the time persistence was given.
LEMMA RecordedPunctual ==
    ASSUME now \in Nat, NEW c \in Nat, NEW j \in JobType,
           j.target \in Targets, j.pc \in {"write", "streak"}, Punctual(j, now, c),
           NEW p \in {"ready", "streak"}
    PROVE  Punctual(Recorded(j, p), now, c)
<1> DEFINE k == Recorded(j, p)
<1>1. /\ k.pc = p /\ k.target = j.target /\ k.outcome = "none"
      /\ p = "streak" => k.timer = j.timer
  BY DEF Recorded, IdleJob
<1>2. /\ j.target \in Nat /\ j.timer \in Nat /\ Late(j.target) \in Nat /\ Latest(j.target) \in Int
      /\ MaxPersist \in Nat /\ AttemptTimeout \in Nat
  BY CycleAssumption, BoundTypes DEF JobType, Targets
<1>3. /\ now <= j.timer /\ j.timer <= Late(j.target) + MaxPersist
      /\ Feasible => j.timer <= Latest(j.target) + AttemptTimeout + MaxPersist
      /\ j.target < c
  BY DEF Punctual, Persisted, Placed
<1> HIDE DEF k
<1>4. Placed(k, now, c)
  BY <1>1, <1>2, <1>3 DEF Placed
<1>5. OnTime(k, now)
  BY <1>1 DEF OnTime
<1>6. Persisted(k, now)
  BY <1>1, <1>2, <1>3 DEF Persisted
<1>7. Granted(k)
  BY <1>1 DEF Granted
<1> QED
  BY <1>4, <1>5, <1>6, <1>7 DEF Punctual, k

--------------------------------------------------------------------------------
(* Every step is punctual.                                                 *)

LEMMA TimingStep ==
    ASSUME TypeOK, Counting, Timing, [Next]_vars
    PROVE  Timing'
<1>0. /\ now \in Nat /\ cursor \in Nat /\ job \in [Pool -> JobType] /\ N \in Nat
      /\ MaxNotify \in Nat /\ LoopEnd \in Nat /\ tailEnds \in Nat
      /\ \A w \in Pool : job[w] \in JobType
  <2>1. Waves(N, Concurrency) * MaxPersist \in Nat
    <3>1. Waves(N, Concurrency) \in Nat
      BY WavesType, CycleAssumption
    <3> QED
      BY <3>1, CycleAssumption
  <2> QED
    BY <2>1, CycleAssumption DEF TypeOK, LoopEnd
\* A later cursor disturbs no job.
<1>1. \A w \in Pool : Punctual(job[w], now, cursor) /\ Punctual(job[w], now, cursor + 1)
  BY <1>0, CycleAssumption DEF Timing, Punctual, Placed, JobType, Targets
\* One worker's job changes and its target does not: nothing else is disturbed.
<1>2. ASSUME NEW w \in Pool, NEW j, job' = [job EXCEPT ![w] = j],
             Punctual(j, now, cursor'), j.target = job[w].target,
             cursor' \in {cursor, cursor + 1}, now' = now,
             phase = "running", phase' = "running"
      PROVE  Timing'
  <2>1. \A v \in Pool : Punctual(job'[v], now, cursor')
    BY <1>0, <1>1, <1>2
  <2>2. \A v \in Pool : job'[v].target = job[v].target
    BY <1>0, <1>2
  <2>3. Apart'
    BY <2>2 DEF Timing, Apart
  <2> QED
    BY <1>0, <1>2, <2>1, <2>3 DEF Timing
<1>3. ASSUME NEW w \in Pool, Pick(w)
      PROVE  Timing'
  <2>1. /\ cursor \in Targets /\ now <= Late(cursor)
        /\ Feasible => now <= Latest(cursor)
        /\ Latest(cursor) \in Int /\ AttemptTimeout \in Nat
    BY <1>3, PickInTime, BoundTypes, CycleAssumption DEF Pick
  <2>2. /\ PickedJob \in JobType /\ PickedJob.made = 0 /\ PickedJob.attempt = 1
        /\ PickedJob.target = cursor /\ PickedJob.pickedAt = now
        /\ PickedJob.outcome = "none"
        /\ PickedJob.deadline = TargetDeadline(Budget, now, N - (cursor + 1),
                                               Concurrency, AttemptTimeout)
    BY <1>0, <1>3, PickedType DEF Pick, PickedJob, IdleJob
  <2>3. /\ PickedJob.deadline <= Budget
        /\ now + MinOf(AttemptTimeout, Budget - now) <= PickedJob.deadline
        /\ now <= Latest(cursor) => PickedJob.deadline <= Latest(cursor) + AttemptTimeout
    BY <1>0, <2>1, <2>2, DeadlineBounds
  <2>4. Punctual(BeginAttempt(PickedJob), now, cursor + 1)
    <3>1. cursor + 1 \in Nat /\ cursor < cursor + 1
      BY <1>0
    <3>2. Feasible => now <= Latest(cursor) + AttemptTimeout
      BY <1>0, <2>1
    <3> QED
      BY <1>0, <2>1, <2>2, <2>3, <3>1, <3>2, BeginAttemptPunctual
  <2>5. job' = [job EXCEPT ![w] = BeginAttempt(PickedJob)]
    BY <1>3 DEF Pick, PickedJob
  <2>6. BeginAttempt(PickedJob).target = cursor
    BY <1>0, <2>2, BeginAttemptCounts
  <2>7. \A v \in Pool : Punctual(job'[v], now, cursor + 1)
    BY <1>0, <1>1, <2>4, <2>5
  <2>8. \A v \in Pool : v # w => job'[v].target = job[v].target /\ job[v].target < cursor
    BY <1>0, <1>1, <2>5 DEF Punctual, Placed
  <2>9. job'[w].target = cursor
    BY <1>0, <2>5, <2>6
  <2>10. Apart'
    BY <1>0, <2>8, <2>9 DEF Timing, Apart
  <2> QED
    BY <1>0, <1>3, <2>7, <2>10 DEF Timing, Pick
<1>4. ASSUME NEW w \in Pool, Exit(w)
      PROVE  Timing'
  <2> DEFINE k == [job[w] EXCEPT !.pc = "exited"]
  <2>1. k.pc = "exited" /\ k.target = job[w].target /\ k.outcome = job[w].outcome
    BY <1>0 DEF JobType
  <2>2. job[w].pc = "ready" /\ Punctual(job[w], now, cursor + 1) /\ job[w].outcome # "deadline"
    BY <1>1, <1>4 DEF Exit, Punctual, Granted
  <2> HIDE DEF k
  <2>3. Punctual(k, now, cursor + 1)
    <3>1. Placed(k, now, cursor + 1)
      BY <1>0, <1>4, <2>1, <2>2 DEF Placed, Exit, Punctual
    <3>2. OnTime(k, now) /\ Persisted(k, now) /\ Granted(k)
      BY <2>1, <2>2 DEF OnTime, Persisted, Granted
    <3> QED
      BY <3>1, <3>2 DEF Punctual
  <2> QED
    BY <1>2, <1>4, <2>1, <2>3 DEF Exit, k
<1>5. ASSUME NEW w \in Pool, AttemptSucceeds(w)
      PROVE  Timing'
  <2>1. /\ job[w] \in JobType /\ job[w].target \in Targets /\ job[w].pc = "attempt"
        /\ Punctual(job[w], now, cursor)
    BY <1>0, <1>1, <1>5 DEF AttemptSucceeds, Counting
  <2> DEFINE t == job[w].target
  <2>2. /\ Late(t) \in Nat /\ Budget <= Late(t) /\ Latest(t) \in Int /\ Budget \in Nat
        /\ AttemptTimeout \in Nat /\ job[w].timer \in Nat /\ job[w].deadline \in Int
    BY <2>1, BoundTypes, CycleAssumption DEF JobType
  <2>3. /\ now <= Late(t) /\ t < cursor
        /\ Feasible => now <= Latest(t) + AttemptTimeout /\ job[w].pickedAt <= Latest(t)
    BY <1>0, <2>1, <2>2 DEF Punctual, OnTime, Granted, Placed
  <2>4. Punctual(Settle(job[w], "ok"), now, cursor)
    BY <1>0, <2>1, <2>3, SettlePunctual
  <2>5. Settle(job[w], "ok").target = job[w].target
    BY <2>1 DEF Settle, JobType
  <2> QED
    BY <1>2, <1>5, <2>4, <2>5 DEF AttemptSucceeds
<1>6. ASSUME NEW w \in Pool, AttemptFails(w) \/ AttemptTimesOut(w)
      PROVE  Timing'
  <2>1. /\ job[w] \in JobType /\ job[w].target \in Targets /\ job[w].pc = "attempt"
        /\ Punctual(job[w], now, cursor)
    BY <1>0, <1>1, <1>6 DEF AttemptFails, AttemptTimesOut, Counting
  <2>2. PICK o \in {"error", "timeout"} : job' = [job EXCEPT ![w] = AfterFailure(job[w], o)]
    BY <1>6 DEF AttemptFails, AttemptTimesOut
  <2>3. Punctual(AfterFailure(job[w], o), now, cursor)
    BY <1>0, <2>1, AfterFailurePunctual
  <2>4. AfterFailure(job[w], o).target = job[w].target
    BY <1>0, <2>1, AfterFailureCounts DEF Causes
  <2>5. cursor' = cursor /\ now' = now /\ phase = "running" /\ phase' = "running"
    BY <1>6 DEF AttemptFails, AttemptTimesOut
  <2>6. cursor \in Nat
    BY <1>0
  <2> QED
    BY <1>2, <2>2, <2>3, <2>4, <2>5, <2>6
<1>7. ASSUME NEW w \in Pool, Wake(w)
      PROVE  Timing'
  <2>1. /\ job[w] \in JobType /\ job[w].target \in Targets /\ job[w].pc = "backoff"
        /\ now = job[w].timer
        /\ job[w].made = job[w].attempt /\ job[w].attempt < Attempts
        /\ Punctual(job[w], now, cursor)
    BY <1>0, <1>1, <1>7 DEF Wake, Counting
  <2> DEFINE t == job[w].target
             k == Again(job[w])
  <2>2. /\ k \in JobType /\ k.target = t /\ k.made = job[w].made
        /\ k.deadline = job[w].deadline /\ k.pickedAt = job[w].pickedAt
        /\ k.outcome = job[w].outcome
    BY <2>1, AgainType DEF Again, JobType
  <2>3. /\ Late(t) \in Nat /\ Budget <= Late(t) /\ Latest(t) \in Int /\ Budget \in Nat
        /\ AttemptTimeout \in Nat /\ job[w].timer \in Nat /\ job[w].deadline \in Int
        /\ job[w].attempt >= 1
    BY <2>1, BoundTypes, CycleAssumption DEF JobType
  <2>4. /\ t < cursor /\ job[w].deadline <= Budget /\ now <= job[w].deadline
        /\ job[w].pickedAt + MinOf(AttemptTimeout, Budget - job[w].pickedAt) <= job[w].deadline
        /\ Feasible => /\ job[w].deadline <= Latest(t) + AttemptTimeout
                       /\ job[w].pickedAt <= Latest(t)
        /\ job[w].outcome \notin {"none", "deadline"}
        /\ job[w].deadline - now > MinAttempt
    BY <2>1 DEF Punctual, Placed, OnTime, Granted
  <2>5. now <= Late(t) /\ (Feasible => now <= Latest(t) + AttemptTimeout)
    BY <1>0, <2>3, <2>4
  <2> HIDE DEF k
  <2>6. Punctual(BeginAttempt(k), now, cursor)
    BY <1>0, <2>1, <2>2, <2>3, <2>4, <2>5, BeginAttemptPunctual
  <2>7. BeginAttempt(k).target = job[w].target
    BY <1>0, <2>2, BeginAttemptCounts
  <2> QED
    BY <1>2, <1>7, <2>6, <2>7 DEF Wake, k
<1>8. ASSUME NEW w \in Pool, WriteLands(w) \/ WriteFails(w) \/ StreakRead(w)
      PROVE  Timing'
  <2>1. /\ job[w] \in JobType /\ job[w].target \in Targets /\ job[w].pc \in {"write", "streak"}
        /\ Punctual(job[w], now, cursor)
    BY <1>0, <1>1, <1>8 DEF WriteLands, WriteFails, StreakRead, Counting
  <2>2. PICK p \in {"ready", "streak"} : job' = [job EXCEPT ![w] = Recorded(job[w], p)]
    BY <1>8 DEF WriteLands, WriteFails, StreakRead
  <2>3. Punctual(Recorded(job[w], p), now, cursor)
    BY <1>0, <2>1, RecordedPunctual
  <2>4. Recorded(job[w], p).target = job[w].target
    BY DEF Recorded, IdleJob
  <2>5. /\ now' = now /\ cursor' = cursor
        /\ phase = "running" /\ phase' = "running"
    BY <1>8 DEF WriteLands, WriteFails, StreakRead
  <2> DEFINE j == Recorded(job[w], p)
  <2>6. /\ job' = [job EXCEPT ![w] = j] /\ Punctual(j, now, cursor')
        /\ j.target = job[w].target
    BY <2>2, <2>3, <2>4, <2>5
  <2> HIDE DEF j
  <2> QED
    BY <1>2, <2>5, <2>6
<1>9. CASE ReturnQuietly \/ Notify \/ NotifySettles \/ OrphanSettles \/ Kill
  BY <1>0, <1>9 DEF ReturnQuietly, Notify, NotifySettles, OrphanSettles, Kill,
                    Timing, Apart, AllExited
<1>10. CASE Tick
  <2>1. ASSUME NEW w \in Pool
        PROVE  Punctual(job[w], now + 1, cursor)
    <3>1. job[w].pc # "ready" /\ (job[w].pc # "exited" => now < job[w].timer)
      BY <1>10 DEF Tick, Quiescent, Timing, AllExited
    <3>2. job[w].timer \in Nat /\ Punctual(job[w], now, cursor)
      BY <1>0, <1>1 DEF JobType
    <3> QED
      BY <1>0, <3>1, <3>2 DEF Punctual, Placed, OnTime, Persisted
  <2>2. phase = "running" => now + 1 <= LoopEnd
    <3>1. SUFFICES ASSUME phase = "running" PROVE now + 1 <= LoopEnd
      OBVIOUS
    <3>2. PICK w \in Pool : job[w].pc # "exited" /\ job[w].pc # "ready" /\ now < job[w].timer
      BY <1>10, <3>1 DEF Tick, Quiescent, AllExited
    <3>3. /\ job[w].pc \in {"attempt", "backoff", "write", "streak"}
          /\ job[w].target \in Targets
          /\ job[w].timer \in Nat /\ job[w].deadline \in Int /\ Budget \in Nat /\ MaxPersist \in Nat
      BY <1>0, <3>2, CycleAssumption DEF Counting, JobType
    <3>4. /\ Late(job[w].target) + MaxPersist <= LoopEnd
          /\ Budget <= Late(job[w].target) /\ Late(job[w].target) \in Nat
      BY <3>3, BoundLimits, BoundTypes
    <3>5. job[w].timer <= LoopEnd
      BY <1>0, <1>1, <3>3, <3>4 DEF Punctual, OnTime, Persisted
    <3> QED
      BY <1>0, <3>2, <3>3, <3>5
  <2>3. now + 1 <= LoopEnd + MaxNotify
    BY <1>0, <1>10, <2>2 DEF Tick, Quiescent, Timing
  <2> QED
    BY <1>10, <2>1, <2>2, <2>3 DEF Tick, Timing, Apart, AllExited
<1>11. CASE Over \/ UNCHANGED vars
  BY <1>11 DEF Over, vars, Timing, Apart, AllExited
<1> QED
  BY <1>3, <1>4, <1>5, <1>6, <1>7, <1>8, <1>9, <1>10, <1>11 DEF Next, WorkerStep

LEMMA TimingInvariant == Spec => [](TypeOK /\ Counting /\ Timing)
<1>1. Init => Timing
  <2> SUFFICES ASSUME Init PROVE Timing
    OBVIOUS
  <2>1. \A w \in Pool : job[w] = IdleJob
    BY DEF Init
  <2>2. Punctual(IdleJob, 0, 0)
    BY DEF Punctual, Placed, OnTime, Persisted, Granted, IdleJob
  <2>3. LoopEnd \in Nat
    <3>1. Waves(N, Concurrency) \in Nat
      BY WavesType, CycleAssumption
    <3> QED
      BY <3>1, CycleAssumption DEF LoopEnd
  <2>4. Apart
    BY <2>1 DEF Apart, IdleJob
  <2> QED
    BY <2>1, <2>2, <2>3, <2>4, CycleAssumption DEF Init, Timing
<1>2. TypeOK /\ Counting /\ Timing /\ [Next]_vars => Timing'
  BY TimingStep
<1> QED
  BY <1>1, <1>2, TypeCorrect, PTL DEF Spec

(* The theorems: what the invariant says of each property.                 *)

\* For every registry, pool and budget: no attempt and no backoff is ever seen past the
\* target's deadline (runCycle, withRetry), and no deadline lies past the budget.
THEOREM DeadlineRespected == Spec => []WithinDeadline
<1>1. TypeOK /\ Counting /\ Timing => WithinDeadline
  BY DEF Timing, Punctual, OnTime, WithinDeadline
<1> QED
  BY <1>1, TimingInvariant, PTL

\* A retry is never started with minAttemptMs or less to run: withRetry's give-up test
\* is made before the backoff and is still true after it.
THEOREM RetriesWorthMaking == Spec => []RetryWorthMaking
<1>1. ASSUME TypeOK, Counting, Timing PROVE RetryWorthMaking
  <2> SUFFICES ASSUME NEW w \in Pool, job[w].pc = "attempt", job[w].attempt > 1
               PROVE  job[w].timer - job[w].begun >= MinOf(AttemptTimeout, MinAttempt + 1)
    BY DEF RetryWorthMaking
  <2>1. job[w] \in JobType /\ Granted(job[w])
    BY <1>1 DEF TypeOK, Timing, Punctual
  <2>2. /\ job[w].begun \in Nat /\ job[w].deadline \in Int
        /\ AttemptTimeout \in Nat /\ MinAttempt \in Nat
    BY <2>1, CycleAssumption DEF JobType
  <2>3. /\ job[w].timer = job[w].begun + MinOf(AttemptTimeout, job[w].deadline - job[w].begun)
        /\ job[w].deadline - job[w].begun > MinAttempt
    BY <2>1 DEF Granted
  <2> QED
    BY <2>2, <2>3 DEF MinOf
<1> QED
  BY <1>1, TimingInvariant, PTL

\* targetDeadline's reservation does its work in every feasible cycle, for any pool size:
\* each target is picked in time but for the persistence of the waves before its own.
THEOREM ReservationHolds == Spec => []PickedInTime
<1>1. ASSUME TypeOK, Counting, Timing PROVE PickedInTime
  <2> SUFFICES ASSUME Feasible, NEW w \in Pool, job[w].pc \in {"attempt", "backoff", "write"}
               PROVE  job[w].pickedAt <= Latest(job[w].target)
    BY DEF PickedInTime, Latest, Overhead, Busy
  <2> QED
    BY <1>1 DEF Timing, Punctual, Granted
<1> QED
  BY <1>1, TimingInvariant, PTL

\* Hence a first attempt of at least the attempt timeout less that overhead, and a
\* refusal for want of time only when the overhead alone is worth an attempt.
THEOREM FirstAttemptGuaranteed == Spec => []FirstAttemptFloor
<1>1. ASSUME TypeOK, Counting, Timing PROVE FirstAttemptFloor
  <2> SUFFICES ASSUME Feasible, NEW w \in Pool
               PROVE  /\ (job[w].pc = "attempt" /\ job[w].made = 1) =>
                            job[w].timer - job[w].begun >= AttemptTimeout - Overhead(job[w].target)
                      /\ job[w].outcome = "deadline" => AttemptTimeout <= Overhead(job[w].target)
    BY DEF FirstAttemptFloor, Overhead
  <2>1. job[w] \in JobType /\ OnTime(job[w], now) /\ Granted(job[w])
    BY <1>1 DEF TypeOK, Timing, Punctual
  <2>2. job[w].outcome = "deadline" => AttemptTimeout <= Overhead(job[w].target)
    BY <2>1 DEF Granted
  <2>3. ASSUME job[w].pc = "attempt", job[w].made = 1
        PROVE  job[w].timer - job[w].begun >= AttemptTimeout - Overhead(job[w].target)
    <3>1. job[w].target \in Targets
      BY <1>1, <2>3 DEF Counting
    <3>2. /\ job[w].begun \in Nat /\ job[w].deadline \in Int /\ job[w].timer \in Nat
          /\ AttemptTimeout \in Nat /\ Budget \in Nat
          /\ Overhead(job[w].target) \in Nat /\ Latest(job[w].target) \in Int
      BY <2>1, <3>1, BoundTypes, OverheadType, CycleAssumption DEF JobType
    <3>3. Latest(job[w].target) + AttemptTimeout <= Budget + Overhead(job[w].target)
      BY <3>1, BoundLimits
    <3>4. /\ job[w].timer = job[w].begun + MinOf(AttemptTimeout, job[w].deadline - job[w].begun)
          /\ job[w].begun = job[w].pickedAt /\ job[w].pickedAt <= Latest(job[w].target)
          /\ job[w].pickedAt + MinOf(AttemptTimeout, Budget - job[w].pickedAt) <= job[w].deadline
      BY <2>1, <2>3 DEF Granted, OnTime
    <3> QED
      BY <3>2, <3>3, <3>4 DEF MinOf
  <2> QED
    BY <2>2, <2>3
<1> QED
  BY <1>1, TimingInvariant, PTL

\* The loop overruns its budget by no more than one persistence per wave, and the whole
\* cycle by one notifier call more, whether or not the cycle was feasible.
THEOREM OverrunIsBounded == Spec => []OverrunBounded
<1>1. TypeOK /\ Counting /\ Timing => OverrunBounded
  BY DEF Timing, LoopEnd, OverrunBounded
<1> QED
  BY <1>1, TimingInvariant, PTL

--------------------------------------------------------------------------------
(* Every target is dealt to one worker, and leaves one result.             *)

\* Strengthens DealtOnce: no row before the write, and one when the streak is read.
Dealing ==
    /\ DealtOnce
    /\ \A w \in Pool : /\ Busy(job[w]) => rows[job[w].target] = 0
                       /\ job[w].pc = "streak" => rows[job[w].target] = 1

\* Inside the retry loop a job stays in its worker's hands.
LEMMA LoopBusy ==
    ASSUME TypeOK, NEW j \in JobType
    PROVE  /\ \A o \in {"ok"} \cup Causes : Busy(Settle(j, o)) /\ Settle(j, o).target = j.target
           /\ \A o \in Causes : Busy(AfterFailure(j, o)) /\ AfterFailure(j, o).target = j.target
           /\ Busy(BeginAttempt(j)) /\ BeginAttempt(j).target = j.target
<1>1. \A o : Busy(Settle(j, o)) /\ Settle(j, o).target = j.target
  BY DEF Settle, JobType, Busy
<1>2. \A o : Busy(AfterFailure(j, o)) /\ AfterFailure(j, o).target = j.target
  BY <1>1 DEF AfterFailure, JobType, Busy
<1>3. Busy(BeginAttempt(j)) /\ BeginAttempt(j).target = j.target
  BY <1>1 DEF BeginAttempt, JobType, Busy
<1> QED
  BY <1>1, <1>2, <1>3

LEMMA DealingStep ==
    ASSUME TypeOK, Counting, Timing, Dealing, [Next]_vars
    PROVE  Dealing'
<1>0. /\ job \in [Pool -> JobType] /\ now \in Nat /\ cursor \in Nat
      /\ rows \in [Targets -> Nat] /\ N \in Nat
      /\ slots \in [Targets -> [status   : {"none", "ok", "failed"},
                                attempts : 0 .. Attempts, made : 0 .. Attempts]]
      /\ alerts \in SUBSET Targets
  BY CycleAssumption DEF TypeOK
<1>1. Apart /\ Apart'
  BY TimingStep DEF Timing
\* A busy job changes, stays busy and keeps its target.
<1>2. ASSUME NEW w \in Pool, NEW j, job' = [job EXCEPT ![w] = j],
             Busy(job[w]), Busy(j), j.target = job[w].target,
             UNCHANGED <<cursor, slots, rows, alerts>>
      PROVE  Dealing'
  <2>1. /\ \A v \in Pool : job'[v].target = job[v].target /\ (Busy(job'[v]) <=> Busy(job[v]))
        /\ \A v \in Pool : job'[v].pc = "streak" => job[v].pc = "streak"
    BY <1>0, <1>2 DEF Busy
  <2>2. InFlight' = InFlight
    BY <2>1 DEF InFlight, Busy
  <2> QED
    BY <1>1, <1>2, <2>1, <2>2 DEF Dealing, DealtOnce, Apart, Busy
<1>3. ASSUME NEW w \in Pool, Pick(w)
      PROVE  Dealing'
  <2>1. PickedJob \in JobType /\ PickedJob.target = cursor
    BY <1>0, <1>3, PickedType DEF Pick, PickedJob, IdleJob
  <2>0. cursor \in Targets
    BY <1>0, <1>3 DEF Pick, Targets
  <2> DEFINE k == BeginAttempt(PickedJob)
  <2>2. Busy(k) /\ k.target = cursor
    BY <2>1, LoopBusy
  <2>3. job' = [job EXCEPT ![w] = k]
    BY <1>3 DEF Pick, PickedJob
  <2>4. ~Busy(job[w]) /\ job[w].pc # "streak"
    BY <1>3 DEF Pick, Busy
  <2> HIDE DEF k
  <2>5. \A v \in Pool : v # w => job'[v] = job[v]
    BY <1>0, <2>3
  <2>6. job'[w] = k
    BY <1>0, <2>3
  <2>7. \A t : t \in InFlight' <=> (t \in InFlight \/ t = cursor)
    BY <2>2, <2>4, <2>5, <2>6 DEF InFlight
  <2>8. rows[cursor] = 0
    BY <1>0, <2>0 DEF Dealing, DealtOnce
  <2>9. UNCHANGED <<slots, rows, alerts>> /\ cursor' = cursor + 1
    BY <1>3 DEF Pick
  <2>10. \A t \in Targets : t >= cursor + 1 \/ t = cursor <=> t >= cursor
    BY <1>0 DEF Targets
  <2>11. DealtOnce'
    BY <1>0, <1>1, <2>7, <2>9, <2>10 DEF Dealing, DealtOnce, Apart
  <2>12. \A v \in Pool : /\ Busy(job'[v]) => rows[job'[v].target] = 0
                         /\ job'[v].pc = "streak" => rows[job'[v].target] = 1
    BY <2>2, <2>5, <2>6, <2>8 DEF Dealing, Busy
  <2> QED
    BY <2>9, <2>11, <2>12 DEF Dealing, Busy
\* A worker outside the retry loop moves on: its target's results are already there.
<1>4. ASSUME NEW w \in Pool, NEW j, job' = [job EXCEPT ![w] = j],
             ~Busy(job[w]), j.pc \in {"ready", "exited"},
             cursor' = cursor \/ (cursor >= N /\ cursor' = cursor + 1),
             UNCHANGED <<slots, rows>>,
             alerts' \subseteq alerts \cup {job[w].target},
             alerts' # alerts => job[w].pc = "streak"
      PROVE  Dealing'
  <2>1. \A v \in Pool : (v # w => job'[v] = job[v]) /\ job'[w] = j
    BY <1>0, <1>4
  <2>2. InFlight' = InFlight
    BY <1>4, <2>1 DEF InFlight, Busy
  <2>3. \A t \in Targets : t >= cursor' <=> t >= cursor
    BY <1>0, <1>4 DEF Targets
  <2>4. \A t \in Targets : t \in alerts' => rows[t] = 1
    BY <1>4 DEF Dealing, DealtOnce
  <2>5. DealtOnce'
    BY <1>1, <1>4, <2>2, <2>3, <2>4 DEF Dealing, DealtOnce, Apart
  <2>6. \A v \in Pool : /\ Busy(job'[v]) => rows[job'[v].target] = 0
                        /\ job'[v].pc = "streak" => rows[job'[v].target] = 1
    BY <1>4, <2>1 DEF Dealing, Busy
  <2> QED
    BY <1>4, <2>5, <2>6 DEF Dealing, Busy
\* A write settles: the target leaves its worker's hands for the result array.
<1>5. ASSUME NEW w \in Pool, NEW j, job' = [job EXCEPT ![w] = j], job[w].pc = "write",
             j.pc \in {"ready", "streak"}, j.target = job[w].target,
             slots' = [slots EXCEPT ![job[w].target] = Result(job[w])],
             \/ rows' = [rows EXCEPT ![job[w].target] = rows[job[w].target] + 1]
             \/ rows' = rows /\ j.pc = "ready",
             UNCHANGED <<cursor, alerts>>
      PROVE  Dealing'
  <2> DEFINE t == job[w].target
  <2>1. t \in Targets /\ t < cursor /\ rows[t] = 0
    BY <1>5 DEF Counting, Timing, Punctual, Placed, Dealing, Busy
  <2>2. Result(job[w]).status \in {"ok", "failed"}
    BY DEF Result
  <2>3. /\ job'[w] = j /\ ~Busy(j) /\ Busy(job[w])
        /\ \A v \in Pool : v # w => job'[v] = job[v] /\ job[v].target # t
    BY <1>0, <1>1, <1>5, <2>1 DEF Apart, Busy, Targets
  <2>4. \A u : u \in InFlight' <=> (u \in InFlight /\ u # t)
    BY <2>3 DEF InFlight
  <2>5. /\ \A u \in Targets : u # t => slots'[u] = slots[u] /\ rows'[u] = rows[u]
        /\ slots'[t].status \in {"ok", "failed"}
        /\ rows'[t] \in {0, 1} /\ (j.pc = "streak" => rows'[t] = 1)
    BY <1>0, <1>5, <2>1, <2>2
  <2>6. t \notin alerts
    BY <2>1 DEF Dealing, DealtOnce
  <2>7. \A u \in Targets :
          /\ (slots'[u].status = "none") <=> (u >= cursor \/ u \in InFlight')
          /\ rows'[u] = 1 \/ rows'[u] = 0
          /\ rows'[u] = 1 => slots'[u].status # "none"
          /\ u \in alerts => rows'[u] = 1
    <3> SUFFICES ASSUME NEW u \in Targets
                 PROVE  /\ (slots'[u].status = "none") <=> (u >= cursor \/ u \in InFlight')
                        /\ rows'[u] = 1 \/ rows'[u] = 0
                        /\ rows'[u] = 1 => slots'[u].status # "none"
                        /\ u \in alerts => rows'[u] = 1
      OBVIOUS
    <3>1. CASE u = t
      <4>1. u \notin InFlight' /\ ~(u >= cursor)
        BY <1>0, <2>1, <2>4, <3>1 DEF Targets
      <4> QED
        BY <2>5, <2>6, <3>1, <4>1
    <3>2. CASE u # t
      BY <2>4, <2>5, <3>2 DEF Dealing, DealtOnce
    <3> QED
      BY <3>1, <3>2
  <2>8. \A v \in Pool : /\ Busy(job'[v]) => rows'[job'[v].target] = 0
                        /\ job'[v].pc = "streak" => rows'[job'[v].target] = 1
    <3> SUFFICES ASSUME NEW v \in Pool
                 PROVE  /\ Busy(job'[v]) => rows'[job'[v].target] = 0
                        /\ job'[v].pc = "streak" => rows'[job'[v].target] = 1
      OBVIOUS
    <3>1. CASE v = w
      BY <1>5, <2>3, <2>5, <3>1
    <3>2. CASE v # w
      <4>1. Busy(job[v]) \/ job[v].pc = "streak" => job[v].target \in Targets
        BY DEF Busy, Counting
      <4> QED
        BY <2>3, <2>5, <3>2, <4>1 DEF Dealing, Busy
    <3> QED
      BY <3>1, <3>2
  <2> QED
    BY <1>1, <1>5, <2>7, <2>8 DEF Dealing, DealtOnce, Apart, Busy
<1>6. ASSUME NEW w \in Pool,
             AttemptSucceeds(w) \/ AttemptFails(w) \/ AttemptTimesOut(w) \/ Wake(w)
      PROVE  Dealing'
  <2>1. job[w] \in JobType /\ Busy(job[w]) /\ UNCHANGED <<cursor, slots, rows, alerts>>
    BY <1>0, <1>6 DEF AttemptSucceeds, AttemptFails, AttemptTimesOut, Wake, Busy
  <2>2. CASE AttemptSucceeds(w)
    <3>1. job' = [job EXCEPT ![w] = Settle(job[w], "ok")]
      BY <2>2 DEF AttemptSucceeds
    <3> QED
      BY <1>2, <2>1, <3>1, LoopBusy
  <2>3. CASE AttemptFails(w) \/ AttemptTimesOut(w)
    <3>1. PICK o \in Causes : job' = [job EXCEPT ![w] = AfterFailure(job[w], o)]
      BY <2>3 DEF AttemptFails, AttemptTimesOut, Causes
    <3> QED
      BY <1>2, <2>1, <3>1, LoopBusy
  <2>4. CASE Wake(w)
    <3>1. job' = [job EXCEPT ![w] = BeginAttempt(Again(job[w]))]
      BY <2>4 DEF Wake
    <3>2. Again(job[w]) \in JobType /\ Again(job[w]).target = job[w].target
      BY <2>1, <2>4, AgainType DEF Wake, Counting, Again, JobType
    <3> QED
      BY <1>2, <2>1, <3>1, <3>2, LoopBusy
  <2> QED
    BY <1>6, <2>2, <2>3, <2>4
<1>7. ASSUME NEW w \in Pool, Exit(w) \/ StreakRead(w)
      PROVE  Dealing'
  <2>1. ~Busy(job[w]) /\ UNCHANGED <<slots, rows>>
    BY <1>7 DEF Exit, StreakRead, Busy
  <2>2. CASE Exit(w)
    <3>1. job' = [job EXCEPT ![w] = [job[w] EXCEPT !.pc = "exited"]]
      BY <2>2 DEF Exit
    <3>2. [job[w] EXCEPT !.pc = "exited"].pc = "exited"
      BY <1>0 DEF JobType
    <3>3. cursor >= N /\ cursor' = cursor + 1 /\ alerts' = alerts
      BY <2>2 DEF Exit
    <3> QED
      BY <1>4, <2>1, <3>1, <3>2, <3>3
  <2>3. CASE StreakRead(w)
    <3>1. job' = [job EXCEPT ![w] = Recorded(job[w], "ready")]
      BY <2>3 DEF StreakRead
    <3>2. Recorded(job[w], "ready").pc = "ready"
      BY DEF Recorded, IdleJob
    <3>3. /\ cursor' = cursor /\ alerts' \subseteq alerts \cup {job[w].target}
          /\ job[w].pc = "streak"
      BY <2>3 DEF StreakRead
    <3> QED
      BY <1>4, <2>1, <3>1, <3>2, <3>3
  <2> QED
    BY <1>7, <2>2, <2>3
<1>8. ASSUME NEW w \in Pool, WriteLands(w) \/ WriteFails(w)
      PROVE  Dealing'
  <2>1. PICK p \in {"ready", "streak"} :
          /\ job' = [job EXCEPT ![w] = Recorded(job[w], p)]
          /\ \/ rows' = [rows EXCEPT ![job[w].target] = rows[job[w].target] + 1]
             \/ rows' = rows /\ p = "ready"
    BY <1>8 DEF WriteLands, WriteFails
  <2>2. Recorded(job[w], p).pc = p /\ Recorded(job[w], p).target = job[w].target
    BY DEF Recorded, IdleJob
  <2>3. /\ job[w].pc = "write" /\ UNCHANGED <<cursor, alerts>>
        /\ slots' = [slots EXCEPT ![job[w].target] = Result(job[w])]
    BY <1>8 DEF WriteLands, WriteFails
  <2> QED
    BY <1>5, <2>1, <2>2, <2>3
<1>9. ASSUME UNCHANGED <<cursor, job, slots, rows, alerts>>
      PROVE  Dealing'
  BY <1>9 DEF Dealing, DealtOnce, InFlight, Busy
<1>10. CASE \/ ReturnQuietly \/ Notify \/ NotifySettles \/ OrphanSettles \/ Kill
            \/ Tick \/ Over \/ UNCHANGED vars
  BY <1>9, <1>10 DEF ReturnQuietly, Notify, NotifySettles, OrphanSettles, Kill, Tick, Over, vars
<1> QED
  BY <1>3, <1>6, <1>7, <1>8, <1>10 DEF Next, WorkerStep

\* For any number of targets and workers: every picked target is in exactly one worker's
\* hands or in the result array, with at most one row, and alerts only on its own row.
THEOREM DealtToOne == Spec => []DealtOnce
<1>1. Init => Dealing
  <2> SUFFICES ASSUME Init PROVE Dealing
    OBVIOUS
  <2>1. \A w \in Pool : ~Busy(job[w]) /\ job[w].pc # "streak" /\ job[w].target = -1
    BY DEF Init, IdleJob, Busy
  <2>2. InFlight = {}
    BY <2>1 DEF InFlight
  <2>3. \A t \in Targets : t >= cursor /\ rows[t] = 0 /\ slots[t].status = "none"
    BY CycleAssumption DEF Init, Targets, NotRun
  <2> QED
    BY <2>1, <2>2, <2>3 DEF Dealing, DealtOnce, Init
<1>2. TypeOK /\ Counting /\ Timing /\ Dealing /\ [Next]_vars => Dealing'
  BY DealingStep
<1>3. Dealing => DealtOnce
  BY DEF Dealing
<1> QED
  BY <1>1, <1>2, <1>3, TimingInvariant, PTL DEF Spec

--------------------------------------------------------------------------------
(* The notification.                                                       *)

\* Whoever has posted has left the run loop.
PostedAfterTheLoop == posts > 0 => phase # "running"

LEMMA PostedStep == PostedAfterTheLoop /\ [Next]_vars => PostedAfterTheLoop'
<1> SUFFICES ASSUME PostedAfterTheLoop, [Next]_vars
             PROVE  PostedAfterTheLoop'
  OBVIOUS
<1> USE DEF PostedAfterTheLoop
<1>1. CASE \E w \in Pool : WorkerStep(w)
  BY <1>1 DEF WorkerStep, Pick, Exit, AttemptSucceeds, AttemptFails, AttemptTimesOut, Wake,
              WriteLands, WriteFails, StreakRead
<1>2. CASE ReturnQuietly \/ Notify \/ NotifySettles \/ Kill
  BY <1>2 DEF ReturnQuietly, Notify, NotifySettles, Kill
<1>3. CASE OrphanSettles \/ Tick \/ Over \/ UNCHANGED vars
  BY <1>3 DEF OrphanSettles, Tick, Over, vars
<1> QED
  BY <1>1, <1>2, <1>3 DEF Next

\* For any pool, budget and notifier: at most one notification, and once it is under way
\* no row, result or alert is added that it could have reported (cycle.ts, runCycle).
THEOREM NotifiesLast == Spec => PostedLast
<1>1. Init => PostedAfterTheLoop
  BY DEF Init, PostedAfterTheLoop
<1>2. ASSUME PostedAfterTheLoop, [Next]_vars, posts > 0
      PROVE  posts' = posts /\ UNCHANGED <<rows, slots, alerts>>
  <2>1. phase # "running"
    BY <1>2 DEF PostedAfterTheLoop
  <2>2. CASE \E w \in Pool : WorkerStep(w)
    BY <2>1, <2>2 DEF WorkerStep, Pick, Exit, AttemptSucceeds, AttemptFails, AttemptTimesOut,
                      Wake, WriteLands, WriteFails, StreakRead
  <2>3. CASE ReturnQuietly \/ Notify \/ NotifySettles \/ Kill
    BY <2>1, <2>3 DEF ReturnQuietly, Notify, NotifySettles, Kill
  <2>4. CASE OrphanSettles \/ Tick \/ Over \/ UNCHANGED vars
    BY <2>4 DEF OrphanSettles, Tick, Over, vars
  <2> QED
    BY <1>2, <2>2, <2>3, <2>4 DEF Next
<1>3. PostedAfterTheLoop /\ [Next]_vars
        => [posts > 0 => posts' = posts /\ UNCHANGED <<rows, slots, alerts>>]_vars
  BY <1>2
<1> QED
  BY <1>1, <1>3, PostedStep, PTL DEF Spec, PostedLast
================================================================================
