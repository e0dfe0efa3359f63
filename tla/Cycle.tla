--------------------------------- MODULE Cycle ---------------------------------
(***************************************************************************)
(* One indexing cycle (indexer/src/cycle.ts, runCycle) with the retry loop *)
(* it drives (indexer/src/retry.ts, withRetry): a pool of workers over a   *)
(* shared cursor, each scoring one target at a time against a deadline     *)
(* carved out of the cycle's budget, persisting the outcome, reading the   *)
(* target's failure streak, and one notification when all have exited.     *)
(*                                                                         *)
(* The clock is explicit.  Code between two awaits takes no time, so Tick  *)
(* is disabled while a worker has such code to run or a timer is due.  An  *)
(* attempt may settle at any moment up to its timer, or never.             *)
(***************************************************************************)
EXTENDS CycleBudget

CONSTANTS
    N,              \* targets.length
    Concurrency,    \* options.concurrency, truncated and at least 1
    Budget,         \* options.budgetMs; the cycle starts at time 0
    AttemptTimeout, \* retry.attemptTimeoutMs
    Attempts,       \* retry.attempts
    BaseDelay,      \* retry.baseDelayMs
    MinAttempt,     \* retry.minAttemptMs
    MaxPersist,     \* environment: longest DB write plus streak read of a target
    MaxNotify,      \* longest notifier call (the webhook's own timeout)
    MaxDuration,    \* when the platform kills the invocation
    Alerting        \* a notifier and an alert threshold were passed

ASSUME CycleAssumption ==
    /\ N \in Nat
    /\ Concurrency \in Nat \ {0}
    /\ Budget \in Nat \ {0}
    /\ AttemptTimeout \in Nat \ {0}
    /\ Attempts \in Nat \ {0}
    /\ BaseDelay \in Nat
    /\ MinAttempt \in Nat
    /\ MaxPersist \in Nat
    /\ MaxNotify \in Nat
    /\ MaxDuration \in Nat
    /\ Alerting \in BOOLEAN

\* An arithmetic fact the provers cannot derive (it needs an induction).
ASSUME BackoffAssumption == \A a \in 1 .. Attempts : Backoff(BaseDelay, a) \in Nat

Targets == 0 .. N - 1
Pool    == 1 .. MinOf(Concurrency, N)   \* Promise.all over min(concurrency, n) workers

VARIABLES
    now,        \* the injected clock
    cursor,     \* nextIndex, shared by the workers
    job,        \* each worker's runOne in progress
    slots,      \* the result array, indexed by target
    rows,       \* how many risk_scores rows this cycle inserted for each target
    alerts,     \* the targets whose streak read returned an alert
    phase,      \* where runCycle itself is
    tailEnds,   \* when the notifier call must have settled
    posts,      \* notifier calls made
    orphans     \* timed-out attempts abandoned but still running

vars == <<now, cursor, job, slots, rows, alerts, phase, tailEnds, posts, orphans>>

Causes  == {"error", "timeout", "deadline"}
NotRun  == [status |-> "none", attempts |-> 0, made |-> 0]

\* A worker's local state.  `made` counts the attempts really started and
\* `begun` is when the current one was; the code keeps neither.
JobType ==
    [pc       : {"ready", "attempt", "backoff", "write", "streak", "exited"},
     target   : {-1} \cup Targets,
     pickedAt : Nat,
     deadline : Int,
     attempt  : 1 .. Attempts,
     made     : 0 .. Attempts,
     begun    : Nat,
     timer    : Nat,
     outcome  : {"none", "ok"} \cup Causes]

IdleJob ==
    [pc |-> "ready", target |-> -1, pickedAt |-> 0, deadline |-> 0, attempt |-> 1,
     made |-> 0, begun |-> 0, timer |-> 0, outcome |-> "none"]

Init ==
    /\ now = 0
    /\ cursor = 0
    /\ job = [w \in Pool |-> IdleJob]
    /\ slots = [t \in Targets |-> NotRun]
    /\ rows = [t \in Targets |-> 0]
    /\ alerts = {}
    /\ phase = "running"
    /\ tailEnds = 0
    /\ posts = 0
    /\ orphans = 0

--------------------------------------------------------------------------------
(* The retry loop, as functions of a worker's job.                         *)

\* withRetry is over: runOne goes on to store.insertRunRecord.
Settle(j, outcome) ==
    [j EXCEPT !.pc = "write", !.outcome = outcome, !.timer = now + MaxPersist]

\* Mutants of BeginAttempt: the attempt's timer ignores what is left of the deadline;
\* and the policy's timeout never reaches runWithTimeout.
BeginAttemptUncapped(j) ==
    IF j.deadline <= now
    THEN Settle(j, IF j.outcome = "none" THEN "deadline" ELSE j.outcome)
    ELSE [j EXCEPT !.pc = "attempt", !.begun = now, !.made = @ + 1,
                   !.timer = now + AttemptTimeout]
BeginAttemptUntimed(j) ==
    IF j.deadline <= now
    THEN Settle(j, IF j.outcome = "none" THEN "deadline" ELSE j.outcome)
    ELSE [j EXCEPT !.pc = "attempt", !.begun = now, !.made = @ + 1,
                   !.timer = now + MaxDuration]

\* The top of withRetry's loop: out of time, or an attempt capped by what is left.
BeginAttempt(j) ==
    LET remaining == j.deadline - now
    IN  IF remaining <= 0
        THEN Settle(j, IF j.outcome = "none" THEN "deadline" ELSE j.outcome)
        ELSE [j EXCEPT !.pc = "attempt", !.begun = now, !.made = @ + 1,
                       !.timer = now + MinOf(AttemptTimeout, remaining)]

\* Mutants of AfterFailure: attempts are not counted; and a backoff may leave less than
\* minAttemptMs.
AfterFailureUncounted(j, cause) ==
    LET delay == Backoff(BaseDelay, j.attempt)
    IN  IF j.deadline - now <= delay + MinAttempt
        THEN Settle(j, cause)
        ELSE [j EXCEPT !.pc = "backoff", !.outcome = cause, !.timer = now + delay]
AfterFailureEager(j, cause) ==
    LET delay == Backoff(BaseDelay, j.attempt)
    IN  IF j.attempt = Attempts \/ j.deadline - now <= delay
        THEN Settle(j, cause)
        ELSE [j EXCEPT !.pc = "backoff", !.outcome = cause, !.timer = now + delay]

\* The bottom of the loop, after an attempt failed: give up, or back off.
AfterFailure(j, cause) ==
    LET delay == Backoff(BaseDelay, j.attempt)
    IN  IF \/ j.attempt = Attempts
           \/ j.deadline - now <= delay + MinAttempt
        THEN Settle(j, cause)
        ELSE [j EXCEPT !.pc = "backoff", !.outcome = cause, !.timer = now + delay]

\* The next turn of the loop, after a backoff.
Again(j) == [j EXCEPT !.attempt = @ + 1]

\* The CycleRunResult of a settled job: a failure reports the policy's attempts.
Result(j) ==
    IF j.outcome = "ok"
    THEN [status |-> "ok", attempts |-> j.attempt, made |-> j.made]
    ELSE [status |-> "failed", attempts |-> Attempts, made |-> j.made]

\* runOne has recorded its outcome: of its locals only the target is used again.
Recorded(j, pc) ==
    [IdleJob EXCEPT !.pc = pc, !.target = j.target,
                    !.timer = IF pc = "streak" THEN j.timer ELSE 0]

--------------------------------------------------------------------------------
(* The workers.                                                            *)

\* Mutant of Pick: the cursor is not advanced with the read.
PickAgain(w) ==
    /\ phase = "running"
    /\ job[w].pc = "ready"
    /\ cursor < N
    /\ job' = [job EXCEPT ![w] =
                 BeginAttempt([IdleJob EXCEPT
                   !.target   = cursor,
                   !.pickedAt = now,
                   !.deadline = TargetDeadline(Budget, now, N - (cursor + 1),
                                               Concurrency, AttemptTimeout)])]
    /\ UNCHANGED <<now, cursor, slots, rows, alerts, phase, tailEnds, posts, orphans>>

\* worker(): take the next target, fix its deadline, start its first attempt.
Pick(w) ==
    /\ phase = "running"
    /\ job[w].pc = "ready"
    /\ cursor < N
    /\ cursor' = cursor + 1
    /\ job' = [job EXCEPT ![w] =
                 BeginAttempt([IdleJob EXCEPT
                   !.target   = cursor,
                   !.pickedAt = now,
                   !.deadline = TargetDeadline(Budget, now, N - (cursor + 1),
                                               Concurrency, AttemptTimeout)])]
    /\ UNCHANGED <<now, slots, rows, alerts, phase, tailEnds, posts, orphans>>

\* worker(): the cursor ran past the list (it is incremented all the same).
Exit(w) ==
    /\ phase = "running"
    /\ job[w].pc = "ready"
    /\ cursor >= N
    /\ cursor' = cursor + 1
    /\ job' = [job EXCEPT ![w].pc = "exited"]
    /\ UNCHANGED <<now, slots, rows, alerts, phase, tailEnds, posts, orphans>>

\* The adapter answers before the attempt's timer.
AttemptSucceeds(w) ==
    /\ phase = "running"
    /\ job[w].pc = "attempt"
    /\ job' = [job EXCEPT ![w] = Settle(@, "ok")]
    /\ UNCHANGED <<now, cursor, slots, rows, alerts, phase, tailEnds, posts, orphans>>

\* The adapter throws before the attempt's timer.
AttemptFails(w) ==
    /\ phase = "running"
    /\ job[w].pc = "attempt"
    /\ job' = [job EXCEPT ![w] = AfterFailure(@, "error")]
    /\ UNCHANGED <<now, cursor, slots, rows, alerts, phase, tailEnds, posts, orphans>>

\* The timer wins the race: the attempt is abandoned, not cancelled.
AttemptTimesOut(w) ==
    /\ phase = "running"
    /\ job[w].pc = "attempt"
    /\ now = job[w].timer
    /\ job' = [job EXCEPT ![w] = AfterFailure(@, "timeout")]
    /\ orphans' = orphans + 1
    /\ UNCHANGED <<now, cursor, slots, rows, alerts, phase, tailEnds, posts>>

\* The backoff sleep is over: the next turn of the loop.
Wake(w) ==
    /\ phase = "running"
    /\ job[w].pc = "backoff"
    /\ now = job[w].timer
    /\ job' = [job EXCEPT ![w] = BeginAttempt(Again(@))]
    /\ UNCHANGED <<now, cursor, slots, rows, alerts, phase, tailEnds, posts, orphans>>

\* insertRunRecord resolves; the streak is read only when someone is listening.
WriteLands(w) ==
    /\ phase = "running"
    /\ job[w].pc = "write"
    /\ LET t == job[w].target IN
         /\ rows' = [rows EXCEPT ![t] = @ + 1]
         /\ slots' = [slots EXCEPT ![t] = Result(job[w])]
    /\ job' = [job EXCEPT ![w] = Recorded(@, IF Alerting THEN "streak" ELSE "ready")]
    /\ UNCHANGED <<now, cursor, alerts, phase, tailEnds, posts, orphans>>

\* insertRunRecord rejects: logged, no row, and no streak to read.
WriteFails(w) ==
    /\ phase = "running"
    /\ job[w].pc = "write"
    /\ slots' = [slots EXCEPT ![job[w].target] = Result(job[w])]
    /\ job' = [job EXCEPT ![w] = Recorded(@, "ready")]
    /\ UNCHANGED <<now, cursor, rows, alerts, phase, tailEnds, posts, orphans>>

\* checkStreak: an alert, or none (also when the read fails; see StreakAlerts).
StreakRead(w) ==
    /\ phase = "running"
    /\ job[w].pc = "streak"
    /\ alerts' \in {alerts, alerts \cup {job[w].target}}
    /\ job' = [job EXCEPT ![w] = Recorded(@, "ready")]
    /\ UNCHANGED <<now, cursor, slots, rows, phase, tailEnds, posts, orphans>>

--------------------------------------------------------------------------------
(* runCycle after Promise.all, and the environment.                        *)

AllExited == \A w \in Pool : job[w].pc = "exited"

\* No alert, no POST: the summary is returned at once.
ReturnQuietly ==
    /\ phase = "running"
    /\ AllExited
    /\ alerts = {}
    /\ phase' = "returned"
    /\ UNCHANGED <<now, cursor, job, slots, rows, alerts, tailEnds, posts, orphans>>

\* Mutant of Notify: an alert is posted as soon as it is found, inside the loop.
NotifyAtOnce ==
    /\ phase = "running"
    /\ alerts # {}
    /\ posts' = posts + 1
    /\ UNCHANGED <<now, cursor, job, slots, rows, alerts, phase, tailEnds, orphans>>

\* One notifier call for every alert of the cycle.
Notify ==
    /\ phase = "running"
    /\ AllExited
    /\ alerts # {}
    /\ phase' = "notifying"
    /\ tailEnds' = now + MaxNotify
    /\ posts' = posts + 1
    /\ UNCHANGED <<now, cursor, job, slots, rows, alerts, orphans>>

\* It resolves or rejects; a rejection is logged and the summary returned anyway.
NotifySettles ==
    /\ phase = "notifying"
    /\ phase' = "returned"
    /\ UNCHANGED <<now, cursor, job, slots, rows, alerts, tailEnds, posts, orphans>>

\* An abandoned attempt settles; nobody is listening.
OrphanSettles ==
    /\ orphans > 0
    /\ orphans' = orphans - 1
    /\ UNCHANGED <<now, cursor, job, slots, rows, alerts, phase, tailEnds, posts>>

\* The platform's maxDuration: the invocation dies where it stands.
Kill ==
    /\ phase \in {"running", "notifying"}
    /\ now = MaxDuration
    /\ phase' = "killed"
    /\ UNCHANGED <<now, cursor, job, slots, rows, alerts, tailEnds, posts, orphans>>

\* Nothing is left to do at this instant: time may pass.
Quiescent ==
    \/ /\ phase = "running"
       /\ ~AllExited
       /\ \A w \in Pool : /\ job[w].pc # "ready"
                          /\ job[w].pc # "exited" => now < job[w].timer
    \/ /\ phase = "notifying"
       /\ now < tailEnds

Tick ==
    /\ Quiescent
    /\ now < MaxDuration
    /\ now' = now + 1
    /\ UNCHANGED <<cursor, job, slots, rows, alerts, phase, tailEnds, posts, orphans>>

\* The invocation is over.
Over ==
    /\ phase \in {"returned", "killed"}
    /\ UNCHANGED vars

WorkerStep(w) ==
    \/ Pick(w)
    \/ Exit(w)
    \/ AttemptSucceeds(w)
    \/ AttemptFails(w)
    \/ AttemptTimesOut(w)
    \/ Wake(w)
    \/ WriteLands(w)
    \/ WriteFails(w)
    \/ StreakRead(w)

Next ==
    \/ \E w \in Pool : WorkerStep(w)
    \/ ReturnQuietly
    \/ Notify
    \/ NotifySettles
    \/ OrphanSettles
    \/ Kill
    \/ Tick
    \/ Over

\* Timers fire, the event loop runs what is ready, the database and the webhook
\* answer within their bounds.  An adapter need never answer.
Fairness ==
    /\ WF_vars(Tick)
    /\ WF_vars(Kill)
    /\ WF_vars(ReturnQuietly \/ Notify \/ NotifySettles)
    /\ \A w \in Pool : /\ WF_vars(Pick(w) \/ Exit(w))
                       /\ WF_vars(AttemptTimesOut(w) \/ Wake(w))
                       /\ WF_vars(WriteLands(w) \/ WriteFails(w) \/ StreakRead(w))

Spec     == Init /\ [][Next]_vars
FairSpec == Spec /\ Fairness

--------------------------------------------------------------------------------
(* Properties.                                                             *)

TypeOK ==
    /\ now \in Nat
    /\ cursor \in Nat
    /\ job \in [Pool -> JobType]
    /\ slots \in [Targets -> [status   : {"none", "ok", "failed"},
                              attempts : 0 .. Attempts,
                              made     : 0 .. Attempts]]
    /\ rows \in [Targets -> Nat]
    /\ alerts \in SUBSET Targets
    /\ phase \in {"running", "notifying", "returned", "killed"}
    /\ tailEnds \in Nat
    /\ posts \in Nat
    /\ orphans \in Nat

\* Targets some worker has picked and not yet put in the result array.
Busy(j)  == j.pc \in {"attempt", "backoff", "write"}
InFlight == {job[w].target : w \in {v \in Pool : Busy(job[v])}}

\* The shared cursor deals every target to exactly one worker: a picked target is
\* either in one worker's hands or in the result array, an unpicked one has left no
\* trace, and no target gets two rows or an alert without a row.  (So a summary that is
\* returned has every target in it, and a killed cycle has rows only for settled ones.)
DealtOnce ==
    /\ \A v, w \in Pool : v # w /\ job[v].target # -1 => job[v].target # job[w].target
    /\ \A t \in Targets :
         /\ (slots[t].status = "none") <=> (t >= cursor \/ t \in InFlight)
         /\ rows[t] = 1 \/ rows[t] = 0
         /\ rows[t] = 1 => slots[t].status # "none"
         /\ t \in alerts => rows[t] = 1

\* No attempt, and no wait between attempts, is observed past the target's deadline,
\* and no deadline lies past the end of the budget: targetDeadline and the cap in
\* withRetry together, at every moment and not only when the attempt starts.
WithinDeadline ==
    \A w \in Pool : job[w].pc \in {"attempt", "backoff"} =>
        /\ now <= job[w].timer
        /\ job[w].timer <= job[w].deadline
        /\ job[w].deadline <= Budget

\* A retry that starts is worth making: what was left when the backoff began still
\* holds when it ends, so the attempt gets more than MinAttempt (or a whole timeout).
RetryWorthMaking ==
    \A w \in Pool : job[w].pc = "attempt" /\ job[w].attempt > 1 =>
        job[w].timer - job[w].begun >= MinOf(AttemptTimeout, MinAttempt + 1)

Feasible == CycleFeasible(N, Concurrency, AttemptTimeout, Budget)

\* The reservation works: in a feasible cycle target t is picked while one whole
\* attempt still fits for every wave from its own on, whatever the earlier targets
\* did, less only the time earlier waves spent writing rows and reading streaks.
PickedInTime ==
    Feasible => \A w \in Pool : Busy(job[w]) =>
        job[w].pickedAt <= Budget - Waves(N - job[w].target, Concurrency) * AttemptTimeout
                                  + (job[w].target \div Concurrency) * MaxPersist

\* So its first attempt is a whole one but for that overhead, and is refused for want
\* of time only if the overhead alone has eaten an attempt.
FirstAttemptFloor ==
    Feasible => \A w \in Pool :
        LET overhead == (job[w].target \div Concurrency) * MaxPersist
        IN  /\ (job[w].pc = "attempt" /\ job[w].made = 1) =>
                   job[w].timer - job[w].begun >= AttemptTimeout - overhead
            /\ job[w].outcome = "deadline" => AttemptTimeout <= overhead

\* The run loop outlasts its budget only by persistence, one write and streak read per
\* wave, feasible or not; the notifier adds its own timeout once.
OverrunBounded ==
    /\ phase = "running" => now <= Budget + Waves(N, Concurrency) * MaxPersist
    /\ now <= Budget + Waves(N, Concurrency) * MaxPersist + MaxNotify

\* One notification at most, after the last row: nothing it could have reported is
\* written once it is under way.
PostedLast ==
    [][posts > 0 => posts' = posts /\ UNCHANGED <<rows, slots, alerts>>]_vars

\* The cycle ends by itself, however many adapters hang: timers and the deadline are
\* enough.  Stated for a platform limit beyond the bound above.
CycleReturns == <>(phase = "returned")
================================================================================
