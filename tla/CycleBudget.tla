------------------------------ MODULE CycleBudget ------------------------------
(***************************************************************************)
(* The arithmetic of one indexer cycle's wall-clock budget, as operators:  *)
(* indexer/src/cycle.ts (cycleWaves, targetDeadline, cycleFeasibility) and *)
(* the backoff schedule of indexer/src/retry.ts.  Times are integers in    *)
(* one unit; an attempt timeout is finite here, as config.ts always makes  *)
(* it (the infinite default of a caller without a retry policy reserves    *)
(* nothing and is not modelled).                                           *)
(***************************************************************************)
EXTENDS Integers

MinOf(a, b) == IF a <= b THEN a ELSE b
MaxOf(a, b) == IF a >= b THEN a ELSE b

\* Sequential waves that `queued` targets take at this concurrency.
Waves(queued, concurrency) ==
    (MaxOf(0, queued) + MaxOf(1, concurrency) - 1) \div MaxOf(1, concurrency)

\* Mutants of TargetDeadline: nothing is held back for the targets still queued; and
\* the budget runs from the target's start instead of the cycle's.
TargetDeadlineUnreserved(budgetEndsAt, now, queuedAfter, concurrency, attemptTimeout) ==
    budgetEndsAt
TargetDeadlineFromPick(budgetEndsAt, now, queuedAfter, concurrency, attemptTimeout) ==
    now + budgetEndsAt

\* When a target picked at `now` may run until: the end of the budget less one
\* attempt for every wave still queued, but never less than one attempt.
TargetDeadline(budgetEndsAt, now, queuedAfter, concurrency, attemptTimeout) ==
    LET reserved          == Waves(queuedAfter, concurrency) * attemptTimeout
        atLeastOneAttempt == now + MinOf(attemptTimeout, budgetEndsAt - now)
    IN  MaxOf(budgetEndsAt - reserved, atLeastOneAttempt)

\* Can every target have one attempt of full length?
CycleFeasible(targetCount, concurrency, attemptTimeout, budget) ==
    Waves(targetCount, concurrency) * attemptTimeout <= budget

\* The wait after attempt number `attempt`: it doubles each time.
Backoff(baseDelay, attempt) == baseDelay * 2 ^ (attempt - 1)
================================================================================
