------------------------------- MODULE RateLimit -------------------------------
(***************************************************************************)
(* One attempt's allowance for waiting out 429s: RateLimitBudget           *)
(* (core/src/rate-limit.ts) and the loop that draws on it for every        *)
(* transport call, withRateLimitRetry (adapters/rate-limit.ts).  An        *)
(* attempt issues calls one after another and side by side; they share     *)
(* one budget, whose deadline endsAt is the moment runWithTimeout gives    *)
(* the attempt up (indexer/src/retry.ts), and go on drawing on it after    *)
(* the attempt is over, because nothing cancels them.                      *)
(***************************************************************************)
EXTENDS Integers, FiniteSets, Sequences, FiniteSetsExt

CONSTANTS
    Calls,                  \* transport calls the attempt may issue
    BaseDelay,              \* policy.baseDelayMs
    MaxRetriesPerCall,      \* policy.maxRetriesPerCall
    MaxRetriesPerAttempt,   \* policy.maxRetriesPerAttempt
    BackoffBudget,          \* policy.backoffBudgetMs
    MinCall,                \* policy.minCallMs
    EndsAt,                 \* the attempt's deadline; it starts at time 0
    RetryAfters,            \* numbers a Retry-After header may hold
    MaxTime                 \* bound: how long abandoned calls are watched

ASSUME RateLimitAssumption ==
    /\ {BaseDelay, MaxRetriesPerCall, MaxRetriesPerAttempt, BackoffBudget, MinCall, MaxTime}
          \subseteq Nat
    /\ EndsAt \in Nat \ {0}
    /\ RetryAfters \subseteq Int
    /\ IsFiniteSet(Calls)

\* An arithmetic fact the provers cannot derive (it needs an induction).
ASSUME DoublingAssumption == \A r \in 0 .. MaxRetriesPerCall : BaseDelay * 2 ^ r \in Nat

VARIABLES
    now,        \* the clock
    call,       \* each transport call
    retries,    \* budget.retries
    slept,      \* budget.sleptMs
    limited,    \* budget.wasRateLimited: it remembers some 429
    attempt     \* how the attempt that awaits the calls stands

vars == <<now, call, retries, slept, limited, attempt>>

Unissued == [pc |-> "unissued", retries |-> 0, wakeAt |-> 0, waited |-> 0]

Init ==
    /\ now = 0
    /\ call = [c \in Calls |-> Unissued]
    /\ retries = 0
    /\ slept = 0
    /\ limited = FALSE
    /\ attempt = "running"

--------------------------------------------------------------------------------

(* What a 429 looks like.  A thrown error may carry the response's status  *)
(* (0 here when it does not), axios's own sentence for a 429, and a        *)
(* Retry-After header: <<>> when it is missing or no number.               *)

Headers == {<<>>} \cup {<<n>> : n \in RetryAfters}

Errors == [status : {0, 404, 429}, sentence : BOOLEAN, retryAfter : Headers]

\* The Soroban SDK throws its errors.  Horizon answers with a response, which
\* horizonFetch turns into an error when it is a 429 and hands on otherwise.
HorizonRateLimitResponse(header) == [status |-> 429, sentence |-> TRUE, retryAfter |-> header]

Thrown == Errors \cup {HorizonRateLimitResponse(header) : header \in Headers}

IsRateLimited(error) == error.status = 429 \/ error.sentence

\* A negative wait is no wait: retryAfterFromHeaders answers null, and null ?? 0 is 0.
RetryAfterMs(error) ==
    IF error.retryAfter = <<>> \/ error.retryAfter[1] < 0 THEN 0 ELSE error.retryAfter[1]

RateLimits == {error \in Thrown : IsRateLimited(error)}

--------------------------------------------------------------------------------

Delay(callRetries, retryAfter) == Max({BaseDelay * 2 ^ callRetries, retryAfter})

\* Mutants of Affordable: the deadline does not count; and retries are capped for each
\* call only.
AffordableUndated(callRetries, delay) ==
    /\ callRetries < MaxRetriesPerCall
    /\ retries < MaxRetriesPerAttempt
    /\ slept + delay <= BackoffBudget

AffordablePerCall(callRetries, delay) ==
    /\ callRetries < MaxRetriesPerCall
    /\ slept + delay <= BackoffBudget
    /\ now + delay + MinCall <= EndsAt

\* planRetry: may the call wait `delay` and be made once more?
Affordable(callRetries, delay) ==
    /\ callRetries < MaxRetriesPerCall
    /\ retries < MaxRetriesPerAttempt
    /\ slept + delay <= BackoffBudget
    /\ now + delay + MinCall <= EndsAt

\* The attempt issues a call.  One that is over issues no more.
Issue(c) ==
    /\ attempt = "running"
    /\ call[c].pc = "unissued"
    /\ call' = [call EXCEPT ![c].pc = "inflight"]
    /\ UNCHANGED <<now, retries, slept, limited, attempt>>

\* Anything but a 429: the call resolves, or its error is rethrown at the first throw.
Answered(c) ==
    /\ call[c].pc = "inflight"
    /\ \/ call' = [call EXCEPT ![c].pc = "answered"]
       \/ \E error \in Thrown \ RateLimits : call' = [call EXCEPT ![c].pc = "failed"]
    /\ UNCHANGED <<now, retries, slept, limited, attempt>>

\* A 429 the budget can still afford to wait out.
Retry(c) ==
    /\ call[c].pc = "inflight"
    /\ \E error \in RateLimits :
         LET delay == Delay(call[c].retries, RetryAfterMs(error))
         IN  /\ Affordable(call[c].retries, delay)
             /\ retries' = retries + 1
             /\ slept' = slept + delay
             /\ call' = [call EXCEPT ![c] =
                           [pc |-> "sleeping", retries |-> @.retries + 1,
                            wakeAt |-> now + delay, waited |-> @.waited + delay]]
    /\ limited' = TRUE
    /\ UNCHANGED <<now, attempt>>

\* A 429 it cannot: recordRefusal, and RateLimitExhaustedError.
GiveUp(c) ==
    /\ call[c].pc = "inflight"
    /\ \E error \in RateLimits :
         ~Affordable(call[c].retries, Delay(call[c].retries, RetryAfterMs(error)))
    /\ call' = [call EXCEPT ![c].pc = "refused"]
    /\ limited' = TRUE
    /\ UNCHANGED <<now, retries, slept, attempt>>

Wake(c) ==
    /\ call[c].pc = "sleeping"
    /\ now = call[c].wakeAt
    /\ call' = [call EXCEPT ![c].pc = "inflight"]
    /\ UNCHANGED <<now, retries, slept, limited, attempt>>

\* The attempt settles: on its own code, which answers or throws whatever its calls did,
\* or on a call that was refused, whose error it rethrows.
Settles ==
    /\ attempt = "running"
    /\ \/ attempt' = "settled"
       \/ /\ \E c \in Calls : call[c].pc = "refused"
          /\ attempt' = "rateLimited"
    /\ UNCHANGED <<now, call, retries, slept, limited>>

\* runWithTimeout's timer: the attempt is given up with its calls still under way.
TimesOut ==
    /\ attempt = "running"
    /\ now = EndsAt
    /\ attempt' = "timedOut"
    /\ UNCHANGED <<now, call, retries, slept, limited>>

Quiescent ==
    /\ \A c \in Calls : call[c].pc = "sleeping" => now < call[c].wakeAt
    /\ attempt = "running" => now < EndsAt

Tick ==
    /\ Quiescent
    /\ now < MaxTime
    /\ now' = now + 1
    /\ UNCHANGED <<call, retries, slept, limited, attempt>>

\* The bound on the watch is reached.
Watched ==
    /\ now = MaxTime
    /\ UNCHANGED vars

Next ==
    \/ \E c \in Calls : Issue(c) \/ Answered(c) \/ Retry(c) \/ GiveUp(c) \/ Wake(c)
    \/ Settles
    \/ TimesOut
    \/ Tick
    \/ Watched

Spec == Init /\ [][Next]_vars

--------------------------------------------------------------------------------
(* Properties.                                                             *)

Total(amount) == FoldSet(LAMBDA c, sum : sum + amount[c], 0, Calls)

\* However its calls interleave, the attempt keeps to one allowance: what the budget has
\* counted is what its calls have done, it knows of a 429 exactly when one of them met
\* one, and it is within the policy.
OneAllowance ==
    /\ retries = Total([c \in Calls |-> call[c].retries])
    /\ slept = Total([c \in Calls |-> call[c].waited])
    /\ limited <=> \E c \in Calls : call[c].retries > 0 \/ call[c].pc = "refused"
    /\ retries <= MaxRetriesPerAttempt
    /\ slept <= BackoffBudget

\* No call sleeps through the attempt's deadline or wakes with less than minCallMs of it
\* left: the timeout never fires on a backoff, and a call of an attempt that was given
\* up makes no request after the deadline.
RetryFits ==
    \A c \in Calls : call[c].pc = "sleeping" =>
        now <= call[c].wakeAt /\ call[c].wakeAt + MinCall <= EndsAt
================================================================================
