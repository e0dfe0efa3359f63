---------------------------- MODULE RateLimitProofs ----------------------------
(***************************************************************************)
(* Proofs about RateLimit: for any number of calls, policy, deadline and   *)
(* Retry-After, a backoff ends while a minimum call still fits.            *)
(***************************************************************************)
EXTENDS RateLimit, Extremes

\* The larger of two naturals, as FiniteSetsExt takes it.
LEMMA MaxOfTwo ==
    ASSUME NEW a \in Nat, NEW b \in Nat
    PROVE  Max({a, b}) \in Nat
<1>1. \E x \in {a, b} : \A y \in {a, b} : x >= y
  OBVIOUS
<1> QED
  BY <1>1 DEF Max

\* Whatever the header holds, the wait it asks for is a natural.
LEMMA RetryAfterType ==
    ASSUME NEW error \in RateLimits
    PROVE  RetryAfterMs(error) \in Nat
<1>1. error.retryAfter \in Headers
  BY DEF RateLimits, Thrown, Errors, HorizonRateLimitResponse
<1>2. CASE error.retryAfter = <<>>
  BY <1>2 DEF RetryAfterMs
<1>3. CASE error.retryAfter # <<>>
  <2>1. PICK n \in RetryAfters : error.retryAfter = <<n>>
    BY <1>1, <1>3 DEF Headers
  <2>2. error.retryAfter[1] = n /\ n \in Int
    BY <2>1, RateLimitAssumption
  <2> QED
    BY <1>3, <2>2 DEF RetryAfterMs
<1> QED
  BY <1>2, <1>3

\* What a retry's delay is, before the budget is asked.
LEMMA DelayType ==
    ASSUME NEW r \in 0 .. MaxRetriesPerCall, NEW error \in RateLimits
    PROVE  Delay(r, RetryAfterMs(error)) \in Nat
<1>1. BaseDelay * 2 ^ r \in Nat /\ RetryAfterMs(error) \in Nat
  BY DoublingAssumption, RetryAfterType
<1> QED
  BY <1>1, MaxOfTwo DEF Delay

Call == [pc      : {"unissued", "inflight", "sleeping", "answered", "failed", "refused"},
         retries : 0 .. MaxRetriesPerCall,
         wakeAt  : Nat,
         waited  : Nat]

\* The part of the types that does not speak of TLC's bound on the clock.
Typed == now \in Nat /\ call \in [Calls -> Call]

\* A call that sleeps was afforded its wait, and the clock stops for it until it wakes.
LEMMA FitsStep ==
    ASSUME Typed, RetryFits, [Next]_vars
    PROVE  Typed' /\ RetryFits'
<1>0. /\ now \in Nat /\ call \in [Calls -> Call]
      /\ \A c \in Calls : call[c].pc = "sleeping" =>
            now <= call[c].wakeAt /\ call[c].wakeAt + MinCall <= EndsAt
      /\ MinCall \in Nat /\ EndsAt \in Nat /\ MaxRetriesPerCall \in Nat
  BY RateLimitAssumption DEF Typed, RetryFits
\* A call changes to a state in which it does not sleep.
<1>1. ASSUME NEW c \in Calls, NEW p \in {"inflight", "answered", "failed", "refused"},
             call' = [call EXCEPT ![c].pc = p], now' = now
      PROVE  Typed' /\ RetryFits'
  <2> DEFINE k == [call[c] EXCEPT !.pc = p]
  <2>1. k \in Call /\ k.pc = p
    BY <1>0 DEF Call
  <2>2. call' = [call EXCEPT ![c] = k]
    BY <1>1
  <2> HIDE DEF k
  <2>3. \A d \in Calls : call'[d] = IF d = c THEN k ELSE call[d]
    BY <1>0, <2>2
  <2>4. Typed'
    BY <1>0, <1>1, <2>1, <2>2 DEF Typed
  <2>5. RetryFits'
    BY <1>0, <1>1, <2>1, <2>3 DEF RetryFits
  <2> QED
    BY <2>4, <2>5
<1>2. ASSUME NEW c \in Calls, Issue(c) \/ Answered(c) \/ GiveUp(c) \/ Wake(c)
      PROVE  Typed' /\ RetryFits'
  <2>1. PICK p \in {"inflight", "answered", "failed", "refused"} :
          call' = [call EXCEPT ![c].pc = p] /\ now' = now
    BY <1>2 DEF Issue, Answered, GiveUp, Wake
  <2> QED
    BY <1>1, <2>1
<1>3. ASSUME NEW c \in Calls, Retry(c)
      PROVE  Typed' /\ RetryFits'
  <2>1. PICK error \in RateLimits :
          /\ Affordable(call[c].retries, Delay(call[c].retries, RetryAfterMs(error)))
          /\ call' = [call EXCEPT ![c] =
                        [pc |-> "sleeping", retries |-> call[c].retries + 1,
                         wakeAt |-> now + Delay(call[c].retries, RetryAfterMs(error)),
                         waited |-> call[c].waited + Delay(call[c].retries, RetryAfterMs(error))]]
    BY <1>3 DEF Retry
  <2> DEFINE d == Delay(call[c].retries, RetryAfterMs(error))
             k == [pc |-> "sleeping", retries |-> call[c].retries + 1,
                   wakeAt |-> now + d, waited |-> call[c].waited + d]
  <2>2. call[c] \in Call /\ call[c].retries \in 0 .. MaxRetriesPerCall /\ call[c].waited \in Nat
    BY <1>0 DEF Call
  <2>3. d \in Nat
    BY <2>2, DelayType
  <2>4. call[c].retries < MaxRetriesPerCall /\ now + d + MinCall <= EndsAt
    BY <2>1 DEF Affordable
  <2>5. call' = [call EXCEPT ![c] = k] /\ now' = now
    BY <1>3, <2>1 DEF Retry
  <2> HIDE DEF d
  <2>6. k \in Call
    BY <1>0, <2>2, <2>3, <2>4 DEF Call
  <2>7. k.wakeAt = now + d
    OBVIOUS
  <2> HIDE DEF k
  <2>8. \A e \in Calls : call'[e] = IF e = c THEN k ELSE call[e]
    BY <1>0, <2>5
  <2>9. Typed'
    BY <1>0, <2>5, <2>6 DEF Typed
  <2>10. RetryFits'
    BY <1>0, <2>3, <2>4, <2>5, <2>7, <2>8 DEF RetryFits
  <2> QED
    BY <2>9, <2>10
<1>4. CASE Tick
  <2>1. \A c \in Calls : call[c].pc = "sleeping" => now < call[c].wakeAt
    BY <1>4 DEF Tick, Quiescent
  <2>2. now' = now + 1 /\ call' = call
    BY <1>4 DEF Tick
  <2>3. \A c \in Calls : call[c].wakeAt \in Nat
    BY <1>0 DEF Call
  <2> QED
    BY <1>0, <2>1, <2>2, <2>3 DEF Typed, RetryFits
<1>5. CASE Settles \/ TimesOut \/ Watched \/ UNCHANGED vars
  BY <1>0, <1>5 DEF Settles, TimesOut, Watched, vars, Typed, RetryFits
<1> QED
  BY <1>2, <1>3, <1>4, <1>5 DEF Next

\* For every policy: planRetry never lets a backoff reach the attempt's deadline, or end
\* with less than minCallMs to it, even in an attempt that has been given up.
THEOREM BackoffsFit == Spec => []RetryFits
<1>1. Init => Typed /\ RetryFits
  BY RateLimitAssumption DEF Init, Unissued, Typed, Call, RetryFits
<1>2. Typed /\ RetryFits /\ [Next]_vars => Typed' /\ RetryFits'
  BY FitsStep
<1> QED
  BY <1>1, <1>2, PTL DEF Spec

--------------------------------------------------------------------------------
(* What Total, a fold over the calls, adds up to.                           *)

\* The function a fold of additions over S runs on: what it gives each subset.
IsTally(tally, amount, S) ==
    tally = [s \in SUBSET S |->
               IF s = {} THEN 0
               ELSE LET x == CHOOSE x \in s : TRUE IN tally[s \ {x}] + amount[x]]

\* Over a finite set there is one.
LEMMA TallyExists ==
    ASSUME NEW S, IsFiniteSet(S), NEW amount
    PROVE  \E tally : IsTally(tally, amount, S)
<1> DEFINE Pick(s) == CHOOSE x \in s : TRUE
           Upto(n) == {s \in SUBSET S : Cardinality(s) <= n}
           After(f, s) == IF s = {} THEN 0 ELSE f[s \ {Pick(s)}] + amount[Pick(s)]
           Works(f, n) == \A s \in Upto(n) : f[s] = After(f, s)
           Bad == {n \in Nat : \A f : ~Works(f, n)}
<1>1. \A s \in SUBSET S : /\ IsFiniteSet(s) /\ Cardinality(s) \in Nat
                          /\ Cardinality(s) <= Cardinality(S)
                          /\ Cardinality(s) = 0 <=> s = {}
  BY FS_Subset, FS_CardinalityType, FS_EmptySet
<1>2. \A s \in SUBSET S : s # {} => /\ Pick(s) \in s
                                    /\ Cardinality(s \ {Pick(s)}) = Cardinality(s) - 1
  BY <1>1, FS_RemoveElement
<1> HIDE DEF Pick
<1>3. Bad = {}
  <2> SUFFICES ASSUME Bad # {}
               PROVE  FALSE
    OBVIOUS
  <2> DEFINE m == Min(Bad)
  <2>1. m \in Bad /\ \A n \in Bad : m <= n
    BY LeastOf
  <2> HIDE DEF m
  <2>2. m # 0
    <3> DEFINE f == [s \in SUBSET S |-> 0]
    <3>1. Works(f, 0)
      BY <1>1
    <3> QED
      BY <2>1, <3>1
  <2>3. m - 1 \in Nat /\ m - 1 \notin Bad
    <3> HIDE DEF Works
    <3>1. m \in Nat
      BY <2>1
    <3> HIDE DEF Bad
    <3>2. m - 1 \in Nat /\ ~(m <= m - 1)
      BY <2>2, <3>1
    <3> QED
      BY <2>1, <3>2
  <2>4. PICK f : Works(f, m - 1)
    BY <2>3
  <2> DEFINE g == [s \in SUBSET S |-> After(f, s)]
  <2>5. \A s \in Upto(m - 1) : g[s] = f[s]
    BY <2>4
  <2>6. Works(g, m)
    <3> SUFFICES ASSUME NEW s \in Upto(m)
                 PROVE  g[s] = After(g, s)
      OBVIOUS
    <3>1. CASE s = {}
      BY <3>1
    <3>2. CASE s # {}
      <4>1. s \ {Pick(s)} \in Upto(m - 1)
        BY <1>1, <1>2, <2>1, <2>3, <3>2
      <4> QED
        BY <2>5, <3>2, <4>1
    <3> QED
      BY <3>1, <3>2
  <2> QED
    BY <2>1, <2>6
<1>4. PICK f : Works(f, Cardinality(S))
  <2> HIDE DEF Works
  <2>1. Cardinality(S) \in Nat
    BY <1>1
  <2> QED
    BY <1>3, <2>1
<1> DEFINE g == [s \in SUBSET S |-> f[s]]
<1>5. g = [s \in SUBSET S |-> After(g, s)]
  <2>1. \A s \in SUBSET S : g[s] = After(g, s)
    <3> SUFFICES ASSUME NEW s \in SUBSET S
                 PROVE  g[s] = After(g, s)
      OBVIOUS
    <3>1. s \in Upto(Cardinality(S))
      BY <1>1
    <3>2. s \ {Pick(s)} \in SUBSET S
      OBVIOUS
    <3> QED
      BY <1>4, <3>1, <3>2
  <2> QED
    BY <2>1
<1> HIDE DEF g
<1> QED
  BY <1>5 DEF IsTally, Pick

\* A tally of a set adds one member's amount to the tally of the others.
LEMMA TallyAt ==
    ASSUME NEW S, NEW amount, NEW tally, IsTally(tally, amount, S), NEW s \in SUBSET S, s # {}
    PROVE  \E x \in s : tally[s] = tally[s \ {x}] + amount[x]
BY DEF IsTally

\* When one member's amount grows by d, so does the tally of the whole set.
LEMMA TallyChanges ==
    ASSUME NEW S, IsFiniteSet(S), NEW c \in S, NEW d \in Int,
           NEW v \in [S -> Int], NEW w \in [S -> Int],
           \A x \in S : w[x] = IF x = c THEN v[x] + d ELSE v[x],
           NEW f, IsTally(f, v, S), NEW g, IsTally(g, w, S)
    PROVE  f[S] \in Int /\ g[S] = f[S] + d
<1> DEFINE Right(s) == f[s] \in Int /\ g[s] = IF c \in s THEN f[s] + d ELSE f[s]
           Wrong == {s \in SUBSET S : ~Right(s)}
<1>1. Right({})
  BY DEF IsTally
<1>2. ASSUME Wrong # {}
      PROVE  FALSE
  <2>1. PICK s \in Wrong : \A x \in s : s \ {x} \notin Wrong
    <3> HIDE DEF Right
    <3> QED
      BY <1>2, SmallestOf
  <2>2. s \in SUBSET S /\ s # {} /\ ~Right(s)
    BY <1>1, <2>1
  <2> DEFINE x == CHOOSE x \in s : TRUE
  <2>3. x \in s
    BY <2>2
  <2>4. Right(s \ {x})
    BY <2>1, <2>2, <2>3
  <2>5. f[s] = f[s \ {x}] + v[x] /\ g[s] = g[s \ {x}] + w[x]
    BY <2>2 DEF IsTally
  <2>6. v[x] \in Int /\ w[x] \in Int /\ w[x] = IF x = c THEN v[x] + d ELSE v[x]
    BY <2>2, <2>3
  <2> HIDE DEF x
  <2> QED
    BY <2>2, <2>3, <2>4, <2>5, <2>6
<1> QED
  BY <1>2

\* Nothing adds up to nothing.
LEMMA TallyOfZeros ==
    ASSUME NEW S, IsFiniteSet(S), NEW v, \A x \in S : v[x] = 0, NEW f, IsTally(f, v, S)
    PROVE  f[S] = 0
<1> DEFINE Wrong == {s \in SUBSET S : f[s] # 0}
<1>1. f[{}] = 0
  BY DEF IsTally
<1>2. ASSUME Wrong # {}
      PROVE  FALSE
  <2>1. PICK s \in Wrong : \A x \in s : s \ {x} \notin Wrong
    BY <1>2, SmallestOf
  <2>2. s \in SUBSET S /\ s # {} /\ f[s] # 0
    BY <1>1, <2>1
  <2>3. PICK x \in s : f[s] = f[s \ {x}] + v[x]
    BY <2>2, TallyAt
  <2>4. f[s \ {x}] = 0 /\ v[x] = 0
    BY <2>1, <2>2
  <2> QED
    BY <2>2, <2>3, <2>4
<1> QED
  BY <1>2

\* Total is the tally of all the calls.
LEMMA TotalIsTally ==
    ASSUME NEW amount
    PROVE  \E tally : IsTally(tally, amount, Calls) /\ Total(amount) = tally[Calls]
<1>1. \E tally : IsTally(tally, amount, Calls)
  BY TallyExists, RateLimitAssumption
<1> QED
  BY <1>1 DEF Total, FoldSet, MapThenFoldSet, IsTally

\* When one call's amount grows by d, the total grows by d.
LEMMA TotalGrows ==
    ASSUME NEW v \in [Calls -> Int], NEW w \in [Calls -> Int], NEW c \in Calls, NEW d \in Int,
           \A x \in Calls : w[x] = IF x = c THEN v[x] + d ELSE v[x]
    PROVE  Total(w) = Total(v) + d
<1>1. PICK f : IsTally(f, v, Calls) /\ Total(v) = f[Calls]
  BY TotalIsTally
<1>2. PICK g : IsTally(g, w, Calls) /\ Total(w) = g[Calls]
  BY TotalIsTally
<1>3. IsFiniteSet(Calls)
  BY RateLimitAssumption
<1>4. g[Calls] = f[Calls] + d
  BY <1>1, <1>2, <1>3, TallyChanges
<1> QED
  BY <1>1, <1>2, <1>4

LEMMA TotalOfZeros ==
    ASSUME NEW v, \A c \in Calls : v[c] = 0
    PROVE  Total(v) = 0
BY TotalIsTally, TallyOfZeros, RateLimitAssumption

--------------------------------------------------------------------------------

\* The allowance with the types it needs; it is inductive.
AllowanceInv == Typed /\ retries \in Nat /\ slept \in Nat /\ OneAllowance

\* The sums follow the calls' counters, so a step that leaves these alone keeps them.
LEMMA SumsKept ==
    ASSUME \A c \in Calls : call'[c].retries = call[c].retries /\ call'[c].waited = call[c].waited
    PROVE  /\ Total([c \in Calls |-> call'[c].retries]) = Total([c \in Calls |-> call[c].retries])
           /\ Total([c \in Calls |-> call'[c].waited]) = Total([c \in Calls |-> call[c].waited])
<1>1. [c \in Calls |-> call'[c].retries] = [c \in Calls |-> call[c].retries]
  OBVIOUS
<1>2. [c \in Calls |-> call'[c].waited] = [c \in Calls |-> call[c].waited]
  OBVIOUS
<1> QED
  BY <1>1, <1>2

\* A call in flight or asleep moves on without a retry: the budget remembers a 429 that
\* refused it, and counts nothing.
LEMMA CallMoves ==
    ASSUME AllowanceInv, NEW c \in Calls, Issue(c) \/ Answered(c) \/ GiveUp(c) \/ Wake(c)
    PROVE  (retries \in Nat /\ slept \in Nat /\ OneAllowance)'
<1>0. call \in [Calls -> Call]
  BY DEF AllowanceInv, Typed
<1>1. PICK p \in {"inflight", "answered", "failed", "refused"} :
        /\ call' = [call EXCEPT ![c].pc = p]
        /\ limited' = (IF p = "refused" THEN TRUE ELSE limited)
        /\ call[c].pc # "refused"
  BY DEF Issue, Answered, GiveUp, Wake
<1>2. retries' = retries /\ slept' = slept
  BY DEF Issue, Answered, GiveUp, Wake
<1>3. \A x \in Calls : /\ call'[x].retries = call[x].retries
                       /\ call'[x].waited = call[x].waited
                       /\ call'[x].pc = IF x = c THEN p ELSE call[x].pc
  <2>1. [call[c] EXCEPT !.pc = p].pc = p /\ [call[c] EXCEPT !.pc = p].retries = call[c].retries
           /\ [call[c] EXCEPT !.pc = p].waited = call[c].waited
    BY <1>0 DEF Call
  <2>2. \A x \in Calls : call'[x] = IF x = c THEN [call[c] EXCEPT !.pc = p] ELSE call[x]
    BY <1>0, <1>1
  <2> QED
    BY <2>1, <2>2
<1>4. limited' <=> \E x \in Calls : call'[x].retries > 0 \/ call'[x].pc = "refused"
  <2>1. limited <=> \E x \in Calls : call[x].retries > 0 \/ call[x].pc = "refused"
    BY DEF AllowanceInv, OneAllowance
  <2> QED
    BY <1>1, <1>3, <2>1
<1>5. /\ retries' = Total([x \in Calls |-> call'[x].retries])
      /\ slept' = Total([x \in Calls |-> call'[x].waited])
  BY <1>2, <1>3, SumsKept DEF AllowanceInv, OneAllowance
<1> QED
  BY <1>2, <1>4, <1>5 DEF AllowanceInv, OneAllowance

\* A retry is added to the call's counters and to the budget's at once, and planRetry
\* has left room for both.
LEMMA CallRetries ==
    ASSUME AllowanceInv, NEW c \in Calls, Retry(c)
    PROVE  (retries \in Nat /\ slept \in Nat /\ OneAllowance)'
<1>0. /\ call \in [Calls -> Call] /\ retries \in Nat /\ slept \in Nat
      /\ \A x \in Calls : call[x].retries \in 0 .. MaxRetriesPerCall /\ call[x].waited \in Nat
      /\ MaxRetriesPerAttempt \in Nat /\ MaxRetriesPerCall \in Nat
  BY RateLimitAssumption DEF AllowanceInv, Typed, Call
<1>1. PICK error \in RateLimits :
        LET delay == Delay(call[c].retries, RetryAfterMs(error))
        IN  /\ Affordable(call[c].retries, delay)
            /\ retries' = retries + 1
            /\ slept' = slept + delay
            /\ call' = [call EXCEPT ![c] =
                          [pc |-> "sleeping", retries |-> call[c].retries + 1,
                           wakeAt |-> now + delay, waited |-> call[c].waited + delay]]
  BY DEF Retry
<1> DEFINE delay == Delay(call[c].retries, RetryAfterMs(error))
<1>2. delay \in Nat
  BY <1>0, DelayType
<1>3. /\ retries < MaxRetriesPerAttempt /\ slept + delay <= BackoffBudget
      /\ retries' = retries + 1 /\ slept' = slept + delay
  BY <1>1 DEF Affordable
<1>4. \A x \in Calls :
        /\ call'[x].retries = IF x = c THEN call[x].retries + 1 ELSE call[x].retries
        /\ call'[x].waited = IF x = c THEN call[x].waited + delay ELSE call[x].waited
        /\ call'[x].pc = IF x = c THEN "sleeping" ELSE call[x].pc
  BY <1>0, <1>1
<1> HIDE DEF delay
<1>5. Total([x \in Calls |-> call'[x].retries]) = Total([x \in Calls |-> call[x].retries]) + 1
  <2> DEFINE v == [x \in Calls |-> call[x].retries]
             w == [x \in Calls |-> call'[x].retries]
  <2>1. v \in [Calls -> Int] /\ w \in [Calls -> Int]
    BY <1>0, <1>4
  <2>2. \A x \in Calls : w[x] = IF x = c THEN v[x] + 1 ELSE v[x]
    BY <1>4
  <2> HIDE DEF v, w
  <2>3. Total(w) = Total(v) + 1
    BY <2>1, <2>2, TotalGrows
  <2> QED
    BY <2>3 DEF v, w
<1>6. Total([x \in Calls |-> call'[x].waited]) = Total([x \in Calls |-> call[x].waited]) + delay
  <2> DEFINE v == [x \in Calls |-> call[x].waited]
             w == [x \in Calls |-> call'[x].waited]
  <2>1. v \in [Calls -> Int] /\ w \in [Calls -> Int]
    BY <1>0, <1>2, <1>4
  <2>2. \A x \in Calls : w[x] = IF x = c THEN v[x] + delay ELSE v[x]
    BY <1>4
  <2>3. delay \in Int
    BY <1>2
  <2> HIDE DEF v, w
  <2>4. Total(w) = Total(v) + delay
    BY <2>1, <2>2, <2>3, TotalGrows
  <2> QED
    BY <2>4 DEF v, w
<1>7. limited' /\ call'[c].retries > 0
  BY <1>0, <1>4 DEF Retry
<1> QED
  BY <1>0, <1>2, <1>3, <1>5, <1>6, <1>7 DEF AllowanceInv, OneAllowance

\* For every policy and every interleaving of its calls, timed out or not: the attempt's
\* budget has counted exactly what its calls did, remembers a 429 exactly when one of
\* them met one, and stays within the policy (RateLimitBudget.planRetry, recordRefusal).
THEOREM AllowanceHolds == Spec => []OneAllowance
<1>1. Init => AllowanceInv /\ RetryFits
  <2> SUFFICES ASSUME Init
               PROVE  AllowanceInv /\ RetryFits
    OBVIOUS
  <2>1. Typed /\ RetryFits /\ retries = 0 /\ slept = 0 /\ limited = FALSE
    BY RateLimitAssumption DEF Init, Unissued, Typed, Call, RetryFits
  <2>2. \A c \in Calls : call[c].retries = 0 /\ call[c].waited = 0 /\ call[c].pc = "unissued"
    BY DEF Init, Unissued
  <2>3. \A c \in Calls : [x \in Calls |-> call[x].retries][c] = 0
    BY <2>2
  <2>4. \A c \in Calls : [x \in Calls |-> call[x].waited][c] = 0
    BY <2>2
  <2>5. /\ Total([x \in Calls |-> call[x].retries]) = 0
        /\ Total([x \in Calls |-> call[x].waited]) = 0
    BY <2>3, <2>4, TotalOfZeros
  <2>6. 0 <= MaxRetriesPerAttempt /\ 0 <= BackoffBudget
    BY RateLimitAssumption
  <2> QED
    BY <2>1, <2>2, <2>5, <2>6 DEF AllowanceInv, OneAllowance
<1>2. AllowanceInv /\ RetryFits /\ [Next]_vars => (AllowanceInv /\ RetryFits)'
  <2> SUFFICES ASSUME AllowanceInv, RetryFits, [Next]_vars
               PROVE  (AllowanceInv /\ RetryFits)'
    OBVIOUS
  <2>1. Typed' /\ RetryFits'
    BY FitsStep DEF AllowanceInv
  <2>2. CASE \E c \in Calls : Issue(c) \/ Answered(c) \/ GiveUp(c) \/ Wake(c)
    BY <2>1, <2>2, CallMoves DEF AllowanceInv
  <2>3. CASE \E c \in Calls : Retry(c)
    BY <2>1, <2>3, CallRetries DEF AllowanceInv
  <2>4. CASE Settles \/ TimesOut \/ Tick \/ Watched \/ UNCHANGED vars
    <3>1. call' = call /\ retries' = retries /\ slept' = slept /\ limited' = limited
      BY <2>4 DEF Settles, TimesOut, Tick, Watched, vars
    <3> QED
      BY <2>1, <3>1 DEF AllowanceInv, OneAllowance
  <2> QED
    BY <2>2, <2>3, <2>4 DEF Next
<1>3. AllowanceInv => OneAllowance
  BY DEF AllowanceInv
<1> QED
  BY <1>1, <1>2, <1>3, PTL DEF Spec
================================================================================
