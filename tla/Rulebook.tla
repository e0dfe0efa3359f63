-------------------------------- MODULE Rulebook --------------------------------
(***************************************************************************)
(* The arithmetic every adapter scores with: core/src/scoring.ts (weighted *)
(* mean, freshness window, reserve sizing), core/src/weights.ts and        *)
(* core/src/operational-state.ts (levels and their order).  Scores are     *)
(* rounded where the code rounds what it publishes; an optional value is   *)
(* <<>> when it is null and <<v>> when it is v.                            *)
(***************************************************************************)
EXTENDS Integers, Sequences, FiniteSets, FiniteSetsExt, Functions

CONSTANT StaleCeiling   \* STALE_CEILING_SECONDS, in the model's time unit

ASSUME StaleCeilingAssumption == StaleCeiling \in Nat \ {0}

MinOf(a, b) == IF a <= b THEN a ELSE b
MaxOf(a, b) == IF a >= b THEN a ELSE b
Clamp(n) == MaxOf(0, MinOf(100, n))

\* Math.round(a / b), for b > 0.
RoundDiv(a, b) == (2 * a + b) \div (2 * b)

--------------------------------------------------------------------------------
(* Scores.                                                                 *)

LendingWeights ==
    [collateralSafety |-> 20, oracleSafety |-> 25, adminKeySafety |-> 20,
     liquiditySafety |-> 15, utilizationSafety |-> 20]

DexWeights == [adminKeySafety |-> 55, assetControlSafety |-> 45]

\* The weighted mean of the factors that have a value; 0 when none has.
ScoreFactors(factors, weights) ==
    LET present == {f \in DOMAIN factors : factors[f] # <<>>}
        total   == MapThenSumSet(LAMBDA f : weights[f], present)
    IN  IF total = 0 THEN 0
        ELSE RoundDiv(MapThenSumSet(LAMBDA f : factors[f][1] * weights[f], present), total)

\* Until `fresh` a price is as good as new, from `dead` on it is worth nothing.
FreshnessWindow(resolution, maxAge) ==
    LET fresh    == MaxOf(0, resolution)
        declared == IF maxAge > 0 THEN maxAge ELSE StaleCeiling
        dead     == MinOf(declared, StaleCeiling)
    IN  [fresh |-> fresh,
         dead  |-> IF dead > fresh THEN dead ELSE fresh + MaxOf(1, fresh)]

\* lerp01(age, dead, fresh), for a window that is not empty.
Freshness(age, window) ==
    Clamp(RoundDiv(100 * (window.dead - age), window.dead - window.fresh))

\* The lowest of the reserves' scores; nothing to assess is the unsafe end.
WorstScore(scores) == IF scores = {} THEN 0 ELSE Min(scores)

TotalUsd(usd) ==
    MapThenSumSet(LAMBDA a : usd[a][1], {a \in DOMAIN usd : usd[a] # <<>> /\ usd[a][1] > 0})

\* Reserves large enough to be graded: unpriced, over the protocol's own floor (0 when
\* it declares none), or at least half a percent of the pool.
SizeReserves(usd, floor) ==
    LET total == TotalUsd(usd)
    IN  {a \in DOMAIN usd :
            \/ total <= 0
            \/ usd[a] = <<>>
            \/ floor > 0 /\ usd[a][1] >= floor
            \/ 200 * usd[a][1] >= total}

\* Mutant of StaleReserves: a reserve without a price is not listed.
StaleReservesPriced(ages, limit) == {a \in DOMAIN ages : ages[a] # <<>> /\ ages[a][1] > limit}

\* Reserves past the staleness limit the protocol sets itself; an unpriced one always is.
StaleReserves(ages, limit) == {a \in DOMAIN ages : ages[a] = <<>> \/ ages[a][1] > limit}

--------------------------------------------------------------------------------
(* The rules the two lending adapters share.                               *)

\* 1 - HHI of the priced reserves, scaled so that an even split is 100.
Concentration(usd) ==
    LET priced == {a \in DOMAIN usd : usd[a] # <<>> /\ usd[a][1] > 0}
        n      == Cardinality(priced)
        total  == TotalUsd(usd)
        sumSq  == MapThenSumSet(LAMBDA a : usd[a][1] * usd[a][1], priced)
    IN  IF n <= 1 THEN 0
        ELSE Clamp(RoundDiv(100 * n * (total * total - sumSq), (n - 1) * total * total))

\* How much of a reserve's supply is not lent out.
FreeShare(book) == Clamp(RoundDiv(100 * (book.supplied - book.borrowed), book.supplied))

\* How far a reserve's utilisation is from its cap, which is in percent.
Headroom(book, cap) ==
    Clamp(RoundDiv(100 * (cap * book.supplied - 100 * book.borrowed), cap * book.supplied))

\* An externally owned admin: more keys are safer, recent activity is not.
AccountScore(account) ==
    LET base == IF account.signers > 1 /\ account.threshold > 1 THEN 90 ELSE 40
    IN  Clamp(base - MinOf(30, 3 * account.ops))

--------------------------------------------------------------------------------
(* Operational state.                                                      *)

LendingOperations == {"supply", "withdraw", "borrow", "repay", "liquidate"}
DexOperations == {"swap", "deposit", "withdraw", "claim"}

Rank(level) ==
    CASE level = "active"            -> 0
      [] level = "borrowingDisabled" -> 1
      [] level = "swapDisabled"      -> 1
      [] level = "entryDisabled"     -> 2
      [] level = "exitDisabled"      -> 3
      [] level = "notOperational"    -> 4

\* toOperationalState.
LendingLevel(blocked, neverOpened) ==
    IF neverOpened THEN "notOperational"
    ELSE IF "withdraw" \in blocked THEN "exitDisabled"
    ELSE IF "supply" \in blocked THEN "entryDisabled"
    ELSE IF "borrow" \in blocked THEN "borrowingDisabled" ELSE "active"

\* toDexOperationalState.
DexLevel(blocked) ==
    IF "withdraw" \in blocked THEN "exitDisabled"
    ELSE IF "deposit" \in blocked THEN "entryDisabled"
    ELSE IF "swap" \in blocked THEN "swapDisabled" ELSE "active"

LendingState(blocked, neverOpened) ==
    [level |-> LendingLevel(blocked, neverOpened), blocked |-> blocked]

DexState(blocked) == [level |-> DexLevel(blocked), blocked |-> blocked]

\* Mutant of MostRestrictive: the first reading is believed.
MostRestrictiveFirst(states) == states[1]

\* The first of the states no other outranks.
MostRestrictive(states) ==
    states[CHOOSE i \in DOMAIN states : \A j \in DOMAIN states :
             /\ Rank(states[j].level) <= Rank(states[i].level)
             /\ j < i => Rank(states[j].level) < Rank(states[i].level)]
================================================================================
