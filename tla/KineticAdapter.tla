----------------------------- MODULE KineticAdapter -----------------------------
(***************************************************************************)
(* The Kinetic (K2) market read and scored: adapters/kinetic/fetch.ts and  *)
(* adapters/kinetic/score.ts.  Each reserve takes three calls, so its      *)
(* supply and its debt may be of different ledgers; fetchedAt is stamped   *)
(* before the prices are read; and a read of a price, of an asset's oracle *)
(* configuration or of its breaker baseline that fails for any reason is   *)
(* taken for a null.                                                       *)
(***************************************************************************)
EXTENDS ReadPath

CONSTANTS
    InitialChains,  \* what the router, its tokens, its oracle and its admin may hold
    Edits           \* the transactions that may land

OptimalUtil == 80   \* OPTIMAL_UTIL, in percent

\* The operations a reserve's flags block.
ReserveBlocked(flags) ==
    IF flags.paused \/ ~flags.active THEN LendingOperations
    ELSE IF flags.frozen THEN {"supply", "borrow"}
    ELSE IF flags.borrowing THEN {} ELSE {"borrow"}

\* kineticOperationalState: the router's own switch first, then each reserve in order.
OperationalState(paused, list, flags) ==
    MostRestrictive(
        <<LendingState(IF paused THEN LendingOperations ELSE {}, FALSE)>> \o
        [i \in DOMAIN list |-> LendingState(ReserveBlocked(flags[list[i]]), FALSE)])

\* What was blocked somewhere in the market, whichever part blocked it.
TrueState(c) ==
    LendingState((IF c.paused THEN LendingOperations ELSE {}) \cup
                 UNION {ReserveBlocked(c.flags[a]) : a \in ToSet(c.list)}, FALSE)

Blank ==
    [transport |-> FALSE, admin |-> [kind |-> "contract"], paused |-> FALSE, list |-> <<>>,
     flags |-> <<>>, supplied |-> <<>>, borrowed |-> <<>>, fetchedAt |-> 0, price |-> <<>>,
     breaker |-> 0, threshold |-> 0, ttl |-> 0, config |-> <<>>, maxAge |-> <<>>, ops |-> 0]

Init ==
    /\ chain \in InitialChains
    /\ now = StartedAt /\ changes = 0
    /\ seen = {TrueState(chain)}
    /\ pc = "instance"
    /\ got = Blank
    /\ row = Unpublished

--------------------------------------------------------------------------------
(* The reads, in order.                                                    *)

\* The router's instance must name its admin and its oracle.
ReadInstance ==
    /\ pc = "instance"
    /\ IF chain.configured THEN Learn([got EXCEPT !.admin = chain.admin], "paused") ELSE Throw

ReadPaused == pc = "paused" /\ Learn([got EXCEPT !.paused = chain.paused], "list")

ReadReservesList ==
    /\ pc = "list"
    /\ IF chain.list = <<>> THEN Throw ELSE Learn([got EXCEPT !.list = chain.list], "reserve")

\* The first listed asset `known` does not have yet.
Pending(known) == got.list[Cardinality(DOMAIN known) + 1]
AllKnown(known) == Cardinality(DOMAIN known) = Len(got.list)

\* decodeReserveFlags: four bits of the reserve's configuration.
ReserveFlags(asset) == chain.flags[asset]

ReadReserve ==
    /\ pc = "reserve"
    /\ LET a == Pending(got.flags)
       IN  Learn([got EXCEPT !.flags = Mapped(@, a, ReserveFlags(a))], "supply")

ReadSupply ==
    /\ pc = "supply"
    /\ LET a == Pending(got.supplied)
       IN  Learn([got EXCEPT !.supplied = Mapped(@, a, chain.supplied[a])], "debt")

\* The last debt read is followed by the stamp: the prices come after it.
ReadDebt ==
    /\ pc = "debt"
    /\ LET a     == Pending(got.borrowed)
           known == Mapped(got.borrowed, a, chain.borrowed[a])
       IN  Learn([got EXCEPT !.borrowed = known,
                             !.fetchedAt = IF AllKnown(known) THEN now ELSE @],
                 IF AllKnown(known) THEN "prices" ELSE "reserve")

\* readOraclePrices, the batch: answered for every asset at once.
ReadPriceBatch ==
    /\ pc = "prices"
    /\ Learn([got EXCEPT !.price = [a \in ToSet(got.list) |-> chain.price[a]]], "oracle")

\* An error of any kind, or an answer of the wrong length: ask for each by itself.
PriceBatchFails ==
    /\ pc = "prices"
    /\ \E kind \in FailureKinds \cup {"short"} :
          Learn([got EXCEPT !.transport = @ \/ kind = "transport"], "price")

TakePrice(price, kind) ==
    LET known == Mapped(got.price, Pending(got.price), price)
    IN  Learn([got EXCEPT !.price = known, !.transport = @ \/ kind = "transport"],
              IF AllKnown(known) THEN "oracle" ELSE "price")

ReadPrice == pc = "price" /\ TakePrice(chain.price[Pending(got.price)], "answered")

\* The bare catch: whatever went wrong, the price is null.
PriceFails == pc = "price" /\ \E kind \in FailureKinds : TakePrice(<<>>, kind)

\* readOracleConfig: three reads, each of which throws.
ReadOracleConfig ==
    /\ pc = "oracle"
    /\ Learn([got EXCEPT !.breaker = chain.breaker, !.threshold = chain.threshold],
             "oraclePaused")

ReadOraclePaused == pc = "oraclePaused" /\ Learn(got, "oracleInstance")

ReadOracleInstance ==
    /\ pc = "oracleInstance"
    /\ Learn([got EXCEPT !.ttl = chain.ttl], "assetConfig")

AfterConfig(known) ==
    IF ~AllKnown(known) THEN "assetConfig"
    ELSE IF IsAccount(got.admin) THEN "admin" ELSE "finish"

\* readPriceConfig: a configured asset has its breaker baseline read next.
ReadAssetConfig ==
    /\ pc = "assetConfig"
    /\ LET a     == Pending(got.config)
           known == Mapped(got.config, a, <<>>)
       IN  IF chain.config[a] = <<>>
           THEN Learn([got EXCEPT !.config = known], AfterConfig(known))
           ELSE Learn([got EXCEPT !.maxAge = chain.config[a][1].maxAge], "baseline")

AssetConfigFails ==
    /\ pc = "assetConfig"
    /\ LET known == Mapped(got.config, Pending(got.config), <<>>)
       IN  \E kind \in FailureKinds :
              Learn([got EXCEPT !.config = known, !.transport = @ \/ kind = "transport"],
                    AfterConfig(known))

TakeBaseline(baseline, kind) ==
    LET known == Mapped(got.config, Pending(got.config),
                        <<[maxAge |-> got.maxAge, baseline |-> baseline]>>)
    IN  Learn([got EXCEPT !.config = known, !.transport = @ \/ kind = "transport"],
              AfterConfig(known))

ReadBaseline == pc = "baseline" /\ TakeBaseline(chain.baseline[Pending(got.config)], "answered")

BaselineFails == pc = "baseline" /\ \E kind \in FailureKinds : TakeBaseline(<<>>, kind)

\* fetchAdmin: the account that the router's instance named, as Horizon has it now.
ReadAdmin == pc = "admin" /\ Learn([got EXCEPT !.admin = chain.account], "ops")

ReadOps == pc = "ops" /\ Learn([got EXCEPT !.ops = chain.ops], "finish")

\* Every other read throws when it fails.
ReadFails ==
    /\ pc \notin {"prices", "price", "assetConfig", "baseline", "finish", "done"}
    /\ \E kind \in FailureKinds : ThrowFor(kind)

--------------------------------------------------------------------------------
(* Scoring.                                                                *)

Listed == ToSet(got.list)

Book == [a \in Listed |-> [supplied |-> got.supplied[a], borrowed |-> got.borrowed[a]]]

SuppliedUsd == [a \in Listed |-> IF got.price[a] = <<>> THEN <<>>
                                 ELSE <<got.supplied[a] * got.price[a][1].usd>>]

CollateralSafety == Concentration(SuppliedUsd)

Age(asset) == MaxOf(0, got.fetchedAt - got.price[asset][1].at)

\* The shorter of the asset's own maximum age and the oracle's threshold.
DeclaredAge(asset) ==
    IF got.config[asset] = <<>> \/ got.config[asset][1].maxAge = <<>> THEN got.threshold
    ELSE MinOf(got.config[asset][1].maxAge[1], got.threshold)

PriceFreshness(asset) ==
    IF got.price[asset] = <<>> THEN 0
    ELSE Freshness(Age(asset), FreshnessWindow(got.ttl, DeclaredAge(asset)))

\* What describePriceAges lists beside the score.
Stale == StaleReserves([a \in Listed |-> IF got.price[a] = <<>> THEN <<>> ELSE <<Age(a)>>],
                       got.threshold)

\* The circuit breaker checks a price only against a baseline that is there and not 0.
Armed(asset) ==
    /\ got.breaker > 0
    /\ got.config[asset] # <<>>
    /\ got.config[asset][1].baseline \notin {<<>>, <<0>>}

OracleSafety ==
    MinOf(WorstScore({PriceFreshness(a) : a \in Listed}),
          WorstScore({IF Armed(a) THEN 100 ELSE 0 : a \in Listed}))

AdminKeySafety ==
    IF IsAccount(got.admin)
    THEN AccountScore([signers |-> got.admin.signers, threshold |-> got.admin.threshold,
                       ops |-> got.ops])
    ELSE 60

Supplied == {a \in Listed : Book[a].supplied > 0}
ReserveSizing == SizeReserves(SuppliedUsd, 0)
Measured == Supplied \cap ReserveSizing

LiquiditySafety == WorstScore({FreeShare(Book[a]) : a \in Measured})

UtilizationSafety == WorstScore({Headroom(Book[a], OptimalUtil) : a \in Measured})

\* computeKineticRiskFactors.
RiskFactors ==
    [collateralSafety |-> <<CollateralSafety>>, oracleSafety |-> <<OracleSafety>>,
     adminKeySafety |-> <<AdminKeySafety>>, liquiditySafety |-> <<LiquiditySafety>>,
     utilizationSafety |-> <<UtilizationSafety>>]

Finish ==
    /\ pc = "finish"
    /\ Publish([status   |-> "ok",
                factors  |-> RiskFactors,
                score    |-> ScoreFactors(RiskFactors, LendingWeights),
                state    |-> OperationalState(got.paused, got.list, got.flags),
                excluded |-> Supplied \ ReserveSizing,
                stale    |-> Stale,
                fetchedAt |-> got.fetchedAt])

\* A transaction lands, and makes a state the fetch may truthfully report.
TransactionLands == ChainMoves(Edits) /\ seen' = seen \cup {TrueState(chain')}

--------------------------------------------------------------------------------
Next ==
    \/ ReadInstance \/ ReadPaused \/ ReadReservesList
    \/ ReadReserve \/ ReadSupply \/ ReadDebt
    \/ ReadPriceBatch \/ PriceBatchFails \/ ReadPrice \/ PriceFails
    \/ ReadOracleConfig \/ ReadOraclePaused \/ ReadOracleInstance
    \/ ReadAssetConfig \/ AssetConfigFails \/ ReadBaseline \/ BaselineFails
    \/ ReadAdmin \/ ReadOps \/ ReadFails \/ Finish
    \/ Tick \/ TransactionLands \/ Finished
================================================================================
