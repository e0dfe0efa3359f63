------------------------------ MODULE BlendAdapter ------------------------------
(***************************************************************************)
(* One Blend pool read and scored: adapters/blend/fetch.ts, the order of   *)
(* its reads and what each failure does, and adapters/blend/score.ts.      *)
(* Every read that fails ends the fetch, but for the three grading reads,  *)
(* where a missing function is an answer.                                  *)
(***************************************************************************)
EXTENDS ReadPath

CONSTANTS
    InitialChains,  \* what the pool, its oracle and its admin may hold
    Edits           \* the transactions that may land: <<[part |-> , to |-> ], ...>>

GradingReads == <<"max_age", "oracles", "asset_configs">>

\* PoolConfig.status; 7 stands for every value past the seven Blend defines.
StatusBlocked(status) ==
    IF status \in {2, 3} THEN {"borrow"}
    ELSE IF status \in {4, 5, 6} THEN {"supply", "borrow"} ELSE {}

\* blendOperationalState.
OperationalState(status) == LendingState(StatusBlocked(status), status = 6)

TrueState(c) == OperationalState(c.status)

Blank ==
    [transport |-> FALSE, status |-> 0, floor |-> 0, admin |-> [kind |-> "contract"],
     list |-> <<>>, answered |-> {}, asked |-> 1, maxAge |-> 0, resolutions |-> <<>>,
     feeds |-> <<>>, entries |-> <<>>, chunk |-> 1, base |-> {}, price |-> <<>>,
     readAt |-> <<>>, ops |-> 0]

Init ==
    /\ chain \in InitialChains
    /\ now = StartedAt /\ changes = 0
    /\ seen = {TrueState(chain)}
    /\ pc = "instance"
    /\ got = Blank
    /\ row = Unpublished

--------------------------------------------------------------------------------
(* The reads, in order.                                                    *)

ReadInstance ==
    /\ pc = "instance"
    /\ Learn([got EXCEPT !.status = chain.status, !.floor = chain.floor,
                         !.admin = chain.admin], "list")

ReadReserveList ==
    /\ pc = "list"
    /\ IF chain.list = <<>> THEN Throw
       ELSE Learn([got EXCEPT !.list = chain.list], "decimals")

ReadDecimals == pc = "decimals" /\ Learn(got, "grading")

\* gradingRead: a function the oracle does not have is ABSENT, any other failure throws.
HasFunction(method) == method \in chain.functions

\* oracleNotGradable: a single ABSENT is enough.
Gradable(answered) == answered = ToSet(GradingReads)

\* max_age, oracles, asset_configs in turn, and then the verdict.
ReadGrading ==
    /\ pc = "grading"
    /\ LET method   == GradingReads[got.asked]
           answered == IF HasFunction(method) THEN got.answered \cup {method}
                       ELSE got.answered
           learned  == [got EXCEPT
                          !.answered = answered, !.asked = @ + 1,
                          !.maxAge = IF method = "max_age" THEN chain.maxAge ELSE @,
                          !.resolutions = IF method = "oracles" THEN chain.resolutions ELSE @,
                          !.feeds = IF method = "asset_configs" THEN chain.feeds ELSE @]
       IN  IF got.asked < 3 THEN Learn(learned, "grading")
           ELSE IF Gradable(answered) THEN Learn(learned, "entries")
           ELSE Throw

\* The oracle instance, and a ResConfig and a ResData key per listed reserve.
Keys ==
    [i \in 1 .. (2 * Len(got.list) + 1) |->
        IF i = 1 THEN <<"instance">>
        ELSE <<IF i % 2 = 0 THEN "config" ELSE "data", got.list[i \div 2]>>]

Entry(key) ==
    CASE key[1] = "instance" -> chain.oracleInstance
      [] key[1] = "config"   -> chain.book[key[2]].config
      [] key[1] = "data"     -> chain.book[key[2]].data

ReadEntries == pc = "entries" /\ ReadChunk(Keys, [k \in ToSet(Keys) |-> Entry(k)], "base")

\* readOracleConfig: the base asset, and those the oracle's instance lists.
ReadOracleConfig ==
    /\ pc = "base"
    /\ IF got.entries[<<"instance">>] = <<>> \/ got.resolutions = <<>> THEN Throw
       ELSE Learn([got EXCEPT !.base = {chain.baseAsset} \cup got.entries[<<"instance">>][1]],
                  "price")

\* decodeReserve throws unless both entries are there.
Missing(asset) ==
    got.entries[<<"config", asset>>] = <<>> \/ got.entries[<<"data", asset>>] = <<>>

\* readOraclePrice: null when the oracle holds none.
LastPrice(asset) == chain.price[asset]

\* The reserves in turn: decodeReserve, then the oracle's last price.
ReadPrice ==
    /\ pc = "price"
    /\ LET i     == Cardinality(DOMAIN got.price) + 1
           asset == got.list[i]
       IN  IF Missing(asset) THEN Throw
           ELSE Learn([got EXCEPT !.price = Mapped(@, asset, LastPrice(asset)),
                                  !.readAt = Mapped(@, asset, now)],
                      IF i < Len(got.list) THEN "price"
                      ELSE IF IsAccount(got.admin) THEN "admin" ELSE "finish")

\* fetchAdmin: the account as Horizon has it now, then its operations of the last thirty
\* days.  Which account that is was settled by the pool's instance.
ReadAdmin == pc = "admin" /\ Learn([got EXCEPT !.admin = chain.account], "ops")

ReadOps ==
    /\ pc = "ops"
    /\ Learn([got EXCEPT !.ops = chain.ops], "finish")

\* A failed simulation, a refused request, a 429 that outlasted its retries: all throw.
ReadFails ==
    /\ pc \notin {"finish", "done"}
    /\ \E kind \in FailureKinds : ThrowFor(kind)

--------------------------------------------------------------------------------
(* Scoring.                                                                *)

Listed == ToSet(got.list)

Book == [a \in Listed |->
            [supplied |-> got.entries[<<"data", a>>][1].supplied,
             borrowed |-> got.entries[<<"data", a>>][1].borrowed,
             cap      |-> got.entries[<<"config", a>>][1].cap]]

\* suppliedUsd: null without a price.
SuppliedUsd == [a \in Listed |-> IF got.price[a] = <<>> THEN <<>>
                                 ELSE <<Book[a].supplied * got.price[a][1].usd>>]

CollateralSafety == Concentration(SuppliedUsd)

\* A base asset is priced one to one: nothing of the oracle's is graded for it.
Graded == Listed \ got.base

Age(asset, at) == MaxOf(0, at - got.price[asset][1].at)

\* decodeAssetConfigs: the feed behind an asset, if the oracle names one.
FeedOf(asset) == got.feeds[asset]

\* The resolution of the feed's upstream; the first one's when the asset has no feed.
Resolution(asset) ==
    LET index == IF FeedOf(asset) = <<>> THEN 1 ELSE FeedOf(asset)[1].oracle
    IN  IF index \in DOMAIN got.resolutions THEN got.resolutions[index] ELSE 0

\* How fresh a reserve's price was at a time; 0 without one.
PriceFreshness(asset, at) ==
    IF got.price[asset] = <<>> THEN 0
    ELSE Freshness(Age(asset, at), FreshnessWindow(Resolution(asset), got.maxAge))

\* deviationBounded: a bound of 0 or of 100 percent and more bounds nothing.
Bounded(asset) == FeedOf(asset) # <<>> /\ FeedOf(asset)[1].dev \in 1 .. 99

\* Mutant of FetchedAt: the clock is read before the prices are.
FetchedAtFirst == StartedAt

\* fetchedAt, stamped once everything has been read.
FetchedAt == now

\* What describePriceAges lists beside the score.
Stale == StaleReserves([a \in Graded |-> IF got.price[a] = <<>> THEN <<>>
                                         ELSE <<Age(a, FetchedAt)>>], got.maxAge)

OracleSafety ==
    MinOf(WorstScore({PriceFreshness(a, FetchedAt) : a \in Graded}),
          WorstScore({IF Bounded(a) THEN 100 ELSE 0 : a \in Graded}))

AdminKeySafety ==
    IF IsAccount(got.admin)
    THEN AccountScore([signers |-> got.admin.signers, threshold |-> got.admin.threshold,
                       ops |-> got.ops])
    ELSE 60

Supplied == {a \in Listed : Book[a].supplied > 0}
ReserveSizing == SizeReserves(SuppliedUsd, got.floor)
Measured == Supplied \cap ReserveSizing

LiquiditySafety == WorstScore({FreeShare(Book[a]) : a \in Measured})

\* A reserve with no cap has no headroom to measure.
UtilizationSafety ==
    WorstScore({Headroom(Book[a], Book[a].cap) : a \in {b \in Measured : Book[b].cap > 0}})

\* computeBlendRiskFactors.
RiskFactors ==
    [collateralSafety |-> <<CollateralSafety>>, oracleSafety |-> <<OracleSafety>>,
     adminKeySafety |-> <<AdminKeySafety>>, liquiditySafety |-> <<LiquiditySafety>>,
     utilizationSafety |-> <<UtilizationSafety>>]

\* The row, with the reserves it lists as too small to grade.
Finish ==
    /\ pc = "finish"
    /\ Publish([status   |-> "ok",
                factors  |-> RiskFactors,
                score    |-> ScoreFactors(RiskFactors, LendingWeights),
                state    |-> OperationalState(got.status),
                excluded |-> Supplied \ ReserveSizing,
                stale    |-> Stale,
                fetchedAt |-> FetchedAt])

\* A transaction lands, and makes a state the fetch may truthfully report.
TransactionLands == ChainMoves(Edits) /\ seen' = seen \cup {TrueState(chain')}

--------------------------------------------------------------------------------
Next ==
    \/ ReadInstance \/ ReadReserveList \/ ReadDecimals \/ ReadGrading
    \/ ReadEntries \/ ReadOracleConfig \/ ReadPrice
    \/ ReadAdmin \/ ReadOps \/ ReadFails \/ Finish
    \/ Tick \/ TransactionLands \/ Finished
================================================================================
