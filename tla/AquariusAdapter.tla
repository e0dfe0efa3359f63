----------------------------- MODULE AquariusAdapter ----------------------------
(***************************************************************************)
(* One Aquarius pool read and scored: adapters/aquarius/fetch.ts and       *)
(* adapters/aquarius/score.ts.  Here a refusal is a reading: a role list,  *)
(* an account or an issuer that cannot be read is graded at the unsafe     *)
(* end, and only the endpoint's own failures throw.  Emergency mode is     *)
(* published but blocks nothing, so it is left out of the state.           *)
(***************************************************************************)
EXTENDS ReadPath

CONSTANTS
    InitialChains,  \* what the pool, the router, the tokens and the accounts may hold
    Edits,          \* the transactions that may land
    Roles           \* AQUARIUS_ROLES

KillFlags == {"swap", "deposit", "claim"}
PoolReads == KillFlags \cup {"tokens"}

\* A pool that blocks something outside the ladder must win the tie on the level.
PoolFirst(blocked) == blocked # {}

\* aquariusOperationalState.
OperationalState(killed) ==
    LET pool   == DexState(killed)
        router == DexState({})
    IN  MostRestrictive(IF PoolFirst(killed) THEN <<pool, router>> ELSE <<router, pool>>)

TrueState(c) == DexState({f \in KillFlags : c.killed[f]})

NotRead == [status |-> "unread", roles |-> <<>>]

Blank ==
    [transport |-> FALSE, list |-> <<>>, killed |-> {}, landed |-> {},
     entries |-> <<>>, chunk |-> 1, issuer |-> <<>>,
     contract |-> "pool", roles |-> [pool |-> NotRead, router |-> NotRead],
     accounts |-> [pool |-> <<>>, router |-> <<>>], cache |-> <<>>, reading |-> <<>>]

Init ==
    /\ chain \in InitialChains
    /\ now = StartedAt /\ changes = 0
    /\ seen = {TrueState(chain)}
    /\ pc = "type"
    /\ got = Blank
    /\ row = Unpublished

--------------------------------------------------------------------------------
(* The reads, in order.                                                    *)

PoolTypes == {"constant_product", "stable", "concentrated"}

\* asPoolType: a pool of no known curve is not scored.
ReadPoolType ==
    /\ pc = "type"
    /\ IF chain.type \in PoolTypes THEN Learn(got, "pool") ELSE Throw

\* Promise.all: the pool's reads are under way together and land in any order.
PoolReadLands ==
    /\ pc = "pool"
    /\ \E f \in PoolReads \ got.landed :
          LET landed  == got.landed \cup {f}
              learned == IF f = "tokens" THEN [got EXCEPT !.landed = landed, !.list = chain.tokens]
                         ELSE [got EXCEPT !.landed = landed,
                                          !.killed = IF chain.killed[f] THEN @ \cup {f} ELSE @]
          IN  IF landed # PoolReads THEN Learn(learned, "pool")
              ELSE IF learned.list = <<>> THEN Throw ELSE Learn(learned, "entries")

Keys == <<"pool", "router">> \o got.list

\* decodeInstance: what a contract's instance entry holds, <<>> when there is none.
Instance(contract) == chain.instance[contract]

ReadEntries == pc = "entries" /\ ReadChunk(Keys, [k \in ToSet(Keys) |-> Instance(k)], "token")

NextToken == got.list[Cardinality(DOMAIN got.issuer) + 1]

TakeIssuer(issuer) ==
    LET known == Mapped(got.issuer, NextToken, issuer)
    IN  Learn([got EXCEPT !.issuer = known],
              IF Cardinality(DOMAIN known) = Len(got.list) THEN "roles" ELSE "token")

\* parseAssetName: "native", an issuer, or neither.
NamesIssuer(name) == name \notin {"native", "unparsed"}

\* readToken: only a Stellar asset contract whose name carries an issuer needs a request.
ReadToken ==
    /\ pc = "token"
    /\ LET instance == got.entries[NextToken]
           isStellarAsset == instance # <<>> /\ instance[1].executable = "stellarAsset"
       IN  \/ ~isStellarAsset /\ TakeIssuer([status |-> "notApplicable"])
           \/ /\ isStellarAsset
              /\ \/ instance[1].name = "native" /\ TakeIssuer([status |-> "noIssuer"])
                 \/ instance[1].name = "unparsed" /\ TakeIssuer([status |-> "failed"])
                 \/ NamesIssuer(instance[1].name) /\ Learn(got, "issuer")

ReadIssuerFlags ==
    /\ pc = "issuer"
    /\ TakeIssuer([status |-> "read", flags |-> chain.issuer[got.entries[NextToken][1].name]])

\* A refused issuer is a reading; an endpoint that failed throws (ReadFails).
IssuerRefused == pc = "issuer" /\ TakeIssuer([status |-> "failed"])

\* decodeRoles.
DecodeRoles(answer) ==
    IF answer.kind # "record" THEN [status |-> "failed", roles |-> <<>>]
    ELSE IF Roles \subseteq {answer.roles[i].role : i \in DOMAIN answer.roles}
    THEN [status |-> "read", roles |-> answer.roles]
    ELSE [status |-> "short", roles |-> answer.roles]

\* The roles of a list that have holders left, when so many of each have been read.
Unread(roles, accounts) == {i \in DOMAIN roles : Len(accounts[i]) < Len(roles[i].holders)}

AfterRoles == IF got.contract = "pool" THEN "router" ELSE "finish"

\* Once a contract's roles are decoded its holders are read one after another.
TakeRoles(read) ==
    LET none == [i \in DOMAIN read.roles |-> <<>>]
    IN  Learn([got EXCEPT !.roles[got.contract] = read, !.accounts[got.contract] = none],
              IF Unread(read.roles, none) = {} THEN AfterRoles ELSE "account")

ReadRoles == pc = "roles" /\ TakeRoles(DecodeRoles(chain.roles[got.contract]))

RolesRefused == pc = "roles" /\ TakeRoles([status |-> "failed", roles |-> <<>>])

Roster == got.roles[got.contract].roles
Accounts == got.accounts[got.contract]

\* The first role with a holder left, and that holder.
NextRole == Min(Unread(Roster, Accounts))
NextHolder == Roster[NextRole].holders[Len(Accounts[NextRole]) + 1]

\* Mutant of Cached: every holder is read again.
CachedNever(address) == FALSE

\* accountCache, which the pool and the router share.
Cached(address) == address \in DOMAIN got.cache

TakeAccount(account) ==
    LET accounts == [Accounts EXCEPT ![NextRole] = Append(@, account)]
    IN  Learn([got EXCEPT !.accounts[got.contract] = accounts,
                          !.cache = Mapped(@, NextHolder, account), !.reading = <<>>],
              IF Unread(Roster, accounts) = {} THEN AfterRoles ELSE "account")

\* readRoleAccount: the cache, a contract, or the account and then its operations.
ReadAccount ==
    /\ pc = "account"
    /\ IF Cached(NextHolder) THEN TakeAccount(got.cache[NextHolder])
       ELSE IF chain.account[NextHolder].kind = "contract"
       THEN TakeAccount([status |-> "contract"])
       ELSE Learn([got EXCEPT !.reading = <<chain.account[NextHolder]>>], "ops")

ReadOps ==
    /\ pc = "ops"
    /\ TakeAccount([status |-> "read", signers |-> got.reading[1].signers,
                    threshold |-> got.reading[1].threshold,
                    ops |-> chain.account[NextHolder].ops])

AccountRefused ==
    /\ \/ pc = "account" /\ ~Cached(NextHolder) /\ IsAccount(chain.account[NextHolder])
       \/ pc = "ops"
    /\ TakeAccount([status |-> "failed"])

\* fetchRouter: its three reads, then its roles with the same cache.
ReadRouter == pc = "router" /\ Learn([got EXCEPT !.contract = "router"], "roles")

\* A wait on the chain or on Horizon: a cached or contract holder needs none.
Awaiting ==
    /\ pc \notin {"finish", "done"}
    /\ pc = "token" => FALSE
    /\ pc = "account" => ~Cached(NextHolder) /\ IsAccount(chain.account[NextHolder])

\* Mutant of ReadFails: an issuer that was not reached is graded like a refusal.
ReadFailsGraded ==
    /\ Awaiting
    /\ IF pc = "issuer"
       THEN LET known == Mapped(got.issuer, NextToken, [status |-> "failed"])
            IN  Learn([got EXCEPT !.issuer = known, !.transport = TRUE],
                      IF Cardinality(DOMAIN known) = Len(got.list) THEN "roles" ELSE "token")
       ELSE ThrowFor("transport")

\* A failing endpoint throws everywhere; a refusal only where it is not a reading.
ReadFails ==
    /\ Awaiting
    /\ \/ ThrowFor("transport")
       \/ pc \in {"type", "pool", "entries", "router"} /\ ThrowFor("refused")

--------------------------------------------------------------------------------
(* Scoring.                                                                *)

HolderScore(account) == IF account.status = "read" THEN AccountScore(account) ELSE 0

\* roleScore: the worst holder; 0 when none is declared.
RoleScore(accounts) == WorstScore({HolderScore(accounts[k]) : k \in DOMAIN accounts})

RolePosture(contract) ==
    IF got.roles[contract].status # "read" THEN 0
    ELSE WorstScore({RoleScore(got.accounts[contract][i]) : i \in DOMAIN got.roles[contract].roles})

\* readUpgrade: the deadline of the scheduled upgrade, <<>> when it could not be read.
Deadline(contract) ==
    IF got.entries[contract] = <<>> THEN <<>> ELSE got.entries[contract][1].deadline

\* upgradeCeiling: nothing scheduled, a window still open, or matured.
UpgradeCeiling(contract, at) ==
    IF Deadline(contract) = <<>> THEN 0
    ELSE IF Deadline(contract) = <<0>> THEN 100
    ELSE IF Deadline(contract)[1] > at THEN 40 ELSE 0

AdminKeySafety ==
    MinOf(MinOf(RolePosture("pool"), RolePosture("router")),
          MinOf(UpgradeCeiling("pool", now), UpgradeCeiling("router", now)))

\* Mutant of TokenScore: an issuer that was not read is left out of the minimum.
TokenScoreLenient(issuer) ==
    CASE issuer.status = "noIssuer" -> <<100>>
      [] issuer.status \in {"notApplicable", "failed"} -> <<>>
      [] issuer.status = "read"     -> IF issuer.flags.clawback THEN <<0>> ELSE <<70>>

\* What the issuer can do to the token; <<>> when the rule does not apply to it.
TokenScore(issuer) ==
    CASE issuer.status = "noIssuer"      -> <<100>>
      [] issuer.status = "notApplicable" -> <<>>
      [] issuer.status = "failed"        -> <<0>>
      [] issuer.status = "read" ->
            IF issuer.flags.clawback THEN <<0>>
            ELSE IF issuer.flags.revocable THEN <<40>>
            ELSE IF issuer.flags.immutable THEN <<100>> ELSE <<70>>

AssetControlSafety ==
    WorstScore(UNION {ToSet(TokenScore(got.issuer[t])) : t \in ToSet(got.list)})

\* computeAquariusRiskFactors.
RiskFactors ==
    [adminKeySafety |-> <<AdminKeySafety>>, assetControlSafety |-> <<AssetControlSafety>>]

Finish ==
    /\ pc = "finish"
    /\ Publish([status   |-> "ok",
                factors  |-> RiskFactors,
                score    |-> ScoreFactors(RiskFactors, DexWeights),
                state    |-> OperationalState(got.killed),
                fetchedAt |-> now])

\* A transaction lands, and makes a state the fetch may truthfully report.
TransactionLands == ChainMoves(Edits) /\ seen' = seen \cup {TrueState(chain')}

--------------------------------------------------------------------------------
Next ==
    \/ ReadPoolType \/ PoolReadLands \/ ReadEntries
    \/ ReadToken \/ ReadIssuerFlags \/ IssuerRefused
    \/ ReadRoles \/ RolesRefused \/ ReadAccount \/ ReadOps \/ AccountRefused
    \/ ReadRouter \/ ReadFails \/ Finish
    \/ Tick \/ TransactionLands \/ Finished
================================================================================
