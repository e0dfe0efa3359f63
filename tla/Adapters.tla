-------------------------------- MODULE Adapters -------------------------------
(***************************************************************************)
(* The three adapters, each fetching one protocol while its chain moves,   *)
(* and what the row they publish may say of it.                            *)
(***************************************************************************)
EXTENDS ReadPath

CONSTANTS
    Protocols,          \* which adapters are started
    BlendStarts,        \* what each chain may hold when a fetch begins,
    BlendEdits,         \* and the transactions that may land while it lasts
    KineticStarts,
    KineticEdits,
    AquariusStarts,
    AquariusEdits,
    AquariusRoles,      \* AQUARIUS_ROLES
    Addresses,          \* what may hold an Aquarius role
    Keyholders          \* those of them that are accounts, by the form of the address

VARIABLE protocol

B == INSTANCE BlendAdapter WITH InitialChains <- BlendStarts, Edits <- BlendEdits

K == INSTANCE KineticAdapter WITH InitialChains <- KineticStarts, Edits <- KineticEdits

A == INSTANCE AquariusAdapter
        WITH InitialChains <- AquariusStarts, Edits <- AquariusEdits, Roles <- AquariusRoles

vars == <<readVars, protocol>>

Init ==
    /\ protocol \in Protocols
    /\ \/ protocol = "blend" /\ B!Init
       \/ protocol = "kinetic" /\ K!Init
       \/ protocol = "aquarius" /\ A!Init

Next ==
    /\ UNCHANGED protocol
    /\ \/ protocol = "blend" /\ B!Next
       \/ protocol = "kinetic" /\ K!Next
       \/ protocol = "aquarius" /\ A!Next

Spec == Init /\ [][Next]_vars

--------------------------------------------------------------------------------
(* What a chain holds: contract types, which the ledger keeps, and the two *)
(* entries of a reserve, which one transaction writes together.            *)

\* `admin` is whether the instance names an account, `account` and `ops` what Horizon has of
\* the one it names.
BlendParts == {"status", "floor", "admin", "account", "list", "functions", "maxAge",
               "resolutions", "feeds", "oracleInstance", "baseAsset", "book", "price", "ops"}

PricesHeld(price) == \A a \in Assets : price[a] = <<>> \/ price[a][1].at \in Nat

BlendHolds(part, held) ==
    /\ part = "list" => held \in Seq(Assets)
    /\ part = "maxAge" => held \in Nat
    /\ part = "resolutions" => \A i \in DOMAIN held : held[i] \in Nat
    /\ part = "price" => PricesHeld(held)
    /\ part = "book" => \A a \in Assets :
            \/ held[a].config = <<>> \/ held[a].data = <<>>
            \/ held[a].config[1].rev = held[a].data[1].rev

KineticParts == {"configured", "admin", "account", "paused", "list", "flags", "supplied",
                 "borrowed", "price", "breaker", "threshold", "ttl", "config", "baseline",
                 "ops"}

KineticHolds(part, held) ==
    /\ part = "list" => held \in Seq(Assets)
    /\ part \in {"threshold", "ttl"} => held \in Nat
    /\ part = "price" => PricesHeld(held)
    /\ part = "flags" => Assets \subseteq DOMAIN held
    /\ part = "config" => \A a \in Assets :
            held[a] = <<>> \/ held[a][1].maxAge = <<>> \/ held[a][1].maxAge[1] \in Nat

AquariusParts == {"type", "tokens", "killed", "instance", "issuer", "roles", "account"}

\* A role list names addresses, and whether one is an account never changes.
AquariusHolds(part, held) ==
    /\ part = "tokens" => held \in Seq(Assets)
    /\ part = "killed" => A!KillFlags \subseteq DOMAIN held
    /\ part = "roles" => \A c \in {"pool", "router"} :
            held[c].kind = "record" =>
                held[c].roles \in Seq([role : STRING, holders : Seq(Addresses)])
    /\ part = "account" => \A h \in Addresses :
            IF h \in Keyholders THEN held[h].kind = "account" /\ held[h].ops \in Nat
            ELSE held[h].kind = "contract"

\* Chains hold what they should, a transaction changes one part of one and nothing to
\* what it should not be, and it changes one entry of a part it names by key.
Sound(starts, edits, parts, Holds(_, _), keyed) ==
    /\ \A c \in starts : DOMAIN c = parts /\ \A part \in parts : Holds(part, c[part])
    /\ \A i \in DOMAIN edits :
          /\ edits[i].part \in parts
          /\ edits[i].part \in keyed <=> "key" \in DOMAIN edits[i]
          /\ edits[i].part \notin keyed => Holds(edits[i].part, edits[i].to)

ASSUME ChainsAssumption ==
    /\ Sound(BlendStarts, BlendEdits, BlendParts, BlendHolds, {})
    /\ Sound(KineticStarts, KineticEdits, KineticParts, KineticHolds, {"flags"})
    /\ Sound(AquariusStarts, AquariusEdits, AquariusParts, AquariusHolds, {"killed"})

--------------------------------------------------------------------------------
(* Properties.                                                             *)

Published == row.status = "ok"
Lending == protocol \in {"blend", "kinetic"}
Factor(name) == row.factors[name][1]

\* read-failure.ts: a failure of our own read path never becomes a number.  For the Blend
\* and Aquarius adapters it never does.
TransportNeverScored == Published /\ protocol # "kinetic" => ~got.transport

\* The same for Kinetic, of which read-failure.ts says so too: "Blend and Kinetic throw on
\* every failed read".
KineticThrowsOnFailedRead == Published /\ protocol = "kinetic" => ~got.transport

\* The level and the blocked operations a row publishes were true together at some moment
\* of the fetch, though the parts they come from are read at different moments and only
\* the most restrictive part's list is published (at most one transaction landed).
StateWasTrue == Published => row.state \in seen

\* A part of the subject that was asked for and could not be had counts as unsafe: no
\* reserve without a price, no role list or issuer that refused, leaves its factor above 0.
UnreadIsUnsafe ==
    /\ Published /\ protocol = "blend" =>
        ((\E a \in B!Graded : got.price[a] = <<>>) => Factor("oracleSafety") = 0)
    /\ Published /\ protocol = "kinetic" =>
        ((\E a \in K!Listed : got.price[a] = <<>> \/ got.config[a] = <<>>)
            => Factor("oracleSafety") = 0)
    /\ Published /\ protocol = "aquarius" =>
        /\ (\E c \in {"pool", "router"} :
                \/ got.roles[c].status # "read"
                \/ \E i \in DOMAIN got.roles[c].roles : \E k \in DOMAIN got.accounts[c][i] :
                       got.accounts[c][i][k].status = "failed")
            => Factor("adminKeySafety") = 0
        /\ (\E t \in DOMAIN got.issuer : got.issuer[t].status = "failed")
            => Factor("assetControlSafety") = 0

\* A Blend row grades every reserve the pool listed, each from a configuration and a
\* balance of the same ledger; a reserve whose entries are gone fails the run instead.
ReservesWhole ==
    Published /\ protocol = "blend" /\ Len(B!Keys) <= KeysPerCall =>
        \A a \in B!Listed :
            /\ ~(got.entries[<<"config", a>>] = <<>> \/ got.entries[<<"data", a>>] = <<>>)
            /\ got.entries[<<"config", a>>][1].rev = got.entries[<<"data", a>>][1].rev

\* Time spent reading never makes a Blend price look newer: the published freshness is no
\* better than it was when the price was read.
FreshnessNotFlattered ==
    Published /\ protocol = "blend" =>
        \A a \in B!Graded : Factor("oracleSafety") <= B!PriceFreshness(a, got.readAt[a])

\* The reserves a row lists as past the protocol's own staleness limit agree with its score:
\* one without a price is listed, and one that is listed has a freshness of 0 unless its
\* feed is too slow for that limit or for the ceiling on it.
StaleListMatchesScore ==
    /\ Published /\ protocol = "blend" =>
        \A a \in B!Graded :
            /\ got.price[a] = <<>> => a \in row.stale
            /\ a \in row.stale => \/ B!PriceFreshness(a, row.fetchedAt) = 0
                                  \/ B!Resolution(a) >= MinOf(got.maxAge, StaleCeiling)
    /\ Published /\ protocol = "kinetic" =>
        \A a \in K!Listed :
            /\ got.price[a] = <<>> => a \in row.stale
            /\ a \in row.stale => \/ K!PriceFreshness(a) = 0
                                  \/ got.ttl >= MinOf(K!DeclaredAge(a), StaleCeiling)

\* An address that holds roles on both the pool and the router is the same account in
\* both, even when its signers change between the two.
OneReadingPerAddress ==
    Published /\ protocol = "aquarius" =>
        LET pool   == got.roles.pool.roles
            router == got.roles.router.roles
        IN  \A i \in DOMAIN pool, j \in DOMAIN router :
               \A k \in DOMAIN pool[i].holders, m \in DOMAIN router[j].holders :
                  pool[i].holders[k] = router[j].holders[m]
                      => got.accounts.pool[i][k] = got.accounts.router[j][m]
================================================================================
