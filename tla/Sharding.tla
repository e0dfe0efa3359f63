-------------------------------- MODULE Sharding -------------------------------
(***************************************************************************)
(* Which targets one invocation of the indexer scores, and in what order   *)
(* (indexer/src/cycle.ts): the latency order, the shard specification of a *)
(* request and the slice of the registry it selects.  Strings enter as     *)
(* what the code learns of them: an id by its FNV-1a hash and its          *)
(* alphabetical rank, a query parameter by its kind.                       *)
(***************************************************************************)
EXTENDS Integers, FiniteSets, Sequences, Filtering, CycleBudget

CONSTANTS
    Ids,            \* slugs of targets that may ever be registered
    Hash,           \* targetHash: a 32-bit number for each id, collisions allowed
    Alphabetical,   \* localeCompare between ids: a rank for each
    SlowestFirst    \* SLOWEST_FIRST: the ids whose latency was measured

ASSUME ShardingAssumption ==
    /\ IsFiniteSet(Ids)
    /\ Hash \in [Ids -> Nat]
    /\ Alphabetical \in [Ids -> Nat]
    /\ \A a, b \in Ids : Alphabetical[a] = Alphabetical[b] => a = b
    /\ SlowestFirst \in Seq(STRING)

--------------------------------------------------------------------------------
(* The latency order: ids never measured rank -1 and go first; the sort is *)
(* stable.                                                                 *)

LatencyRank(id) ==
    IF \E i \in DOMAIN SlowestFirst : SlowestFirst[i] = id
    THEN CHOOSE i \in DOMAIN SlowestFirst : SlowestFirst[i] = id
    ELSE -1

\* Where the stable sort puts the target at position i.
LatencyPlace(targets, i) ==
    Cardinality({j \in DOMAIN targets :
        \/ LatencyRank(targets[j]) < LatencyRank(targets[i])
        \/ LatencyRank(targets[j]) = LatencyRank(targets[i]) /\ j <= i})

OrderByLatency(targets) ==
    [k \in DOMAIN targets |->
        targets[CHOOSE i \in DOMAIN targets : LatencyPlace(targets, i) = k]]

--------------------------------------------------------------------------------
(* The deal: sort by (hash, id), then round-robin over the shards.         *)

DealtBefore(a, b) ==
    \/ Hash[a] < Hash[b]
    \/ Hash[a] = Hash[b] /\ Alphabetical[a] < Alphabetical[b]

\* A target's position in the deal, from 0.
DealPlace(members, id) == Cardinality({other \in members : DealtBefore(other, id)})

\* Mutant of InShard: a target's shard depends on nothing but itself.
InShardByHash(members, id, spec) == Hash[id] % spec.totalShards = spec.shard

InShard(members, id, spec) ==
    DealPlace(members, id) % spec.totalShards = spec.shard

\* The targets of one shard.
SelectShard(targets, spec) ==
    IF spec.totalShards <= 1 THEN targets
    ELSE Filtered(targets, {i \in DOMAIN targets : InShard(Members(targets), targets[i], spec)})

--------------------------------------------------------------------------------
(* The two query parameters.  A parameter is blank, a number, or something *)
(* that is not all digits (`junk`: a sign, a point, an exponent, a word).  *)

Blank == [kind |-> "blank", n |-> 0]
Junk  == [kind |-> "junk", n |-> 0]
Digits(n) == [kind |-> "digits", n |-> n]

SingleShard == [shard |-> 0, totalShards |-> 1]

\* resolveShardSpec refuses what would break exactly-once coverage.
SpecAccepted(rawShard, rawTotal) ==
    \/ rawShard = Blank /\ rawTotal = Blank
    \/ /\ rawShard.kind = "digits"
       /\ rawTotal.kind = "digits"
       /\ rawTotal.n >= 1
       /\ rawShard.n < rawTotal.n

ResolvedSpec(rawShard, rawTotal) ==
    IF rawShard = Blank THEN SingleShard
    ELSE [shard |-> rawShard.n, totalShards |-> rawTotal.n]
================================================================================
