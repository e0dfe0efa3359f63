--------------------------------- MODULE Indexer -------------------------------
(***************************************************************************)
(* The processes that run indexing cycles against the shared database: the *)
(* cron route (dashboard/app/api/cron/run-indexer/route.ts), one           *)
(* invocation per shard, and the long-running indexer (indexer/src/        *)
(* index.ts), whose timer starts a cycle whether or not the last one is    *)
(* over.  A cycle here is what module Cycle leaves of it: its targets one  *)
(* after the other, each stamped when it is picked up and recorded later.  *)
(***************************************************************************)
EXTENDS Migrate, Sharding

CONSTANTS
    Slots,          \* invocations that may be in flight at once
    Registry,       \* the targets a build constructs: blend, kinetic, aquarius
    MaxStamps       \* bound: targets picked up in one behaviour

ASSUME IndexerAssumption ==
    /\ IsFiniteSet(Slots)
    /\ Ids = Protocols
    /\ Registry \in [Builds -> Seq(Protocols)]
    /\ \A b \in Builds : \A i, j \in DOMAIN Registry[b] :
          Registry[b][i] = Registry[b][j] => i = j
    /\ \A b \in Builds \ {"current"} : \A i \in DOMAIN Registry[b] :
          CategoryOf[Registry[b][i]] = "lending"    \* what 0008's default asserts
    /\ MaxStamps \in Nat

VARIABLES
    deployed,   \* the build that serves requests
    slot,       \* each invocation
    loop,       \* the long-running process, between its cycles
    clock,      \* the last run_at given
    rotation    \* shards selected since the deal last changed, and who selected each target

indexerVars == <<deployed, slot, loop, clock, rotation>>

--------------------------------------------------------------------------------
(* Configuration.  A variable is unset, good, or wrong in a way loadConfig *)
(* tells from good; numbers are kept.                                      *)

Required == {"STENION_RPC_URL", "STENION_HORIZON_URL", "DATABASE_URL"}
PositiveInts == {"STENION_INTERVAL_MS", "STENION_RETRY_ATTEMPTS", "STENION_RETRY_BASE_DELAY_MS",
                 "STENION_ATTEMPT_TIMEOUT_MS", "STENION_CYCLE_BUDGET_MS",
                 "STENION_CYCLE_CONCURRENCY", "STENION_ALERT_THRESHOLD"}
Optional == PositiveInts \cup {"STENION_RUN_ONCE", "STENION_ALERT_WEBHOOK_URL"}
Settings == Required \cup Optional

\* loadDotEnv: the nearest .env fills in what the process was not given.
Environment(process, dotEnv) ==
    [v \in Settings |-> IF process[v] # "absent" THEN process[v] ELSE dotEnv[v]]

\* requiredUrl, requiredPostgresUrl: a blank is as good as nothing.
RequiredProblem(raw) == raw \in {"absent", "blank", "wrong"}

\* optionalPositiveInt, optionalUrl, optionalBool: nothing or a blank is the fallback.
OptionalProblem(raw) == raw = "wrong"

\* Every problem is collected before one error carries them all.
Problems(env) ==
    {v \in Required : RequiredProblem(env[v])} \cup {v \in Optional : OptionalProblem(env[v])}

ConfigLoads(env) == Problems(env) = {}

--------------------------------------------------------------------------------

Off == [pc |-> "off", build |-> "first", left |-> <<>>, todo |-> <<>>, runAt |-> 0,
        kind |-> "cron", wrote |-> 0, threw |-> FALSE]
NoLoop == [on |-> FALSE, build |-> "first", targets |-> <<>>]
NoRotation == [build |-> "first", total |-> 0, shards |-> {}, by |-> [p \in Protocols |-> {}]]

IndexerInit ==
    /\ slot = [i \in Slots |-> Off]
    /\ loop = NoLoop
    /\ rotation = NoRotation

\* buildTargets: every adapter wrapped, in latency order.
BuildTargets(build) == OrderByLatency(Registry[build])

\* The invocation answers with a summary, or with what its `catch` says.
Answered(i)   == slot' = [slot EXCEPT ![i] = Off]
Threw(i)      == slot' = [slot EXCEPT ![i] = [Off EXCEPT !.threw = TRUE, !.wrote = slot[i].wrote]]

\* What prepare's shard adds to the rotation: the same deal goes on, or a new one starts.
Dealt(build, spec, targets) ==
    LET going == /\ rotation.build = build
                 /\ rotation.total = spec.totalShards
                 /\ spec.shard \notin rotation.shards
        base  == IF going THEN rotation
                 ELSE [NoRotation EXCEPT !.build = build, !.total = spec.totalShards]
    IN  rotation' = [base EXCEPT !.shards = @ \cup {spec.shard},
                         !.by = [p \in Protocols |->
                             IF p \in Members(targets) THEN @[p] \cup {spec.shard} ELSE @[p]]]

\* POST with a good secret: the shard is checked, the config is read, prepare begins.
\* A missing secret, a bad bearer, a refused shard and a bad config only answer.
Post(i, secret, bearer, rawShard, rawTotal, env) ==
    /\ slot[i].pc = "off"
    /\ deployed # "none"
    /\ IF ~secret \/ ~bearer \/ ~SpecAccepted(rawShard, rawTotal)     \* 500, 401, 400
       THEN Answered(i) /\ UNCHANGED rotation
       ELSE IF ~ConfigLoads(env) THEN Threw(i) /\ UNCHANGED rotation
       ELSE LET spec    == ResolvedSpec(rawShard, rawTotal)
                targets == SelectShard(BuildTargets(deployed), spec)
            IN  /\ slot' = [slot EXCEPT ![i] = [Off EXCEPT !.pc = "prepare", !.build = deployed,
                                                 !.left = targets, !.todo = targets]]
                /\ Dealt(deployed, spec, targets)
    /\ UNCHANGED <<deployed, loop, clock, dbvars, migrateVars>>

\* main: the whole registry, once, before the timer starts.
StartLoop(i, env) ==
    /\ slot[i].pc = "off" /\ ~loop.on
    /\ deployed # "none"
    /\ ConfigLoads(env)
    /\ slot' = [slot EXCEPT ![i] =
          [Off EXCEPT !.pc = "prepare", !.build = deployed, !.kind = "loop",
                      !.left = BuildTargets(deployed), !.todo = BuildTargets(deployed)]]
    /\ UNCHANGED <<deployed, loop, clock, rotation, dbvars, migrateVars>>

\* One upsert of prepare.  A refusal ends the invocation: 500, or exit(1).
Upsert(i) ==
    /\ slot[i].pc = "prepare" /\ slot[i].left # <<>>
    /\ Free("protocols")
    /\ \/ /\ UpsertAllowed(slot[i].build)
          /\ UpsertProtocol(slot[i].build, Head(slot[i].left))
          /\ slot' = [slot EXCEPT ![i].left = Tail(@)]
          /\ UNCHANGED <<schema, runs>>
       \/ /\ Threw(i)      \* refused, or the database is unreachable
          /\ UNCHANGED dbvars
    /\ UNCHANGED <<deployed, loop, clock, rotation, migrateVars>>

\* prepare returned: runCycle, and in main the timer.
Prepared(i) ==
    /\ slot[i].pc = "prepare" /\ slot[i].left = <<>>
    /\ slot' = [slot EXCEPT ![i].pc = "pick"]
    /\ loop' = IF slot[i].kind = "loop"
               THEN [on |-> TRUE, build |-> slot[i].build, targets |-> slot[i].todo] ELSE loop
    /\ UNCHANGED <<deployed, clock, rotation, dbvars, migrateVars>>

\* setInterval: a new cycle over the targets built at startup, the last one over or not.
LoopFires(i) ==
    /\ slot[i].pc = "off" /\ loop.on
    /\ clock < MaxStamps
    /\ slot' = [slot EXCEPT ![i] = [Off EXCEPT !.pc = "pick", !.kind = "loop",
                                    !.build = loop.build, !.todo = loop.targets]]
    /\ UNCHANGED <<deployed, loop, clock, rotation, dbvars, migrateVars>>

\* A worker takes the next target: run_at is now, whenever the row gets written.
PickTarget(i) ==
    /\ slot[i].pc = "pick" /\ slot[i].todo # <<>>
    /\ clock < MaxStamps
    /\ clock' = clock + 1
    /\ slot' = [slot EXCEPT ![i].pc = "insert", ![i].runAt = clock + 1]
    /\ UNCHANGED <<deployed, loop, rotation, dbvars, migrateVars>>

\* Mutant of Record: a write that fails ends the cycle.
RecordThrowing(i, status) ==
    LET s   == slot[i]
        row == RunRow(s.build, Head(s.todo), status, s.runAt)
    IN  /\ s.pc = "insert"
        /\ Free("risk_scores") /\ Free("protocols")     \* the foreign key reads protocols
        /\ \/ /\ InsertAllowed(s.build, row)
              /\ InsertRunRecord(row)
              /\ slot' = [slot EXCEPT ![i].pc = "pick", ![i].todo = Tail(@), ![i].wrote = @ + 1]
              /\ UNCHANGED <<schema, protocols>>
           \/ Threw(i) /\ UNCHANGED dbvars
        /\ UNCHANGED <<deployed, loop, clock, rotation, migrateVars>>

\* The attempt settled: one INSERT.  A refused or failed write is logged and dropped.
Record(i, status) ==
    LET s   == slot[i]
        row == RunRow(s.build, Head(s.todo), status, s.runAt)
    IN  /\ s.pc = "insert"
        /\ Free("risk_scores") /\ Free("protocols")     \* the foreign key reads protocols
        /\ \/ /\ InsertAllowed(s.build, row)
              /\ InsertRunRecord(row)
              /\ slot' = [slot EXCEPT ![i].pc = "pick", ![i].todo = Tail(@), ![i].wrote = @ + 1]
              /\ UNCHANGED <<schema, protocols>>
           \/ /\ slot' = [slot EXCEPT ![i].pc = "pick", ![i].todo = Tail(@)]
              /\ UNCHANGED dbvars
        /\ UNCHANGED <<deployed, loop, clock, rotation, migrateVars>>

\* runCycle returned: the route answers with the summary.
CycleOver(i) ==
    /\ slot[i].pc = "pick" /\ slot[i].todo = <<>>
    /\ Answered(i)
    /\ UNCHANGED <<deployed, loop, clock, rotation, dbvars, migrateVars>>

\* maxDuration, a lost instance, Ctrl-C: the process is gone between two statements.
Killed(i) ==
    /\ slot[i].pc # "off"
    /\ slot' = [slot EXCEPT ![i] = Off]
    /\ loop' = IF slot[i].kind = "loop" THEN NoLoop ELSE loop
    /\ UNCHANGED <<deployed, clock, rotation, dbvars, migrateVars>>

InvocationNext(slots, requests, consoles) ==
    \E i \in slots :
        \/ \E q \in requests : Post(i, q.secret, q.bearer, q.shard, q.total, q.env)
        \/ \E env \in consoles : StartLoop(i, env)
        \/ Upsert(i) \/ Prepared(i) \/ LoopFires(i) \/ PickTarget(i)
        \/ \E status \in {"ok", "failed"} : Record(i, status)
        \/ CycleOver(i) \/ Killed(i)
================================================================================
