--------------------------------- MODULE Storage -------------------------------
(***************************************************************************)
(* Everything that shares the database: migrations, deployments, indexer   *)
(* invocations and the readers of a protocol's page, which ask for its     *)
(* current row and its history in two statements (store.ts,                *)
(* getProtocolDetail).                                                     *)
(***************************************************************************)
EXTENDS Indexer

CONSTANTS
    Readers,    \* detail requests that may be in flight at once
    Checkouts,  \* bound: how many files a checkout the operators use may hold
    Scenes      \* bound: where a behaviour starts and who takes part in it

ASSUME StorageAssumption ==
    /\ Checkouts \subseteq 0 .. LastFile
    /\ \A s \in Scenes :
          /\ s.slots \subseteq Slots
          /\ s.readers \subseteq Readers
          /\ s.stamps \in 0 .. MaxStamps
          /\ \A q \in s.requests :
                {q.shard, q.total} \subseteq [kind : {"blank", "digits", "junk"}, n : Nat]

VARIABLES
    reader,     \* each detail request
    scene

vars == <<dbvars, migrateVars, indexerVars, reader, scene>>

Idle == [pc |-> "idle", summary |-> <<>>, history |-> <<>>]

Init ==
    /\ scene \in Scenes
    /\ protocols = <<>>
    /\ runs = <<>>
    /\ MigrateInit(IF scene.migrated THEN LastFile ELSE 0, scene.migrators)
    /\ deployed = IF scene.migrated THEN "current" ELSE "none"
    /\ IndexerInit
    /\ clock = MaxStamps - scene.stamps
    /\ reader = [r \in Readers |-> Idle]

--------------------------------------------------------------------------------
(* The people around the code, in the order the documents ask of them.     *)

\* A build is promoted once the migrations it writes and reads through have run.
Needs(build) == CASE build = "first"    -> {1}
                  [] build = "stamping" -> 1 .. 3
                  [] build = "current"  -> 1 .. LastFile

Deploy(build) ==
    /\ <<deployed, build>> \in {<<"none", "first">>, <<"first", "stamping">>,
                                <<"stamping", "current">>}
    /\ Needs(build) \subseteq applied
    /\ deployed' = build
    /\ UNCHANGED <<dbvars, migrateVars, slot, loop, clock, rotation, reader, scene>>

\* Files reach the operators' checkout.  0004 waits until nothing that relies on the
\* version's default is running (0002, FOLLOW-UP).
Release(files) ==
    /\ released < files
    /\ released < 4 /\ files >= 4 =>
          /\ deployed = "stamping"
          /\ ~loop.on \/ loop.build # "first"
          /\ \A i \in Slots : slot[i].pc # "off" => slot[i].build # "first"
    /\ released' = files
    /\ UNCHANGED <<dbvars, applied, migrator, indexerVars, reader, scene>>

--------------------------------------------------------------------------------
(* A detail request of the current build.                                  *)

Unlocked == Free("protocols") /\ Free("risk_scores")

\* The first statement; no row is a 404.
ReadSummary(r, p) ==
    /\ reader[r].pc = "idle"
    /\ deployed = "current" /\ ReadAllowed /\ Unlocked
    /\ p \in DOMAIN protocols
    /\ reader' = [reader EXCEPT ![r] = [pc |-> "half", summary |-> Entry(p), history |-> <<>>]]
    /\ UNCHANGED <<dbvars, migrateVars, indexerVars, scene>>

\* The second one: the history is whatever is there by now.
ReadHistory(r) ==
    /\ reader[r].pc = "half"
    /\ Unlocked
    /\ reader' = [reader EXCEPT ![r].pc = "done",
                      ![r].history = RecentRuns(reader[r].summary.id, HistoryLimit)]
    /\ UNCHANGED <<dbvars, migrateVars, indexerVars, scene>>

\* freshness: what the page says of the newest run, whether or not a score is shown.
Tone(summary) ==
    CASE summary.lastRunStatus = "none"   -> "unscored"
      [] summary.lastRunStatus = "failed" -> "stale"
      [] OTHER                            -> "live"

\* FreshnessNotice: "The failure itself is in Recent runs below".
FreshnessNotice(summary) == Tone(summary) = "stale"

Respond(r) ==
    /\ reader[r].pc = "done"
    /\ reader' = [reader EXCEPT ![r] = Idle]
    /\ UNCHANGED <<dbvars, migrateVars, indexerVars, scene>>

--------------------------------------------------------------------------------

Next ==
    \/ MigrateNext /\ UNCHANGED <<indexerVars, reader, scene>>
    \/ InvocationNext(scene.slots, scene.requests, scene.consoles) /\ UNCHANGED <<reader, scene>>
    \/ \E build \in Builds : Deploy(build)
    \/ \E files \in Checkouts : Release(files)
    \/ \E r \in scene.readers :
          \/ \E p \in Protocols : ReadSummary(r, p)
          \/ ReadHistory(r)
          \/ Respond(r)

Spec == Init /\ [][Next]_vars

--------------------------------------------------------------------------------

\* "SAFE TO APPLY WHILE main IS SERVING": migrations and promotions in the documented
\* order never make the schema refuse a statement of a build that is serving or still
\* running (0002, 0004 and 0008's headers; monorepo-layout.md:279-286).
DeployedBuildWorks ==
    LET alive == {slot[i].build : i \in {i \in Slots : slot[i].pc # "off"}}
                 \cup {b \in Builds : b = deployed \/ (loop.on /\ loop.build = b)}
    IN  /\ \A b \in alive, status \in {"ok", "failed"} :
              /\ UpsertAllowed(b)
              /\ InsertColumnsThere(b)
              /\ \A p \in Members(Registry[b]) : Fits(schema, RunRow(b, p, status, 0))
        /\ deployed = "current" => ReadAllowed

\* The stamps of a scored run say which rulebook scored it, whichever build wrote it
\* and whichever migration has back-filled it since; a failed run carries none once
\* the constraint says so (0002:29-30, 0004:14-17, 0008:30-33).
StampsAreTrue ==
    \A i \in DOMAIN runs :
        LET row == runs[i]  own == CategoryOf[row.protocol] IN
        IF row.status = "ok"
        THEN /\ schema.version # "absent" => row.version = Methodology[row.build][own]
             /\ "category" \in schema.parts => row.category = own
        ELSE /\ schema.versionCheck = "union" => row.version = 0
             /\ row.build = "current" => row.category = "none"

\* Two statements without a transaction (store.ts:841-871): the page's history is never
\* behind its summary, so the run it calls its last is the first of the list or is
\* preceded only by later ones; and when the page says that this run failed and is in the
\* list below (protocol/[id]/page.tsx:249-274), it is, unless later ones fill the list.
DetailNeverAhead ==
    \A r \in Readers :
        LET summary == reader[r].summary  history == reader[r].history IN
        reader[r].pc = "done" /\ summary.lastRunAt # 0 =>
            /\ history # <<>>
            /\ history[1].runAt >= summary.lastRunAt
            /\ \A k \in 2 .. Len(history) : history[k - 1].runAt > history[k].runAt
            /\ FreshnessNotice(summary) =>
                  \/ \E k \in DOMAIN history : /\ history[k].status = "failed"
                                                /\ history[k].runAt = summary.lastRunAt
                  \/ Len(history) = HistoryLimit /\ history[HistoryLimit].runAt > summary.lastRunAt

\* Whatever order overlapping cycles write in, the run a protocol's score is shown from
\* never gives way to an older one (store.ts:673-684).
ShownRunNeverGoesBack ==
    [][\A p \in Protocols : LatestOk(p).runAt <= LatestOk(p)'.runAt]_vars

\* When every shard of one deal has been triggered, each target of the registry was
\* selected by exactly one of them, and no shard got two more than another, hash
\* collisions or not (cycle.ts:404-444).
ShardsPartition ==
    LET shards == 0 .. rotation.total - 1
        load(s) == Cardinality({p \in Protocols : s \in rotation.by[p]})
    IN  rotation.total > 0 /\ rotation.shards = shards =>
            /\ \A p \in Protocols : Cardinality(rotation.by[p]) =
                   (IF p \in Members(Registry[rotation.build]) THEN 1 ELSE 0)
            /\ \A s, t \in shards : load(s) <= load(t) + 1

\* "Indexer run failed" is said only of an invocation that recorded nothing: one upsert of
\* prepare costs the whole shard its cycle, a failed insert costs one row
\* (index.ts:139-151, cycle.ts:768-783).
FailedReplyRecordedNothing ==
    \A i \in Slots : slot[i].threw => slot[i].wrote = 0

================================================================================
