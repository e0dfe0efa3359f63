---------------------------------- MODULE Store --------------------------------
(***************************************************************************)
(* The tables behind the registry (db/src/store.ts over the schema of      *)
(* db/migrations): what a write of each deployed build leaves in them under *)
(* the schema of the moment, and what each query of the store reads back.  *)
(*                                                                         *)
(* A column is kept when something depends on it: whether it exists, its   *)
(* default, the CHECKs, the two stamps of a run.  A statement is atomic.   *)
(* 0 stands for a NULL version or time, "none" for a NULL category.        *)
(***************************************************************************)
EXTENDS Integers, FiniteSets, Sequences, FiniteSetsExt

CONSTANTS
    Protocols,      \* slugs that any build registers
    CategoryOf,     \* the category each adapter declares
    Methodology,    \* Methodology[b][c]: what build b stamps for category c
    HistoryLimit    \* DETAIL_HISTORY_LIMIT

\* Builds of the indexer that may be deployed: the first one, which knows none of
\* the later columns; the one that names methodology_version and the identity
\* columns; and the one in the repository.
Builds == {"first", "stamping", "current"}

ASSUME StoreAssumption ==
    /\ IsFiniteSet(Protocols)
    /\ CategoryOf \in [Protocols -> {"lending", "dex"}]
    /\ Methodology \in [Builds -> [{"lending", "dex"} -> Nat \ {0}]]
    /\ Methodology["first"]["lending"] = 1      \* what 0002's default asserts
    /\ HistoryLimit \in Nat \ {0}

VARIABLES
    schema,     \* what the migrations have built: [parts, version, versionCheck]
    protocols,  \* the protocols table: [category] by slug, for the rows there are
    runs        \* risk_scores, in insertion order

dbvars == <<schema, protocols, runs>>

--------------------------------------------------------------------------------
(* Writing.  A statement that names a column which does not exist is       *)
(* refused; a column it does not name takes its default.                   *)

NamesVersion(build)  == build # "first"
NamesCategory(build) == build = "current"

UpsertAllowed(build) ==
    /\ "tables" \in schema.parts
    /\ build # "first" => "identity" \in schema.parts
    /\ build = "current" => {"deployment", "category"} \subseteq schema.parts

\* INSERT ... ON CONFLICT (id) DO UPDATE of the columns the build names.
UpsertProtocol(build, p) ==
    LET category == IF NamesCategory(build) THEN CategoryOf[p]
                    ELSE IF p \in DOMAIN protocols THEN protocols[p]
                    ELSE IF "category" \in schema.parts THEN "lending" ELSE "none"
    IN  protocols' = [q \in DOMAIN protocols \cup {p} |->
                          IF q = p THEN category ELSE protocols[q]]

\* Mutant of RunRow: the store's insert forgets to name category.
RunRowUnfiled(build, p, status, runAt) ==
    [protocol |-> p, status |-> status, build |-> build, runAt |-> runAt,
     version  |-> IF NamesVersion(build)
                  THEN IF status = "ok" THEN Methodology[build][CategoryOf[p]] ELSE 0
                  ELSE IF schema.version = "default" THEN 1 ELSE 0,
     category |-> IF "category" \in schema.parts THEN "lending" ELSE "none"]

\* The row an INSERT would leave: stamps are named by the build or defaulted, and a
\* failed run names them NULL.
RunRow(build, p, status, runAt) ==
    [protocol |-> p, status |-> status, build |-> build, runAt |-> runAt,
     version  |-> IF NamesVersion(build)
                  THEN IF status = "ok" THEN Methodology[build][CategoryOf[p]] ELSE 0
                  ELSE IF schema.version = "default" THEN 1 ELSE 0,
     category |-> IF NamesCategory(build)
                  THEN IF status = "ok" THEN CategoryOf[p] ELSE "none"
                  ELSE IF "category" \in schema.parts THEN "lending" ELSE "none"]

\* The two shape constraints, as they stand.
Fits(sch, row) ==
    /\ sch.versionCheck # "none" /\ row.status = "ok" => row.version # 0
    /\ sch.versionCheck = "union" /\ row.status = "failed" => row.version = 0
    /\ "categoryCheck" \in sch.parts /\ row.status = "ok" => row.category # "none"

\* The columns the build's INSERT names.
InsertColumnsThere(build) ==
    /\ "tables" \in schema.parts
    /\ NamesVersion(build) => schema.version # "absent"
    /\ NamesCategory(build) => {"opState", "category"} \subseteq schema.parts

\* Columns, foreign key and CHECKs: whether the statement goes through.
InsertAllowed(build, row) ==
    /\ InsertColumnsThere(build)
    /\ row.protocol \in DOMAIN protocols
    /\ Fits(schema, row)

InsertRunRecord(row) == runs' = Append(runs, row)

--------------------------------------------------------------------------------
(* Reading.  The queries order by run_at, never by insertion.              *)

RunsOf(p) == {i \in DOMAIN runs : runs[i].protocol = p}

NoRow == [status |-> "none", runAt |-> 0, version |-> 0]

\* Mutant of Newest: the row inserted last.
NewestInserted(rows) ==
    IF rows = {} THEN NoRow
    ELSE LET i == CHOOSE i \in rows : \A j \in rows : j <= i
         IN  [status |-> runs[i].status, runAt |-> runs[i].runAt, version |-> runs[i].version]

\* The row of a set with the latest run_at, if there is one: LIMIT 1.
Newest(rows) ==
    IF rows = {} THEN NoRow
    ELSE LET i == CHOOSE i \in rows : \A j \in rows : runs[j].runAt <= runs[i].runAt
         IN  [status |-> runs[i].status, runAt |-> runs[i].runAt, version |-> runs[i].version]

LatestRun(p) == Newest(RunsOf(p))
LatestOk(p)  == Newest({i \in RunsOf(p) : runs[i].status = "ok"})

\* Mutant of RecentRuns: ordered by insertion.
RecentRunsInserted(p, limit) ==
    LET mine  == {i \in DOMAIN runs : runs[i].protocol = p}
        shown == {i \in mine : Cardinality({j \in mine : j > i}) < limit}
    IN  [k \in 1 .. Cardinality(shown) |->
            LET i == CHOOSE i \in shown : Cardinality({j \in shown : j > i}) + 1 = k
            IN  [status |-> runs[i].status, runAt |-> runs[i].runAt,
                 version |-> runs[i].version]]

\* The newest runs of a protocol, newest first, at most `limit` of them.
RecentRuns(p, limit) ==
    LET newer(i) == {j \in RunsOf(p) : runs[j].runAt > runs[i].runAt}
        shown    == {i \in RunsOf(p) : Cardinality(newer(i)) < limit}
        place(i) == Cardinality(newer(i)) + 1
    IN  [k \in 1 .. Cardinality(shown) |->
            LET i == CHOOSE i \in shown : place(i) = k
            IN  [status |-> runs[i].status, runAt |-> runs[i].runAt,
                 version |-> runs[i].version]]

\* The leaderboard's row, also the body of a detail: the score's run is the latest
\* good one, the freshness is the latest run of either kind.
Entry(p) ==
    [id |-> p, category |-> protocols[p], scoredAt |-> LatestOk(p).runAt,
     version |-> LatestOk(p).version,
     lastRunAt |-> LatestRun(p).runAt, lastRunStatus |-> LatestRun(p).status]

Leaderboard == {Entry(p) : p \in DOMAIN protocols}

\* The export joins: a protocol never scored is not in it.
ExportState == {e \in Leaderboard : e.scoredAt # 0}

\* When the last good run was and the last run of any kind; how old is too old is the
\* reader's to say.
RunHealthEntry(p) ==
    [id |-> p, lastSuccessfulRunAt |-> LatestOk(p).runAt, lastRunAt |-> LatestRun(p).runAt,
     lastRunStatus |-> LatestRun(p).status]

RunHealth == {RunHealthEntry(p) : p \in DOMAIN protocols}

\* The queries of the repository's build name columns that must be there.
ReadAllowed ==
    /\ {"tables", "category", "deployment", "opState", "identity"} \subseteq schema.parts
    /\ schema.version # "absent"
================================================================================
