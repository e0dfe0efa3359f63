--------------------------------- MODULE Migrate -------------------------------
(***************************************************************************)
(* The forward-only migration runner (db/src/migrate.ts) and the eight     *)
(* files of db/migrations, run by several operators at once against one    *)
(* database that indexers and readers go on using.                         *)
(*                                                                         *)
(* A file's statements and the row that records it are one transaction:    *)
(* its effects are computed where its last statement ran and take place at *)
(* COMMIT, while ALTER TABLE keeps everybody else off the tables it has    *)
(* touched.                                                                *)
(***************************************************************************)
EXTENDS Store

CONSTANTS
    Migrators,      \* operators who may run `pnpm migrate`
    MaxMigrations   \* bound: how often each of them does

ASSUME MigrateAssumption == IsFiniteSet(Migrators) /\ MaxMigrations \in Nat

VARIABLES
    applied,    \* schema_migrations: the recorded files
    released,   \* files present in the checkout the operators run from
    migrator    \* each operator's process

migrateVars == <<applied, released, migrator>>

LastFile == 8

\* The tables and columns that each file creates.  The version's, of 0002, comes by and by.
Initial                == {"tables"}
ProtocolIdentity       == {"identity"}
ApiRateLimits          == {"limits"}
ProtocolDeployment     == {"deployment"}
OperationalStateColumn == {"opState"}
ProtocolCategory       == {"category", "categoryCheck"}

Creates(file) ==
    CASE file = 1 -> Initial
      [] file = 3 -> ProtocolIdentity
      [] file = 5 -> ApiRateLimits
      [] file = 6 -> ProtocolDeployment
      [] file = 7 -> OperationalStateColumn
      [] file = 8 -> ProtocolCategory
      [] OTHER    -> {}

\* The schema that a set of recorded files stands for.
SchemaOf(files) ==
    [parts        |-> UNION {Creates(f) : f \in files},
     version      |-> IF 4 \in files THEN "plain" ELSE IF 2 \in files THEN "default" ELSE "absent",
     versionCheck |-> IF 4 \in files THEN "union" ELSE IF 2 \in files THEN "ok" ELSE "none"]

\* A database where the first `files` have run; only `active` operators are about.
MigrateInit(files, active) ==
    /\ applied = 1 .. files
    /\ released = files
    /\ schema = SchemaOf(applied)
    /\ migrator = [m \in Migrators |->
          [pc |-> "off", known |-> {}, files |-> 0, file |-> 0,
           started |-> IF m \in active THEN 0 ELSE MaxMigrations]]

--------------------------------------------------------------------------------
(* The files.                                                              *)

\* Mutant of MethodologyVersion: 0002 adds its column without a default.
MethodologyVersionUndefaulted(sch) == [sch EXCEPT !.version = "plain", !.versionCheck = "ok"]

\* What the file that adds the version leaves of the schema, and the one that takes its
\* default away.  IF NOT EXISTS: a column that is there keeps its default.
MethodologyVersion(sch) == [sch EXCEPT !.version = IF @ = "absent" THEN "default" ELSE @,
                                       !.versionCheck = "ok"]
VersionRequired(sch)    == [sch EXCEPT !.version = "plain", !.versionCheck = "union"]

SchemaAfter(file, sch) ==
    CASE file = 2 -> MethodologyVersion(sch)
      [] file = 4 -> VersionRequired(sch)
      [] OTHER    -> [sch EXCEPT !.parts = @ \cup Creates(file)]

\* What a file does to a stored run.  ADD COLUMN ... DEFAULT stamps every row, the
\* failed ones too: 0008 clears those again, 0002 does not.
RowAfter(file, row) ==
    CASE file = 2 /\ schema.version = "absent" -> [row EXCEPT !.version = 1]
      [] file = 2 /\ schema.version # "absent" /\ row.status = "ok" /\ row.version = 0 ->
            [row EXCEPT !.version = 1]
      [] file = 8 -> [row EXCEPT !.category = IF row.status = "ok"
                                              THEN IF @ = "none" THEN "lending" ELSE @
                                              ELSE "none"]
      [] OTHER -> row

RunsAfter(file) == [i \in DOMAIN runs |-> RowAfter(file, runs[i])]

\* 0008 files every protocol there is under lending, once.
ProtocolsAfter(file) ==
    IF file = 8 /\ "category" \notin schema.parts
    THEN [p \in DOMAIN protocols |-> "lending"]
    ELSE protocols

\* The file's statements go through: the tables exist and every stored row meets the
\* CHECKs it adds.
StatementsPass(file) ==
    /\ file = 1 \/ "tables" \in schema.parts
    /\ file = 4 => schema.version # "absent"
    /\ \A i \in DOMAIN runs : Fits(SchemaAfter(file, schema), RunsAfter(file)[i])

\* The tables a file's ALTERs lock until the transaction ends.
Locks(file) ==
    CASE file \in {2, 4, 7} -> {"risk_scores"}
      [] file \in {3, 6}    -> {"protocols"}
      [] file = 5           -> {"api_rate_limits"}
      [] OTHER              -> {"protocols", "risk_scores"}

Free(table) ==
    \A m \in Migrators : migrator[m].pc = "open"
                            => table \notin Locks(migrator[m].file)

--------------------------------------------------------------------------------
(* One run of the runner.                                                  *)

Stop(m) == migrator' = [migrator EXCEPT ![m].pc = "off", ![m].known = {}, ![m].files = 0,
                                        ![m].file = 0]

\* CREATE TABLE IF NOT EXISTS schema_migrations; SELECT version; readdirSync.
ReadApplied(m) ==
    /\ migrator[m].pc = "off"
    /\ migrator[m].started < MaxMigrations
    /\ released > 0
    /\ migrator' = [migrator EXCEPT ![m] = [pc |-> "next", known |-> applied, files |-> released,
                                            file |-> 0, started |-> @.started + 1]]
    /\ UNCHANGED <<applied, released, dbvars>>

\* The files still to run, as this run sees it: those not recorded when it began.
Left(m) == {f \in 1 .. migrator[m].files : f > migrator[m].file /\ f \notin migrator[m].known}

\* "up to date", or "done".
NothingLeft(m) ==
    /\ migrator[m].pc = "next"
    /\ Left(m) = {}
    /\ Stop(m)
    /\ UNCHANGED <<applied, released, dbvars>>

\* Mutant of RunFile: no BEGIN, so what the statements do is there at once.
RunFileApart(m) ==
    LET file == Min(Left(m))
    IN  /\ migrator[m].pc = "next"
        /\ Left(m) # {}
        /\ \A table \in Locks(file) : Free(table)
        /\ IF StatementsPass(file)
           THEN /\ migrator' = [migrator EXCEPT ![m].pc = "open", ![m].file = file]
                /\ schema' = SchemaAfter(file, schema)
                /\ runs' = RunsAfter(file)
                /\ protocols' = ProtocolsAfter(file)
           ELSE Stop(m) /\ UNCHANGED dbvars
        /\ UNCHANGED <<applied, released>>

\* The next file: BEGIN, then its statements, which wait for the locks and pass or fail
\* (ROLLBACK, throw).
RunFile(m) ==
    LET file == Min(Left(m))
    IN  /\ migrator[m].pc = "next"
        /\ Left(m) # {}
        /\ \A table \in Locks(file) : Free(table)
        /\ IF StatementsPass(file)
           THEN migrator' = [migrator EXCEPT ![m].pc = "open", ![m].file = file]
           ELSE Stop(m)
        /\ UNCHANGED <<applied, released, dbvars>>

\* INSERT INTO schema_migrations and COMMIT: the primary key refuses a file that
\* another run has recorded meanwhile (ROLLBACK, throw).
Commit(m) ==
    LET file == migrator[m].file
    IN  /\ migrator[m].pc = "open"
        /\ IF file \in applied
           THEN Stop(m) /\ UNCHANGED <<applied, dbvars>>
           ELSE /\ schema' = SchemaAfter(file, schema)
                /\ runs' = RunsAfter(file)
                /\ protocols' = ProtocolsAfter(file)
                /\ applied' = applied \cup {file}
                /\ migrator' = [migrator EXCEPT ![m].pc = "next"]
        /\ UNCHANGED released

\* A lost connection or a process that dies, anywhere: the server rolls back.
MigratorDies(m) ==
    /\ migrator[m].pc # "off"
    /\ Stop(m)
    /\ UNCHANGED <<applied, released, dbvars>>

MigrateNext ==
    \E m \in Migrators : \/ ReadApplied(m) \/ NothingLeft(m) \/ RunFile(m) \/ Commit(m)
                         \/ MigratorDies(m)

--------------------------------------------------------------------------------

\* A file is recorded exactly when its effects are in the schema, however many runners
\* raced and wherever one died: a rerun neither skips a file nor repeats one
\* (migrate.ts:42-54).
SchemaIsWhatWasApplied ==
    /\ schema = SchemaOf(applied)
    /\ \A f \in applied : 1 .. f \subseteq applied
================================================================================
