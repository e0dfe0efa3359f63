------------------------------- MODULE StorageProofs ---------------------------
(***************************************************************************)
(* Proofs about everything that shares the database (Storage).  For any    *)
(* registry, hashes, number of operators, invocations, rows and readers:   *)
(* what is recorded as migrated is what was done, no promotion or file     *)
(* takes the schema away from a build in use, stamps stay true, shards     *)
(* partition the registry, and a page never contradicts itself.            *)
(***************************************************************************)
EXTENDS Storage, Extremes, SequenceTheorems

--------------------------------------------------------------------------------
(* The runners: what is recorded is what was done.                         *)

Process == [pc : {"off", "next", "open"}, known : SUBSET (1 .. LastFile),
            files : 0 .. LastFile, file : 0 .. LastFile, started : Nat]

\* What a run has found recorded stays recorded, and the file it has open is the first
\* that was not.
RunKnows(m) ==
    /\ migrator[m].pc # "off" => migrator[m].known \subseteq applied
    /\ migrator[m].pc = "next" => 1 .. migrator[m].file \subseteq applied
    /\ migrator[m].pc = "open" =>
          /\ migrator[m].file > 0
          /\ \A f \in 1 .. LastFile : f < migrator[m].file => f \in applied

MigrateInv ==
    /\ applied \subseteq 1 .. LastFile
    /\ released \in 0 .. LastFile
    /\ migrator \in [Migrators -> Process]
    /\ SchemaIsWhatWasApplied
    /\ \A m \in Migrators : RunKnows(m)

--------------------------------------------------------------------------------

\* What a file does to the schema that the files before it have left.
LEMMA FileByFile ==
    ASSUME NEW file \in 1 .. LastFile, NEW files, files = 1 .. file - 1
    PROVE  SchemaAfter(file, SchemaOf(files)) = SchemaOf(files \cup {file})
<1> DEFINE more == files \cup {file}
           parts == UNION {Creates(f) : f \in files}
           version == IF 4 \in files THEN "plain" ELSE IF 2 \in files THEN "default" ELSE "absent"
           check == IF 4 \in files THEN "union" ELSE IF 2 \in files THEN "ok" ELSE "none"
           newVersion == IF 4 \in more THEN "plain" ELSE IF 2 \in more THEN "default" ELSE "absent"
           newCheck == IF 4 \in more THEN "union" ELSE IF 2 \in more THEN "ok" ELSE "none"
           old == [parts |-> parts, version |-> version, versionCheck |-> check]
<1>1. file \in 1 .. 8
  BY DEF LastFile
<1>2. (2 \in files <=> file > 2) /\ (4 \in files <=> file > 4)
  BY <1>1
<1>3. (2 \in more <=> file >= 2) /\ (4 \in more <=> file >= 4)
  BY <1>1
<1>4. UNION {Creates(f) : f \in more} = parts \cup Creates(file)
  OBVIOUS
<1>5. SchemaOf(files) = old
  BY DEF SchemaOf
<1>6. SchemaOf(more) = [parts |-> parts \cup Creates(file), version |-> newVersion,
                        versionCheck |-> newCheck]
  BY <1>4 DEF SchemaOf
<1>0. old = [parts |-> parts, version |-> version, versionCheck |-> check]
  OBVIOUS
<1>7. CASE file \notin {2, 4}
  <2>1. newVersion = version /\ newCheck = check
    BY <1>1, <1>2, <1>3, <1>7
  <2>2. SchemaAfter(file, old) = [old EXCEPT !.parts = old.parts \cup Creates(file)]
    BY <1>1, <1>7 DEF SchemaAfter
  <2>3. old.parts = parts
    OBVIOUS
  <2> DEFINE newParts == parts \cup Creates(file)
  <2> HIDE DEF parts, version, check, newVersion, newCheck, old, newParts
  <2>4. [old EXCEPT !.parts = newParts]
            = [parts |-> newParts, version |-> version, versionCheck |-> check]
    BY <1>0
  <2> QED
    BY <1>5, <1>6, <2>1, <2>2, <2>3, <2>4 DEF newParts
<1>8. CASE file = 2
  <2>1. version = "absent" /\ newVersion = "default" /\ newCheck = "ok"
    BY <1>2, <1>3, <1>8
  <2>2. Creates(file) = {}
    BY <1>8 DEF Creates
  <2>3. SchemaAfter(file, old) = [old EXCEPT !.version = "default", !.versionCheck = "ok"]
    <3>1. SchemaAfter(file, old) = MethodologyVersion(old)
      BY <1>8 DEF SchemaAfter
    <3>2. (IF old.version = "absent" THEN "default" ELSE old.version) = "default"
      BY <2>1
    <3> QED
      BY <3>1, <3>2, Zenon DEF MethodologyVersion
  <2> DEFINE newer == "default"  checked == "ok"
  <2> HIDE DEF parts, version, check, newVersion, newCheck, old, newer, checked
  <2>4. [old EXCEPT !.version = newer, !.versionCheck = checked]
            = [parts |-> parts, version |-> newer, versionCheck |-> checked]
    <3>1. [old EXCEPT !.version = newer]
              = [parts |-> parts, version |-> newer, versionCheck |-> check]
      BY <1>0
    <3>2. [[parts |-> parts, version |-> newer, versionCheck |-> check]
              EXCEPT !.versionCheck = checked]
              = [parts |-> parts, version |-> newer, versionCheck |-> checked]
      OBVIOUS
    <3>3. [old EXCEPT !.version = newer, !.versionCheck = checked]
              = [[old EXCEPT !.version = newer] EXCEPT !.versionCheck = checked]
      BY Zenon
    <3> QED
      BY <3>1, <3>2, <3>3
  <2> QED
    BY <1>5, <1>6, <2>1, <2>2, <2>3, <2>4 DEF newer, checked
<1>9. CASE file = 4
  <2>1. newVersion = "plain" /\ newCheck = "union"
    BY <1>3, <1>9
  <2>2. Creates(file) = {}
    BY <1>9 DEF Creates
  <2>3. SchemaAfter(file, old) = [old EXCEPT !.version = "plain", !.versionCheck = "union"]
    BY <1>9 DEF SchemaAfter, VersionRequired
  <2> DEFINE newer == "plain"  checked == "union"
  <2> HIDE DEF parts, version, check, newVersion, newCheck, old, newer, checked
  <2>4. [old EXCEPT !.version = newer, !.versionCheck = checked]
            = [parts |-> parts, version |-> newer, versionCheck |-> checked]
    <3>1. [old EXCEPT !.version = newer]
              = [parts |-> parts, version |-> newer, versionCheck |-> check]
      BY <1>0
    <3>2. [[parts |-> parts, version |-> newer, versionCheck |-> check]
              EXCEPT !.versionCheck = checked]
              = [parts |-> parts, version |-> newer, versionCheck |-> checked]
      OBVIOUS
    <3>3. [old EXCEPT !.version = newer, !.versionCheck = checked]
              = [[old EXCEPT !.version = newer] EXCEPT !.versionCheck = checked]
      BY Zenon
    <3> QED
      BY <3>1, <3>2, <3>3
  <2> QED
    BY <1>5, <1>6, <2>1, <2>2, <2>3, <2>4 DEF newer, checked
<1> QED
  BY <1>7, <1>8, <1>9

\* One operator's process goes on and the tables stay as they are.
LEMMA ProcessMoves ==
    ASSUME MigrateInv, NEW m \in Migrators, NEW p \in Process,
           migrator' = [migrator EXCEPT ![m] = p],
           p.pc # "off" => p.known \subseteq applied,
           p.pc = "next" => 1 .. p.file \subseteq applied,
           p.pc = "open" => p.file > 0 /\ \A f \in 1 .. LastFile : f < p.file => f \in applied,
           applied' = applied, released' = released, schema' = schema
    PROVE  MigrateInv'
<1>1. migrator' \in [Migrators -> Process]
  BY DEF MigrateInv
<1>2. \A n \in Migrators : migrator'[n] = IF n = m THEN p ELSE migrator[n]
  BY DEF MigrateInv
<1>3. \A n \in Migrators : RunKnows(n)'
  BY <1>2 DEF MigrateInv, RunKnows
<1> QED
  BY <1>1, <1>3 DEF MigrateInv, SchemaIsWhatWasApplied

LEMMA StopStep ==
    ASSUME MigrateInv, NEW m \in Migrators, Stop(m),
           applied' = applied, released' = released, schema' = schema
    PROVE  MigrateInv'
<1> DEFINE p == [migrator[m] EXCEPT !.pc = "off", !.known = {}, !.files = 0, !.file = 0]
<1>1. migrator' = [migrator EXCEPT ![m] = p]
  BY DEF Stop
<1>2. p \in Process /\ p.pc = "off"
  <2>1. migrator[m] \in Process
    BY DEF MigrateInv
  <2>2. 0 \in 0 .. LastFile
    BY DEF LastFile
  <2>3. {} \in SUBSET (1 .. LastFile)
    OBVIOUS
  <2> QED
    BY <2>1, <2>2, <2>3 DEF Process
<1> HIDE DEF p
<1> QED
  BY <1>1, <1>2, ProcessMoves

LEMMA CommitStep ==
    ASSUME MigrateInv, NEW m \in Migrators, Commit(m)
    PROVE  MigrateInv'
<1> DEFINE file == migrator[m].file
<1>0. /\ migrator[m] \in Process /\ migrator[m].pc = "open" /\ RunKnows(m)
      /\ applied \subseteq 1 .. LastFile
  BY DEF Commit, MigrateInv
<1>1. file \in 1 .. LastFile /\ \A f \in 1 .. LastFile : f < file => f \in applied
  BY <1>0 DEF Process, RunKnows, LastFile
<1>2. CASE file \in applied
  <2>1. Stop(m) /\ applied' = applied /\ released' = released /\ schema' = schema
    BY <1>2 DEF Commit, dbvars
  <2> QED
    BY <2>1, StopStep
<1>3. CASE file \notin applied
  <2>1. /\ schema' = SchemaAfter(file, schema) /\ applied' = applied \cup {file}
        /\ migrator' = [migrator EXCEPT ![m].pc = "next"] /\ released' = released
    BY <1>3 DEF Commit
  <2>2. schema = SchemaOf(applied) /\ \A f \in applied : 1 .. f \subseteq applied
    BY DEF MigrateInv, SchemaIsWhatWasApplied
  <2>3. \A n \in Migrators : RunKnows(n) /\ migrator[n] \in Process
    BY DEF MigrateInv
  <2> DEFINE p == [migrator[m] EXCEPT !.pc = "next"]
  <2>4. p \in Process /\ p.pc = "next" /\ p.file = file /\ p.known = migrator[m].known
    BY <1>0 DEF Process
  <2>5. migrator' = [migrator EXCEPT ![m] = p]
    BY <2>1
  <2>6. /\ migrator' \in [Migrators -> Process]
        /\ \A n \in Migrators : migrator'[n] = IF n = m THEN p ELSE migrator[n]
    BY <2>4, <2>5 DEF MigrateInv
  <2> HIDE DEF file, p
  <2>7. applied = 1 .. file - 1
    <3>1. file \in 1 .. 8
      BY <1>1 DEF LastFile
    <3>2. \A f \in applied : f < file
      <4> SUFFICES ASSUME NEW f \in applied, ~(f < file)
                   PROVE  FALSE
        OBVIOUS
      <4>1. f \in 1 .. 8
        BY <1>0 DEF LastFile
      <4>2. file \in 1 .. f
        BY <3>1, <4>1
      <4> QED
        BY <1>3, <2>2, <4>2
    <3>3. \A f \in applied : f \in 1 .. file - 1
      BY <1>0, <3>1, <3>2 DEF LastFile
    <3>4. \A f \in 1 .. file - 1 : f \in applied
      BY <1>1, <3>1 DEF LastFile
    <3> QED
      BY <3>3, <3>4
  <2>8. schema' = SchemaOf(applied')
    BY <1>1, <2>1, <2>2, <2>7, FileByFile
  <2>9. 1 .. file \subseteq applied' /\ applied' \subseteq 1 .. LastFile
    <3>1. file \in 1 .. 8
      BY <1>1 DEF LastFile
    <3> QED
      BY <1>0, <1>1, <2>1, <2>7, <3>1
  <2>10. \A f \in applied' : 1 .. f \subseteq applied'
    BY <2>1, <2>2, <2>9
  <2>11. ASSUME NEW n \in Migrators
         PROVE  RunKnows(n)'
    <3>1. applied \subseteq applied'
      BY <2>1
    <3>2. CASE n = m
      BY <1>0, <2>4, <2>6, <2>9, <3>1, <3>2 DEF RunKnows
    <3>3. CASE n # m
      BY <2>3, <2>6, <3>1, <3>3 DEF RunKnows
    <3> QED
      BY <3>2, <3>3
  <2>12. released' \in 0 .. LastFile
    BY <2>1 DEF MigrateInv
  <2> QED
    BY <2>6, <2>8, <2>9, <2>10, <2>11, <2>12 DEF MigrateInv, SchemaIsWhatWasApplied
<1> QED
  BY <1>2, <1>3

LEMMA ReadAppliedStep ==
    ASSUME MigrateInv, NEW m \in Migrators, ReadApplied(m)
    PROVE  MigrateInv'
<1> DEFINE p == [pc |-> "next", known |-> applied, files |-> released, file |-> 0,
                 started |-> migrator[m].started + 1]
<1>1. migrator' = [migrator EXCEPT ![m] = p]
  BY DEF ReadApplied
<1>2. p \in Process
  <2>1. migrator[m] \in Process /\ released \in 0 .. LastFile /\ applied \subseteq 1 .. LastFile
    BY DEF MigrateInv
  <2>2. migrator[m].started + 1 \in Nat /\ 0 \in 0 .. LastFile
    BY <2>1 DEF Process, LastFile
  <2> QED
    BY <2>1, <2>2 DEF Process
<1>3. p.pc = "next" /\ p.known = applied /\ p.file = 0 /\ 1 .. p.file \subseteq applied
  OBVIOUS
<1> HIDE DEF p
<1>4. applied' = applied /\ released' = released /\ schema' = schema
  BY DEF ReadApplied, dbvars
<1> QED
  BY <1>1, <1>2, <1>3, <1>4, ProcessMoves

LEMMA RunFileStep ==
    ASSUME MigrateInv, NEW m \in Migrators, RunFile(m)
    PROVE  MigrateInv'
<1> DEFINE file == Min(Left(m))
           p == [migrator[m] EXCEPT !.pc = "open", !.file = file]
<1>1. applied' = applied /\ released' = released /\ schema' = schema
  BY DEF RunFile, dbvars
<1>2. CASE Stop(m)
  BY <1>1, <1>2, StopStep
<1>3. CASE migrator' = [migrator EXCEPT ![m].pc = "open", ![m].file = file]
  <2>1. /\ migrator[m] \in Process /\ migrator[m].pc = "next" /\ Left(m) # {}
        /\ migrator[m].known \subseteq applied /\ 1 .. migrator[m].file \subseteq applied
    BY DEF RunFile, MigrateInv, RunKnows
  <2>2. /\ migrator[m].files \in 0 .. 8 /\ migrator[m].file \in 0 .. 8
        /\ migrator[m].started \in Nat /\ migrator[m].known \in SUBSET (1 .. 8)
    BY <2>1 DEF Process, LastFile
  <2>3. Left(m) \in SUBSET Nat
    BY <2>2 DEF Left
  <2>4. file \in Left(m) /\ \A x \in Left(m) : file <= x
    BY <2>1, <2>3, LeastOf
  <2> HIDE DEF file
  <2>5. file \in 1 .. 8 /\ file <= migrator[m].files
    BY <2>2, <2>4 DEF Left
  <2>6. ASSUME NEW f \in 1 .. LastFile, f < file
        PROVE  f \in applied
    <3>1. f \notin Left(m) /\ f \in 1 .. migrator[m].files
      BY <2>2, <2>4, <2>5, <2>6 DEF LastFile
    <3>2. CASE f > migrator[m].file
      BY <2>1, <3>1, <3>2 DEF Left
    <3>3. CASE f <= migrator[m].file
      BY <2>1, <2>2, <3>3 DEF LastFile
    <3> QED
      BY <2>2, <3>2, <3>3 DEF LastFile
  <2>7. migrator' = [migrator EXCEPT ![m] = p]
    BY <1>3
  <2>8. p \in Process /\ p.pc = "open" /\ p.file = file /\ p.known = migrator[m].known
    <3> DEFINE opened == [migrator[m] EXCEPT !.pc = "open"]
    <3>1. opened \in Process /\ opened.pc = "open" /\ opened.known = migrator[m].known
      BY <2>1 DEF Process
    <3>2. p = [opened EXCEPT !.file = file]
      BY Zenon
    <3>3. file \in 0 .. LastFile
      BY <2>5 DEF LastFile
    <3> HIDE DEF opened, p
    <3> QED
      BY <3>1, <3>2, <3>3 DEF Process
  <2> HIDE DEF p
  <2>9. /\ p.known \subseteq applied /\ p.file > 0
        /\ \A f \in 1 .. LastFile : f < p.file => f \in applied
    BY <2>1, <2>5, <2>6, <2>8
  <2> QED
    BY <1>1, <2>7, <2>8, <2>9, ProcessMoves
<1> QED
  BY <1>2, <1>3 DEF RunFile

\* A step that leaves the runner's state alone.
LEMMA OthersStep ==
    ASSUME MigrateInv, applied' = applied, migrator' = migrator, schema' = schema,
           released' \in 0 .. LastFile
    PROVE  MigrateInv'
BY DEF MigrateInv, RunKnows, SchemaIsWhatWasApplied

LEMMA InvocationsLeaveSchema ==
    ASSUME NEW i, \/ \E q \in scene.requests : Post(i, q.secret, q.bearer, q.shard, q.total, q.env)
                  \/ \E env \in scene.consoles : StartLoop(i, env)
                  \/ Upsert(i) \/ Prepared(i) \/ LoopFires(i) \/ PickTarget(i)
                  \/ \E status \in {"ok", "failed"} : Record(i, status)
                  \/ CycleOver(i) \/ Killed(i)
    PROVE  schema' = schema /\ UNCHANGED migrateVars
<1>1. ASSUME NEW q \in scene.requests, Post(i, q.secret, q.bearer, q.shard, q.total, q.env)
      PROVE  schema' = schema /\ UNCHANGED migrateVars
  BY <1>1 DEF Post, dbvars
<1>2. ASSUME NEW env \in scene.consoles, StartLoop(i, env)
      PROVE  schema' = schema /\ UNCHANGED migrateVars
  BY <1>2 DEF StartLoop, dbvars
<1>3. ASSUME Upsert(i) \/ Prepared(i) \/ LoopFires(i) \/ PickTarget(i)
      PROVE  schema' = schema /\ UNCHANGED migrateVars
  BY <1>3 DEF Upsert, Prepared, LoopFires, PickTarget, dbvars
<1>4. ASSUME NEW status \in {"ok", "failed"}, Record(i, status)
      PROVE  schema' = schema /\ UNCHANGED migrateVars
  BY <1>4 DEF Record, dbvars
<1>5. ASSUME CycleOver(i) \/ Killed(i)
      PROVE  schema' = schema /\ UNCHANGED migrateVars
  BY <1>5 DEF CycleOver, Killed, dbvars
<1> QED
  BY <1>1, <1>2, <1>3, <1>4, <1>5

LEMMA InitHolds ==
    ASSUME Init
    PROVE  MigrateInv
<1>1. PICK files \in {0, LastFile} : MigrateInit(files, scene.migrators)
  BY DEF Init
<1>2. files \in 0 .. 8
  BY DEF LastFile
<1>3. MaxMigrations \in Nat
  BY MigrateAssumption
<1>4. applied = 1 .. files /\ released = files /\ schema = SchemaOf(applied)
  BY <1>1 DEF MigrateInit
<1>5. migrator \in [Migrators -> Process] /\ \A m \in Migrators : migrator[m].pc = "off"
  <2> DEFINE p(m) == [pc |-> "off", known |-> {}, files |-> 0, file |-> 0,
                      started |-> IF m \in scene.migrators THEN 0 ELSE MaxMigrations]
  <2>1. migrator = [m \in Migrators |-> p(m)]
    BY <1>1 DEF MigrateInit
  <2>2. \A m \in Migrators : p(m) \in Process /\ p(m).pc = "off"
    BY <1>3 DEF Process, LastFile
  <2> HIDE DEF p
  <2> QED
    BY <2>1, <2>2
<1>6. \A f \in applied : 1 .. f \subseteq applied
  BY <1>2, <1>4
<1>7. applied \subseteq 1 .. LastFile /\ released \in 0 .. LastFile
  BY <1>2, <1>4 DEF LastFile
<1> QED
  BY <1>4, <1>5, <1>6, <1>7 DEF MigrateInv, RunKnows, SchemaIsWhatWasApplied

LEMMA StepHolds ==
    ASSUME MigrateInv, [Next]_vars
    PROVE  MigrateInv'
<1>0. released \in 0 .. LastFile
  BY DEF MigrateInv
<1>1. CASE MigrateNext
  <2> SUFFICES ASSUME NEW m \in Migrators,
                      ReadApplied(m) \/ NothingLeft(m) \/ RunFile(m) \/ Commit(m)
                         \/ MigratorDies(m)
               PROVE  MigrateInv'
    BY <1>1 DEF MigrateNext
  <2>1. CASE NothingLeft(m) \/ MigratorDies(m)
    BY <2>1, StopStep DEF NothingLeft, MigratorDies, dbvars
  <2> QED
    BY <2>1, ReadAppliedStep, RunFileStep, CommitStep
<1>2. CASE InvocationNext(scene.slots, scene.requests, scene.consoles)
  <2>1. schema' = schema /\ UNCHANGED migrateVars
    BY <1>2, InvocationsLeaveSchema DEF InvocationNext
  <2> QED
    BY <1>0, <2>1, OthersStep DEF migrateVars
<1>3. ASSUME NEW build \in Builds, Deploy(build)
      PROVE  MigrateInv'
  BY <1>0, <1>3, OthersStep DEF Deploy, dbvars, migrateVars
<1>4. ASSUME NEW files \in Checkouts, Release(files)
      PROVE  MigrateInv'
  <2>1. files \in 0 .. LastFile
    BY StorageAssumption
  <2> QED
    BY <1>4, <2>1, OthersStep DEF Release, dbvars
<1>5. ASSUME NEW r \in scene.readers, \/ \E p \in Protocols : ReadSummary(r, p)
                                      \/ ReadHistory(r) \/ Respond(r)
      PROVE  MigrateInv'
  BY <1>0, <1>5, OthersStep DEF ReadSummary, ReadHistory, Respond, dbvars, migrateVars
<1>6. CASE UNCHANGED vars
  BY <1>0, <1>6, OthersStep DEF vars, dbvars, migrateVars
<1> QED
  BY <1>1, <1>2, <1>3, <1>4, <1>5, <1>6 DEF Next

\* However many operators run `pnpm migrate` at once, whatever they interleave with and
\* wherever one dies, a file is recorded exactly when its effects are in the schema, and
\* only after every file before it (migrate.ts:25-57).
THEOREM RecordedMeansApplied == Spec => []SchemaIsWhatWasApplied
<1>1. Init => MigrateInv
  BY InitHolds
<1>2. MigrateInv /\ [Next]_vars => MigrateInv'
  BY StepHolds
<1>3. MigrateInv => SchemaIsWhatWasApplied
  BY DEF MigrateInv
<1> QED
  BY <1>1, <1>2, <1>3, PTL DEF Spec

--------------------------------------------------------------------------------
(* What an invocation selects.                                             *)

\* Sorting by latency loses no target and makes none up.
LEMMA OrderKeeps ==
    ASSUME NEW T, NEW targets \in Seq(T)
    PROVE  /\ OrderByLatency(targets) \in Seq(Members(targets))
           /\ Members(OrderByLatency(targets)) = Members(targets)
<1> DEFINE S == DOMAIN targets
           rank == [i \in S |-> LatencyRank(targets[i])]
           R == {r \in S \X S : rank[r[1]] < rank[r[2]] \/ (rank[r[1]] = rank[r[2]] /\ r[1] < r[2])}
           before == [i \in S |-> {j \in S : <<j, i>> \in R}]
           place == Place(R, S)
           n == Len(targets)
<1>1. n \in Nat /\ S = 1 .. n /\ IsFiniteSet(S) /\ Cardinality(S) = n
  <2>1. n \in Nat /\ S = 1 .. n
    OBVIOUS
  <2>2. IsFiniteSet(1 .. n) /\ Cardinality(1 .. n) = IF 1 > n THEN 0 ELSE n - 1 + 1
    BY <2>1, FS_Interval
  <2> QED
    BY <2>1, <2>2
<1>2. \A i \in S : rank[i] \in Int
  <2>1. \A id : LatencyRank(id) \in Int
    <3> SUFFICES ASSUME NEW id
                 PROVE  LatencyRank(id) \in Int
      OBVIOUS
    <3>1. \A i \in DOMAIN SlowestFirst : i \in Int
      BY ShardingAssumption
    <3>2. CASE \E i \in DOMAIN SlowestFirst : SlowestFirst[i] = id
      <4>1. (CHOOSE i \in DOMAIN SlowestFirst : SlowestFirst[i] = id) \in DOMAIN SlowestFirst
        BY <3>2
      <4> QED
        BY <3>1, <3>2, <4>1 DEF LatencyRank
    <3>3. CASE ~\E i \in DOMAIN SlowestFirst : SlowestFirst[i] = id
      BY <3>3 DEF LatencyRank
    <3> QED
      BY <3>2, <3>3
  <2> QED
    BY <2>1
<1>3. \A i, j \in S : <<i, j>> \in R <=> rank[i] < rank[j] \/ (rank[i] = rank[j] /\ i < j)
  OBVIOUS
<1>4. \A i \in S : LatencyPlace(targets, i) = place[i] + 1
  <2> SUFFICES ASSUME NEW i \in S
               PROVE  LatencyPlace(targets, i) = place[i] + 1
    OBVIOUS
  <2> DEFINE upTo == {j \in S : rank[j] < rank[i] \/ (rank[j] = rank[i] /\ j <= i)}
  <2>1. LatencyPlace(targets, i) = Cardinality(upTo)
    BY DEF LatencyPlace
  <2>2. before[i] = {j \in S : rank[j] < rank[i] \/ (rank[j] = rank[i] /\ j < i)}
    BY <1>3
  <2> HIDE DEF rank, R
  <2>3. upTo = before[i] \cup {i} /\ i \notin before[i]
    <3>1. \A j \in S : j \in Int
      BY <1>1
    <3> HIDE DEF before
    <3> QED
      BY <1>2, <2>2, <3>1
  <2>4. before[i] \in SUBSET S /\ place[i] = Cardinality(before[i])
    BY DEF Place
  <2> HIDE DEF upTo, before, place
  <2>5. IsFiniteSet(before[i])
    BY <1>1, <2>4, FS_Subset
  <2> QED
    BY <2>1, <2>3, <2>4, <2>5, FS_AddElement
<1>5. /\ \A i \in S : <<i, i>> \notin R
      /\ \A i, j \in S : i # j => <<i, j>> \in R \/ <<j, i>> \in R
      /\ \A i, j, k \in S : <<i, j>> \in R /\ <<j, k>> \in R => <<i, k>> \in R
  <2>1. \A i \in S : i \in Int
    BY <1>1
  <2> HIDE DEF R, rank, S
  <2> QED
    BY <1>2, <1>3, <2>1
<1> HIDE DEF R, rank, before
<1>6. StrictlyOrders(R, S)
  BY <1>5 DEF StrictlyOrders
<1>7. /\ place \in [S -> 0 .. n - 1]
      /\ \A i, j \in S : place[i] = place[j] => i = j
      /\ \A k \in 0 .. n - 1 : \E i \in S : place[i] = k
  <2>1. Ranked(R, S)
    BY <1>1, <1>6, Ranking
  <2> QED
    BY <1>1, <2>1 DEF Ranked
<1> HIDE DEF place
<1> DEFINE at(k) == CHOOSE i \in S : LatencyPlace(targets, i) = k
<1>8. \A k \in S : at(k) \in S /\ LatencyPlace(targets, at(k)) = k
  <2> SUFFICES ASSUME NEW k \in S
               PROVE  \E i \in S : LatencyPlace(targets, i) = k
    OBVIOUS
  <2>1. k - 1 \in 0 .. n - 1 /\ k \in Int
    BY <1>1
  <2>2. PICK i \in S : place[i] = k - 1
    BY <1>7, <2>1
  <2>3. LatencyPlace(targets, i) = k
    BY <1>4, <2>1, <2>2
  <2> QED
    BY <2>3
<1>9. \A i \in S : \E k \in S : at(k) = i
  <2> SUFFICES ASSUME NEW i \in S
               PROVE  \E k \in S : at(k) = i
    OBVIOUS
  <2>1. place[i] \in 0 .. n - 1
    BY <1>7
  <2>2. place[i] + 1 \in S
    BY <1>1, <2>1
  <2> DEFINE k == place[i] + 1
  <2>3. at(k) \in S /\ LatencyPlace(targets, at(k)) = k
    BY <1>8, <2>2
  <2> HIDE DEF at
  <2>4. place[at(k)] = place[i]
    <3>1. place[at(k)] + 1 = place[i] + 1
      BY <1>4, <2>3
    <3>2. place[at(k)] \in 0 .. n - 1
      BY <1>7, <2>3
    <3> QED
      BY <2>1, <3>1, <3>2
  <2> QED
    BY <1>7, <2>2, <2>3, <2>4
<1> DEFINE ordered == OrderByLatency(targets)
<1>10. ordered = [k \in S |-> targets[at(k)]]
  BY DEF OrderByLatency
<1> HIDE DEF at, ordered
<1>11. DOMAIN ordered = S /\ \A k \in S : ordered[k] \in Members(targets)
  BY <1>8, <1>10 DEF Members
<1>12. ordered \in Seq(Members(targets))
  BY <1>1, <1>10, <1>11
<1>13. \A i \in S : targets[i] \in Members(ordered)
  BY <1>9, <1>10, <1>11 DEF Members
<1> QED
  BY <1>11, <1>12, <1>13 DEF Members, ordered

\* The registry that a build constructs, and the targets of one of its shards.
LEMMA Selected ==
    ASSUME NEW build \in Builds, NEW spec
    PROVE  LET targets == BuildTargets(build)
               all     == Members(Registry[build])
           IN  /\ targets \in Seq(all) /\ all \subseteq Protocols /\ IsFiniteSet(all)
               /\ SelectShard(targets, spec) \in Seq(all)
               /\ Members(SelectShard(targets, spec)) =
                     {p \in all : spec.totalShards <= 1 \/ InShard(all, p, spec)}
<1> DEFINE targets == BuildTargets(build)
           all == Members(Registry[build])
           kept == {i \in DOMAIN targets : InShard(all, targets[i], spec)}
           shard == SelectShard(targets, spec)
<1>1. Registry[build] \in Seq(Protocols)
  BY IndexerAssumption
<1>2. all \subseteq Protocols /\ IsFiniteSet(all)
  <2>1. all \in SUBSET Protocols
    BY <1>1 DEF Members
  <2> QED
    BY <2>1, StoreAssumption, FS_Subset
<1>3. targets \in Seq(all) /\ Members(targets) = all
  BY <1>1, OrderKeeps DEF BuildTargets
<1>4. {targets[i] : i \in kept} = {p \in all : InShard(all, p, spec)}
  BY <1>3 DEF Members
<1> HIDE DEF targets, all
<1>5. CASE spec.totalShards <= 1
  <2>1. shard = targets
    BY <1>5 DEF SelectShard
  <2>2. Members(shard) = {p \in all : spec.totalShards <= 1 \/ InShard(all, p, spec)}
    BY <1>3, <1>5, <2>1
  <2> QED
    BY <1>2, <1>3, <2>1, <2>2 DEF targets, all
<1>6. CASE ~(spec.totalShards <= 1)
  <2>1. shard = Filtered(targets, kept)
    BY <1>3, <1>6 DEF SelectShard
  <2>2. kept \in SUBSET DOMAIN targets
    OBVIOUS
  <2> HIDE DEF shard
  <2>3. /\ shard \in Seq({targets[i] : i \in kept})
        /\ Members(shard) = {targets[i] : i \in kept}
    <3> HIDE DEF kept
    <3> QED
      BY <1>3, <2>1, <2>2, FilteredKeeps
  <2>4. Members(shard) = {p \in all : spec.totalShards <= 1 \/ InShard(all, p, spec)}
    BY <1>4, <1>6, <2>3
  <2>5. shard \in Seq(all)
    <3>1. {targets[i] : i \in kept} \subseteq all
      BY <1>4
    <3> HIDE DEF kept
    <3> QED
      BY <2>3, <3>1
  <2> QED
    BY <1>2, <1>3, <2>4, <2>5 DEF targets, all, shard
<1> QED
  BY <1>5, <1>6

\* The deal numbers the targets from 0 on.
LEMMA DealNumbers ==
    ASSUME NEW members \in SUBSET Protocols
    PROVE  /\ IsFiniteSet(members) /\ Cardinality(members) \in Nat
           /\ \A p \in members : DealPlace(members, p) \in 0 .. Cardinality(members) - 1
           /\ \A p, q \in members : DealPlace(members, p) = DealPlace(members, q) => p = q
           /\ \A k \in 0 .. Cardinality(members) - 1 : \E p \in members : DealPlace(members, p) = k
<1> DEFINE R == {r \in members \X members : DealtBefore(r[1], r[2])}
<1>1. \A p, q \in members : <<p, q>> \in R <=> DealtBefore(p, q)
  OBVIOUS
<1>2. \A p, q \in members :
          {q2 \in members : <<q2, p>> \in R} = {q2 \in members : DealtBefore(q2, p)}
  BY <1>1
<1>3. \A p \in members : Place(R, members)[p] = DealPlace(members, p)
  BY <1>2 DEF Place, DealPlace
<1>4. IsFiniteSet(members)
  BY StoreAssumption, FS_Subset
<1>5. StrictlyOrders(R, members)
  <2>1. \A p \in members : Hash[p] \in Nat /\ Alphabetical[p] \in Nat
    BY ShardingAssumption, IndexerAssumption
  <2>2. \A p, q \in members : Alphabetical[p] = Alphabetical[q] => p = q
    BY ShardingAssumption, IndexerAssumption
  <2> HIDE DEF R
  <2>3. \A p, q \in members : <<p, q>> \in R <=>
          Hash[p] < Hash[q] \/ (Hash[p] = Hash[q] /\ Alphabetical[p] < Alphabetical[q])
    BY <1>1 DEF DealtBefore
  <2>4. \A p \in members : <<p, p>> \notin R
    BY <2>1, <2>3
  <2>5. \A p, q \in members : p # q => <<p, q>> \in R \/ <<q, p>> \in R
    BY <2>1, <2>2, <2>3
  <2>6. \A p, q, r \in members : <<p, q>> \in R /\ <<q, r>> \in R => <<p, r>> \in R
    BY <2>1, <2>3
  <2> QED
    BY <2>4, <2>5, <2>6 DEF StrictlyOrders
<1> HIDE DEF R
<1>6. Ranked(R, members)
  BY <1>4, <1>5, Ranking
<1> QED
  BY <1>3, <1>4, <1>6 DEF Ranked

\* Whose turn it is in the deal.
Turn(k, total) == k % total

\* One lap earlier, on another shard.
LEMMA LapBefore ==
    ASSUME NEW k \in Nat, NEW total \in Nat, total > 0, NEW s \in 0 .. total - 1,
           NEW t \in 0 .. total - 1, Turn(k, total) = s
    PROVE  /\ k < total => k = s
           /\ k >= total => /\ k - total - s + t \in Nat
                            /\ k - total - s + t < k
                            /\ Turn(k - total - s + t, total) = t
<1> USE DEF Turn
<1> DEFINE q == k \div total
<1>1. q \in Nat /\ k = total * q + s
  OBVIOUS
<1> HIDE DEF q
<1>2. ASSUME k < total
      PROVE  k = s
  <2>1. q = 0 \/ total * q >= total
    BY <1>1
  <2> QED
    BY <1>1, <1>2, <2>1
<1>3. ASSUME k >= total
      PROVE  /\ k - total - s + t \in Nat
             /\ k - total - s + t < k
             /\ (k - total - s + t) % total = t
  <2> DEFINE b == k - total - s + t
             r == b \div total
             u == b % total
  <2>1. q >= 1
    <3>1. q = 0 => total * q = 0
      OBVIOUS
    <3> QED
      BY <1>1, <1>3, <3>1
  <2>2. b = total * (q - 1) + t
    <3>1. total * (q - 1) = total * q - total
      BY <1>1
    <3> QED
      BY <1>1, <3>1
  <2>3. b \in Nat /\ b < k
    <3>1. total * (q - 1) \in Nat
      BY <1>1, <2>1
    <3> QED
      BY <2>2, <3>1
  <2> HIDE DEF b
  <2>4. r \in Int /\ u \in 0 .. total - 1 /\ b = total * r + u
    BY <2>3
  <2> HIDE DEF r, u
  <2>5. total * (q - 1) + t = total * r + u
    BY <2>2, <2>4
  <2> DEFINE d == (q - 1) - r
  <2>6. d \in Int /\ total * d = u - t
    <3>1. total * d = total * (q - 1) - total * r
      BY <1>1, <2>4
    <3>2. total * (q - 1) \in Int /\ total * r \in Int
      BY <1>1, <2>4
    <3> QED
      BY <1>1, <2>4, <2>5, <3>1, <3>2
  <2> HIDE DEF d
  <2>7. d >= 1 => total * d >= total
    BY <2>6
  <2>8. d <= -1 => total * d <= -total
    BY <2>6
  <2>9. d = 0 => total * d = 0
    OBVIOUS
  <2>10. u = t
    BY <2>4, <2>6, <2>7, <2>8, <2>9
  <2> QED
    BY <2>3, <2>10 DEF b, u
<1> QED
  BY <1>2, <1>3

\* Round-robin: no shard gets two targets more than another.
LEMMA EvenLoads ==
    ASSUME NEW members \in SUBSET Protocols, NEW total \in Nat, total > 0,
           NEW s \in 0 .. total - 1, NEW t \in 0 .. total - 1
    PROVE  Cardinality({p \in members : DealPlace(members, p) % total = s})
              <= Cardinality({p \in members : DealPlace(members, p) % total = t}) + 1
<1> DEFINE n == Cardinality(members)
           place(p) == DealPlace(members, p)
           Load(k) == {p \in members : Turn(place(p), total) = k}
           first == {p \in Load(s) : place(p) < total}
           rest == Load(s) \ first
           earlier(p) == place(p) - total - s + t
           f == [p \in rest |-> CHOOSE q \in members : place(q) = earlier(p)]
<1>1. /\ IsFiniteSet(members) /\ n \in Nat
      /\ \A p \in members : place(p) \in 0 .. n - 1
      /\ \A p, q \in members : place(p) = place(q) => p = q
      /\ \A k \in 0 .. n - 1 : \E p \in members : place(p) = k
  BY DealNumbers
<1> HIDE DEF place, n
<1>2. IsFiniteSet(Load(s)) /\ IsFiniteSet(Load(t)) /\ IsFiniteSet(rest)
  <2>1. Load(s) \in SUBSET members /\ Load(t) \in SUBSET members /\ rest \in SUBSET members
    OBVIOUS
  <2> QED
    BY <1>1, <2>1, FS_Subset
<1>3. ASSUME NEW p \in rest
      PROVE  f[p] \in members /\ place(f[p]) = earlier(p) /\ f[p] \in Load(t)
  <2>1. place(p) \in Nat /\ Turn(place(p), total) = s /\ place(p) >= total /\ place(p) \in 0 .. n - 1
    BY <1>1
  <2>2. earlier(p) \in Nat /\ earlier(p) < place(p) /\ Turn(earlier(p), total) = t
    <3> DEFINE k == place(p)
    <3>1. k \in Nat /\ Turn(k, total) = s /\ k >= total
      BY <2>1
    <3> HIDE DEF k, f, rest
    <3>2. k - total - s + t \in Nat /\ k - total - s + t < k /\ Turn(k - total - s + t, total) = t
      BY <3>1, LapBefore
    <3> QED
      BY <3>2 DEF k
  <2> HIDE DEF earlier
  <2>3. earlier(p) \in 0 .. n - 1
    BY <1>1, <2>1, <2>2
  <2>4. PICK q \in members : place(q) = earlier(p)
    BY <1>1, <2>3
  <2>5. f[p] \in members /\ place(f[p]) = earlier(p)
    BY <2>4
  <2> HIDE DEF f
  <2> QED
    BY <2>2, <2>5
<1>4. \A p, q \in rest : f[p] = f[q] => p = q
  <2> SUFFICES ASSUME NEW p \in rest, NEW q \in rest, f[p] = f[q]
               PROVE  p = q
    OBVIOUS
  <2>1. earlier(p) = earlier(q)
    <3> HIDE DEF f, earlier, rest
    <3> QED
      BY <1>3
  <2>2. place(p) \in Int /\ place(q) \in Int /\ p \in members /\ q \in members
    BY <1>1
  <2>3. place(p) = place(q)
    <3> DEFINE k == place(p)
               m == place(q)
    <3>1. k \in Int /\ m \in Int /\ k - total - s + t = m - total - s + t
      BY <2>1, <2>2
    <3> HIDE DEF k, m
    <3>2. k = m
      BY <3>1
    <3> QED
      BY <3>2 DEF k, m
  <2> QED
    BY <1>1, <2>2, <2>3
<1>5. f \in [rest -> Load(t)]
  <2> HIDE DEF Load, rest
  <2>1. DOMAIN f = rest /\ f = [p \in DOMAIN f |-> f[p]]
    OBVIOUS
  <2> HIDE DEF f
  <2> QED
    BY <1>3, <2>1
<1>6. f \in Injection(rest, Load(t))
  <2> HIDE DEF f, rest, Load
  <2> QED
    BY <1>4, <1>5 DEF Injection, IsInjective
<1>7. Cardinality(rest) <= Cardinality(Load(t))
  <2> HIDE DEF f, rest, Load
  <2> QED
    BY <1>2, <1>6, FS_Injection
<1>8. Cardinality(Load(s)) \in Nat /\ Cardinality(Load(t)) \in Nat /\ Cardinality(rest) \in Nat
  <2> HIDE DEF Load, rest
  <2> QED
    BY <1>2, FS_CardinalityType
<1>9. Cardinality(Load(s)) <= Cardinality(rest) + 1
  <2>1. CASE first = {}
    <3>1. rest = Load(s)
      BY <2>1
    <3> HIDE DEF rest, Load
    <3> QED
      BY <1>8, <3>1
  <2>2. CASE first # {}
    <3>1. PICK p \in first : TRUE
      BY <2>2
    <3>2. \A q \in first : q \in members /\ place(q) = s
      <4> SUFFICES ASSUME NEW q \in first
                   PROVE  q \in members /\ place(q) = s
        OBVIOUS
      <4>1. q \in members /\ place(q) \in Nat /\ place(q) < total /\ Turn(place(q), total) = s
        BY <1>1
      <4> QED
        BY <4>1, LapBefore
    <3>3. \A q \in first : q = p
      <4> HIDE DEF first
      <4> QED
        BY <1>1, <3>1, <3>2
    <3>4. first = {p} /\ p \in Load(s)
      BY <3>1, <3>3
    <3>5. rest = Load(s) \ {p}
      BY <3>4
    <3> HIDE DEF rest, Load, first
    <3>6. Cardinality(rest) = Cardinality(Load(s)) - 1
      BY <1>2, <3>4, <3>5, FS_RemoveElement
    <3> QED
      BY <1>8, <3>6
  <2> QED
    BY <2>1, <2>2
<1>10. Cardinality(Load(s)) <= Cardinality(Load(t)) + 1
  <2> HIDE DEF Load, rest
  <2> QED
    BY <1>7, <1>8, <1>9
<1> QED
  BY <1>10 DEF place, Turn

--------------------------------------------------------------------------------
(* What the invocations and the rows are.                                  *)

SlotType == [pc : {"off", "prepare", "pick", "insert"}, build : Builds, left : Seq(Protocols),
             todo : Seq(Protocols), runAt : Nat, kind : {"cron", "loop"}, wrote : Nat,
             threw : BOOLEAN]

\* An invocation has only targets of its build's registry, one in hand when it is to record
\* it, and has recorded nothing before its cycle began.
AnySlot == {s \in SlotType :
    /\ s.left \in Seq(Members(Registry[s.build])) /\ s.todo \in Seq(Members(Registry[s.build]))
    /\ s.pc = "insert" => s.todo # <<>>
    /\ s.pc \in {"off", "prepare"} => s.wrote = 0
    /\ s.threw => s.pc = "off"}

AnyLoop == {l \in [on : BOOLEAN, build : Builds, targets : Seq(Protocols)] :
    l.targets \in Seq(Members(Registry[l.build]))}

AnyRow == {r \in [protocol : Protocols, status : {"ok", "failed"}, build : Builds, runAt : Nat,
                  version : Nat, category : {"none", "lending", "dex"}] :
    r.protocol \in Members(Registry[r.build])}

StorageTyped ==
    /\ scene \in Scenes
    /\ deployed \in Builds \cup {"none"}
    /\ slot \in [Slots -> AnySlot]
    /\ loop \in AnyLoop
    /\ clock \in Nat
    /\ runs \in Seq(AnyRow)

LEMMA Registered ==
    ASSUME NEW build \in Builds
    PROVE  /\ Members(Registry[build]) \subseteq Protocols
           /\ Seq(Members(Registry[build])) \subseteq Seq(Protocols)
           /\ <<>> \in Seq(Members(Registry[build]))
<1>1. Members(Registry[build]) \subseteq Protocols
  BY Selected
<1> QED
  BY <1>1

LEMMA OffSlot ==
    /\ Off \in AnySlot
    /\ Off.pc = "off" /\ Off.left = <<>> /\ Off.wrote = 0 /\ Off.threw = FALSE
<1>1. "first" \in Builds /\ <<>> \in Seq(Protocols) /\ <<>> \in Seq(Members(Registry["first"]))
  BY Registered DEF Builds
<1> QED
  BY <1>1 DEF Off, AnySlot, SlotType

LEMMA ThrewSlot ==
    ASSUME NEW wrote, wrote = 0
    PROVE  [Off EXCEPT !.threw = TRUE, !.wrote = wrote] \in AnySlot
BY OffSlot DEF AnySlot, SlotType

LEMMA TargetsOf ==
    ASSUME NEW build \in Builds, NEW s \in Seq(Members(Registry[build])), s # <<>>
    PROVE  /\ Tail(s) \in Seq(Members(Registry[build])) /\ Tail(s) \in Seq(Protocols)
           /\ Head(s) \in Members(Registry[build]) /\ Head(s) \in Protocols
<1>1. Tail(s) \in Seq(Members(Registry[build])) /\ Head(s) \in Members(Registry[build])
  BY HeadTailProperties
<1> QED
  BY <1>1, Registered

\* An invocation that begins.
LEMMA StartedSlot ==
    ASSUME NEW build \in Builds, NEW targets \in Seq(Members(Registry[build]))
    PROVE  /\ [Off EXCEPT !.pc = "prepare", !.build = build, !.left = targets,
                          !.todo = targets] \in AnySlot
           /\ [Off EXCEPT !.pc = "prepare", !.build = build, !.kind = "loop", !.left = targets,
                          !.todo = targets] \in AnySlot
           /\ [Off EXCEPT !.pc = "pick", !.kind = "loop", !.build = build,
                          !.todo = targets] \in AnySlot
<1>1. targets \in Seq(Protocols) /\ <<>> \in Seq(Members(Registry[build]))
  BY Registered
<1> QED
  BY <1>1, OffSlot DEF AnySlot, SlotType

LEMMA PostSlot ==
    ASSUME StorageTyped, NEW i \in Slots, NEW q,
           Post(i, q.secret, q.bearer, q.shard, q.total, q.env)
    PROVE  slot' \in [Slots -> AnySlot]
<1> DEFINE spec == ResolvedSpec(q.shard, q.total)
           targets == SelectShard(BuildTargets(deployed), spec)
<1>1. slot[i] \in AnySlot /\ slot[i].pc = "off" /\ slot[i].wrote = 0
  BY DEF StorageTyped, Post, AnySlot
<1>2. CASE Answered(i)
  BY <1>2, OffSlot DEF Answered, StorageTyped
<1>3. CASE Threw(i)
  BY <1>1, <1>3, ThrewSlot DEF Threw, StorageTyped
<1>4. CASE slot' = [slot EXCEPT ![i] = [Off EXCEPT !.pc = "prepare", !.build = deployed,
                                         !.left = targets, !.todo = targets]]
  <2>1. deployed \in Builds
    BY DEF StorageTyped, Post
  <2>2. targets \in Seq(Members(Registry[deployed]))
    BY <2>1, Selected
  <2> HIDE DEF targets
  <2> QED
    BY <1>4, <2>1, <2>2, StartedSlot DEF StorageTyped
<1> QED
  BY <1>2, <1>3, <1>4 DEF Post

LEMMA StartSlot ==
    ASSUME StorageTyped, NEW i \in Slots,
           (\E env : StartLoop(i, env)) \/ LoopFires(i)
    PROVE  slot' \in [Slots -> AnySlot]
<1>1. CASE \E env : StartLoop(i, env)
  <2> DEFINE targets == BuildTargets(deployed)
  <2>1. deployed \in Builds
    BY <1>1 DEF StorageTyped, StartLoop
  <2>2. targets \in Seq(Members(Registry[deployed]))
    BY <2>1, Selected
  <2>3. slot' = [slot EXCEPT ![i] = [Off EXCEPT !.pc = "prepare", !.build = deployed,
                                      !.kind = "loop", !.left = targets, !.todo = targets]]
    BY <1>1 DEF StartLoop
  <2> HIDE DEF targets
  <2> QED
    BY <2>1, <2>2, <2>3, StartedSlot DEF StorageTyped
<1>2. CASE LoopFires(i)
  <2> DEFINE build == loop.build
             targets == loop.targets
  <2>1. build \in Builds /\ targets \in Seq(Members(Registry[build]))
    BY DEF StorageTyped, AnyLoop
  <2>2. slot' = [slot EXCEPT ![i] = [Off EXCEPT !.pc = "pick", !.kind = "loop", !.build = build,
                                      !.todo = targets]]
    BY <1>2 DEF LoopFires
  <2> HIDE DEF build, targets
  <2> QED
    BY <2>1, <2>2, StartedSlot DEF StorageTyped
<1> QED
  BY <1>1, <1>2

LEMMA PrepareSlot ==
    ASSUME StorageTyped, NEW i \in Slots, Upsert(i) \/ Prepared(i)
    PROVE  slot' \in [Slots -> AnySlot]
<1>1. slot[i] \in AnySlot /\ slot[i].pc = "prepare" /\ slot[i].wrote = 0
  BY DEF StorageTyped, Upsert, Prepared, AnySlot
<1>2. CASE Threw(i)
  BY <1>1, <1>2, ThrewSlot DEF Threw, StorageTyped
<1>3. CASE slot[i].left # <<>> /\ slot' = [slot EXCEPT ![i].left = Tail(@)]
  <2> DEFINE left == Tail(slot[i].left)
             s == [slot[i] EXCEPT !.left = left]
  <2>1. /\ slot[i].left \in Seq(Members(Registry[slot[i].build]))
        /\ slot[i].left \in Seq(Protocols) /\ slot[i].build \in Builds
    BY <1>1 DEF AnySlot, SlotType
  <2>2. left \in Seq(Members(Registry[slot[i].build])) /\ left \in Seq(Protocols)
    BY <1>3, <2>1, TargetsOf
  <2>3. slot' = [slot EXCEPT ![i] = s]
    BY <1>3
  <2> HIDE DEF left
  <2>4. s \in AnySlot
    BY <1>1, <2>2 DEF AnySlot, SlotType
  <2> HIDE DEF s
  <2> QED
    BY <2>3, <2>4 DEF StorageTyped
<1>4. CASE slot' = [slot EXCEPT ![i].pc = "pick"]
  <2> DEFINE s == [slot[i] EXCEPT !.pc = "pick"]
  <2>1. s \in AnySlot
    BY <1>1 DEF AnySlot, SlotType
  <2>2. slot' = [slot EXCEPT ![i] = s]
    BY <1>4
  <2> HIDE DEF s
  <2> QED
    BY <2>1, <2>2 DEF StorageTyped
<1> QED
  BY <1>2, <1>3, <1>4 DEF Upsert, Prepared

LEMMA CycleSlot ==
    ASSUME StorageTyped, NEW i \in Slots,
           PickTarget(i) \/ (\E status \in {"ok", "failed"} : Record(i, status)) \/ CycleOver(i)
              \/ Killed(i)
    PROVE  slot' \in [Slots -> AnySlot]
<1>1. slot[i] \in AnySlot
  BY DEF StorageTyped
<1>2. CASE CycleOver(i) \/ Killed(i)
  BY <1>2, OffSlot DEF CycleOver, Killed, Answered, StorageTyped
<1>3. CASE PickTarget(i)
  <2> DEFINE s == [slot[i] EXCEPT !.pc = "insert", !.runAt = clock + 1]
  <2>1. slot' = [slot EXCEPT ![i] = s] /\ slot[i].pc = "pick" /\ slot[i].todo # <<>>
    BY <1>3 DEF PickTarget
  <2>2. clock + 1 \in Nat
    BY DEF StorageTyped
  <2>3. s \in AnySlot
    BY <1>1, <2>1, <2>2 DEF AnySlot, SlotType
  <2> HIDE DEF s
  <2> QED
    BY <2>1, <2>3 DEF StorageTyped
<1>4. CASE \E status \in {"ok", "failed"} : Record(i, status)
  <2> DEFINE todo == Tail(slot[i].todo)
             more == slot[i].wrote + 1
             s == [slot[i] EXCEPT !.pc = "pick", !.todo = todo, !.wrote = more]
             d == [slot[i] EXCEPT !.pc = "pick", !.todo = todo]
  <2>1. slot' = [slot EXCEPT ![i] = s] \/ slot' = [slot EXCEPT ![i] = d]
    BY <1>4 DEF Record
  <2>2. slot[i].pc = "insert" /\ slot[i].todo # <<>>
    BY <1>1, <1>4 DEF Record, AnySlot
  <2>3. /\ slot[i].todo \in Seq(Members(Registry[slot[i].build]))
        /\ slot[i].todo \in Seq(Protocols) /\ slot[i].build \in Builds
        /\ more \in Nat
    BY <1>1 DEF AnySlot, SlotType
  <2>4. todo \in Seq(Members(Registry[slot[i].build])) /\ todo \in Seq(Protocols)
    BY <2>2, <2>3, TargetsOf
  <2> HIDE DEF todo, more
  <2>5. s \in AnySlot /\ d \in AnySlot
    BY <1>1, <2>2, <2>3, <2>4 DEF AnySlot, SlotType
  <2> HIDE DEF s, d
  <2> QED
    BY <2>1, <2>5 DEF StorageTyped
<1> QED
  BY <1>2, <1>3, <1>4

--------------------------------------------------------------------------------
(* The rows of risk_scores.                                                *)

\* The row that is inserted, and what a migration makes of one.
LEMMA RowMade ==
    ASSUME NEW build \in Builds, NEW p \in Members(Registry[build]),
           NEW status \in {"ok", "failed"}, NEW runAt \in Nat
    PROVE  LET row == RunRow(build, p, status, runAt)
           IN  /\ row \in AnyRow
               /\ row.protocol = p /\ row.status = status /\ row.build = build /\ row.runAt = runAt
<1> DEFINE version == IF NamesVersion(build)
                      THEN IF status = "ok" THEN Methodology[build][CategoryOf[p]] ELSE 0
                      ELSE IF schema.version = "default" THEN 1 ELSE 0
           category == IF NamesCategory(build)
                       THEN IF status = "ok" THEN CategoryOf[p] ELSE "none"
                       ELSE IF "category" \in schema.parts THEN "lending" ELSE "none"
<1>1. RunRow(build, p, status, runAt) =
        [protocol |-> p, status |-> status, build |-> build, runAt |-> runAt,
         version |-> version, category |-> category]
  BY DEF RunRow
<1>2. p \in Protocols /\ CategoryOf[p] \in {"lending", "dex"}
  BY Registered, StoreAssumption
<1>3. version \in Nat /\ category \in {"none", "lending", "dex"}
  BY <1>2, StoreAssumption
<1> HIDE DEF version, category
<1> QED
  BY <1>1, <1>2, <1>3 DEF AnyRow

LEMMA RowKept ==
    ASSUME NEW row \in AnyRow, NEW file
    PROVE  /\ RowAfter(file, row) \in AnyRow
           /\ RowAfter(file, row).protocol = row.protocol
           /\ RowAfter(file, row).status = row.status
           /\ RowAfter(file, row).build = row.build
           /\ RowAfter(file, row).runAt = row.runAt
<1>1. ASSUME NEW version \in Nat
      PROVE  LET r == [row EXCEPT !.version = version]
             IN  /\ r \in AnyRow /\ r.protocol = row.protocol /\ r.status = row.status
                 /\ r.build = row.build /\ r.runAt = row.runAt
  BY DEF AnyRow
<1>2. ASSUME NEW category \in {"none", "lending", "dex"}
      PROVE  LET r == [row EXCEPT !.category = category]
             IN  /\ r \in AnyRow /\ r.protocol = row.protocol /\ r.status = row.status
                 /\ r.build = row.build /\ r.runAt = row.runAt
  BY DEF AnyRow
<1>3. \/ RowAfter(file, row) = [row EXCEPT !.version = 1]
      \/ \E category \in {"none", "lending", "dex"} :
            RowAfter(file, row) = [row EXCEPT !.category = category]
      \/ RowAfter(file, row) = row
  <2> DEFINE category == IF row.status = "ok" THEN IF row.category = "none" THEN "lending"
                                                   ELSE row.category
                         ELSE "none"
  <2>1. category \in {"none", "lending", "dex"}
    BY DEF AnyRow
  <2>2. \/ RowAfter(file, row) = [row EXCEPT !.version = 1]
        \/ RowAfter(file, row) = [row EXCEPT !.category = category]
        \/ RowAfter(file, row) = row
    BY DEF RowAfter
  <2> HIDE DEF category
  <2> QED
    BY <2>1, <2>2
<1>4. CASE RowAfter(file, row) = [row EXCEPT !.version = 1]
  BY <1>1, <1>4
<1>5. ASSUME NEW category \in {"none", "lending", "dex"},
             RowAfter(file, row) = [row EXCEPT !.category = category]
      PROVE  /\ RowAfter(file, row) \in AnyRow
             /\ RowAfter(file, row).protocol = row.protocol
             /\ RowAfter(file, row).status = row.status
             /\ RowAfter(file, row).build = row.build
             /\ RowAfter(file, row).runAt = row.runAt
  BY <1>2, <1>5
<1> QED
  BY <1>3, <1>4, <1>5

\* A migration's COMMIT, and an INSERT that goes through.
Commits(m) ==
    /\ migrator[m].pc = "open" /\ migrator[m].file \notin applied
    /\ schema' = SchemaAfter(migrator[m].file, schema)
    /\ runs' = RunsAfter(migrator[m].file)
    /\ applied' = applied \cup {migrator[m].file}

Inserts(i, status) ==
    LET s   == slot[i]
        row == RunRow(s.build, Head(s.todo), status, s.runAt)
    IN  /\ s.pc = "insert" /\ Free("risk_scores") /\ InsertAllowed(s.build, row)
        /\ runs' = Append(runs, row) /\ schema' = schema /\ UNCHANGED migrateVars
        /\ slot' = [slot EXCEPT ![i].pc = "pick", ![i].todo = Tail(@), ![i].wrote = @ + 1]
        /\ clock' = clock

\* The table changes in no other way.
LEMMA TableSteps ==
    ASSUME StorageTyped, [Next]_vars
    PROVE  \/ runs' = runs /\ schema' = schema /\ applied' = applied
           \/ \E m \in Migrators : Commits(m) /\ UNCHANGED <<indexerVars, reader, scene>>
           \/ \E i \in Slots, status \in {"ok", "failed"} : Inserts(i, status)
<1>1. CASE MigrateNext /\ UNCHANGED <<indexerVars, reader, scene>>
  <2>1. PICK m \in Migrators : ReadApplied(m) \/ NothingLeft(m) \/ RunFile(m) \/ Commit(m)
                                 \/ MigratorDies(m)
    BY <1>1 DEF MigrateNext
  <2>2. ReadApplied(m) \/ NothingLeft(m) \/ RunFile(m) \/ MigratorDies(m)
          => runs' = runs /\ schema' = schema /\ applied' = applied
    BY DEF ReadApplied, NothingLeft, RunFile, MigratorDies, dbvars
  <2>3. Commit(m) => Commits(m) \/ (runs' = runs /\ schema' = schema /\ applied' = applied)
    BY DEF Commit, Commits, dbvars
  <2> QED
    BY <1>1, <2>1, <2>2, <2>3
<1>2. CASE InvocationNext(scene.slots, scene.requests, scene.consoles)
  <2>1. PICK i \in scene.slots :
          \/ \E q \in scene.requests : Post(i, q.secret, q.bearer, q.shard, q.total, q.env)
          \/ \E env \in scene.consoles : StartLoop(i, env)
          \/ Upsert(i) \/ Prepared(i) \/ LoopFires(i) \/ PickTarget(i)
          \/ \E status \in {"ok", "failed"} : Record(i, status)
          \/ CycleOver(i) \/ Killed(i)
    BY <1>2 DEF InvocationNext
  <2>2. i \in Slots
    BY StorageAssumption DEF StorageTyped
  <2>3. schema' = schema /\ UNCHANGED migrateVars
    BY <2>1, InvocationsLeaveSchema
  <2>4. ASSUME NEW status \in {"ok", "failed"}, Record(i, status)
        PROVE  runs' = runs \/ Inserts(i, status)
    BY <2>3, <2>4 DEF Record, Inserts, InsertRunRecord, dbvars
  <2>5. ASSUME NEW q, Post(i, q.secret, q.bearer, q.shard, q.total, q.env)
        PROVE  runs' = runs
    BY <2>5 DEF Post, dbvars
  <2>6. ASSUME NEW env, StartLoop(i, env)
        PROVE  runs' = runs
    BY <2>6 DEF StartLoop, dbvars
  <2>7. Upsert(i) \/ Prepared(i) \/ LoopFires(i) \/ PickTarget(i) \/ CycleOver(i) \/ Killed(i)
          => runs' = runs
    BY DEF Upsert, Prepared, LoopFires, PickTarget, CycleOver, Killed, dbvars
  <2> QED
    BY <2>1, <2>2, <2>3, <2>4, <2>5, <2>6, <2>7 DEF migrateVars
<1>3. ASSUME NEW build \in Builds, Deploy(build)
      PROVE  runs' = runs /\ schema' = schema /\ applied' = applied
  BY <1>3 DEF Deploy, dbvars, migrateVars
<1>4. ASSUME NEW files \in Checkouts, Release(files)
      PROVE  runs' = runs /\ schema' = schema /\ applied' = applied
  BY <1>4 DEF Release, dbvars
<1>5. ASSUME NEW r \in scene.readers, \/ \E p \in Protocols : ReadSummary(r, p)
                                      \/ ReadHistory(r) \/ Respond(r)
      PROVE  runs' = runs /\ schema' = schema /\ applied' = applied
  BY <1>5 DEF ReadSummary, ReadHistory, Respond, dbvars, migrateVars
<1>6. CASE UNCHANGED vars
  BY <1>6 DEF vars, dbvars, migrateVars
<1> QED
  BY <1>1, <1>2, <1>3, <1>4, <1>5, <1>6 DEF Next

\* Rows are never deleted, and what identifies one never changes.
RowsKept ==
    /\ runs' \in Seq(AnyRow)
    /\ Len(runs) <= Len(runs')
    /\ \A k \in DOMAIN runs :
          /\ k \in DOMAIN runs'
          /\ runs'[k].protocol = runs[k].protocol /\ runs'[k].status = runs[k].status
          /\ runs'[k].build = runs[k].build /\ runs'[k].runAt = runs[k].runAt

LEMMA CommitKeepsRows ==
    ASSUME StorageTyped, NEW m \in Migrators, Commits(m)
    PROVE  RowsKept /\ Len(runs') = Len(runs)
<1> DEFINE file == migrator[m].file
<1>1. runs' = [k \in DOMAIN runs |-> RowAfter(file, runs[k])] /\ runs \in Seq(AnyRow)
  BY DEF Commits, RunsAfter, StorageTyped
<1>2. DOMAIN runs = 1 .. Len(runs) /\ Len(runs) \in Nat
  BY <1>1
<1>3. \A k \in DOMAIN runs : runs[k] \in AnyRow
  BY <1>1
<1>4. \A k \in DOMAIN runs : /\ runs'[k] = RowAfter(file, runs[k]) /\ runs'[k] \in AnyRow
                             /\ runs'[k].protocol = runs[k].protocol
                             /\ runs'[k].status = runs[k].status
                             /\ runs'[k].build = runs[k].build
                             /\ runs'[k].runAt = runs[k].runAt
  BY <1>1, <1>3, RowKept
<1>5. runs' \in [1 .. Len(runs) -> AnyRow]
  BY <1>1, <1>2, <1>4
<1>6. runs' \in Seq(AnyRow) /\ Len(runs') = Len(runs) /\ DOMAIN runs' = DOMAIN runs
  BY <1>2, <1>5
<1> QED
  BY <1>2, <1>4, <1>6 DEF RowsKept

LEMMA InsertAddsRow ==
    ASSUME StorageTyped, NEW i \in Slots, NEW status \in {"ok", "failed"}, Inserts(i, status)
    PROVE  LET n == Len(runs) + 1  row == RunRow(slot[i].build, Head(slot[i].todo), status,
                                                 slot[i].runAt)
           IN  /\ RowsKept
               /\ slot[i].build \in Builds
               /\ Head(slot[i].todo) \in Members(Registry[slot[i].build])
               /\ row \in AnyRow
               /\ row.protocol = Head(slot[i].todo) /\ row.status = status
               /\ row.build = slot[i].build /\ row.runAt = slot[i].runAt
               /\ DOMAIN runs' = DOMAIN runs \cup {n} /\ n \notin DOMAIN runs
               /\ runs'[n] = row
               /\ \A k \in DOMAIN runs : runs'[k] = runs[k]
<1> DEFINE s == slot[i]
           row == RunRow(s.build, Head(s.todo), status, s.runAt)
<1>1. s \in AnySlot /\ s.pc = "insert" /\ runs' = Append(runs, row) /\ runs \in Seq(AnyRow)
  BY DEF StorageTyped, Inserts
<1>2. /\ s.build \in Builds /\ s.runAt \in Nat /\ s.todo # <<>>
      /\ s.todo \in Seq(Members(Registry[s.build]))
  BY <1>1 DEF AnySlot, SlotType
<1>3. Head(s.todo) \in Members(Registry[s.build])
  BY <1>2, TargetsOf
<1>4. /\ row \in AnyRow /\ row.protocol = Head(s.todo) /\ row.status = status
      /\ row.build = s.build /\ row.runAt = s.runAt
  <2> DEFINE build == s.build
             p == Head(s.todo)
             runAt == s.runAt
  <2>1. build \in Builds /\ p \in Members(Registry[build]) /\ runAt \in Nat
    BY <1>2, <1>3
  <2>2. row = RunRow(build, p, status, runAt)
    OBVIOUS
  <2> HIDE DEF build, p, runAt, row
  <2>3. /\ row \in AnyRow /\ row.protocol = p /\ row.status = status
        /\ row.build = build /\ row.runAt = runAt
    BY <2>1, <2>2, RowMade
  <2> QED
    BY <2>3 DEF build, p, runAt
<1> HIDE DEF row
<1>5. /\ runs' \in Seq(AnyRow) /\ Len(runs') = Len(runs) + 1 /\ Len(runs) \in Nat
      /\ DOMAIN runs = 1 .. Len(runs) /\ DOMAIN runs' = 1 .. Len(runs) + 1
      /\ \A k \in DOMAIN runs : runs'[k] = runs[k]
      /\ runs'[Len(runs) + 1] = row
  BY <1>1, <1>4, AppendProperties
<1>6. DOMAIN runs' = DOMAIN runs \cup {Len(runs) + 1} /\ Len(runs) + 1 \notin DOMAIN runs
      /\ Len(runs) <= Len(runs')
  BY <1>5
<1>7. RowsKept
  BY <1>5, <1>6 DEF RowsKept
<1> QED
  BY <1>2, <1>3, <1>4, <1>5, <1>6, <1>7 DEF row

LEMMA StepKeepsRows ==
    ASSUME StorageTyped, [Next]_vars
    PROVE  RowsKept
<1>1. CASE runs' = runs
  <2>1. Len(runs) \in Nat /\ runs \in Seq(AnyRow)
    BY DEF StorageTyped
  <2> QED
    BY <1>1, <2>1 DEF RowsKept
<1> QED
  BY <1>1, TableSteps, CommitKeepsRows, InsertAddsRow

LEMMA InvocationTyped ==
    ASSUME StorageTyped, NEW i \in Slots,
           \/ \E q \in scene.requests : Post(i, q.secret, q.bearer, q.shard, q.total, q.env)
           \/ \E env \in scene.consoles : StartLoop(i, env)
           \/ Upsert(i) \/ Prepared(i) \/ LoopFires(i) \/ PickTarget(i)
           \/ \E status \in {"ok", "failed"} : Record(i, status)
           \/ CycleOver(i) \/ Killed(i)
    PROVE  /\ slot' \in [Slots -> AnySlot] /\ loop' \in AnyLoop
           /\ clock' \in Nat /\ deployed' = deployed
<1>1. NoLoop \in AnyLoop
  <2>1. "first" \in Builds
    BY DEF Builds
  <2> QED
    BY <2>1, Registered DEF NoLoop, AnyLoop
<1>2. slot' \in [Slots -> AnySlot]
  BY PostSlot, StartSlot, PrepareSlot, CycleSlot
<1>3. deployed' = deployed
  BY DEF Post, StartLoop, Upsert, Prepared, LoopFires, PickTarget, Record, CycleOver, Killed
<1>4. clock' = clock \/ clock' = clock + 1
  BY DEF Post, StartLoop, Upsert, Prepared, LoopFires, PickTarget, Record, CycleOver, Killed
<1>5. \/ loop' = loop \/ loop' = NoLoop
      \/ loop' = [on |-> TRUE, build |-> slot[i].build, targets |-> slot[i].todo]
  BY DEF Post, StartLoop, Upsert, Prepared, LoopFires, PickTarget, Record, CycleOver, Killed
<1>6. slot[i] \in AnySlot /\ loop \in AnyLoop /\ clock \in Nat
  BY DEF StorageTyped
<1>7. [on |-> TRUE, build |-> slot[i].build, targets |-> slot[i].todo] \in AnyLoop
  BY <1>6 DEF AnySlot, SlotType, AnyLoop
<1>8. clock' \in Nat
  BY <1>4, <1>6
<1>9. loop' \in AnyLoop
  BY <1>1, <1>5, <1>6, <1>7
<1> QED
  BY <1>2, <1>3, <1>8, <1>9

LEMMA TypedStep ==
    ASSUME StorageTyped, [Next]_vars
    PROVE  StorageTyped'
<1>0. runs' \in Seq(AnyRow)
  BY StepKeepsRows DEF RowsKept
<1>1. CASE MigrateNext /\ UNCHANGED <<indexerVars, reader, scene>>
  BY <1>0, <1>1 DEF StorageTyped, indexerVars
<1>2. CASE /\ InvocationNext(scene.slots, scene.requests, scene.consoles)
           /\ UNCHANGED <<reader, scene>>
  <2>1. \A i \in scene.slots : i \in Slots
    BY StorageAssumption DEF StorageTyped
  <2>2. slot' \in [Slots -> AnySlot] /\ loop' \in AnyLoop /\ clock' \in Nat /\ deployed' = deployed
    BY <1>2, <2>1, InvocationTyped DEF InvocationNext
  <2> QED
    BY <1>0, <1>2, <2>2 DEF StorageTyped
<1>3. ASSUME NEW build \in Builds, Deploy(build)
      PROVE  StorageTyped'
  BY <1>0, <1>3 DEF Deploy, StorageTyped
<1>4. ASSUME NEW files \in Checkouts, Release(files)
      PROVE  StorageTyped'
  BY <1>0, <1>4 DEF Release, StorageTyped, indexerVars
<1>5. ASSUME NEW r \in scene.readers, \/ \E p \in Protocols : ReadSummary(r, p)
                                      \/ ReadHistory(r) \/ Respond(r)
      PROVE  StorageTyped'
  BY <1>0, <1>5 DEF ReadSummary, ReadHistory, Respond, StorageTyped, indexerVars
<1>6. CASE UNCHANGED vars
  BY <1>0, <1>6 DEF vars, StorageTyped, indexerVars
<1> QED
  BY <1>1, <1>2, <1>3, <1>4, <1>5, <1>6 DEF Next

LEMMA TypedInvariant == Spec => []StorageTyped
<1>1. Init => StorageTyped
  <2> SUFFICES ASSUME Init
               PROVE  StorageTyped
    OBVIOUS
  <2>1. scene \in Scenes /\ clock = MaxStamps - scene.stamps /\ runs = <<>>
        /\ deployed \in Builds \cup {"none"}
        /\ slot = [i \in Slots |-> Off] /\ loop = NoLoop
    BY DEF Init, IndexerInit, Builds
  <2>2. scene.stamps \in 0 .. MaxStamps /\ MaxStamps \in Nat
    BY <2>1, StorageAssumption, IndexerAssumption
  <2>3. clock \in Nat
    BY <2>1, <2>2
  <2>4. NoLoop \in AnyLoop
    <3>1. "first" \in Builds
      BY DEF Builds
    <3> QED
      BY <3>1, Registered DEF NoLoop, AnyLoop
  <2>5. slot \in [Slots -> AnySlot]
    BY <2>1, OffSlot
  <2>6. runs \in Seq(AnyRow)
    BY <2>1
  <2> QED
    BY <2>1, <2>3, <2>4, <2>5, <2>6 DEF StorageTyped
<1> QED
  BY <1>1, TypedStep, PTL DEF Spec

\* For any registry, number of invocations and migrations under way: an invocation answers
\* "Indexer run failed" only if it has recorded nothing (index.ts:139-151, cycle.ts:768-783).
THEOREM FailureIsTotal == Spec => []FailedReplyRecordedNothing
<1>1. StorageTyped => FailedReplyRecordedNothing
  BY DEF StorageTyped, AnySlot, FailedReplyRecordedNothing
<1> QED
  BY <1>1, TypedInvariant, PTL

\* The latest of some rows.
LEMMA NewestOf ==
    ASSUME StorageTyped, NEW rows \in SUBSET DOMAIN runs
    PROVE  /\ rows = {} => Newest(rows) = NoRow
           /\ rows # {} => \E k \in rows :
                 /\ Newest(rows) = [status |-> runs[k].status, runAt |-> runs[k].runAt,
                                    version |-> runs[k].version]
                 /\ \A m \in rows : runs[m].runAt <= runs[k].runAt
<1>1. rows = {} => Newest(rows) = NoRow
  BY DEF Newest
<1>2. ASSUME rows # {}
      PROVE  \E k \in rows : \A m \in rows : runs[m].runAt <= runs[k].runAt
  <2> DEFINE stamps == {runs[k].runAt : k \in rows}
  <2>1. \A k \in rows : runs[k].runAt \in Nat
    BY DEF StorageTyped, AnyRow
  <2>2. IsFiniteSet(rows)
    <3>1. DOMAIN runs = 1 .. Len(runs) /\ Len(runs) \in Nat
      BY DEF StorageTyped
    <3>2. IsFiniteSet(1 .. Len(runs))
      BY <3>1, FS_Interval
    <3> QED
      BY <3>1, <3>2, FS_Subset
  <2> DEFINE Top == {b \in Nat : \A k \in rows : runs[k].runAt <= b}
             Uncapped == {s \in SUBSET rows : ~\E b \in Nat : \A k \in s : runs[k].runAt <= b}
  <2>3. \E b \in Nat : \A k \in rows : runs[k].runAt <= b
    <3> SUFFICES ASSUME rows \in Uncapped
                 PROVE  FALSE
      OBVIOUS
    <3>1. PICK s \in Uncapped : \A k \in s : s \ {k} \notin Uncapped
      <4>1. Uncapped \in SUBSET SUBSET rows /\ Uncapped # {}
        OBVIOUS
      <4> HIDE DEF Uncapped
      <4> QED
        BY <2>2, <4>1, SmallestOf
    <3>2. s # {}
      OBVIOUS
    <3>3. PICK k \in s : TRUE
      BY <3>2
    <3>4. PICK b \in Nat : \A m \in s \ {k} : runs[m].runAt <= b
      BY <3>1, <3>3
    <3>5. \A m \in s : runs[m].runAt <= b + runs[k].runAt
      <4> SUFFICES ASSUME NEW m \in s
                   PROVE  runs[m].runAt <= b + runs[k].runAt
        OBVIOUS
      <4>1. runs[m].runAt \in Nat /\ runs[k].runAt \in Nat
        BY <2>1
      <4>2. m = k \/ runs[m].runAt <= b
        BY <3>4
      <4> QED
        BY <4>1, <4>2
    <3>6. b + runs[k].runAt \in Nat
      BY <2>1
    <3> QED
      BY <3>5, <3>6
  <2>4. PICK b \in Nat : \A k \in rows : runs[k].runAt <= b
    BY <2>3
  <2>5. stamps \in SUBSET Int /\ stamps # {} /\ \A x \in stamps : x <= b
    BY <1>2, <2>1, <2>4
  <2> HIDE DEF stamps
  <2>6. Max(stamps) \in stamps /\ \A x \in stamps : x <= Max(stamps)
    BY <2>5, GreatestOf
  <2> USE DEF stamps
  <2>7. PICK k \in rows : Max(stamps) = runs[k].runAt
    BY <2>6
  <2>8. \A m \in rows : runs[m].runAt <= runs[k].runAt
    BY <2>6, <2>7
  <2> QED
    BY <2>8
<1>3. ASSUME rows # {}
      PROVE  \E k \in rows :
                 /\ Newest(rows) = [status |-> runs[k].status, runAt |-> runs[k].runAt,
                                    version |-> runs[k].version]
                 /\ \A m \in rows : runs[m].runAt <= runs[k].runAt
  <2> DEFINE i == CHOOSE i \in rows : \A j \in rows : runs[j].runAt <= runs[i].runAt
  <2>1. i \in rows /\ \A j \in rows : runs[j].runAt <= runs[i].runAt
    BY <1>2, <1>3
  <2>2. Newest(rows) = [status |-> runs[i].status, runAt |-> runs[i].runAt,
                        version |-> runs[i].version]
    BY <1>3 DEF Newest
  <2> QED
    BY <2>1, <2>2
<1> QED
  BY <1>1, <1>3

\* The run that a protocol's score is shown from, and the one its freshness is read off.
OkRunsOf(p) == {i \in RunsOf(p) : runs[i].status = "ok"}

LatestIs ==
    \A p \in Protocols :
        /\ OkRunsOf(p) = {} => LatestOk(p) = NoRow
        /\ OkRunsOf(p) # {} => \E k \in OkRunsOf(p) :
              /\ LatestOk(p) = [status |-> runs[k].status, runAt |-> runs[k].runAt,
                                version |-> runs[k].version]
              /\ \A m \in OkRunsOf(p) : runs[m].runAt <= runs[k].runAt
        /\ RunsOf(p) = {} => LatestRun(p) = NoRow
        /\ RunsOf(p) # {} => \E k \in RunsOf(p) :
              /\ LatestRun(p) = [status |-> runs[k].status, runAt |-> runs[k].runAt,
                                 version |-> runs[k].version]
              /\ \A m \in RunsOf(p) : runs[m].runAt <= runs[k].runAt

LEMMA LatestRuns == StorageTyped => LatestIs
<1> SUFFICES ASSUME StorageTyped, NEW p \in Protocols
             PROVE  LatestIs!(p)
  BY DEF LatestIs
<1>1. LatestOk(p) = Newest(OkRunsOf(p)) /\ LatestRun(p) = Newest(RunsOf(p))
  BY DEF LatestOk, LatestRun, OkRunsOf
<1>2. RunsOf(p) \in SUBSET DOMAIN runs /\ OkRunsOf(p) \in SUBSET DOMAIN runs
  BY DEF RunsOf, OkRunsOf
<1> QED
  BY <1>1, <1>2, NewestOf

\* In whatever order overlapping cycles write their rows, whatever a migration rewrites: the
\* run that a protocol's score is shown from never gives way to an older one
\* (store.ts:673-684).
THEOREM ShownRunsAdvance == Spec => ShownRunNeverGoesBack
<1>1. ASSUME StorageTyped, LatestIs, LatestIs', StorageTyped', [Next]_vars
      PROVE  [\A p \in Protocols : LatestOk(p).runAt <= LatestOk(p)'.runAt]_vars
  <2> SUFFICES ASSUME NEW p \in Protocols
               PROVE  LatestOk(p).runAt <= LatestOk(p)'.runAt
    OBVIOUS
  <2>1. RowsKept
    BY <1>1, StepKeepsRows
  <2>2. \A k \in OkRunsOf(p) : k \in OkRunsOf(p)' /\ runs'[k].runAt = runs[k].runAt
    BY <2>1 DEF RowsKept, RunsOf, OkRunsOf
  <2>3. \A k \in OkRunsOf(p)' : runs'[k].runAt \in Nat
    BY <1>1 DEF StorageTyped, AnyRow, RunsOf, OkRunsOf
  <2>4. CASE OkRunsOf(p) = {}
    <3>1. LatestOk(p).runAt = 0
      BY <1>1, <2>4 DEF LatestIs, NoRow
    <3>2. LatestOk(p)'.runAt \in Nat
      <4>1. CASE OkRunsOf(p)' = {}
        BY <1>1, <4>1 DEF LatestIs, NoRow
      <4>2. CASE OkRunsOf(p)' # {}
        <5>1. \E k \in OkRunsOf(p)' : LatestOk(p)'.runAt = runs'[k].runAt
          BY <1>1, <4>2 DEF LatestIs
        <5> QED
          BY <2>3, <5>1
      <4> QED
        BY <4>1, <4>2
    <3> QED
      BY <3>1, <3>2
  <2>5. CASE OkRunsOf(p) # {}
    <3>1. PICK k \in OkRunsOf(p) : LatestOk(p).runAt = runs[k].runAt
      BY <1>1, <2>5 DEF LatestIs
    <3>2. k \in OkRunsOf(p)' /\ runs'[k].runAt = runs[k].runAt
      BY <2>2
    <3>3. \E n \in OkRunsOf(p)' : /\ LatestOk(p)'.runAt = runs'[n].runAt
                                  /\ \A m \in OkRunsOf(p)' : runs'[m].runAt <= runs'[n].runAt
      BY <1>1, <3>2 DEF LatestIs
    <3> QED
      BY <3>1, <3>2, <3>3
  <2> QED
    BY <2>4, <2>5
<1>2. StorageTyped => LatestIs
  BY LatestRuns
<1> QED
  BY <1>1, <1>2, TypedInvariant, PTL DEF Spec, ShownRunNeverGoesBack

--------------------------------------------------------------------------------
(* Builds that may still use the database, and the schema they need.       *)

Alive(build) ==
    \/ build = deployed
    \/ loop.on /\ loop.build = build
    \/ \E i \in Slots : slot[i].pc # "off" /\ slot[i].build = build

\* What has been recorded was released, a build is alive only once the files it needs are
\* recorded, and the first one no longer is when 0004 is released.
PromotedInOrder ==
    /\ applied \subseteq 1 .. released
    /\ \A m \in Migrators :
          /\ migrator[m].files <= released
          /\ migrator[m].pc = "open" => migrator[m].file <= migrator[m].files
    /\ \A build \in Builds : Alive(build) => Needs(build) \subseteq applied
    /\ released >= 4 => deployed \in {"stamping", "current"} /\ ~Alive("first")

\* The stamps of one row once some files have been recorded.
StampedRight(files, row) ==
    LET own == CategoryOf[row.protocol] IN
    /\ Needs(row.build) \subseteq files
    /\ row.status = "ok" =>
          /\ 2 \in files => row.version = Methodology[row.build][own]
          /\ row.category = IF 8 \in files THEN own ELSE "none"
    /\ row.status = "failed" =>
          /\ 4 \in files => row.version = 0
          /\ row.build = "current" => row.category = "none"

\* A runner that has checked that no failed run carries a version holds the table until
\* that is recorded.
CheckedUnversioned ==
    \A m \in Migrators :
        migrator[m].pc = "open" /\ migrator[m].file = 4 /\ 4 \notin applied
            => \A i \in DOMAIN runs : runs[i].status = "failed" => runs[i].version = 0

StampsInv == (\A i \in DOMAIN runs : StampedRight(applied, runs[i])) /\ CheckedUnversioned

\* What the schema tells of the files recorded.
LEMMA SchemaTells ==
    ASSUME MigrateInv
    PROVE  /\ schema.version # "absent" <=> 2 \in applied
           /\ schema.version = "default" <=> 2 \in applied /\ 4 \notin applied
           /\ schema.versionCheck # "none" <=> 2 \in applied
           /\ schema.versionCheck = "union" <=> 4 \in applied
           /\ "tables" \in schema.parts <=> 1 \in applied
           /\ "identity" \in schema.parts <=> 3 \in applied
           /\ "deployment" \in schema.parts <=> 6 \in applied
           /\ "opState" \in schema.parts <=> 7 \in applied
           /\ "category" \in schema.parts <=> 8 \in applied
           /\ "categoryCheck" \in schema.parts <=> 8 \in applied
<1>1. schema = SchemaOf(applied) /\ applied \subseteq 1 .. 8
  BY DEF MigrateInv, SchemaIsWhatWasApplied, LastFile
<1>2. 4 \in applied => 2 \in applied
  <2>1. 4 \in applied => 1 .. 4 \subseteq applied
    BY DEF MigrateInv, SchemaIsWhatWasApplied
  <2> QED
    BY <2>1
<1>3. /\ schema.version = IF 4 \in applied THEN "plain" ELSE IF 2 \in applied THEN "default"
                          ELSE "absent"
      /\ schema.versionCheck = IF 4 \in applied THEN "union" ELSE IF 2 \in applied THEN "ok"
                               ELSE "none"
      /\ schema.parts = UNION {Creates(f) : f \in applied}
  BY <1>1 DEF SchemaOf
<1>4. \A part : part \in schema.parts <=> \E f \in applied : part \in Creates(f)
  BY <1>3
<1>5. /\ Creates(1) = {"tables"} /\ Creates(2) = {} /\ Creates(3) = {"identity"}
      /\ Creates(4) = {} /\ Creates(5) = {"limits"} /\ Creates(6) = {"deployment"}
      /\ Creates(7) = {"opState"} /\ Creates(8) = {"category", "categoryCheck"}
  BY DEF Creates, Initial, ProtocolIdentity, ApiRateLimits, ProtocolDeployment,
         OperationalStateColumn, ProtocolCategory
<1>6. \A f \in applied : f \in {1, 2, 3, 4, 5, 6, 7, 8}
  BY <1>1
<1>7. /\ "tables" \in schema.parts <=> 1 \in applied
      /\ "identity" \in schema.parts <=> 3 \in applied
      /\ "deployment" \in schema.parts <=> 6 \in applied
  BY <1>4, <1>5, <1>6
<1>8. /\ "opState" \in schema.parts <=> 7 \in applied
      /\ "category" \in schema.parts <=> 8 \in applied
      /\ "categoryCheck" \in schema.parts <=> 8 \in applied
  BY <1>4, <1>5, <1>6
<1> QED
  BY <1>2, <1>3, <1>7, <1>8

\* What an invocation runs is what is deployed, what its process was started as, or what it
\* was running already.
InvocationStep(i) ==
    \/ \E q \in scene.requests : Post(i, q.secret, q.bearer, q.shard, q.total, q.env)
    \/ \E env \in scene.consoles : StartLoop(i, env)
    \/ Upsert(i) \/ Prepared(i) \/ LoopFires(i) \/ PickTarget(i)
    \/ \E status \in {"ok", "failed"} : Record(i, status)
    \/ CycleOver(i) \/ Killed(i)

LEMMA SameBuild ==
    ASSUME StorageTyped, NEW i \in Slots, InvocationStep(i)
    PROVE  /\ slot' = [slot EXCEPT ![i] = slot'[i]]
           /\ \/ slot'[i].pc = "off"
              \/ slot'[i].build = deployed
              \/ loop.on /\ slot'[i].build = loop.build
              \/ slot[i].pc # "off" /\ slot'[i].build = slot[i].build
<1>1. slot \in [Slots -> AnySlot] /\ slot[i] \in AnySlot /\ Off.pc = "off"
  BY OffSlot DEF StorageTyped
<1>2. \A s : s \in AnySlot => s \in SlotType
  BY DEF AnySlot
<1>3. [Off EXCEPT !.threw = TRUE, !.wrote = slot[i].wrote].pc = "off"
  BY DEF Off
<1>4. CASE \E q \in scene.requests : Post(i, q.secret, q.bearer, q.shard, q.total, q.env)
  <2>1. PICK q \in scene.requests : Post(i, q.secret, q.bearer, q.shard, q.total, q.env)
    BY <1>4
  <2> DEFINE targets == SelectShard(BuildTargets(deployed), ResolvedSpec(q.shard, q.total))
             s == [Off EXCEPT !.pc = "prepare", !.build = deployed, !.left = targets,
                              !.todo = targets]
  <2>2. s.build = deployed
    BY DEF Off
  <2>3. Answered(i) \/ Threw(i) \/ slot' = [slot EXCEPT ![i] = s]
    BY <2>1 DEF Post
  <2> HIDE DEF s
  <2> QED
    BY <1>1, <1>3, <2>2, <2>3 DEF Answered, Threw
<1>5. CASE \E env \in scene.consoles : StartLoop(i, env)
  <2> DEFINE s == [Off EXCEPT !.pc = "prepare", !.build = deployed, !.kind = "loop",
                      !.left = BuildTargets(deployed), !.todo = BuildTargets(deployed)]
  <2>1. s.build = deployed
    BY DEF Off
  <2>2. slot' = [slot EXCEPT ![i] = s]
    BY <1>5 DEF StartLoop
  <2> HIDE DEF s
  <2> QED
    BY <1>1, <2>1, <2>2
<1>6. CASE LoopFires(i)
  <2> DEFINE s == [Off EXCEPT !.pc = "pick", !.kind = "loop", !.build = loop.build,
                              !.todo = loop.targets]
  <2>1. s.build = loop.build
    BY DEF Off
  <2>2. slot' = [slot EXCEPT ![i] = s] /\ loop.on
    BY <1>6 DEF LoopFires
  <2> HIDE DEF s
  <2> QED
    BY <1>1, <2>1, <2>2
<1>7. CASE CycleOver(i) \/ Killed(i)
  BY <1>1, <1>7 DEF CycleOver, Killed, Answered
<1>8. CASE Upsert(i) \/ Prepared(i)
  <2>1. slot[i].pc = "prepare"
    BY <1>8 DEF Upsert, Prepared
  <2>2. CASE Threw(i)
    BY <1>1, <1>3, <2>2 DEF Threw
  <2>3. CASE slot' = [slot EXCEPT ![i].left = Tail(@)]
    BY <1>1, <1>2, <2>1, <2>3 DEF SlotType
  <2>4. CASE slot' = [slot EXCEPT ![i].pc = "pick"]
    BY <1>1, <1>2, <2>1, <2>4 DEF SlotType
  <2> QED
    BY <1>8, <2>2, <2>3, <2>4 DEF Upsert, Prepared
<1>9. CASE PickTarget(i)
  <2> DEFINE s == [slot[i] EXCEPT !.pc = "insert", !.runAt = clock + 1]
  <2>1. slot' = [slot EXCEPT ![i] = s] /\ slot[i].pc = "pick"
    BY <1>9 DEF PickTarget
  <2>2. s.build = slot[i].build
    BY <1>1, <1>2 DEF SlotType
  <2> HIDE DEF s
  <2> QED
    BY <1>1, <2>1, <2>2
<1>10. CASE \E status \in {"ok", "failed"} : Record(i, status)
  <2> DEFINE s == [slot[i] EXCEPT !.pc = "pick", !.todo = Tail(@), !.wrote = @ + 1]
             d == [slot[i] EXCEPT !.pc = "pick", !.todo = Tail(@)]
  <2>1. (slot' = [slot EXCEPT ![i] = s] \/ slot' = [slot EXCEPT ![i] = d]) /\ slot[i].pc = "insert"
    BY <1>10 DEF Record
  <2>2. s.build = slot[i].build /\ d.build = slot[i].build
    BY <1>1, <1>2 DEF SlotType
  <2> HIDE DEF s, d
  <2> QED
    BY <1>1, <2>1, <2>2
<1> QED
  BY <1>4, <1>5, <1>6, <1>7, <1>8, <1>9, <1>10 DEF InvocationStep

\* No invocation brings back a build that is gone.
LEMMA NoneRevived ==
    ASSUME StorageTyped, NEW i \in Slots, InvocationStep(i), NEW build, Alive(build)'
    PROVE  Alive(build)
<1>1. deployed' = deployed
  BY DEF InvocationStep, Post, StartLoop, Upsert, Prepared, LoopFires, PickTarget, Record,
         CycleOver, Killed
<1>2. \/ loop' = loop \/ loop' = NoLoop
      \/ /\ loop' = [on |-> TRUE, build |-> slot[i].build, targets |-> slot[i].todo]
         /\ slot[i].pc # "off"
  BY DEF InvocationStep, Post, StartLoop, Upsert, Prepared, LoopFires, PickTarget, Record,
         CycleOver, Killed
<1>3. loop'.on => (loop.on /\ loop'.build = loop.build)
                  \/ (slot[i].pc # "off" /\ loop'.build = slot[i].build)
  BY <1>2 DEF NoLoop
<1>4. \A j \in Slots : slot'[j] = slot[j] \/ j = i
  BY SameBuild DEF StorageTyped
<1> QED
  BY <1>1, <1>3, <1>4, SameBuild DEF Alive

LEMMA PromotedStep ==
    ASSUME MigrateInv, StorageTyped, PromotedInOrder, [Next]_vars
    PROVE  PromotedInOrder'
<1>1. released \in Nat /\ applied \subseteq 1 .. 8
  BY DEF MigrateInv, LastFile
<1>2. CASE UNCHANGED <<indexerVars, released>> /\ MigrateNext
  <2>1. PICK m \in Migrators : ReadApplied(m) \/ NothingLeft(m) \/ RunFile(m) \/ Commit(m)
                                 \/ MigratorDies(m)
    BY <1>2 DEF MigrateNext
  <2>2. \A b : Alive(b)' <=> Alive(b)
    BY <1>2 DEF indexerVars, Alive
  <2>3. migrator[m] \in Process /\ migrator \in [Migrators -> Process]
    BY DEF MigrateInv
  <2>4. \/ applied' = applied
        \/ migrator[m].pc = "open" /\ applied' = applied \cup {migrator[m].file}
    BY <2>1 DEF ReadApplied, NothingLeft, RunFile, Commit, MigratorDies
  <2>5. applied \subseteq applied' /\ applied' \subseteq 1 .. released
    <3>1. migrator[m].pc = "open" => migrator[m].file \in 1 .. released
      BY <1>1, <2>3 DEF PromotedInOrder, MigrateInv, RunKnows, Process, LastFile
    <3> QED
      BY <2>4, <3>1 DEF PromotedInOrder
  <2>6. \A n \in Migrators : /\ migrator'[n].files <= released
                             /\ migrator'[n].pc = "open" => migrator'[n].file <= migrator'[n].files
    <3>1. \A n \in Migrators : n # m => migrator'[n] = migrator[n]
      BY <2>1, <2>3 DEF ReadApplied, NothingLeft, RunFile, Commit, MigratorDies, Stop
    <3>2. /\ migrator'[m].files <= released
          /\ migrator'[m].pc = "open" => migrator'[m].file <= migrator'[m].files
      <4>1. CASE ReadApplied(m)
        <5> DEFINE p == [pc |-> "next", known |-> applied, files |-> released, file |-> 0,
                         started |-> migrator[m].started + 1]
        <5>1. migrator' = [migrator EXCEPT ![m] = p]
          BY <4>1 DEF ReadApplied
        <5>2. p.pc = "next" /\ p.files = released
          OBVIOUS
        <5> HIDE DEF p
        <5> QED
          BY <1>1, <2>3, <5>1, <5>2
      <4>2. CASE Stop(m)
        <5> DEFINE p == [migrator[m] EXCEPT !.pc = "off", !.known = {}, !.files = 0, !.file = 0]
        <5>1. migrator' = [migrator EXCEPT ![m] = p]
          BY <4>2 DEF Stop
        <5>2. p.pc = "off" /\ p.files = 0
          BY <2>3 DEF Process
        <5> HIDE DEF p
        <5> QED
          BY <1>1, <2>3, <5>1, <5>2
      <4>3. CASE migrator' = [migrator EXCEPT ![m].pc = "next"]
        <5> DEFINE p == [migrator[m] EXCEPT !.pc = "next"]
        <5>1. migrator' = [migrator EXCEPT ![m] = p]
          BY <4>3
        <5>2. p.pc = "next" /\ p.files = migrator[m].files
          BY <2>3 DEF Process
        <5> HIDE DEF p
        <5> QED
          BY <2>3, <5>1, <5>2 DEF PromotedInOrder
      <4>4. CASE /\ migrator' = [migrator EXCEPT ![m].pc = "open", ![m].file = Min(Left(m))]
                 /\ Left(m) # {}
        <5> DEFINE file == Min(Left(m))
                   p == [migrator[m] EXCEPT !.pc = "open", !.file = file]
        <5>1. migrator' = [migrator EXCEPT ![m] = p]
          BY <4>4
        <5>2. Left(m) \in SUBSET Nat
          BY DEF Left
        <5>3. file \in Left(m)
          BY <4>4, <5>2, LeastOf
        <5>4. file <= migrator[m].files
          BY <2>3, <5>3 DEF Left, Process, LastFile
        <5> HIDE DEF file
        <5>5. p.file = file /\ p.files = migrator[m].files
          BY <2>3 DEF Process
        <5> HIDE DEF p
        <5> QED
          BY <2>3, <5>1, <5>4, <5>5 DEF PromotedInOrder
      <4> QED
        BY <2>1, <4>1, <4>2, <4>3, <4>4 DEF NothingLeft, RunFile, Commit, MigratorDies
    <3> QED
      BY <3>1, <3>2 DEF PromotedInOrder
  <2>7. deployed' = deployed /\ released' = released
    BY <1>2 DEF indexerVars
  <2> QED
    BY <2>2, <2>5, <2>6, <2>7 DEF PromotedInOrder
<1>3. CASE InvocationNext(scene.slots, scene.requests, scene.consoles)
  <2>1. PICK i \in scene.slots : InvocationStep(i)
    BY <1>3 DEF InvocationNext, InvocationStep
  <2>2. i \in Slots
    BY StorageAssumption DEF StorageTyped
  <2>3. \A b : Alive(b)' => Alive(b)
    BY <2>1, <2>2, NoneRevived
  <2>4. UNCHANGED migrateVars
    BY <2>1, InvocationsLeaveSchema DEF InvocationStep
  <2>5. deployed' = deployed
    BY <2>1 DEF InvocationStep, Post, StartLoop, Upsert, Prepared, LoopFires, PickTarget, Record,
                CycleOver, Killed
  <2> QED
    BY <2>3, <2>4, <2>5 DEF migrateVars, PromotedInOrder
<1>4. ASSUME NEW build \in Builds, Deploy(build)
      PROVE  PromotedInOrder'
  <2>1. /\ deployed' = build /\ loop' = loop /\ slot' = slot /\ applied' = applied
        /\ released' = released /\ migrator' = migrator /\ Needs(build) \subseteq applied
    BY <1>4 DEF Deploy, migrateVars
  <2>2. \A b : Alive(b)' => Alive(b) \/ b = build
    BY <2>1 DEF Alive
  <2>3. deployed \in {"stamping", "current"} => build \in {"stamping", "current"}
    BY <1>4 DEF Deploy
  <2>4. deployed \in {"stamping", "current"} => build # "first"
    BY <2>3
  <2> QED
    BY <2>1, <2>2, <2>3, <2>4 DEF PromotedInOrder
<1>5. ASSUME NEW files \in Checkouts, Release(files)
      PROVE  PromotedInOrder'
  <2>1. /\ files \in Nat /\ released < files /\ released' = files
        /\ applied' = applied /\ migrator' = migrator
        /\ deployed' = deployed /\ slot' = slot /\ loop' = loop
        /\ released < 4 /\ files >= 4 =>
              deployed = "stamping" /\ ~Alive("first")
    BY <1>5, StorageAssumption DEF Release, indexerVars, Alive, LastFile
  <2>2. \A b : Alive(b)' <=> Alive(b)
    BY <2>1 DEF Alive
  <2>3. 1 .. released \subseteq 1 .. files
    BY <1>1, <2>1
  <2>4. \A m \in Migrators : migrator[m].files \in Nat
    BY DEF MigrateInv, Process, LastFile
  <2> QED
    BY <1>1, <2>1, <2>2, <2>3, <2>4 DEF PromotedInOrder
<1>6. CASE UNCHANGED <<migrateVars, indexerVars>>
  BY <1>6 DEF migrateVars, indexerVars, PromotedInOrder, Alive
<1>7. ASSUME NEW r \in scene.readers, \/ \E p \in Protocols : ReadSummary(r, p)
                                      \/ ReadHistory(r) \/ Respond(r)
      PROVE  PromotedInOrder'
  BY <1>6, <1>7 DEF ReadSummary, ReadHistory, Respond
<1>8. MigrateNext => released' = released
  BY DEF MigrateNext, ReadApplied, NothingLeft, RunFile, Commit, MigratorDies
<1> QED
  BY <1>2, <1>3, <1>4, <1>5, <1>6, <1>7, <1>8 DEF Next, vars

LEMMA PromotedFromStart ==
    ASSUME Init
    PROVE  PromotedInOrder
<1>1. PICK files \in {0, LastFile} :
        /\ MigrateInit(files, scene.migrators)
        /\ deployed = IF files = LastFile THEN "current" ELSE "none"
  BY DEF Init, LastFile
<1>2. slot = [i \in Slots |-> Off] /\ loop = NoLoop /\ Off.pc = "off" /\ loop.on = FALSE
  BY DEF Init, IndexerInit, Off, NoLoop
<1>3. \A b : Alive(b) => b = deployed
  BY <1>2 DEF Alive
<1>4. applied = 1 .. files /\ released = files
  BY <1>1 DEF MigrateInit
<1>5. \A m \in Migrators : migrator[m].files = 0 /\ migrator[m].pc = "off"
  BY <1>1 DEF MigrateInit
<1>6. \A b \in Builds : b = deployed => Needs(b) \subseteq applied
  BY <1>1, <1>4 DEF Builds, Needs, LastFile
<1>7. released >= 4 => deployed = "current"
  BY <1>1, <1>4 DEF LastFile
<1>8. released \in Nat
  BY <1>4 DEF LastFile
<1> QED
  BY <1>3, <1>4, <1>5, <1>6, <1>7, <1>8 DEF PromotedInOrder

\* What every state satisfies so far.
StoreInv == MigrateInv /\ StorageTyped /\ PromotedInOrder

LEMMA StoreInvariant == Spec => []StoreInv
<1>1. Init => MigrateInv /\ PromotedInOrder
  BY InitHolds, PromotedFromStart
<1>2. MigrateInv /\ StorageTyped /\ PromotedInOrder /\ [Next]_vars
          => MigrateInv' /\ PromotedInOrder'
  BY StepHolds, PromotedStep
<1> QED
  BY <1>1, <1>2, TypedInvariant, PTL DEF Spec, StoreInv

\* Migrations and promotions in the documented order: whatever invocations are still running
\* when a file is applied or a build promoted, the schema takes every statement of theirs
\* (the headers of 0002, 0004 and 0008; monorepo-layout.md:279-286).
THEOREM PromotionsAreSafe == Spec => []DeployedBuildWorks
<1>1. ASSUME StoreInv
      PROVE  DeployedBuildWorks
  <2> DEFINE alive == {slot[i].build : i \in {i \in Slots : slot[i].pc # "off"}}
                 \cup {b \in Builds : b = deployed \/ (loop.on /\ loop.build = b)}
  <2>1. ASSUME NEW b \in alive
        PROVE  b \in Builds /\ Alive(b) /\ Needs(b) \subseteq applied
    <3>1. b \in Builds
      BY <1>1, <2>1 DEF StoreInv, StorageTyped, AnySlot, SlotType
    <3>2. Alive(b)
      BY <2>1 DEF Alive
    <3> QED
      BY <1>1, <3>1, <3>2 DEF StoreInv, PromotedInOrder
  <2>2. 4 \in applied => ~Alive("first")
    BY <1>1 DEF StoreInv, PromotedInOrder, MigrateInv, LastFile
  <2>3. deployed = "current" => 1 .. 8 \subseteq applied
    BY <1>1 DEF StoreInv, PromotedInOrder, Alive, Needs, Builds, LastFile
  <2>4. deployed = "current" => ReadAllowed
    BY <1>1, <2>3, SchemaTells DEF ReadAllowed, StoreInv
  <2>5. ASSUME NEW b \in alive
        PROVE  UpsertAllowed(b) /\ InsertColumnsThere(b)
    <3>1. b \in Builds /\ Needs(b) \subseteq applied
      BY <2>1, <2>5
    <3>2. CASE b = "first"
      BY <1>1, <3>1, <3>2, SchemaTells DEF Needs, UpsertAllowed, InsertColumnsThere, NamesVersion,
                                           NamesCategory, StoreInv
    <3>3. CASE b = "stamping"
      <4>1. 1 \in applied /\ 2 \in applied /\ 3 \in applied
        BY <3>1, <3>3 DEF Needs
      <4> QED
        BY <1>1, <3>3, <4>1, SchemaTells DEF UpsertAllowed, InsertColumnsThere, NamesVersion,
                                             NamesCategory, StoreInv
    <3>4. CASE b = "current"
      <4>1. 1 .. 8 \subseteq applied
        BY <3>1, <3>4 DEF Needs, LastFile
      <4> QED
        BY <1>1, <3>4, <4>1, SchemaTells DEF UpsertAllowed, InsertColumnsThere, NamesVersion,
                                             NamesCategory, StoreInv
    <3> QED
      BY <3>1, <3>2, <3>3, <3>4 DEF Builds
  <2>6. ASSUME NEW b \in alive, NEW status \in {"ok", "failed"}, NEW p \in Members(Registry[b])
        PROVE  Fits(schema, RunRow(b, p, status, 0))
    <3> DEFINE version == IF NamesVersion(b)
                          THEN IF status = "ok" THEN Methodology[b][CategoryOf[p]] ELSE 0
                          ELSE IF schema.version = "default" THEN 1 ELSE 0
               category == IF NamesCategory(b)
                           THEN IF status = "ok" THEN CategoryOf[p] ELSE "none"
                           ELSE IF "category" \in schema.parts THEN "lending" ELSE "none"
               row == RunRow(b, p, status, 0)
    <3>1. b \in Builds /\ Alive(b)
      BY <2>1, <2>6
    <3>2. p \in Protocols /\ CategoryOf[p] \in {"lending", "dex"}
      BY <3>1, Registered, StoreAssumption
    <3>3. row.status = status /\ row.version = version /\ row.category = category
      BY DEF RunRow
    <3>4. schema.versionCheck # "none" /\ status = "ok" => version # 0
      <4>1. CASE NamesVersion(b)
        BY <3>1, <3>2, <4>1, StoreAssumption
      <4>2. CASE ~NamesVersion(b)
        <5>1. b = "first"
          BY <3>1, <4>2 DEF NamesVersion, Builds
        <5>2. 4 \notin applied
          BY <2>2, <3>1, <5>1
        <5> QED
          BY <1>1, <4>2, <5>2, SchemaTells DEF StoreInv
      <4> QED
        BY <4>1, <4>2
    <3>5. schema.versionCheck = "union" /\ status = "failed" => version = 0
      BY <1>1, SchemaTells DEF StoreInv
    <3>6. "categoryCheck" \in schema.parts /\ status = "ok" => category # "none"
      BY <1>1, <3>2, SchemaTells DEF StoreInv
    <3> HIDE DEF version, category, row
    <3> QED
      BY <3>3, <3>4, <3>5, <3>6 DEF Fits, row
  <2> QED
    BY <2>4, <2>5, <2>6 DEF DeployedBuildWorks
<1> QED
  BY <1>1, StoreInvariant, PTL

\* A row as it is inserted.
LEMMA InsertedRight ==
    ASSUME StoreInv, NEW i \in Slots, NEW status \in {"ok", "failed"}, Inserts(i, status)
    PROVE  StampedRight(applied, RunRow(slot[i].build, Head(slot[i].todo), status, slot[i].runAt))
<1> DEFINE build == slot[i].build
           p == Head(slot[i].todo)
           row == RunRow(build, p, status, slot[i].runAt)
           own == CategoryOf[p]
           version == IF NamesVersion(build)
                      THEN IF status = "ok" THEN Methodology[build][own] ELSE 0
                      ELSE IF schema.version = "default" THEN 1 ELSE 0
           category == IF NamesCategory(build)
                       THEN IF status = "ok" THEN own ELSE "none"
                       ELSE IF "category" \in schema.parts THEN "lending" ELSE "none"
<1>1. /\ build \in Builds /\ p \in Members(Registry[build])
      /\ row.protocol = p /\ row.status = status /\ row.build = build
  BY InsertAddsRow DEF StoreInv
<1>2. row.version = version /\ row.category = category
  BY DEF RunRow
<1>3. Alive(build)
  BY DEF Alive, Inserts
<1>4. Needs(build) \subseteq applied
  BY <1>1, <1>3 DEF StoreInv, PromotedInOrder
<1>5. build # "current" => own = "lending"
  <2>1. PICK k \in DOMAIN Registry[build] : p = Registry[build][k]
    BY <1>1 DEF Members
  <2> QED
    BY <1>1, <2>1, IndexerAssumption
<1>6. build = "first" => 4 \notin applied
  BY <1>3 DEF StoreInv, PromotedInOrder, MigrateInv, LastFile
<1>7. build = "current" => 8 \in applied
  BY <1>4 DEF Needs, LastFile
<1>8. /\ schema.version = "default" <=> 2 \in applied /\ 4 \notin applied
      /\ "category" \in schema.parts <=> 8 \in applied
  BY SchemaTells DEF StoreInv
<1> HIDE DEF row, build, p, own
<1>9. status = "ok" /\ 2 \in applied => version = Methodology[build][own]
  <2>1. CASE build = "first"
    BY <1>5, <1>6, <1>8, <2>1, StoreAssumption DEF NamesVersion
  <2>2. CASE build # "first"
    BY <2>2 DEF NamesVersion
  <2> QED
    BY <2>1, <2>2
<1>10. status = "ok" => category = IF 8 \in applied THEN own ELSE "none"
  BY <1>5, <1>7, <1>8 DEF NamesCategory
<1>11. status = "failed" => /\ 4 \in applied => version = 0
                            /\ build = "current" => category = "none"
  BY <1>8 DEF NamesCategory
<1> HIDE DEF version, category
<1> USE DEF own
<1>12. StampedRight(applied, row)
  BY <1>1, <1>2, <1>4, <1>9, <1>10, <1>11 DEF StampedRight
<1> QED
  BY <1>12 DEF row, build, p

\* The file that a runner commits is the first one not recorded.
LEMMA CommitsNext ==
    ASSUME StoreInv, NEW m \in Migrators, Commits(m)
    PROVE  /\ migrator[m].file \in 1 .. 8
           /\ \A f \in 1 .. 8 : f \in applied <=> f < migrator[m].file
<1> DEFINE file == migrator[m].file
<1>1. /\ migrator[m] \in Process /\ migrator[m].pc = "open" /\ RunKnows(m) /\ file \notin applied
      /\ applied \subseteq 1 .. 8 /\ \A f \in applied : 1 .. f \subseteq applied
  BY DEF StoreInv, MigrateInv, SchemaIsWhatWasApplied, Commits, LastFile
<1>2. file \in 1 .. 8 /\ \A f \in 1 .. 8 : f < file => f \in applied
  BY <1>1 DEF Process, RunKnows, LastFile
<1> HIDE DEF file
<1>3. ASSUME NEW f \in 1 .. 8, f \in applied
      PROVE  f < file
  <2> SUFFICES ASSUME ~(f < file)
               PROVE  FALSE
    OBVIOUS
  <2>1. file \in 1 .. f
    BY <1>2
  <2> QED
    BY <1>1, <1>3, <2>1
<1> QED
  BY <1>2, <1>3 DEF file

\* A row that a migration rewrites.
LEMMA RewrittenRight ==
    ASSUME StoreInv, CheckedUnversioned, NEW m \in Migrators, Commits(m),
           NEW k \in DOMAIN runs, StampedRight(applied, runs[k])
    PROVE  StampedRight(applied', runs'[k])
<1> DEFINE file == migrator[m].file
           row == runs[k]
           new == RowAfter(file, row)
           own == CategoryOf[row.protocol]
<1>1. row \in AnyRow /\ runs'[k] = new /\ applied' = applied \cup {file}
  BY DEF StoreInv, StorageTyped, Commits, RunsAfter
<1>2. /\ new.protocol = row.protocol /\ new.status = row.status /\ new.build = row.build
      /\ row.build \in Builds /\ row.status \in {"ok", "failed"}
      /\ row.protocol \in Members(Registry[row.build])
  <2>1. /\ new.protocol = row.protocol /\ new.status = row.status /\ new.build = row.build
    BY <1>1, RowKept
  <2> QED
    BY <1>1, <2>1 DEF AnyRow
<1>3. file \in 1 .. 8 /\ \A f \in 1 .. 8 : f \in applied <=> f < file
  BY CommitsNext
<1>4. row.build # "current" => own = "lending"
  <2>1. PICK j \in DOMAIN Registry[row.build] : row.protocol = Registry[row.build][j]
    BY <1>2 DEF Members
  <2> QED
    BY <1>2, <2>1, IndexerAssumption
<1>5. /\ Needs(row.build) \subseteq applied
      /\ row.status = "ok" =>
            /\ 2 \in applied => row.version = Methodology[row.build][own]
            /\ row.category = IF 8 \in applied THEN own ELSE "none"
      /\ row.status = "failed" =>
            /\ 4 \in applied => row.version = 0
            /\ row.build = "current" => row.category = "none"
  BY DEF StampedRight
<1>6. CASE file = 2
  <2>1. schema.version = "absent" /\ 2 \notin applied /\ 4 \notin applied
    BY <1>3, <1>6, SchemaTells DEF StoreInv
  <2>2. new = [row EXCEPT !.version = 1]
    BY <1>6, <2>1 DEF RowAfter
  <2>3. new.version = 1 /\ new.category = row.category
    BY <1>1, <2>2 DEF AnyRow
  <2>4. row.build = "first"
    BY <1>2, <1>5, <2>1 DEF Needs, Builds, LastFile
  <2>5. Methodology[row.build][own] = 1
    BY <1>4, <2>4, StoreAssumption
  <2>6. 4 \notin applied' /\ (8 \in applied' <=> 8 \in applied)
    BY <1>1, <1>3, <1>6
  <2> HIDE DEF new, row
  <2>7. StampedRight(applied', new)
    BY <1>1, <1>2, <1>5, <2>3, <2>4, <2>5, <2>6 DEF StampedRight
  <2> QED
    BY <1>1, <2>7
<1>7. CASE file = 8
  <2> DEFINE category == IF row.status = "ok" THEN IF row.category = "none" THEN "lending"
                                                   ELSE row.category
                         ELSE "none"
  <2>1. new = [row EXCEPT !.category = category]
    BY <1>7 DEF RowAfter
  <2> HIDE DEF category
  <2>2. new.version = row.version /\ new.category = category
    BY <1>1, <2>1 DEF AnyRow
  <2>3. 8 \notin applied /\ 8 \in applied' /\ \A f \in {2, 4} : f \in applied
    BY <1>1, <1>3, <1>7
  <2>4. row.build # "current"
    BY <1>5, <2>3 DEF Needs, LastFile
  <2>5. row.status = "ok" => category = own
    BY <1>4, <1>5, <2>3, <2>4 DEF category
  <2> HIDE DEF new, row
  <2>6. StampedRight(applied', new)
    BY <1>1, <1>2, <1>5, <2>2, <2>3, <2>4, <2>5 DEF StampedRight
  <2> QED
    BY <1>1, <2>6
<1>8. CASE file \notin {2, 8}
  <2>1. new = row
    BY <1>3, <1>8 DEF RowAfter
  <2>2. (2 \in applied' <=> 2 \in applied) /\ (8 \in applied' <=> 8 \in applied)
    BY <1>1, <1>8
  <2>3. 4 \in applied' => 4 \in applied \/ file = 4
    BY <1>1
  <2>4. file = 4 /\ row.status = "failed" => row.version = 0
    BY DEF CheckedUnversioned, Commits
  <2>5. runs'[k] = row
    BY <1>1, <2>1
  <2> HIDE DEF new, row
  <2>6. StampedRight(applied', row)
    BY <1>1, <1>5, <2>2, <2>3, <2>4 DEF StampedRight
  <2> QED
    BY <2>5, <2>6
<1> QED
  BY <1>6, <1>7, <1>8

LEMMA StampsStep ==
    ASSUME StoreInv, StampsInv, [Next]_vars
    PROVE  \A k \in DOMAIN runs' : StampedRight(applied', runs'[k])
<1>1. CASE runs' = runs /\ schema' = schema /\ applied' = applied
  BY <1>1 DEF StampsInv
<1>2. ASSUME NEW m \in Migrators, Commits(m)
      PROVE  \A k \in DOMAIN runs' : StampedRight(applied', runs'[k])
  <2>1. DOMAIN runs' = DOMAIN runs
    BY <1>2 DEF Commits, RunsAfter
  <2> QED
    BY <1>2, <2>1, RewrittenRight DEF StampsInv
<1>3. ASSUME NEW i \in Slots, NEW status \in {"ok", "failed"}, Inserts(i, status)
      PROVE  \A k \in DOMAIN runs' : StampedRight(applied', runs'[k])
  <2> DEFINE row == RunRow(slot[i].build, Head(slot[i].todo), status, slot[i].runAt)
  <2>1. applied' = applied
    BY <1>3 DEF Inserts, migrateVars
  <2>2. StampedRight(applied, row)
    BY <1>3, InsertedRight
  <2>3. \A k \in DOMAIN runs' : runs'[k] = row \/ (k \in DOMAIN runs /\ runs'[k] = runs[k])
    BY <1>3, InsertAddsRow DEF StoreInv
  <2> HIDE DEF row
  <2>4. \A k \in DOMAIN runs' : StampedRight(applied, runs'[k])
    BY <2>2, <2>3 DEF StampsInv
  <2> QED
    BY <2>1, <2>4
<1> QED
  BY <1>1, <1>2, <1>3, TableSteps DEF StoreInv

\* A checked table stays as it was found until the file is recorded.
LEMMA CheckedStep ==
    ASSUME StoreInv, StampsInv, [Next]_vars
    PROVE  CheckedUnversioned'
<1> SUFFICES ASSUME NEW m \in Migrators, migrator'[m].pc = "open", migrator'[m].file = 4,
                    4 \notin applied', NEW k \in DOMAIN runs', runs'[k].status = "failed"
             PROVE  runs'[k].version = 0
  BY DEF CheckedUnversioned
<1>0. migrator \in [Migrators -> Process]
  BY DEF StoreInv, MigrateInv
<1>1. CASE migrator[m].pc = "open" /\ migrator[m].file = 4
  <2>1. 4 \notin applied
    BY TableSteps DEF StoreInv, Commits, Inserts, migrateVars
  <2>2. \A j \in DOMAIN runs : runs[j].status = "failed" => runs[j].version = 0
    BY <1>1, <2>1 DEF StampsInv, CheckedUnversioned
  <2>3. CASE runs' = runs
    BY <2>2, <2>3
  <2>4. ASSUME NEW n \in Migrators, Commits(n)
        PROVE  FALSE
    <3>1. /\ migrator[n].file \in 1 .. 8 /\ \A f \in 1 .. 8 : f \in applied <=> f < migrator[n].file
          /\ applied' = applied \cup {migrator[n].file}
      BY <2>4, CommitsNext DEF Commits
    <3>2. \A f \in 1 .. LastFile : f < migrator[m].file => f \in applied
      BY <1>1 DEF StoreInv, MigrateInv, RunKnows
    <3>3. 3 \in applied
      BY <1>1, <3>2 DEF LastFile
    <3>4. migrator[n].file = 4
      BY <2>1, <3>1, <3>3
    <3> QED
      BY <3>1, <3>4
  <2>5. ASSUME NEW i \in Slots, NEW status \in {"ok", "failed"}, Inserts(i, status)
        PROVE  FALSE
    BY <1>1, <2>5 DEF Inserts, Free, Locks
  <2> QED
    BY <2>3, <2>4, <2>5, TableSteps DEF StoreInv
<1>2. CASE ~(migrator[m].pc = "open" /\ migrator[m].file = 4)
  <2>1. migrator' # migrator
    BY <1>2
  <2>2. MigrateNext
    BY <2>1 DEF Next, InvocationNext, Post, StartLoop, Upsert, Prepared, LoopFires, PickTarget,
                Record, CycleOver, Killed, Deploy, Release, ReadSummary, ReadHistory, Respond,
                vars, migrateVars
  <2>3. PICK n \in Migrators : ReadApplied(n) \/ NothingLeft(n) \/ RunFile(n) \/ Commit(n)
                                 \/ MigratorDies(n)
    BY <2>2 DEF MigrateNext
  <2>4. RunFile(n) /\ StatementsPass(4) /\ n = m
    <3>1. migrator[n] \in Process
      BY <1>0
    <3>2. Stop(n) => migrator'[n].pc = "off"
                     /\ \A j \in Migrators : j # n => migrator'[j] = migrator[j]
      <4> DEFINE p == [migrator[n] EXCEPT !.pc = "off", !.known = {}, !.files = 0, !.file = 0]
      <4>1. p.pc = "off"
        BY <3>1 DEF Process
      <4> QED
        BY <1>0, <4>1 DEF Stop
    <3>3. ReadApplied(n) => migrator'[n].pc = "next"
                            /\ \A j \in Migrators : j # n => migrator'[j] = migrator[j]
      BY <1>0 DEF ReadApplied
    <3>4. migrator' = [migrator EXCEPT ![n].pc = "next"]
             => migrator'[n].pc = "next" /\ \A j \in Migrators : j # n => migrator'[j] = migrator[j]
      BY <1>0, <3>1 DEF Process
    <3>5. ASSUME migrator' = [migrator EXCEPT ![n].pc = "open", ![n].file = Min(Left(n))]
          PROVE  /\ migrator'[n].file = Min(Left(n))
                 /\ \A j \in Migrators : j # n => migrator'[j] = migrator[j]
      <4> DEFINE file == Min(Left(n))
                 p == [migrator[n] EXCEPT !.pc = "open", !.file = file]
      <4> HIDE DEF file
      <4>1. p.file = file
        BY <3>1 DEF Process
      <4>2. migrator' = [migrator EXCEPT ![n] = p]
        BY <3>5 DEF file
      <4> HIDE DEF p
      <4> QED
        BY <1>0, <4>1, <4>2 DEF file
    <3>6. ~Stop(n) /\ ~ReadApplied(n) /\ migrator' # [migrator EXCEPT ![n].pc = "next"]
      BY <1>2, <3>2, <3>3, <3>4
    <3>7. RunFile(n) /\ StatementsPass(Min(Left(n)))
          /\ migrator' = [migrator EXCEPT ![n].pc = "open", ![n].file = Min(Left(n))]
      BY <2>3, <3>6 DEF NothingLeft, RunFile, Commit, MigratorDies
    <3>8. n = m
      BY <1>2, <3>5, <3>7
    <3>9. Min(Left(n)) = 4
      BY <3>5, <3>7, <3>8
    <3> QED
      BY <3>7, <3>8, <3>9
  <2>5. runs' = runs
    BY <2>4 DEF RunFile, dbvars
  <2>6. Fits(SchemaAfter(4, schema), RunsAfter(4)[k])
    BY <2>4, <2>5 DEF StatementsPass
  <2>7. RunsAfter(4)[k] = runs[k]
    BY <2>5 DEF RunsAfter, RowAfter
  <2>8. SchemaAfter(4, schema).versionCheck = "union"
    <3> DEFINE sch == SchemaOf(applied)
    <3>1. schema = sch
      BY DEF StoreInv, MigrateInv, SchemaIsWhatWasApplied
    <3>2. SchemaAfter(4, schema) = [sch EXCEPT !.version = "plain", !.versionCheck = "union"]
      BY <3>1 DEF SchemaAfter, VersionRequired
    <3>3. DOMAIN sch = {"parts", "version", "versionCheck"}
      BY DEF SchemaOf
    <3> HIDE DEF sch
    <3> QED
      BY <3>2, <3>3
  <2> QED
    BY <2>5, <2>6, <2>7, <2>8 DEF Fits
<1> QED
  BY <1>1, <1>2

\* Whichever build wrote a row and whichever files have run since, at any number of rows: a
\* score's stamps are the rulebook it was scored by, and a failed run carries none
\* (0002:29-30, 0004:14-17, 0008:30-33).
THEOREM StampsSurviveMigrations == Spec => []StampsAreTrue
<1>1. Init => StampsInv
  BY DEF Init, MigrateInit, StampsInv, CheckedUnversioned
<1>2. StoreInv /\ StampsInv /\ [Next]_vars => StampsInv'
  BY StampsStep, CheckedStep DEF StampsInv
<1>3. ASSUME StoreInv, StampsInv
      PROVE  StampsAreTrue
  <2>1. /\ schema.version # "absent" <=> 2 \in applied
        /\ schema.versionCheck = "union" <=> 4 \in applied
        /\ "category" \in schema.parts <=> 8 \in applied
    BY <1>3, SchemaTells DEF StoreInv
  <2>2. \A k \in DOMAIN runs : runs[k].status \in {"ok", "failed"}
    BY <1>3 DEF StoreInv, StorageTyped, AnyRow
  <2> QED
    BY <1>3, <2>1, <2>2 DEF StampsInv, StampedRight, StampsAreTrue
<1> QED
  BY <1>1, <1>2, <1>3, StoreInvariant, PTL DEF Spec

--------------------------------------------------------------------------------
(* The shards of one deal.                                                 *)

\* The targets that a shard of a deal selects.
Selects(build, total, shard) ==
    LET all == Members(Registry[build]) IN
    {p \in all : total <= 1 \/ InShard(all, p, [shard |-> shard, totalShards |-> total])}

Deal == [build : Builds, total : Nat, shards : SUBSET Nat, by : [Protocols -> SUBSET Nat]]

\* Each target has been selected by those shards, of the ones so far, whose turn it is.
DealtRight(deal) ==
    /\ deal \in Deal
    /\ \A p \in Protocols :
          deal.by[p] = {s \in deal.shards : p \in Selects(deal.build, deal.total, s)}

LEMMA ShardAdded ==
    ASSUME NEW deal, DealtRight(deal), NEW shard \in Nat, NEW selected,
           selected = Selects(deal.build, deal.total, shard),
           NEW by \in [Protocols -> SUBSET Nat],
           \A p \in Protocols : by[p] = IF p \in selected THEN deal.by[p] \cup {shard}
                                        ELSE deal.by[p]
    PROVE  DealtRight([deal EXCEPT !.shards = @ \cup {shard}, !.by = by])
<1> DEFINE shards == deal.shards \cup {shard}
           new == [deal EXCEPT !.shards = shards, !.by = by]
<1>1. /\ deal \in Deal /\ deal.shards \in SUBSET Nat /\ deal.by \in [Protocols -> SUBSET Nat]
      /\ \A p \in Protocols :
            deal.by[p] = {s \in deal.shards : p \in Selects(deal.build, deal.total, s)}
  BY DEF DealtRight, Deal
<1>2. shards \in SUBSET Nat /\ by \in [Protocols -> SUBSET Nat]
  BY <1>1
<1>3. ASSUME NEW p \in Protocols
      PROVE  by[p] = {s \in shards : p \in Selects(deal.build, deal.total, s)}
  BY <1>1
<1> HIDE DEF shards
<1>4. /\ new \in Deal /\ new.build = deal.build /\ new.total = deal.total
      /\ new.shards = shards /\ new.by = by
  BY <1>1, <1>2 DEF Deal
<1> HIDE DEF new
<1>5. DealtRight(new)
  BY <1>3, <1>4 DEF DealtRight
<1> QED
  BY <1>5 DEF new, shards

\* A request that is accepted names a shard of at least one.
LEMMA SpecResolved ==
    ASSUME NEW shard \in [kind : {"blank", "digits", "junk"}, n : Nat],
           NEW total \in [kind : {"blank", "digits", "junk"}, n : Nat], SpecAccepted(shard, total)
    PROVE  /\ ResolvedSpec(shard, total) \in [shard : Nat, totalShards : Nat]
           /\ ResolvedSpec(shard, total).totalShards > 0
<1>1. CASE shard = Blank
  BY <1>1 DEF ResolvedSpec, SingleShard
<1>2. CASE shard # Blank
  BY <1>2 DEF ResolvedSpec, SpecAccepted
<1> QED
  BY <1>1, <1>2

LEMMA DealtStep ==
    ASSUME NEW build \in Builds, NEW spec \in [shard : Nat, totalShards : Nat],
           DealtRight(rotation), Dealt(build, spec, SelectShard(BuildTargets(build), spec))
    PROVE  DealtRight(rotation')
<1> DEFINE selected == Members(SelectShard(BuildTargets(build), spec))
           going == /\ rotation.build = build /\ rotation.total = spec.totalShards
                    /\ spec.shard \notin rotation.shards
           fresh == [NoRotation EXCEPT !.build = build, !.total = spec.totalShards]
           base == IF going THEN rotation ELSE fresh
<1>1. selected = Selects(build, spec.totalShards, spec.shard)
  <2>1. spec = [shard |-> spec.shard, totalShards |-> spec.totalShards]
    OBVIOUS
  <2> QED
    BY <2>1, Selected DEF Selects
<1>2. DealtRight(fresh) /\ fresh.build = build /\ fresh.total = spec.totalShards
  <2>1. "first" \in Builds
    BY DEF Builds
  <2>2. NoRotation \in Deal /\ NoRotation.shards = {} /\ NoRotation.by = [p \in Protocols |-> {}]
    BY <2>1 DEF NoRotation, Deal
  <2>3. /\ fresh \in Deal /\ fresh.build = build /\ fresh.total = spec.totalShards
        /\ fresh.shards = {} /\ fresh.by = [p \in Protocols |-> {}]
    BY <2>2 DEF Deal
  <2> HIDE DEF fresh
  <2> QED
    BY <2>3 DEF DealtRight
<1>3. DealtRight(base) /\ base.build = build /\ base.total = spec.totalShards
  BY <1>2
<1>4. rotation' = [base EXCEPT !.shards = @ \cup {spec.shard},
                       !.by = [p \in Protocols |->
                                 IF p \in selected THEN @[p] \cup {spec.shard} ELSE @[p]]]
  BY DEF Dealt
<1> DEFINE shard == spec.shard
           by == [p \in Protocols |-> IF p \in selected THEN base.by[p] \cup {shard}
                                      ELSE base.by[p]]
<1> HIDE DEF base, selected, fresh, going
<1>5. shard \in Nat /\ selected = Selects(base.build, base.total, shard)
  BY <1>1, <1>3
<1>6. rotation' = [base EXCEPT !.shards = @ \cup {shard}, !.by = by]
  BY <1>4, Zenon
<1>7. /\ by \in [Protocols -> SUBSET Nat]
      /\ \A p \in Protocols : by[p] = IF p \in selected THEN base.by[p] \cup {shard}
                                      ELSE base.by[p]
  BY <1>3, <1>5 DEF DealtRight, Deal
<1> HIDE DEF shard, by
<1>8. DealtRight([base EXCEPT !.shards = @ \cup {shard}, !.by = by])
  BY <1>3, <1>5, <1>7, ShardAdded
<1> QED
  BY <1>6, <1>8

LEMMA RotationStep ==
    ASSUME StorageTyped, DealtRight(rotation), [Next]_vars
    PROVE  DealtRight(rotation')
<1>1. CASE rotation' = rotation
  BY <1>1
<1>2. CASE rotation' # rotation
  <2>1. PICK i \in scene.slots, q \in scene.requests :
          Post(i, q.secret, q.bearer, q.shard, q.total, q.env)
    BY <1>2 DEF Next, MigrateNext, InvocationNext, StartLoop, Upsert, Prepared, LoopFires,
                PickTarget, Record, CycleOver, Killed, Deploy, Release, ReadSummary, ReadHistory,
                Respond, vars, indexerVars
  <2> DEFINE spec == ResolvedSpec(q.shard, q.total)
  <2>2. /\ deployed # "none" /\ SpecAccepted(q.shard, q.total)
        /\ Dealt(deployed, spec, SelectShard(BuildTargets(deployed), spec))
    BY <1>2, <2>1 DEF Post
  <2>3. deployed \in Builds
    BY <2>2 DEF StorageTyped
  <2>4. spec \in [shard : Nat, totalShards : Nat]
    BY <2>2, SpecResolved, StorageAssumption DEF StorageTyped
  <2> HIDE DEF spec
  <2> QED
    BY <2>2, <2>3, <2>4, DealtStep
<1> QED
  BY <1>1, <1>2

\* With any registry and any hashes, colliding or not: the shards of one deal select each
\* target of the registry exactly once, and no shard two more than another
\* (cycle.ts:404-444).
THEOREM ShardsPartitionTheRegistry == Spec => []ShardsPartition
<1>1. Init => DealtRight(rotation)
  <2>1. "first" \in Builds
    BY DEF Builds
  <2>2. NoRotation \in Deal /\ NoRotation.shards = {} /\ NoRotation.by = [p \in Protocols |-> {}]
    BY <2>1 DEF NoRotation, Deal
  <2> QED
    BY <2>2 DEF Init, IndexerInit, DealtRight
<1>2. StorageTyped /\ DealtRight(rotation) /\ [Next]_vars => DealtRight(rotation)'
  BY RotationStep
<1>3. ASSUME DealtRight(rotation)
      PROVE  ShardsPartition
  <2> DEFINE total == rotation.total
             shards == 0 .. total - 1
             all == Members(Registry[rotation.build])
             load(s) == {p \in Protocols : s \in rotation.by[p]}
  <2> SUFFICES ASSUME total > 0, rotation.shards = shards
               PROVE  /\ \A p \in Protocols : Cardinality(rotation.by[p]) =
                             (IF p \in Members(Registry[rotation.build]) THEN 1 ELSE 0)
                      /\ \A s, t \in shards : Cardinality(load(s)) <= Cardinality(load(t)) + 1
    BY DEF ShardsPartition
  <2>1. total \in Nat /\ rotation.build \in Builds
    BY <1>3 DEF DealtRight, Deal
  <2>2. all \subseteq Protocols /\ all \in SUBSET Protocols
    BY <2>1, Registered
  <2>3. \A p \in all : DealPlace(all, p) \in Nat
    <3> HIDE DEF all
    <3>1. /\ Cardinality(all) \in Nat
          /\ \A p \in all : DealPlace(all, p) \in 0 .. Cardinality(all) - 1
      BY <2>2, DealNumbers
    <3> QED
      BY <3>1
  <2>4. \A s \in shards : Selects(rotation.build, total, s)
                            = {p \in all : Turn(DealPlace(all, p), total) = s}
    <3>1. CASE total = 1
      <4>1. shards = {0}
        BY <3>1
      <4>2. \A k \in Nat : Turn(k, total) = 0
        BY <3>1 DEF Turn
      <4> HIDE DEF shards, all
      <4> QED
        BY <2>3, <3>1, <4>1, <4>2 DEF Selects, all
    <3>2. CASE total # 1
      <4>1. ~(total <= 1)
        BY <2>1, <3>2
      <4> QED
        BY <4>1 DEF Selects, InShard, Turn
    <3> QED
      BY <3>1, <3>2
  <2>5. \A p \in Protocols :
            rotation.by[p] = {s \in shards : p \in all /\ Turn(DealPlace(all, p), total) = s}
    <3>1. \A p \in Protocols :
            rotation.by[p] = {s \in rotation.shards : p \in Selects(rotation.build, total, s)}
      BY <1>3 DEF DealtRight
    <3> HIDE DEF shards, all
    <3> QED
      BY <2>4, <3>1
  <2>6. \A k \in Nat : Turn(k, total) \in shards
    BY <2>1 DEF Turn
  <2> HIDE DEF all, total, shards
  <2>7. ASSUME NEW p \in Protocols
        PROVE  Cardinality(rotation.by[p]) = IF p \in all THEN 1 ELSE 0
    <3>1. CASE p \in all
      <4>1. rotation.by[p] = {Turn(DealPlace(all, p), total)}
        BY <2>3, <2>5, <2>6, <3>1
      <4> QED
        BY <3>1, <4>1, FS_Singleton
    <3>2. CASE p \notin all
      <4>1. rotation.by[p] = {}
        BY <2>5, <3>2
      <4> QED
        BY <3>2, <4>1, FS_EmptySet
    <3> QED
      BY <3>1, <3>2
  <2>8. ASSUME NEW s \in shards, NEW t \in shards
        PROVE  Cardinality(load(s)) <= Cardinality(load(t)) + 1
    <3>1. \A x \in shards : load(x) = {p \in all : DealPlace(all, p) % total = x}
      BY <2>2, <2>5 DEF Turn
    <3> HIDE DEF load
    <3> QED
      <4>1. Cardinality({p \in all : DealPlace(all, p) % total = s})
              <= Cardinality({p \in all : DealPlace(all, p) % total = t}) + 1
        BY <2>1, <2>2, EvenLoads DEF shards
      <4> QED
        BY <3>1, <4>1
  <2> QED
    BY <2>7, <2>8 DEF all, total
<1> QED
  BY <1>1, <1>2, <1>3, TypedInvariant, PTL DEF Spec

--------------------------------------------------------------------------------
(* What a detail page shows.                                               *)

\* Each target is picked up at a time of its own, and its row bears it.
TimesDiffer ==
    /\ \A k \in DOMAIN runs : runs[k].runAt \in 1 .. clock
    /\ \A k, n \in DOMAIN runs : runs[k].runAt = runs[n].runAt => k = n
    /\ \A i \in Slots : slot[i].pc = "insert" =>
          /\ slot[i].runAt \in 1 .. clock
          /\ \A k \in DOMAIN runs : runs[k].runAt # slot[i].runAt
          /\ \A j \in Slots : slot[j].pc = "insert" /\ slot[j].runAt = slot[i].runAt => i = j

LEMMA TimesAdvance ==
    ASSUME StorageTyped, [Next]_vars
    PROVE  clock' \in Nat /\ clock <= clock'
<1>1. clock' = clock \/ clock' = clock + 1
  BY DEF Next, MigrateNext, InvocationNext, Post, StartLoop, Upsert, Prepared, LoopFires,
         PickTarget, Record, CycleOver, Killed, Deploy, Release, ReadSummary, ReadHistory,
         Respond, vars, indexerVars
<1> QED
  BY <1>1 DEF StorageTyped

\* An invocation that is to record a target was to already, or has just picked it up.
LEMMA PickedUp ==
    ASSUME StorageTyped, [Next]_vars, NEW i \in Slots, slot'[i].pc = "insert"
    PROVE  \/ slot[i].pc = "insert" /\ slot'[i] = slot[i]
           \/ /\ slot'[i].runAt = clock + 1 /\ clock' = clock + 1 /\ runs' = runs
              /\ \A j \in Slots : j # i => slot'[j] = slot[j]
<1>1. CASE slot' = slot
  BY <1>1
<1>2. CASE slot' # slot
  <2>1. PICK j \in scene.slots : InvocationStep(j)
    BY <1>2 DEF Next, MigrateNext, InvocationNext, InvocationStep, Deploy, Release, ReadSummary,
                ReadHistory, Respond, vars, indexerVars
  <2>2. j \in Slots
    BY StorageAssumption DEF StorageTyped
  <2>3. \A k \in Slots : slot'[k] = slot[k] \/ k = j
    BY <2>1, <2>2, SameBuild DEF StorageTyped
  <2>4. CASE i # j
    BY <2>3, <2>4
  <2>5. CASE i = j
    <3>1. slot \in [Slots -> AnySlot] /\ slot[i] \in SlotType
      BY DEF StorageTyped, AnySlot
    <3>2. CASE PickTarget(i)
      <4> DEFINE s == [slot[i] EXCEPT !.pc = "insert", !.runAt = clock + 1]
      <4>1. slot' = [slot EXCEPT ![i] = s] /\ clock' = clock + 1 /\ runs' = runs
        BY <3>2 DEF PickTarget, dbvars
      <4>2. s.runAt = clock + 1
        BY <3>1 DEF SlotType
      <4> HIDE DEF s
      <4> QED
        BY <2>3, <2>5, <3>1, <4>1, <4>2
    <3>3. CASE \E q \in scene.requests : Post(i, q.secret, q.bearer, q.shard, q.total, q.env)
      <4>1. PICK q \in scene.requests : Post(i, q.secret, q.bearer, q.shard, q.total, q.env)
        BY <3>3
      <4> DEFINE targets == SelectShard(BuildTargets(deployed), ResolvedSpec(q.shard, q.total))
                 s == [Off EXCEPT !.pc = "prepare", !.build = deployed, !.left = targets,
                                  !.todo = targets]
                 t == [Off EXCEPT !.threw = TRUE, !.wrote = slot[i].wrote]
      <4>2. s.pc # "insert" /\ t.pc # "insert" /\ Off.pc # "insert"
        BY DEF Off
      <4>3. \/ slot' = [slot EXCEPT ![i] = Off] \/ slot' = [slot EXCEPT ![i] = t]
            \/ slot' = [slot EXCEPT ![i] = s]
        BY <4>1 DEF Post, Answered, Threw
      <4> HIDE DEF s, t
      <4> QED
        BY <3>1, <4>2, <4>3
    <3>4. CASE \E env \in scene.consoles : StartLoop(i, env)
      <4> DEFINE s == [Off EXCEPT !.pc = "prepare", !.build = deployed, !.kind = "loop",
                          !.left = BuildTargets(deployed), !.todo = BuildTargets(deployed)]
      <4>1. s.pc # "insert"
        BY DEF Off
      <4>2. slot' = [slot EXCEPT ![i] = s]
        BY <3>4 DEF StartLoop
      <4> HIDE DEF s
      <4> QED
        BY <3>1, <4>1, <4>2
    <3>5. CASE LoopFires(i) \/ Killed(i) \/ CycleOver(i)
      <4> DEFINE s == [Off EXCEPT !.pc = "pick", !.kind = "loop", !.build = loop.build,
                                  !.todo = loop.targets]
      <4>1. s.pc # "insert" /\ Off.pc # "insert"
        BY DEF Off
      <4>2. slot' = [slot EXCEPT ![i] = s] \/ slot' = [slot EXCEPT ![i] = Off]
        BY <3>5 DEF LoopFires, Killed, CycleOver, Answered
      <4> HIDE DEF s
      <4> QED
        BY <3>1, <4>1, <4>2
    <3>6. CASE Upsert(i) \/ Prepared(i)
      <4> DEFINE t == [Off EXCEPT !.threw = TRUE, !.wrote = slot[i].wrote]
                 u == [slot[i] EXCEPT !.left = Tail(@)]
                 s == [slot[i] EXCEPT !.pc = "pick"]
      <4>1. t.pc # "insert" /\ s.pc # "insert" /\ u.pc = slot[i].pc /\ slot[i].pc = "prepare"
        BY <3>1, <3>6 DEF Off, SlotType, Upsert, Prepared
      <4>2. \/ slot' = [slot EXCEPT ![i] = t] \/ slot' = [slot EXCEPT ![i] = u]
            \/ slot' = [slot EXCEPT ![i] = s]
        BY <3>6 DEF Upsert, Prepared, Threw
      <4> HIDE DEF s, t, u
      <4> QED
        BY <3>1, <4>1, <4>2
    <3>7. CASE \E status \in {"ok", "failed"} : Record(i, status)
      <4> DEFINE s == [slot[i] EXCEPT !.pc = "pick", !.todo = Tail(@), !.wrote = @ + 1]
                 d == [slot[i] EXCEPT !.pc = "pick", !.todo = Tail(@)]
      <4>1. s.pc # "insert" /\ d.pc # "insert"
        BY <3>1 DEF SlotType
      <4>2. slot' = [slot EXCEPT ![i] = s] \/ slot' = [slot EXCEPT ![i] = d]
        BY <3>7 DEF Record
      <4> HIDE DEF s, d
      <4> QED
        BY <3>1, <4>1, <4>2
    <3> QED
      BY <2>1, <2>5, <3>2, <3>3, <3>4, <3>5, <3>6, <3>7 DEF InvocationStep
  <2> QED
    BY <2>4, <2>5
<1> QED
  BY <1>1, <1>2

LEMMA TimesStep ==
    ASSUME StorageTyped, TimesDiffer, [Next]_vars
    PROVE  TimesDiffer'
<1>1. clock \in Nat /\ clock' \in Nat /\ clock <= clock'
  BY TimesAdvance DEF StorageTyped
<1>2. RowsKept
  BY StepKeepsRows
<1>3. \A x : x \in 1 .. clock => x \in 1 .. clock' /\ x # clock + 1
  BY <1>1
<1>4. CASE \A k \in DOMAIN runs' : k \in DOMAIN runs /\ runs'[k].runAt = runs[k].runAt
  <2>1. /\ \A k \in DOMAIN runs' : runs'[k].runAt \in 1 .. clock'
        /\ \A k, n \in DOMAIN runs' : runs'[k].runAt = runs'[n].runAt => k = n
    BY <1>3, <1>4 DEF TimesDiffer
  <2>2. ASSUME NEW i \in Slots, slot'[i].pc = "insert"
        PROVE  /\ slot'[i].runAt \in 1 .. clock'
               /\ \A k \in DOMAIN runs' : runs'[k].runAt # slot'[i].runAt
               /\ \A j \in Slots : slot'[j].pc = "insert" /\ slot'[j].runAt = slot'[i].runAt
                                      => i = j
    <3>1. slot'[i].runAt \in 1 .. clock'
      BY <1>1, <1>3, <2>2, PickedUp DEF TimesDiffer
    <3>2. ASSUME NEW k \in DOMAIN runs'
          PROVE  runs'[k].runAt # slot'[i].runAt
      <4>1. k \in DOMAIN runs /\ runs'[k].runAt = runs[k].runAt /\ runs[k].runAt \in 1 .. clock
        BY <1>4 DEF TimesDiffer
      <4> QED
        BY <1>3, <2>2, <4>1, PickedUp DEF TimesDiffer
    <3>3. ASSUME NEW j \in Slots, slot'[j].pc = "insert", slot'[j].runAt = slot'[i].runAt, i # j
          PROVE  FALSE
      <4>1. (slot[i].pc = "insert" /\ slot'[i] = slot[i]) \/ slot'[i].runAt = clock + 1
        BY <2>2, PickedUp
      <4>2. (slot[j].pc = "insert" /\ slot'[j] = slot[j]) \/ slot'[j].runAt = clock + 1
        BY <3>3, PickedUp
      <4>3. (slot[i].pc = "insert" /\ slot'[i] = slot[i])
            \/ (slot'[i].runAt = clock + 1 /\ slot'[j] = slot[j])
        BY <2>2, <3>3, PickedUp
      <4>4. (slot[j].pc = "insert" /\ slot'[j] = slot[j])
            \/ (slot'[j].runAt = clock + 1 /\ slot'[i] = slot[i])
        BY <2>2, <3>3, PickedUp
      <4> QED
        BY <1>3, <2>2, <3>3, <4>1, <4>2, <4>3, <4>4 DEF TimesDiffer
    <3> QED
      BY <3>1, <3>2, <3>3
  <2> QED
    BY <2>1, <2>2 DEF TimesDiffer
<1>5. ASSUME NEW i \in Slots, NEW status \in {"ok", "failed"}, Inserts(i, status)
      PROVE  TimesDiffer'
  <2> DEFINE new == Len(runs) + 1
  <2>1. /\ slot[i].pc = "insert" /\ slot[i].runAt \in 1 .. clock
        /\ \A k \in DOMAIN runs : runs[k].runAt # slot[i].runAt
    BY <1>5 DEF Inserts, TimesDiffer
  <2>2. /\ DOMAIN runs' = DOMAIN runs \cup {new} /\ new \notin DOMAIN runs
        /\ runs'[new].runAt = slot[i].runAt
        /\ \A k \in DOMAIN runs : runs'[k] = runs[k]
    BY <1>5, InsertAddsRow
  <2>3. runs' # runs
    BY <2>2
  <2>4. slot'[i].pc # "insert"
    <3> DEFINE s == [slot[i] EXCEPT !.pc = "pick", !.todo = Tail(@), !.wrote = @ + 1]
    <3>1. slot' = [slot EXCEPT ![i] = s]
      BY <1>5 DEF Inserts
    <3>2. s.pc = "pick"
      BY DEF StorageTyped, AnySlot, SlotType
    <3> HIDE DEF s
    <3> QED
      BY <3>1, <3>2 DEF StorageTyped
  <2>5. \A j \in Slots : slot'[j].pc = "insert" => slot[j].pc = "insert" /\ slot'[j] = slot[j]
                                                   /\ j # i
    BY <2>3, <2>4, PickedUp
  <2> HIDE DEF new
  <2>6. /\ \A k \in DOMAIN runs' : runs'[k].runAt \in 1 .. clock'
        /\ \A k, n \in DOMAIN runs' : runs'[k].runAt = runs'[n].runAt => k = n
    BY <1>3, <2>1, <2>2 DEF TimesDiffer
  <2>7. \A j \in Slots : slot'[j].pc = "insert" =>
          /\ slot'[j].runAt \in 1 .. clock'
          /\ \A k \in DOMAIN runs' : runs'[k].runAt # slot'[j].runAt
          /\ \A n \in Slots : slot'[n].pc = "insert" /\ slot'[n].runAt = slot'[j].runAt => j = n
    BY <1>3, <2>1, <2>2, <2>5 DEF TimesDiffer
  <2> QED
    BY <2>6, <2>7 DEF TimesDiffer
<1>6. ASSUME NEW m \in Migrators, Commits(m)
      PROVE  TimesDiffer'
  <2>1. DOMAIN runs' = DOMAIN runs
    BY <1>6 DEF Commits, RunsAfter
  <2> QED
    BY <1>2, <1>4, <2>1 DEF RowsKept
<1>7. CASE runs' = runs
  BY <1>4, <1>7
<1> QED
  BY <1>5, <1>6, <1>7, TableSteps

\* The runs of a protocol, newest first.
Newer(p) == {r \in RunsOf(p) \X RunsOf(p) : runs[r[1]].runAt > runs[r[2]].runAt}

Shown(p, limit) == {i \in RunsOf(p) : Place(Newer(p), RunsOf(p))[i] < limit}

LEMMA NewestFirst ==
    ASSUME StorageTyped, TimesDiffer, NEW p, NEW limit \in Nat
    PROVE  /\ RunsOf(p) \in SUBSET DOMAIN runs /\ Ranked(Newer(p), RunsOf(p))
           /\ Ranked(Newer(p), Shown(p, limit))
           /\ \A i \in Shown(p, limit) :
                 Place(Newer(p), Shown(p, limit))[i] = Place(Newer(p), RunsOf(p))[i]
           /\ \A i, j \in RunsOf(p) : <<i, j>> \in Newer(p) <=> runs[i].runAt > runs[j].runAt
<1> DEFINE mine == RunsOf(p)
           R == Newer(p)
           shown == Shown(p, limit)
<1>1. mine \in SUBSET DOMAIN runs /\ shown \in SUBSET mine
  BY DEF RunsOf, Shown
<1>2. IsFiniteSet(mine) /\ IsFiniteSet(shown)
  <2>1. DOMAIN runs = 1 .. Len(runs) /\ Len(runs) \in Nat
    BY DEF StorageTyped
  <2>2. IsFiniteSet(DOMAIN runs)
    BY <2>1, FS_Interval
  <2> HIDE DEF mine, shown
  <2>3. IsFiniteSet(mine)
    BY <1>1, <2>2, FS_Subset
  <2> QED
    BY <1>1, <2>3, FS_Subset
<1>3. \A i, j \in mine : <<i, j>> \in R <=> runs[i].runAt > runs[j].runAt
  BY DEF Newer
<1>4. \A i, j \in mine : runs[i].runAt = runs[j].runAt => i = j
  BY <1>1 DEF TimesDiffer
<1>5. \A i \in mine : runs[i].runAt \in Nat
  BY <1>1 DEF StorageTyped, AnyRow
<1> HIDE DEF mine, R, shown
<1>6. StrictlyOrders(R, mine) /\ StrictlyOrders(R, shown)
  <2>1. \A i \in mine : <<i, i>> \notin R
    BY <1>3, <1>5
  <2>2. \A i, j \in mine : i # j => <<i, j>> \in R \/ <<j, i>> \in R
    BY <1>3, <1>4, <1>5
  <2>3. \A i, j, k \in mine : <<i, j>> \in R /\ <<j, k>> \in R => <<i, k>> \in R
    BY <1>3, <1>5
  <2> QED
    BY <1>1, <2>1, <2>2, <2>3 DEF StrictlyOrders
<1>7. Ranked(R, mine) /\ Ranked(R, shown)
  BY <1>2, <1>6, Ranking
<1>8. ASSUME NEW i \in shown
      PROVE  Place(R, shown)[i] = Place(R, mine)[i]
  <2> DEFINE place == Place(R, mine)
  <2>1. /\ place \in [mine -> 0 .. Cardinality(mine) - 1] /\ Cardinality(mine) \in Nat
        /\ \A x, y \in mine : place[x] < place[y] <=> <<x, y>> \in R
    BY <1>7 DEF Ranked
  <2>2. \A x \in mine : x \in shown <=> place[x] < limit
    BY DEF shown, Shown, mine, R
  <2> HIDE DEF place
  <2>3. i \in mine /\ place[i] < limit
    BY <1>1, <2>2
  <2>4. ASSUME NEW x \in mine, <<x, i>> \in R
        PROVE  x \in shown
    <3>1. place[x] < place[i] /\ place[x] \in Int /\ place[i] \in Int
      BY <2>1, <2>3, <2>4
    <3>2. place[x] < limit
      BY <2>3, <3>1
    <3> QED
      BY <2>2, <3>2
  <2>5. {x \in shown : <<x, i>> \in R} = {x \in mine : <<x, i>> \in R}
    BY <1>1, <2>4
  <2> QED
    BY <1>1, <2>3, <2>5 DEF Place
<1> QED
  BY <1>1, <1>3, <1>7, <1>8 DEF mine, R, shown

\* The page's list: the newest runs in order, and any run that is not in it is older than
\* all of them, of which there are then as many as it holds.
Covers(history, p, limit) ==
    /\ \A k \in 2 .. Len(history) : history[k - 1].runAt > history[k].runAt
    /\ \A i \in RunsOf(p) :
          /\ history # <<>> /\ history[1].runAt >= runs[i].runAt
          /\ \/ \E k \in DOMAIN history : /\ history[k].status = runs[i].status
                                           /\ history[k].runAt = runs[i].runAt
             \/ Len(history) = limit /\ history[limit].runAt > runs[i].runAt

LEMMA RecentRunsCover ==
    ASSUME StorageTyped, TimesDiffer, NEW p, NEW limit \in Nat \ {0}
    PROVE  Covers(RecentRuns(p, limit), p, limit)
<1> DEFINE mine == RunsOf(p)
           shown == Shown(p, limit)
           place == Place(Newer(p), mine)
           n == Cardinality(shown)
           m == Cardinality(mine)
           at(k) == CHOOSE i \in shown : place[i] + 1 = k
           h == [k \in 1 .. n |-> [status |-> runs[at(k)].status, runAt |-> runs[at(k)].runAt,
                                    version |-> runs[at(k)].version]]
<1>1. /\ mine \in SUBSET DOMAIN runs /\ shown \in SUBSET mine
      /\ \A i \in mine : i \in shown <=> place[i] < limit
  BY NewestFirst DEF Shown
<1>2. \A i \in mine : runs[i].runAt \in Nat
  BY <1>1 DEF StorageTyped, AnyRow
<1>3. /\ m \in Nat /\ place \in [mine -> 0 .. m - 1]
      /\ \A i, j \in mine : place[i] < place[j] <=> runs[i].runAt > runs[j].runAt
      /\ \A i, j \in mine : place[i] = place[j] => i = j
      /\ \A k \in 0 .. m - 1 : \E i \in mine : place[i] = k
  BY NewestFirst DEF Ranked
<1>4. /\ n \in Nat
      /\ \A i \in shown : place[i] \in 0 .. n - 1
      /\ \A k \in 0 .. n - 1 : \E i \in shown : place[i] = k
  BY NewestFirst DEF Ranked
<1>5. RecentRuns(p, limit) = h
  <2> DEFINE newer(i) == {j \in mine : runs[j].runAt > runs[i].runAt}
  <2>1. ASSUME NEW i \in mine
        PROVE  Cardinality(newer(i)) = place[i]
    <3>1. \A j \in mine : <<j, i>> \in Newer(p) <=> runs[j].runAt > runs[i].runAt
      BY NewestFirst
    <3>2. newer(i) = {j \in mine : <<j, i>> \in Newer(p)}
      BY <3>1
    <3> QED
      BY <3>2 DEF Place
  <2> DEFINE seen == {i \in mine : Cardinality(newer(i)) < limit}
             pick(k) == CHOOSE i \in seen : Cardinality(newer(i)) + 1 = k
  <2>2. RecentRuns(p, limit) =
            [k \in 1 .. Cardinality(seen) |->
                [status |-> runs[pick(k)].status, runAt |-> runs[pick(k)].runAt,
                 version |-> runs[pick(k)].version]]
    BY Zenon DEF RecentRuns
  <2> HIDE DEF newer
  <2>3. shown = seen
    BY <2>1 DEF Shown
  <2>4. \A k : at(k) = pick(k)
    <3>1. \A i \in shown : \A k : place[i] + 1 = k <=> Cardinality(newer(i)) + 1 = k
      BY <1>1, <2>1
    <3> HIDE DEF shown, place, seen
    <3> QED
      BY <2>3, <3>1
  <2> HIDE DEF at, pick, seen, shown
  <2> QED
    BY <2>2, <2>3, <2>4
<1>6. ASSUME NEW k \in 1 .. n
      PROVE  at(k) \in shown /\ place[at(k)] = k - 1
  <2>1. k - 1 \in 0 .. n - 1 /\ k - 1 + 1 = k
    BY <1>4
  <2>2. \E i \in shown : place[i] + 1 = k
    BY <1>4, <2>1
  <2>3. at(k) \in shown /\ place[at(k)] + 1 = k
    BY <2>2
  <2>4. place[at(k)] \in Int
    BY <1>4, <2>3
  <2> HIDE DEF at, place
  <2> QED
    BY <2>3, <2>4
<1>7. /\ Len(h) = n /\ DOMAIN h = 1 .. n /\ (h = <<>> => n = 0)
      /\ \A k \in 1 .. n : h[k].status = runs[at(k)].status /\ h[k].runAt = runs[at(k)].runAt
  <2> HIDE DEF at, n
  <2>1. DOMAIN h = 1 .. n
    OBVIOUS
  <2>2. \A k \in 1 .. n : h[k].status = runs[at(k)].status /\ h[k].runAt = runs[at(k)].runAt
    OBVIOUS
  <2>3. Len(h) = n
    BY <1>4, <2>1
  <2>4. h = <<>> => n = 0
    BY <2>3
  <2> QED
    BY <2>1, <2>2, <2>3, <2>4
<1> HIDE DEF h, at, place, n, m, mine, shown
<1>8. ASSUME NEW k \in 2 .. Len(h)
      PROVE  h[k - 1].runAt > h[k].runAt
  <2>1. k \in 1 .. n /\ k - 1 \in 1 .. n
    BY <1>4, <1>7
  <2>2. /\ at(k) \in mine /\ at(k - 1) \in mine
        /\ place[at(k)] = k - 1 /\ place[at(k - 1)] = k - 1 - 1
    BY <1>1, <1>6, <2>1
  <2>3. place[at(k - 1)] < place[at(k)]
    BY <2>1, <2>2
  <2> QED
    BY <1>3, <1>7, <2>1, <2>2, <2>3
<1>9. ASSUME NEW i \in mine, NEW k \in 1 .. n, place[i] > k - 1
      PROVE  h[k].runAt > runs[i].runAt
  <2>1. at(k) \in mine /\ place[at(k)] < place[i]
    BY <1>1, <1>3, <1>6, <1>9
  <2> QED
    BY <1>3, <1>7, <2>1
<1>10. ASSUME NEW i \in shown
       PROVE  /\ place[i] + 1 \in 1 .. n
              /\ h[place[i] + 1].status = runs[i].status /\ h[place[i] + 1].runAt = runs[i].runAt
  <2> DEFINE k == place[i] + 1
  <2>1. k \in 1 .. n /\ place[i] = k - 1
    BY <1>4
  <2>2. at(k) \in shown /\ place[at(k)] = place[i]
    BY <1>6, <2>1
  <2>3. at(k) = i
    BY <1>1, <1>3, <2>2
  <2> QED
    BY <1>7, <2>1, <2>3
<1>11. ASSUME NEW i \in mine
       PROVE  /\ h # <<>> /\ h[1].runAt >= runs[i].runAt
              /\ \/ \E k \in DOMAIN h : h[k].status = runs[i].status /\ h[k].runAt = runs[i].runAt
                 \/ Len(h) = limit /\ h[limit].runAt > runs[i].runAt
  <2>1. place[i] \in 0 .. m - 1
    BY <1>3
  <2>2. CASE i \in shown
    <3>1. /\ place[i] + 1 \in 1 .. n
          /\ h[place[i] + 1].status = runs[i].status /\ h[place[i] + 1].runAt = runs[i].runAt
      BY <1>10, <2>2
    <3>2. n > 0 /\ 1 \in 1 .. n
      BY <1>4, <3>1
    <3>3. h[1].runAt >= runs[i].runAt
      <4>1. CASE place[i] = 0
        BY <1>2, <3>1, <4>1
      <4>2. CASE place[i] > 0
        <5>1. h[1].runAt > runs[i].runAt
          BY <1>9, <3>2, <4>2
        <5>2. h[1].runAt \in Int
          BY <1>1, <1>2, <1>6, <1>7, <3>2
        <5> QED
          BY <1>2, <5>1, <5>2
      <4> QED
        BY <2>1, <4>1, <4>2
    <3> QED
      BY <1>7, <3>1, <3>2, <3>3
  <2>3. CASE i \notin shown
    <3>1. limit <= place[i]
      BY <1>1, <1>3, <2>1, <2>3
    <3>2. limit - 1 \in 0 .. m - 1
      BY <1>3, <2>1, <3>1
    <3>3. PICK last \in mine : place[last] = limit - 1
      BY <1>3, <3>2
    <3>4. last \in shown
      BY <1>1, <3>3
    <3>5. limit - 1 \in 0 .. n - 1
      BY <1>4, <3>3, <3>4
    <3>6. n = limit
      <4>1. PICK j \in shown : place[j] = n - 1
        BY <1>4, <3>5
      <4>2. n - 1 < limit
        BY <1>1, <4>1
      <4> QED
        BY <1>4, <3>5, <4>2
    <3>7. h[limit].runAt > runs[i].runAt
      <4>1. limit \in 1 .. n /\ place[i] > limit - 1
        BY <2>1, <3>1, <3>6
      <4> QED
        BY <1>9, <4>1
    <3>8. h[1].runAt >= runs[i].runAt
      <4>1. 1 \in 1 .. n /\ place[i] > 0
        BY <2>1, <3>1, <3>6
      <4>2. h[1].runAt > runs[i].runAt
        BY <1>9, <4>1
      <4>3. h[1].runAt \in Int
        BY <1>1, <1>2, <1>6, <1>7, <4>1
      <4> QED
        BY <1>2, <4>2, <4>3
    <3> QED
      BY <1>7, <3>6, <3>7, <3>8
  <2> QED
    BY <2>2, <2>3
<1>12. Covers(h, p, limit)
  BY <1>8, <1>11 DEF Covers, mine
<1> QED
  BY <1>5, <1>12

\* A detail request between its two statements, and after them.
ReaderRight(r) ==
    LET summary == reader[r].summary  history == reader[r].history IN
    /\ \E pc \in {"idle", "half", "done"} :
          reader[r] = [pc |-> pc, summary |-> summary, history |-> history]
    /\ reader[r].pc = "half" /\ summary.lastRunAt # 0 =>
          \E k \in RunsOf(summary.id) : /\ runs[k].runAt = summary.lastRunAt
                                        /\ runs[k].status = summary.lastRunStatus
    /\ reader[r].pc = "done" /\ summary.lastRunAt # 0 =>
          /\ history # <<>>
          /\ history[1].runAt >= summary.lastRunAt
          /\ \A k \in 2 .. Len(history) : history[k - 1].runAt > history[k].runAt
          /\ \/ \E k \in DOMAIN history : /\ history[k].status = summary.lastRunStatus
                                          /\ history[k].runAt = summary.lastRunAt
             \/ Len(history) = HistoryLimit /\ history[HistoryLimit].runAt > summary.lastRunAt

ReadersRight ==
    /\ reader = [r \in Readers |-> reader[r]]
    /\ \A r \in Readers : ReaderRight(r)

\* A request that does nothing while rows are only added.
LEMMA ReaderWaits ==
    ASSUME NEW r \in Readers, ReaderRight(r), RowsKept, reader'[r] = reader[r]
    PROVE  ReaderRight(r)'
<1>1. \A p : \A k \in RunsOf(p) : /\ k \in RunsOf(p)' /\ runs'[k].runAt = runs[k].runAt
                                  /\ runs'[k].status = runs[k].status
  BY DEF RowsKept, RunsOf
<1> QED
  BY <1>1 DEF ReaderRight, RunsOf

LEMMA ReadSummaryStep ==
    ASSUME StorageTyped, LatestIs, NEW r \in Readers, ReaderRight(r), NEW p \in Protocols,
           ReadSummary(r, p), reader = [x \in Readers |-> reader[x]]
    PROVE  ReaderRight(r)'
<1> DEFINE summary == Entry(p)
           half == [pc |-> "half", summary |-> summary, history |-> <<>>]
<1>1. reader'[r] = half /\ runs' = runs
  BY DEF ReadSummary, dbvars
<1>2. /\ summary.id = p /\ summary.lastRunAt = LatestRun(p).runAt
      /\ summary.lastRunStatus = LatestRun(p).status
  BY DEF Entry
<1>3. ASSUME summary.lastRunAt # 0
      PROVE  \E k \in RunsOf(p) : /\ runs[k].runAt = summary.lastRunAt
                                  /\ runs[k].status = summary.lastRunStatus
  <2>1. LatestRun(p) # NoRow
    BY <1>2, <1>3 DEF NoRow
  <2>2. \E k \in RunsOf(p) : LatestRun(p) = [status |-> runs[k].status, runAt |-> runs[k].runAt,
                                             version |-> runs[k].version]
    BY <2>1 DEF LatestIs
  <2> QED
    BY <1>2, <2>2
<1>4. RunsOf(p)' = RunsOf(p)
  BY <1>1 DEF RunsOf
<1> HIDE DEF summary
<1>5. half.pc = "half" /\ half.summary = summary /\ half.history = <<>>
  OBVIOUS
<1> HIDE DEF half
<1>6. RunsOf(reader[r].summary.id)' = RunsOf(p)
  BY <1>1, <1>2, <1>5 DEF RunsOf
<1>7. reader'[r] = [pc |-> "half", summary |-> reader'[r].summary, history |-> reader'[r].history]
  BY <1>1, <1>5 DEF half
<1> QED
  BY <1>1, <1>2, <1>3, <1>5, <1>6, <1>7 DEF ReaderRight

LEMMA ReadHistoryStep ==
    ASSUME StorageTyped, TimesDiffer, NEW r \in Readers, ReaderRight(r), ReadHistory(r),
           reader = [x \in Readers |-> reader[x]]
    PROVE  ReaderRight(r)'
<1> DEFINE summary == reader[r].summary
           history == RecentRuns(summary.id, HistoryLimit)
           done == [pc |-> "done", summary |-> summary, history |-> history]
<1>1. reader' = [reader EXCEPT ![r].pc = "done", ![r].history = history] /\ reader[r].pc = "half"
  BY DEF ReadHistory
<1>2. Covers(history, summary.id, HistoryLimit)
  <2>1. HistoryLimit \in Nat \ {0}
    BY StoreAssumption
  <2> QED
    BY <2>1, RecentRunsCover
<1>3. ASSUME summary.lastRunAt # 0
      PROVE  \E k \in RunsOf(summary.id) : /\ runs[k].runAt = summary.lastRunAt
                                           /\ runs[k].status = summary.lastRunStatus
  BY <1>1, <1>3 DEF ReaderRight
<1>4. reader[r] = [pc |-> "half", summary |-> summary, history |-> reader[r].history]
  BY <1>1 DEF ReaderRight
<1> HIDE DEF history, summary
<1>5. reader'[r] = done
  <2> DEFINE old == reader[r].history
             half == [pc |-> "half", summary |-> summary, history |-> old]
  <2>1. [half EXCEPT !.pc = "done", !.history = history]
            = [[half EXCEPT !.pc = "done"] EXCEPT !.history = history]
    BY Zenon
  <2>2. [half EXCEPT !.pc = "done"] = [pc |-> "done", summary |-> summary, history |-> old]
    OBVIOUS
  <2>3. [[pc |-> "done", summary |-> summary, history |-> old] EXCEPT !.history = history] = done
    OBVIOUS
  <2>4. reader[r] = half
    BY <1>4
  <2>5. reader'[r] = [reader[r] EXCEPT !.pc = "done", !.history = history]
    BY <1>1
  <2> QED
    BY <2>1, <2>2, <2>3, <2>4, <2>5
<1>6. done.pc = "done" /\ done.summary = summary /\ done.history = history
  OBVIOUS
<1>7. reader'[r] = [pc |-> "done", summary |-> reader'[r].summary, history |-> reader'[r].history]
  BY <1>5, <1>6
<1> HIDE DEF done
<1>8. ASSUME summary.lastRunAt # 0
      PROVE  /\ history # <<>>
             /\ history[1].runAt >= summary.lastRunAt
             /\ \A k \in 2 .. Len(history) : history[k - 1].runAt > history[k].runAt
             /\ \/ \E k \in DOMAIN history : /\ history[k].status = summary.lastRunStatus
                                             /\ history[k].runAt = summary.lastRunAt
                \/ /\ Len(history) = HistoryLimit
                   /\ history[HistoryLimit].runAt > summary.lastRunAt
  <2>1. PICK i \in RunsOf(summary.id) : /\ runs[i].runAt = summary.lastRunAt
                                        /\ runs[i].status = summary.lastRunStatus
    BY <1>3, <1>8
  <2> QED
    BY <1>2, <2>1 DEF Covers
<1> QED
  BY <1>5, <1>6, <1>7, <1>8 DEF ReaderRight

LEMMA ReadersStep ==
    ASSUME StorageTyped, TimesDiffer, ReadersRight, [Next]_vars
    PROVE  ReadersRight'
<1>1. RowsKept
  BY StepKeepsRows
<1>2. CASE reader' = reader
  BY <1>1, <1>2, ReaderWaits DEF ReadersRight
<1>3. CASE reader' # reader
  <2>1. PICK r \in scene.readers : \/ \E p \in Protocols : ReadSummary(r, p)
                                   \/ ReadHistory(r) \/ Respond(r)
    BY <1>3 DEF Next, Deploy, Release, vars
  <2>2. r \in Readers
    BY StorageAssumption DEF StorageTyped
  <2>3. LatestIs
    BY LatestRuns
  <2>4. \E x : reader' = [reader EXCEPT ![r] = x]
    <3>1. CASE ReadHistory(r)
      <4> DEFINE x == [reader[r] EXCEPT !.pc = "done",
                          !.history = RecentRuns(reader[r].summary.id, HistoryLimit)]
      <4>1. reader' = [reader EXCEPT ![r] = x]
        BY <3>1 DEF ReadHistory
      <4> QED
        BY <4>1
    <3> QED
      BY <2>1, <3>1 DEF ReadSummary, Respond
  <2>5. /\ reader' = [x \in Readers |-> reader'[x]]
        /\ \A x \in Readers : x # r => reader'[x] = reader[x]
    BY <2>4 DEF ReadersRight
  <2>6. ReaderRight(r)'
    <3>1. CASE Respond(r)
      <4>1. reader'[r] = Idle
        BY <2>2, <3>1 DEF Respond, ReadersRight
      <4> QED
        BY <4>1 DEF Idle, ReaderRight
    <3> QED
      BY <2>1, <2>2, <2>3, <3>1, ReadSummaryStep, ReadHistoryStep DEF ReadersRight
  <2>7. ASSUME NEW x \in Readers
        PROVE  ReaderRight(x)'
    <3>1. CASE x = r
      BY <2>6, <3>1
    <3>2. CASE x # r
      BY <1>1, <2>5, <3>2, ReaderWaits DEF ReadersRight
    <3> QED
      BY <3>1, <3>2
  <2> QED
    BY <2>5, <2>7 DEF ReadersRight
<1> QED
  BY <1>2, <1>3

\* With any number of requests, rows and overlapping cycles: although a page's summary and
\* its history are two statements without a transaction, the history is in order, is never
\* behind the summary, and holds the failure that the page says is in it unless newer runs
\* fill it (store.ts:841-871).
THEOREM PagesAreConsistent == Spec => []DetailNeverAhead
<1>1. Init => TimesDiffer /\ ReadersRight
  <2> SUFFICES ASSUME Init
               PROVE  TimesDiffer /\ ReadersRight
    OBVIOUS
  <2>1. \A i \in Slots : slot[i].pc = "off"
    BY OffSlot DEF Init, IndexerInit
  <2>2. runs = <<>> /\ reader = [r \in Readers |-> Idle]
    BY DEF Init
  <2>3. TimesDiffer
    BY <2>1, <2>2 DEF TimesDiffer
  <2>4. \A r \in Readers : reader[r] = Idle
    BY <2>2
  <2>5. reader = [r \in Readers |-> reader[r]]
    BY <2>2
  <2>6. \A r \in Readers : ReaderRight(r)
    BY <2>4 DEF ReaderRight, Idle
  <2> QED
    BY <2>3, <2>5, <2>6 DEF ReadersRight
<1>2. StorageTyped /\ TimesDiffer /\ ReadersRight /\ [Next]_vars => TimesDiffer' /\ ReadersRight'
  BY TimesStep, ReadersStep
<1>3. ReadersRight => DetailNeverAhead
  <2> SUFFICES ASSUME ReadersRight
               PROVE  DetailNeverAhead
    OBVIOUS
  <2>1. \A r \in Readers : FreshnessNotice(reader[r].summary)
                              => reader[r].summary.lastRunStatus = "failed"
    BY DEF FreshnessNotice, Tone
  <2> QED
    BY <2>1 DEF ReadersRight, ReaderRight, DetailNeverAhead
<1> QED
  BY <1>1, <1>2, <1>3, TypedInvariant, PTL DEF Spec
================================================================================
