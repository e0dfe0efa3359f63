# Formal verification of stenion

TLA+ modules that model the indexing, storing and serving of this repository, the TLC
configurations that check them on small instances, and TLAPS proofs of what matters most
for every size. `PROJECT.json` lists the components, runs, mutants, findings, hazards and
theorems, and maps every definition to the source lines it stands for.

## 1. The system

An external scheduler calls the cron route, one request per shard; the route runs one indexing
cycle, which reads the protocols of its shard from the chain through a shared public RPC,
scores them, appends one row for each to Postgres, derives alerts from the newest rows, and
posts them to a webhook. The dashboard and the public API read the rows, through a CDN.

| Component | Source | State it keeps | Operations | What is hard |
|---|---|---|---|---|
| Indexing cycle | `indexer/src/cycle.ts`, `retry.ts` | shared cursor, result and alert slots, one deadline per target | pick, attempt, time out, back off, write row, read streak, notify | workers over one cursor, timers against answers, abandoned attempts, a budget shared by all, a platform that kills the invocation |
| Streak alerts | `indexer/src/alerts.ts` | none but the rows | read the newest rows, decide | edges derived with no memory of what was sent; lost writes, reads and posts; overlapping cycles |
| RPC backoff | `core/src/rate-limit.ts`, `adapters/rate-limit.ts` | one attempt's retries and time slept | plan, record, sleep, give up | calls side by side on one allowance, a deadline enforced elsewhere |
| API rate limiter | `db/src/rate-limit.ts`, `dashboard/app/api/_shared.ts`, `_rate-limit.ts` | token-bucket rows; a memo per instance | take, prune, block, forget | requests racing for a row, three clock readings, stale memos, fail-open |
| Sharding and registry | `cycle.ts`, `indexer/src/index.ts` | `protocols` rows | order, deal, select a shard, upsert | each target once a rotation while hashes collide and the registry changes |
| Score store | `db/src/store.ts`, `pool.ts` | `risk_scores`, `protocols` | insert, newest rows, latest ok, detail, history, export | two-statement reads, rows written in another order than stamped, old builds under a new schema |
| Migrations | `db/src/migrate.ts`, `db/migrations` | `schema_migrations`, the schema | read the applied set, run a file, record it | two operators at once, crashes, a serving indexer |
| Cron route, configuration, long-running process | `run-indexer/route.ts`, `indexer/src/config.ts`, `index.ts` | the process's timer | check, configure, prepare, cycle, answer | which failure costs what; overlapping invocations |
| Scoring, operational state | `core/src/scoring.ts`, `weights.ts`, `operational-state.ts` | none | pure functions | boundaries, factors without a value |
| Ledger reads, read failures | `adapters/ledger-entries.ts`, `read-failure.ts` | none | de-duplicate, chunk, match, classify a failure | partial answers, chunks of different ledgers |
| Protocol adapters | `adapters/{blend,kinetic,aquarius}` | what one fetch has read | read by read, then score | a chain that moves meanwhile; what an unreadable value becomes |
| Cache, public API, export | `dashboard/app/api/_cache.ts`, `v1/*` | shared copies at the CDN | lifetime, answer | runs that come early or late, bodies that report several protocols |
| Health verdict, status page | `_health.ts`, `v1/health`, `app/status` | none; the page's data and error | verdict, poll, settle | verdicts that change with time alone, failed and reordered fetches |
| Registry, coverage, protocol pages | `app/registry`, `app/lib`, `components/registry-controls.tsx` | the search box and its timer | type, push, land, filter, group, rank, chart | an address and a box that each overwrite the other; entries that change category between requests |
| Decorative and static pages; standalone API server | rest of `dashboard`, `api/` | none that matters | - | not modelled, section 5 |

How they interact. The cron route and the long-running process call `runIndexerCycle`, which upserts
the registry (`prepare`) and calls `runCycle` with the targets of a shard. `runCycle` calls
`withRetry` for every target, which calls the adapter inside a `RateLimitBudget` whose end is
the attempt's; adapters make every transport call through `withRateLimitRetry`. The database is the
only thing that cycles, migrations, the API and the pages share. The pages read the
database in their own requests, or the API's copies at the CDN.

What each has to get right: a cycle ends near its budget and gives every target its
chance; an alert is true and sent once; a backoff never eats the attempt's deadline; a client
never gets more than its rate and never waits much longer than the bucket says; the shards
of a rotation cover the registry; what is published was true, and what could not be read
never becomes a good score; migrations never break a build that is serving; a page never
contradicts itself; a cached answer does not hide a newer run for long.

## 2. Modules

The indexing core:

- `CycleBudget` is the arithmetic of the budget: waves, target deadlines, feasibility, backoff.
- `Cycle` (extends it) is `runCycle` with `runOne`, `worker` and `withRetry`, one action
  per settled await. A worker's record `job[w]` holds the locals of `runOne` and of the
  retry loop; `made`, `begun`, `pickedAt` and `orphans` are history the code does not keep.
  `Pick` covers everything `runOne` does up to its first await. `Settle`, `BeginAttempt`
  and `AfterFailure` are the code between two awaits, as functions of the job.
- `OutageMonitor` is the abstract promise of alerting: a counter of consecutive failures,
  what is owed to the reader, what the reader was told.
- `StreakAlerts` is one protocol's row history with the cycles that append to it, read it
  back and post. A row is named by its place in `run_at` order (`runOne` stamps it before
  scoring). It refines `OutageMonitor`: `failing` is the streak at the end of the table,
  `due` what the cycle under way is about to announce, `told` the last alert delivered. Whether
  the scheduler waits for one cycle to end is chosen at the start (`overlapping`).
- `RateLimit` is one attempt's transport calls on their shared budget; `endsAt` is also
  the moment `runWithTimeout` fires. Calls go on after the attempt is given up, because
  nothing cancels them. An error is what detection reads of it (status, axios's sentence,
  `Retry-After`); Horizon's 429, a response and not a throw, becomes one on the way.

What is read from the chain:

- `Rulebook` is the arithmetic shared by the adapters: weighted means over the factors that have
  a value, the freshness window, which reserves are large enough to count, levels and their order.
- `ReadPath` is one fetch's world: the chain behind the endpoints, which other people's
  transactions change between two reads, the chunked ledger reader, and a read that is
  answered, refused or lost in transport. `row` is what is published.
- `BlendAdapter`, `KineticAdapter`, `AquariusAdapter` extend it: one action per read in the code's order, with
  `got` for the locals of the fetch, and the factors as operators on `got`. `Adapters` instantiates
  the three, says what their chains may hold and what a transaction may change, and states the properties;
  each behaviour is a fetch by one of them. `MCAdapters` gives TLC the chains.

What is stored:

- `Sharding` (extends `CycleBudget`) is the latency order, the deal by hash, and a request's shard specification.
- `Store` is every statement of the store, against the schema of the moment. Three
  builds of the indexer write: the first one, the one that stamps a methodology version,
  and the one in the repository. Only the last is in `src/`; the other two are
  modelled from what the migrations' headers say of them, and are marked external.
- `Migrate` (extends it) is the runner and the eight files: a schema is the set of parts that exist,
  the version column and its constraint. A file and the row that records it are one
  transaction, and ALTER TABLE keeps others off until COMMIT.
- `Indexer` is the route's checks in their order, configuration, `prepare`, the cycle's rows one by
  one, the timer of `main`, and a kill anywhere.
- `Storage` composes them with releases, deployments and the readers of a protocol's page,
  which take two statements. A `scene` says where a behaviour starts and who takes part.

What is shown:

- `ApiRateLimit` is the bucket row, the prune sweep, the memo, and the requests in
  `enforceRateLimit`. A bucket is counted in ticks of refill, so that the arithmetic is on
  integers. `plain` is a history variable: an ideal bucket with no debt floor and no
  pruning, spent by the requests that were served.
- `Delivery` is the copies a CDN shares, against runs that come early, late or never. Runs are kept as ages,
  up to an interval and the longest lag: an older run compares like one of that age with everything that may land.
- `HealthWatch` is the verdict, the endpoint's answers and failures, and the page that polls it.
- `SearchBox` is the registry's search control: text, last address rendered, debounce timer, navigation
  under way. A text keeps of its characters what an address does to them: `registryHref` drops outer space,
  and `parseRegistryParams` cuts what is left to 64. `RegistryPage` is the list that an address selects, grouped and ranked, over a
  board that changes between requests. `ScoreSeries` is the chart's lines and the run list.

`Filtering` and `Sorting` are what JavaScript's `filter` and `sort` return, for the modules that list things.

`MCCycle`, `MCStreakAlerts`, `MCRateLimit`, `MCApiRateLimit`, `MCAdapters`, `MCStorage` and `MCSite` instantiate
them for TLC. The parts of `MCSite` share no state, so each behaviour is of
one part. `CycleProofs`, `RateLimitProofs`, `StreakProofs`, `ApiRateLimitProofs`, `StorageProofs`,
`AdapterProofs` and `SiteProofs` hold the theorems, and `Extremes` the lemmas they share.

A definition that is said to be a mutant stands just before the operator it is a plausible
wrong version of, and is used by no specification.

### Time

The clocks of `Cycle`, `RateLimit`, `ApiRateLimit` and `ReadPath` are explicit. Code between two awaits takes no time: in
`Cycle`, `Tick` is disabled while a timer is due or something is ready to run. An adapter may
answer at any moment up to its timer, or never. A database write with its streak read takes
at most `MaxPersist` and the notifier at most `MaxNotify` (3 s, `WEBHOOK_TIMEOUT_MS`). `MaxNotify` is the
code's; `MaxPersist` is an assumption on the database, since `pool.ts` sets no timeout.
In `ApiRateLimit` the instances' and Postgres's clocks are one clock; skew between them
would lengthen or shorten a memo entry by as much. In `Storage`, `clock` is the last `run_at`
given: stamps are distinct, as timestamps in milliseconds of cycles that take seconds are.

## 3. Runs

| Run | Question | Bounds |
|---|---|---|
| `CyclePool` | the shared cursor with two workers out of step, retries, reservation, notification, and a kill inside the cycle | 3 targets, 2 workers, 3 attempts of at most 5, budget 10 = 2 waves, killed at 11 |
| `CycleStarved` | twice the waves the budget pays for, hanging adapters: bounds hold and the cycle ends | 4 targets, 1 worker, budget 4, attempt 2 |
| `StreakInformed` | deciding from rows alone implements `OutageMonitor`, liveness included | threshold 2, window 4, 9 cycles |
| `StreakFaulty` | alerts are accurate and once per outage whatever is lost or killed; no false alarm when invocations overlap | threshold 2, window 4; 8 cycles one at a time, 5 overlapping |
| `RateLimit` | the allowance is shared exactly, no backoff crosses the deadline | 3 calls, all four caps reached |
| `ApiServed` | nothing served on credit, no refusal from memory past the bucket's | 1 client, 2 instances, 2 requests, 7 ticks |
| `AdapterReads` | what each adapter publishes was true, and what was unread is unsafe or a failed run | 2 reserves, plain chains and their single variations, 1 transaction that lands meanwhile, chunks of 5 keys |
| `Storage` | schema, stamps, deal, and what is read back stay right under every process that shares the database | 3 protocols, 2 operators twice each, 2 invocations, 2 stamps, 4 scenes |
| `Serving` | what readers see agrees with what was recorded, and is late by a bounded time | 2 or 3 entries, 2 fetches in flight, windows of 4 runs |
| `CyclePastBudget`, `StreakUnannounced`, `KineticBlip` | violated: what a comment says and the code does not do (section 6) | smallest that shows it |

What the properties say, beyond their comments in the modules:

- `DealtOnce` is the pool's bookkeeping: a target picked is in exactly one worker's hands or in
  the result array, never in two and never lost, also after a failed write or a kill.
- `WithinDeadline` is stated on timers at every moment, so it needs the timer to be capped when it is
  set and the clock never to pass it.
- `PickedInTime` and `FirstAttemptFloor` are the guarantee of `targetDeadline` ("cannot eat the
  queue's last chance"), with the term the code leaves out: the time earlier waves spent
  writing rows. At the shipped values (equality) that term is the only slack there is.
- `OverrunBounded` is how late a cycle may really be; it is what should be held against `maxDuration`.
- `SerialOncePerOutage` and `SerialAlertsAccurate` need one cycle at a time; `NoFalseAlarm` does not.
  It is about the rows an alert names and how many failed between them, not about an unbroken streak: an overlapping
  cycle may write an ok row into the span once it has been read.
- `NeverOverServed` compares what was served with an ideal bucket. It needs rows to be kept at
  least as long as a bucket takes to fill from empty (an hour against a minute, as shipped), and
  holds up to the refill of one lock wait.
- `StateWasTrue` is about several readings reduced to one level and one list of blocked
  operations: with one transaction landing anywhere in the fetch the published pair is one
  that was true. `OneReadingPerAddress` is the same for an account that two contracts name.
- `TransportNeverScored` leaves Kinetic out, because it does not hold there (`KineticBlip`).
- `DeployedBuildWorks` is the promise in the migrations' headers, and what makes their order of
  defaults, back-fills and constraints matter; `StampsAreTrue` says that the back-fills wrote the
  truth. The lending rulebook is taken to be bumped to 2 with the present build, the case
  that 0004's header prepares for.
- `DetailNeverAhead` is what two statements without a transaction still guarantee, given that the
  history is read second; `ShownRunNeverGoesBack` what ordering by `run_at` gives overlapping cycles.
- `HiddenBriefly` bounds how long a copy hides a newer run: `MAX_TTL` always, `MIN_TTL` unless
  the run came before the schedule allows.
- `OutageReachesPage` is about 503 answers that are data, refreshes that fail, and fetches that
  settle out of order.
- `OwnLandingKeepsTyping` keeps the box as it is when the pushed text is one an address carries unchanged: no outer
  space, and 64 characters at most. Of any other it says what may replace the box's text; section 6.
- `LineHidesNothing` holds whatever the median is taken over, so long as half the window keeps a spacing.

Bounds. In `Cycle` everything that matters happens relative to attempt timeout, base delay,
minimum attempt and budget: values of 1 to 3 make all orders of these happen, ties included.
Three targets give a first, a middle and a last; two workers give every overlap of two. In
`StreakAlerts` the floor of the window is 0 instead of 20, so that a window of 4 fills up and slides
within 8 rows. In `RateLimit` a call's cap is 2 instead of 3, because with the shipped
policy the backoff budget alone refuses the fourth retry and the cap would never be seen.
In `AdapterReads` a chain starts plain or with one thing different from plain (thirty-odd
starts): every gate, ceiling and failure of the scores is reached by one of them, and five keys
per call split the reads of two reserves over two ledgers. `StaleCeiling` is 6 against a clock from 10 to
12, so that prices are fresh, fading, stale and past the ceiling. One transaction is the
bound that `StateWasTrue` states; two could each hide the other from the reader. In
`Storage`, two of the three ids share a hash, a history page holds one row (the order of a longer one is proved and not checked), and the scenes
are: a database migrated from nothing under a serving indexer, the shards of a rotation with
requests that are refused, overlapping invocations with a reader, and the long-running
process. Stamps are few because a race needs two. In `Serving` the TTL's two ends are 3 and 1 against an interval
of 6, a row is written up to 2 after its `run_at` with a jitter of 1, and ages stop at 8. A searched text is empty or
one of two words, with or without outer space and text beyond the limit; a character that the cut would halve is left out. `MaxRuns`, `MaxTime`, `MaxStamps` and
`MaxMigrations` end histories that have no end of their own; `MaxDuration` 20 is beyond every
overrun, and 11 in `CyclePool` kills the cycle while it writes and notifies past its budget. The budget there leaves
room for a fourth attempt, so that it is the count which refuses it.

`Storage` sets `CHECK_DEADLOCK FALSE`: when the bounds are used up nobody has anything left to do.
Everywhere else the system has a next step in every state.

Fairness. `CycleStarved` and `StreakInformed`: weak fairness for the clock and due timers (the event
loop runs what is ready), for workers at their cursor, and for the database and the
notifier, which answer, well or badly, within their bounds. None for adapters: an attempt
may hang for ever. `StreakInformed` assumes that cycles under way go on, not that new ones start.
`Serving`: time passes, the page's interval fires, and a fetch is answered or fails and settles, which
browser and platform see to; nothing is assumed of the indexer or of the reader.

## 4. Proofs

All constants are arbitrary, under the named assumptions of the modules; TLC evaluates every one
of them in a run. Beyond numbers that are naturals, and positive where the configuration makes
them so, the proofs needed these:

- `BackoffAssumption`, `DoublingAssumption`: the doubling delays are naturals, which would be an induction on
  exponents.
- `IndexerAssumption`: the builds before the present one write lending protocols only, which is what
  0008's header says of them, and registries list a protocol once. `ShardingAssumption`: `SLOWEST_FIRST` is a list of ids.
- `ChainsAssumption`: each part of a chain has the type its contract gives it, both entries of a reserve are
  written together, a transaction changes one part (of the reserve flags and the switches, one entry), and whether
  an address is an account or a contract is in the address.
- `RegistryAssumption`: the lists of categories and statuses name each once, as the object and the constant
  array they come from do. `SeriesAssumption`: versions are naturals.

Every property of a passing run is a theorem, but for the three liveness properties. Whoever reads a
proof for the first time should begin with its inductive invariant:

`CycleProofs`. `TypeCorrect` is `TypeOK`, with `Counting` (workers hold distinct targets below the cursor; an
idle worker means that the targets of earlier waves are done). `TimingInvariant` is the invariant
of `DeadlineRespected`, `RetriesWorthMaking`, `ReservationHolds`, `FirstAttemptGuaranteed` and
`OverrunIsBounded`: `WithinDeadline` and `PickedInTime` are not inductive, since when a worker comes back to the
cursor nothing in its own state says how late it may be. The strengthening bounds the clock
of every busy worker by its deadline plus persistence, and the deadline by the reservation
made when it was picked; then the next pick inherits the bound with one wave less. `DealtToOne` has an
invariant of its own, by cases on who holds the target. `NotifiesLast`: from the end of the loop on, nobody is left
who could add a row (`PostedAfterTheLoop`).

`RateLimitProofs`. `BackoffsFit` needs only the types. `AllowanceHolds` is about sums over a set of calls; `Total` is
a fold, and its lemmas (one call's counter grows, the total grows by as much) are proved by the
smallest set of calls for which they would fail.

`StreakProofs`. `AlarmsAreReal` holds for overlapping invocations and any faults, and says that the two rows an
alert names failed, with a threshold of failed rows from one to the other (not that nothing else lies there). The
alert that is about to be posted carries the claim, so the invariant says it of every alert that is decided or sent,
and that scoring cycles own distinct rows that nobody has written, so that no later write
undoes one. `FiguresAreTheTables` and `OutagesAreAnnouncedOnce` suppose what the scheduler chose, one cycle at a time, and no
more: every fault is allowed. `SerialInv` places the alerts among the rows: those sent
before a cycle began are of earlier runs than its own (`Earlier`), what a cycle decides is of the
newest one (`Newest`), so the two have no row in common (`OneEach`). `MonitorImplemented` supposes `Faults = {}` besides and is the
refinement: with `failing`, `due` and `told` read off the table and the last alert, every step of the
stateless code is a step of `OutageMonitor` or stutters. `ReaderIsInformed` is then proved of `OutageMonitor`
alone (`ReaderInv`) and carried over.

`ApiRateLimitProofs`. `ClientsNeverOverServed` and `MemosNeverOutlast` suppose the `Environment`: no lock wait is longer
than a token takes to refill (`LockIsBrief`), and rows are kept long enough for what they owe to
be forgotten harmlessly (`RowsAreKept`; an hour, as shipped). The invariant is that the ideal
bucket is never behind what the row would give by more than a lock wait, though
`updated_at` goes back when statements overtake each other, and that whoever was refused
waits no longer than the row's credit asks. `LockIsBrief` is needed: with waits of 3 ticks and
a token every 2, three requests make TLC overdraw the ideal bucket.

`StorageProofs`, for any number of operators, invocations, readers, rows and any registry:

- `RecordedMeansApplied`. A second operator reads the applied set before the first commits; what
  saves the schema is that the file's row is inserted in its transaction and its name is the
  primary key. The invariant has what an operator knows inside what is recorded, and what is recorded a prefix of
  the files; `FileByFile` is the lemma that the next file builds the schema of the longer prefix.
- `PromotionsAreSafe`: a build is alive only once the files it needs are recorded, and no build that a file
  would break is alive when that file is released (`PromotedInOrder`).
- `StampsSurviveMigrations`: what each build's rows say before and after each back-fill, and that a runner
  between its check for unversioned failures and its commit keeps writers out (`CheckedUnversioned`).
- `ShardsPartitionTheRegistry`: the deal hands out positions, so each target is selected by the
  shards dealt so far whose turn it is (`DealtRight`); that the order is total is `Ranking`, hashes colliding or not.
- `PagesAreConsistent`, `ShownRunsAdvance`: `run_at` is a target's own even when cycles overlap (`TimesDiffer`), rows
  are only added, so a history read after a summary holds it (`ReadersRight`).
- `FailureIsTotal` follows from what each step of an invocation may have written (`StorageTyped`).

`AdapterProofs`. Each adapter has its invariant (`BlendInv`, `KineticInv`, `AquariusInv`), of the same shape: the chain
keeps its types under every transaction; a fetch has no row yet, a failed one, or the row that the factors make
of what it read (the `Outcome` parts), so that no published score met a failed endpoint (`EndpointFailuresThrow`,
`UnreadScoresZero`, `StaleMeansZero`); lists are walked item by item, so what has been read is a prefix of the
list (`Prefix`). Then:

- `ReservesAreWhole` supposes, like the property, that the keys fit in one call, which reads one ledger (`BlendHeld`).
- `ReadingAgesPrices`: a price's age grows with the clock and freshness falls with the age, so the mean taken last
  is at most what it would have been at each reading.
- `OneAccountPerAddress`: an account that was read stays in the fetch's cache, and every later holder of its address
  takes it from there (`AquariusHeld`, `AquariusTurn`).
- `StateWasOnceTrue` supposes at most one transaction in the fetch, but for Blend, which takes its status in one
  read (`BlendSeen`). Until a second one lands there are two chains, before and after, which differ in one spot (a
  list, a reserve's flags, a switch), and that was read from one of them: so the state is that of one of them
  (`KineticSeen`, `AquariusSeen`). For Kinetic it takes that the level is the worst of the parts and the blocked
  operations their union, which neither order nor repeats of the list change (`KineticStateIsUnion`).

`SiteProofs`:

- `CopiesHideBriefly`: a copy with more than `MIN_TTL` left is still that far from the next run that is due, for
  every protocol that it reports; and the time it has hidden one and the time it has left never exceed its lifetime.
- `OnlySuccessHeals`: the verdict is a function of ages that only grow (`VerdictMeans`, `AgesGrow`).
- `OwnLandingNeverFights`: a navigation of the control's own carries what the address leaves of the text it pushed
  last (`Carried`), because whatever pushes also navigates, and a newer navigation replaces it.
- `LinesHideNothing`: the lower median is one of the spacings, and at most half of them, rounded down, lie before it.
- `HistoryIsTold` supposes `Window <= 100`; `DETAIL_HISTORY_LIMIT` is 50. The bound is sharp: of 101 assessed runs with
  50 stale, the rounded percentage is 50 and the panel would speak of most runs.
- `EveryEntryListed`, `NumeralsMeanScores`: the invariant is that the rows on screen list, without repeats, one row
  for each selected entry with the numeral of its place among its peers (`EntryRows`, `Lists`); filters, groups, sorts,
  maps and concatenations each keep `Lists`, so every layout does. The row then leads to its entry because the board never
  loses one (`OpenedRight`).

Technique. The library's induction theorems cannot be used, so where a fact about numbers,
finite sets or a recursive function needs an induction, the proof takes the least or the smallest
counterexample (`LeastOf`, `SmallestOf` in `Extremes`). What JavaScript's `filter` and `sort` do is stated by
position in `Filtering` and `Sorting`, since `SelectSeq`, `SortSeq` and `SetToSortSeq` are recursions or choices among
permutations; `Ranking` (counting what comes before numbers a finite set), `FilteredKeeps`, `Ordering` and `StableSort` say what they return.

A proof that failed corrected a property: `StaleListMatchesScore` said that every reserve listed as stale
has a freshness of 0, which is false of a feed whose resolution reaches `StaleCeiling`; it now says so.

Only model-checked: `CycleReturns`, `KeepsReaderInformed` and `OutageReachesPage` (liveness and ENABLED are beyond the prover), and
the refinement of `OutageMonitor` with its fairness, of which the theorem is the safety part.

## 5. Not modelled

- Infinite budgets and timeouts: no caller in the repository passes them.
- The wording of alerts, errors, notes and disclosures; layout, hovering and chart geometry.
- XDR decoding and the scaling of amounts: a reading is a small number or is not there.
- How a client's key is made from headers; the budget of a transport call made outside a cycle.
- Aquarius's emergency mode, which is published and blocks nothing, and the origins and
  detail strings of an operational state.
- Serialisation of bodies and the export's CSV.
- `ThemeToggle`, `ProtocolCarousel`, home and static pages, and the footer's pill, which reads the
  health endpoint once per mount: no state that anything else depends on.
- `api/src/index.ts`: a standalone server over the same queries that no deployment runs.
- The database pool's waiting: `pool.ts` sets no timeout, so how long a statement takes is the
  assumption `MaxPersist`.
- Older builds are not in `src/`: `first` and `stamping` are what the migrations' headers say they write.

## 6. Divergences

Three comments are contradicted by a run each (`PROJECT.json`, findings): a cycle does run past
its budget, by what it writes, reads and posts after the last deadline; a recovery may be
announced for an outage whose announcement was lost; and Kinetic publishes an unpriced
reserve when a read of its oracle is lost in transport, where the comment says that it throws.

Seen while modelling, with no run of their own. The indexer:

- `cycle.ts:235` calls concurrency "the peak simultaneous load": attempts that timed out go on issuing
  requests beside their successors (`retry.ts:30` says so), and `aquarius/fetch.ts:588` reads side by side.
- `cycle.ts:761` reports the policy's attempts on a failure, where `cycle.ts:140` says those made.
- `cycle.ts:539` says that, in a feasible cycle, adding a target shrinks no deadline; when it adds a
  wave, the reservation at `cycle.ts:570` does.
- `cycle.ts:426` says that a target which changes shard is scored a few minutes earlier or later
  within the cadence: in the rotation under way it may be skipped, or be scored twice.
- `alerts.ts:125` promises one message per outage: two overlapping invocations (`index.ts:255`, or two
  cron calls) that have both written before either reads send it twice.
- `core/rate-limit.ts:186` says a retry never converts a 429 into an attempt timeout: it reserves
  `minCallMs` for the retried call and does not bound it.
- Overlapping cycles may show a later `run_at` with an earlier `computed_at`.

Adapters and scoring:

- `aquarius/types.ts:267-269` and `score.ts:371-372` keep `notApplicable` for wasm contracts; a token whose instance
  entry is not there gets it too, because `fetch.ts:513` overwrites the `failed` that `fetch.ts:497-501` prepared.
- Losing a price may raise `collateralSafety`, since the unpriced reserve drops out of its mean;
  `oracleSafety` falls to 0 at the same time.
- "Every reserve is below the minimum scorable size" cannot be reached with 200 reserves or fewer.

Store and migrations:

- `0002` says that failed rows carry no version; its default gives 1 to those that exist and to those
  that the first build goes on writing, and `0004` then refuses them, as its lines 35-38 foresee.
- The second of two operators fails on the duplicate version, without harm.

API and pages:

- `_rate-limit.ts:229` says the advertised wait is never shorter than the real one: other instances may
  have spent on the bucket since the memo entry was made.
- `db/rate-limit.ts:81` says a bucket idle for an hour is full by definition: not with a burst that
  takes more than an hour to refill, which the environment may set.
- `_cache.ts:53-66` reckons with a cycle budget of 42 s; the default in `config.ts` is 50 s.
- The export's lifetime looks at the protocols it lists, so a protocol's first good run is hidden for up to `MAX_TTL`.
- `registry-controls.tsx:87-89` says that the box never fights the reader. A pause after a trailing
  space does: the address drops the space and its text replaces the box's. So does one after the
  65th character: `parseRegistryParams` cuts at 64 (`registry-query.ts:119,165`), `registryHref` and the input know no
  limit, and the landing replaces the box's text, with what was typed since, by the cut one. A select changed
  within the debounce of typing loses its value to the timer's older one (`:109-111`). A link to the
  query on screen, followed while the control's own navigation is under way, leaves box and
  list disagreeing.
- Rank numerals are places in the filtered list. A category filter with "not scored" is always empty
  (`registry/page.tsx:131-136`).
- `score-series.ts:35-37` builds the address of a route that does not exist; `:222-236` may return one tick more than asked.
- `format.ts:119-123` says "live" of a newest run however old it is, and, when a run lands between the
  detail's two statements, above a list whose first row failed.
- The run list has no divider where a failed run lies between two rulebooks, nor when the version decreases.
- The status page's fetches have no timeout and settle in any order: an older verdict may replace a newer one until the next.

## 7. Plan

Built: everything in section 2, in the order `Cycle`, `StreakAlerts`, `RateLimit`, `ApiRateLimit`; `Rulebook`, `ReadPath` and the
adapters; `Sharding`, `Store`, `Migrate`, `Indexer`, `Storage`; `Delivery`, `HealthWatch`, `SearchBox`, `RegistryPage`, `ScoreSeries`.
What is left, in this order:

1. Proofs about `Rulebook`: that every factor and score is between 0 and 100, and that a level is never
   better than its worst part, for any weights.
2. Composition: a cycle's attempts with their budgets (`Cycle` with `RateLimit`), so that the deadline
   handed down is the one enforced.
3. Aquarius's emergency mode and the origins of a state, if they come to block an operation.
