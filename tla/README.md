# Verification of Yandex Analytics Reaper

TLA+ models of the parts of the Reaper whose correctness depends on the order in
which things happen, TLC configurations that check them on small instances, and
TLAPS proofs for every value of the constants. Paths below are relative to
`src/yandex_analytics_reaper/` of the repository unless they start with `docs/` or
`.github/`. `PROJECT.json` maps every definition that models code to the lines it
models, and lists the hazards each property is for.

## 1. The system

A research tool in one Python package. An *analyst experiment* declares query
families; each exact query is searched page by page on Yandex Games, the raw
responses are kept, probe runs and pages are recorded in SQLite, each family's runs
are bound into an immutable comparable set, and derived outputs (snapshot, features,
export) are packaged with the evidence into one ZIP artifact.

| Component | State | Operations | What is hard | Correct when |
|---|---|---|---|---|
| Probe collection (`ingestion/yandex_probes.py`, `storage/probes.py`, `domain/probes.py`) | `probe_runs`, `probe_pages` | create_run, append_page, finish_run | failures between any two calls, clocks, concurrent workers | a run is one chain of pages, its status says what the pages show, it is final once terminal |
| Raw store (`storage/raw.py`) | one folder per response | persist, load | partial writes, loss at a power failure | every page rests on an intact, analysed response |
| Query workers (`experiment_workers.py`) | pending, active, results, first error, a FIFO | submit, wait, collect | done callbacks race with the submitter | every future is delivered once, the first failure wins, the call returns |
| Experiment runner (`analyst_workflow.py`) | workdir, selected run of each query | run, resume, retry, bind, package, publish, remove | retries and resumes over what earlier processes left | only COMPLETED runs are used, only missing queries are collected |
| Recovery and lock (`experiment_recovery.py`, `experiment_runtime.py`) | lock file, run state, temporary and final artifact, event log | acquire, preflight, clear, package, publish, release; emit, heartbeat | several processes, kills, a lock file inside the directory it protects | one collector, whole artifact, no evidence lost before it is published |
| Comparable sets (`comparables/`, `domain/comparables.py`, `storage/comparable_sets.py`) | immutable versions, bound runs, members | build, persist, get | rebuild after a crash, clock | a family is bound as a whole to runs that replay |
| Durable archive (`.github/workflows/durable-evidence-archive.yml`, `durable_archive.py`) | requests, releases, assets | validate, build, verify, publish, extract | a run stops between any two calls; requests are amended; artifacts expire | published evidence is whole and never replaced; reruns converge |
| Session state (`ingestion/yandex_sessions.py`) | cookie jar and metadata of a profile | open, persist | two files replaced one after the other, several processes | a profile stays usable and keeps one identity |
| Schema drift (`schema_drift/`) | analyses, drift events | analyse, record parser failure | analyses out of the order of retrieval | events are relative to the snapshot before |
| Observation stores (`storage/identity.py`, `metrics.py`, `listing_states.py`, `listing_histories.py`, `lineage.py`, `normalization.py`) | observations, identities, lineage | idempotent persist, as-of reads | replay, conflicts, out-of-order arrival | writing twice changes nothing; identity converges |
| SQLite schema (`storage/sqlite.py`) | `user_version`, tables and columns | open and migrate | two openings at once, a crash between migrations | each migration runs once, the database can always be opened again |
| Query families (`storage/query_families.py`), cadence plans (`storage/cadence_plans.py`) | immutable entries by key | persist, freeze, get | lookup and insertion are two transactions, two readings of the clock of one freeze | an entry is written once and stays readable, a plan is older than its evidence |
| Feed depth and session stability (`experiments/feed_depth.py`, `experiments/session_profile_stability.py`) | none of their own; stored runs | load, reject, evaluate | runs that complete meanwhile, small samples, quartiles, order of submission | a verdict follows from the evidence and holds for most of it |
| Cadence experiment (`experiments/collection_cadence*.py`) | none of its own; histories, plan, runs | load, evaluate, cite | histories that grow between two readings, signals of different kinds | evidence belongs to the checkpoint it is counted for, a cadence fits every signal |
| Analyst snapshot, export, semantic report (`analyst/`) | the frozen report files of a run | bind, resolve, report | what failed invocations left in the same database | evidence of one invocation |
| Thesis intelligence (`thesis_*.py`) | create-only artifacts | bind, review, derive, build, verify | histories and reviews of other runs, order of supply, validators written twice | an artifact counts only evidence it binds, and reproduces |
| Taxonomy, point observation | files | pure computations | boundaries of the rules | the rule of the spec |
| Client, parsers, normalizers, models, command lines | none | conversions | - | - |

Interaction: the runner owns the workdir lock and calls the query workers, whose
threads call the probe runner; that one calls the client, the raw store, the schema
registry and the probe store, each store access being one SQLite transaction under
`ProbePersistenceGate`. Threads share only the stores and the FIFO of completed
futures. Processes share only the file system (workdirs, the artifact, session
profiles) and, in the archive, GitHub releases.

## 2. The modules

| Module | Models | Kind |
|---|---|---|
| `ProbeCollection` | the search_collection and comparable_construction stages: workers, run store, raw store, retry, resume, binding | component |
| `ProbeCollectionProofs` | soundness of stored runs, what is selected, bound and cited, that no run is left open and only missing queries are collected | proofs |
| `MCProbeCollection` | two queries, of one or two families | instance |
| `QueryBatch` | what `run_bounded_query_workers` promises | abstract specification |
| `QueryScheduler` | how the coordinator, the pool threads and the callbacks do it; refines `QueryBatch` | component |
| `QuerySchedulerProofs` | delivery, the first failure, and the refinement | proofs |
| `WorkdirLifecycle` | lock, recovery, packaging, publication and removal, one system call per step | component |
| `MCWorkdirLifecycle` | one run and two resumes | instance |
| `EvidenceArchive` | the archive workflow and its requests | component |
| `EvidenceArchiveProofs` | whole and create-only evidence, what a green run means | proofs |
| `SessionState` | the two files of the persistent session profile | component |
| `SessionStateProofs` | one profile per cohort, a profile that stays usable and keeps its identity | proofs |
| `SchemaDriftRegistry` | the registry, the profiler, the get_games contract and the rich collector's use of the verdict | component |
| `SchemaDriftProofs` | final analyses, sound evidence, no drift missed, at any times | proofs |
| `MCSchemaDrift` | bodies and scopes; the registry's tested cases as an assumption | instance |
| `ObservationStores` | normalized persistence: identity, states, metrics, histories, lineage | component |
| `ObservationStoresProofs` | whole observations, identity of the history, nothing goes back | proofs |
| `MCObservationStores` | four responses over two listings and two developers | instance |
| `SchemaMigrations` | opening and migrating the shared database | component |
| `WriteOnce` | what every store of versions promises | abstract specification |
| `VersionedStores` | query families, comparable sets and cadence plans in that database, their freezer and the audit of search evidence; composes `SchemaMigrations`, refines `WriteOnce` | component |
| `PlansAndExperimentsProofs` | a schema that is always that of a version and stays usable once migrated; the refinement, readable entries, plans before evidence; verdicts, cadences and citations of the three experiments | proofs |
| `MCVersionedStores` | two processes, three declarations of one family, two of one plan, two runs | instance |
| `ReplayStatistics` | medians, quartiles, Jaccard and ranked overlap, which three experiments define alike | operators |
| `FeedExperiments` | the feed depth and session stability experiments | component |
| `CadenceAudit` | the cadence experiment from its manifest to its report; composes `FeedExperiments`, whose replay it uses | component |
| `MCExperiments` | sixteen runs of four kinds of feed, five kinds of history, three backfills | instance |
| `ThesisFeatures` | traction, anomaly queue, competitor quality, comparison, and the validators of their reports | operators |
| `ThesisIntelligence` | metadata collection with failures and resumes, freezing, reviews, building and verifying intelligence | component |
| `MCThesis` | three runs, two theses, three listings | instance |
| `ArtifactProofs` | of `WorkdirLifecycle`: one collector, a whole artifact, kept evidence; of `ThesisIntelligence`: all its invariants | proofs |

`ProbeCollection` abstracts the scheduler to its effect (`Submit`, `JoinWorkers`: at
most `QueryWorkers` items active, no submission after a failure was observed) and the
workdir to exclusive ownership; `QueryScheduler` and `WorkdirLifecycle` are where
those two assumptions are examined.

### ProbeCollection

`runs` is `probe_runs` joined with `probe_pages`, `raw` the snapshot folders with the
verdict of the HTTP status and the parser on each (`kind`) and how much of it was
written (`state`), `analysed` the snapshots in the schema registry, `bound` the rows
of `comparable_set_runs`. `item[i]` holds the locals of the worker of query `i` and
its program counter; `phase` and `selected` are the coordinator's. An action is the
code from one I/O call or transaction to the next:

| Actions | Code |
|---|---|
| `Invoke` | `run`/`resume` up to planning: reuse by `Choices`, refusal if a bound run no longer replays |
| `Submit`, `JoinWorkers`, `Report`, `ReportFails` | the worker pool seen from outside |
| `CreateRun`, `TransportError`, `Respond`, `PersistMetadata`, `RawWriteFails`, `Interpret`, `AppendPage`, `ObservePage`, `ObserverFails`, `FinishRun` | `YandexPaginatedProbeRunner._run` |
| `StoreFails`, `PersistFailure`, `AfterFailure` | a failing transaction, the except clause, the retry loop |
| `BuildComparable`, `FinishBuild` | one comparable per family |
| `Kill` | the process dies; a power failure may take a snapshot that was not synced |

A token is the identity of the response that gave it out; the wall clock is read in
bounded ticks and may step back when `ClockStepsBack`. `StoreFails` lets the
transaction of create_run, analyse, append_page or finish_run fail; the last
transaction of the failure handler itself (`PersistFailure`) is assumed to reach the
database: if it does not, the run stays RUNNING as after a kill.

A power failure may take a folder that the database refers to, and the model lets it
(`Kill`; the snapshot is `"damaged"`). The property that answers for it is
`OnlyCompletedRunsAreSelected`: whatever a comparable selects or has bound, its responses
are in the raw store for as long as an invocation works with it, since `Invoke` replays
(`Replays`) what it finds. `RunsAreSound` (the chain of pages and the status) needs no
such replay. That a run must end is stated twice: `EndedRunsAreTerminal` for a clock that
is never set back, and `OnlyTheClockLeavesRunsOpen` for any clock, which says that of a
run that was left open the last page is later than the clock.

### QueryScheduler and QueryBatch

`QueryBatch` is the contract: queries are started in order, at most `Workers` run,
none is started after the batch has seen a failure, the batch returns all results or
raises a failure after everything started has ended. `QueryScheduler` has the
coordinator's program counter, the pool's queue, the futures' status, which futures
have their callback registered, and the FIFO. The call `add_done_callback` is a step
of its own, so that a future may finish before and after it.

### WorkdirLifecycle

Processes hold a handle on a lock *inode*; the lock file's name may be removed and
created again. `RemoveEntry` and `RemoveDirectory` are the `rmtree` the winner does
after releasing its lock. Every process may fail where the code can raise and be
killed anywhere.

### EvidenceArchive

`request` is the catalog on the main branch, `run` the serialised workflow run with
the catalog of its checkout, `assets` the contents of each release. Bytes are
identified with the artifact they belong to; an interrupted upload leaves `Damaged`
bytes under a name. A failing `gh release view` is taken for a missing release, as in
the script. `Resolve` and `Download` are separate because the artifact may expire in
between. A manual re-run of an old workflow run, which would check out an older
catalog, is not modelled, nor are requests that rename their assets.

### SessionState

A session is known by its number; `contexts` records the identity, the jar and the
creation time its probe runs are recorded with. Names lead to inodes (`file`, `data`)
because a process that writes a temporary file keeps writing to it after another one
renamed it. Opening looks at the directory, the jar and the metadata one call after
the other, saving opens, writes and replaces; `SaveFails` and `Kill` may follow any
of these calls. What a jar holds is abstracted to the session that wrote it.

### SchemaDriftRegistry

`raw` is the sequence of snapshots in the order of retrieval, `analyses` the rows of
`schema_observations` with their events in the order of insertion, `interpreted` what
reached the normalizers. `Fields` is the profiler for a body of games, and
`ContractEvents` and `TemporalEvents` are the two halves of `_evaluate`; presence
ratios are compared exactly where the code uses floating point, which differ only
where a shift is a quarter but for rounding. `Look` (existing analysis, baseline) and
`Insert` are two steps, because the `SELECT`s are not in the transaction of the
`INSERT`; two `SELECT`s are one step, since an analysis inserted between them makes
`Insert` fail in any case. `raw[k].known`, how many analyses there were when the
response arrived, is a history variable of the properties. Times are counted in ticks, of
which `TicksPerSecond` make a second; `TextBefore` compares two of them as the stored text
does, in which a fraction of zero is left out. `DriftIsActedOn` says what holds whatever
the fractions (`NearestToTheSecond`: the baseline is of no later second, and no known
analysis of a second in between is overlooked) and, where the text sorts as the times do
(`TextSortsAsTime`), that the baseline is the nearest (`NoDriftIsMissed`).

### ObservationStores

`listings`, `developers` and `assignments` are the identity tables; `states`,
`metrics` and `histories` map the identity of an observation (without its constant
parts: source, normalizer, version) to its value and the sources in its lineage; a
source is a game of a snapshot. `Commit` is the transaction of one listing, which is
atomic because SQLite takes the write lock at its first insert; the one `SELECT`
before it reads the immutable identity fields. `Refused` collects the comparisons
after each `INSERT OR IGNORE`; on any of them `Refuse` rolls back and ends the loop.
`Capture` stores responses in any order of `retrieved_at`, since a process may have
received its response long before it stores or writes it, and `Replay` normalizes a
stored snapshot again, as `tests/test_yandex_normalization_persistence.py` does.

### SchemaMigrations and VersionedStores

`userVersion` is `PRAGMA user_version`, `schema` the migrations whose tables and
columns exist, `opener[p]` what a process does with the database. `ReadVersion` is the
`PRAGMA` at `storage/sqlite.py:506`, `Migrate` one `executescript`, with the statement
that fails when the column is already there, `MigrationLockTimeout` the busy timeout.
Of a migration only what tells a second execution from a first one is kept:
`AddsColumn`. `VersionedStores` adds `families`, `sets` and `plans`, partial functions
from a key to an immutable value; `client[p]`, what a process has decided to write;
`returned`, what callers were told is stored; and `reports` of the audit. The `Submit`
actions are the lookup of `persist` (with the validation of references before it), the
`Insert` actions its transaction; a key taken in between violates the primary key.
`CheckPlan` and `SubmitPlan` are the two readings of the clock when a plan is frozen.
Probe runs are what `ProbeCollection` makes of them: started, ended once, then fixed.
`Audit` reads plan, family and runs in one step, which is as good as several: none of
what it reads changes once it is eligible.

### FeedExperiments and CadenceAudit

`archive` holds the stored runs with their pages; a run may complete while an analysis
is under way (`CompleteFeedRun`). `feedRequest`, `replayed` and `rejected` are the
locals of `analyze`: one member is replayed per step, then `ReportDepth`,
`ReportProfile` or `RefuseMixedSessions` ends the analysis. `audit` holds the stage of
the cadence experiment and what it has read. `histories` are the observations of each
listing and signal and grow by `Backfill`; `LoadSeries` reads one series, `Cite` reads
it again for the citations. `LoadFeed` and `LoadSearch` load all checkpoints in one
step, since the runs a plan's evidence consists of have ended. A game has a number, a
ranking is a sequence of them; ratios are parts of `ReplayStatistics!Unit`, exact for
rankings of up to four games, where the code has binary64. The code sorts a sample to
take its median and its quartiles; the model counts how many values are below
(`Smallest`), which is the same (`MCExperiments!CountingIsSorting` compares the two) and
can be reasoned about for samples of any size.

### ThesisIntelligence

`attempts[r]` is the workdir of a run: its raw responses in order, how many of them are
those of earlier invocations (`reused`), and the invocation. `CollectBatch` requests,
stores and normalizes one batch, any listing of `Sporadic` may be missing from it;
`Freeze` is snapshot, export, verification and publication. `experiments`, `reviews`
and `intelligence` are the published, create-only artifacts. `Build` takes any current
artifact, any sequence of prior ones and any reviews, as the command line does.
`ThesisInit`, `ThesisNext`, `ThesisSpec` and `FailAttempt` carry names of their own since
`ArtifactProofs` reads this module together with `WorkdirLifecycle`.
`Inputs`, `Bundle` and `Verifies` follow `reconstruct_thesis_intelligence` and
`verify_thesis_intelligence_artifact`; `Sound` stands for the pydantic validators the
reports pass on their way. Hashes are the values they are hashes of; only their order,
which breaks ties, is a constant.

Where the code sorts (`_sorted_prior_bindings`, `_candidate_sort_key`) or keeps first
occurrences (`_ordered_unique`), the model states the order and `Arranged` places each
member by the number of members before it, which is the same sequence if the order is
strict and total; that it is one, for the orders of these functions, is proved.

## 3. The runs

| Run | Question | Distinct states |
|---|---|---|
| `probe_collection` | Do pages, blame, reuse and finality survive two concurrent workers, retries, failing transactions, a kill, a power failure and a resume? | 1.0 million |
| `probe_clock` | Are stored runs still sound, is none left open but by the clock, and does every invocation end, when the wall clock may step back? | 126 thousand |
| `query_scheduler` | Does the pool lose, duplicate or misorder a result, or wait for ever? Does it implement `QueryBatch`? | 2.9 thousand |
| `workdir_lifecycle` | Can three processes on one workdir ever collect at once, publish a partial artifact or lose evidence? | 125 thousand |
| `evidence_archive` | Is what is published whole, never replaced, and does the archive converge? | 1.3 million |
| `session_profile` | Does a profile keep one identity and stay usable over failing saves, kills and resets? | 172 thousand |
| `schema_drift` | Is every response compared with the nearest earlier profile of its scope, whoever analyses what when, also where the text misorders fractions of a second? | 2.0 million |
| `observation_stores` | Do identity and history agree, and are observations whole and final, in whatever order and however often snapshots are written? | 279 thousand |
| `versioned_stores` | Is every family, set and plan written once and readable for ever, and is no evidence older than its plan, with two processes between lookup and insertion? | 568 thousand |
| `experiments` | Do the verdicts of the three experiments follow from the evidence alone, hold for most of it, and cite what is there, while collection goes on? | 60 thousand |
| `thesis` | Does every number of an intelligence artifact come from the evidence it binds, whatever histories and reviews it is built from, and does it reproduce? | 38 thousand |
| `migration_race` | Can two processes open a new database at once? (violation) | - |

Why the bounds are enough:

* `probe_collection`: two queries is where two workers interleave; a page limit of
  two has a first, a continued and a last page; two attempts are a failure and a
  retry; two invocations a kill and a resume; `MaxRuns` and `MaxSnapshots` only cap
  the product. Each query has a text and a family of its own; `probe_clock` puts both
  in one family.
* `query_scheduler`: five queries on three threads gives a first wave, refills and a
  tail in which fewer queries than threads are left.
* `workdir_lifecycle`: two resumes are enough for one to open the lock file before,
  and the other after, the runner removes it.
* `evidence_archive`: two files over two tags and two artifacts can collide in both;
  three commits allow declaring both and amending one; two faults interrupt a run and
  its rerun.
* `session_profile`: one process at a time, four sessions: enough to save, lose a
  save, reset, and open what is left, from no profile or from a legacy one. In it a
  kill during the first save leaves a directory that every open refuses until it is
  deleted, as the error message says.
* `schema_drift`: three responses give a nearest and a farther baseline; consecutive
  ones arrive at one instant, half a second or a second apart, from a whole second or
  from a half (`TicksPerSecond` is 2), which covers times of one second in and against
  the order of their text, and of different seconds; two bodies, because the properties compare with what `_evaluate` gives for
  the right baseline. The other kinds of event are evaluated in `TestedCases`.

* `observation_stores`: three responses at three instants give a first, a newer and a
  backfilled sighting in every order, two at one instant a conflict; two processes
  interleave the listings of two snapshots. The four responses are chosen to collide:
  in a developer, a developer's name, a listing and a response that repeats a game.
* `versioned_stores`: two processes are where a lookup and an insertion of the same key
  interleave; three declarations of one family version give an equal, a conflicting and
  a foreign writer; a run for each of two queries completes a set and a checkpoint;
  `MaxTime` 3 puts a clock reading before, at and after each of the two deadlines. The
  database may start at an older version or at one newer than the program, and
  `OpeningsOverlap` is false: the race of two openings has a run of its own. A second
  version number multiplies the states by five without adding a case, since keys do not
  influence each other beyond the version a set or plan cites.
* `experiments`: three and four trials, two blocks, four checkpoints and two listings
  are above and below every sample threshold, which are constants; the pages of the
  feeds are chosen so that depths lose many, few or no games and profiles differ or do
  not; requests repeat the same runs in another order. No ranking has four games, whose
  overlap with itself is not exactly one in the code (see below).
* `thesis`: three runs, so that a build may have two priors in either order, of an older
  manifest and of the same; counts that grow, shrink and jump; intervals under and over
  a day; one listing that responses may leave out and one unknown age; two faults for a
  failure and a gap, or two failures; one review and one build, each chosen among all
  that are possible in the state. Time passes between invocations only. Reviews and
  builds read published artifacts, which do not change, so that they are explored once
  every run has ended (`RunsEnded`).

Fairness. `ProbeCollection!FairSpec`: the coordinator and each worker keep taking
steps, since requests have timeouts, attempts are bounded and the gate is held for
one transaction; nobody is obliged to resume. `QueryScheduler!FairSpec`: threads are
scheduled and a query ends, which is `InvocationEnds` of the former.
`EvidenceArchive!FairSpec`: the steps of a workflow run are executed and the
workflow is started again and again ("Archival workflows are expected to be
rerunnable", `docs/spec/durable-evidence-archive.md`); faults are finite.
The other modules claim no liveness.

The component modules also have a type invariant, but for the three that interpret
stored evidence (`FeedExperiments`, `CadenceAudit`, `ThesisIntelligence`). `TypeOK` is
among the runs' properties for `ProbeCollection` only; those of the other modules hold
in the same configurations when added to them. For all of them it is a theorem.

Deadlock is checked except in `evidence_archive`, `experiments` and `thesis`, which
come to rest when no request was ever committed, or every report, review and build the
bounds allow was made.

### Disagreements with the documentation

The run `migration_race` expects a violation. `_migrate` reads the version before it
takes the write lock and never again: of two processes that open an older database at
once, the later one runs migrations the first has committed. Those that create tables
succeed and set the version back; the first that adds a column fails, and from then on
every opening fails at it. The repository calls the database shared, and its migration
registry the single owner of the schema (`ARCHITECTURE.md`, "SQLite currently owns").

Four more disagreements are shown by configurations that are not among the runs; in
each of them TLC finds the property violated:

* `MCProbeClockBack.cfg`, `EndedRunsAreTerminal`: if the wall clock is set back before a
  response, its page is refused, and so is the terminal status, because
  `_completion_time` takes the last response received and not the last page stored. The
  run stays RUNNING; the README of the repository says a run is persisted as completed,
  partial or failed. A resume copes with it: such a run is not reused. That nothing else
  leaves a run open is `OnlyTheClockLeavesRunsOpen`, which `probe_clock` checks.
* `MCWorkdirPrivacy.cfg`, `LockedWorkdirIsPrivate`: the workdir is removed after its lock
  was released. A second resume may lock it in between and lose its files, while
  `docs/spec/analyst-experiment-runner.md` gives the owner of the lock the workdir for
  the active lifecycle. `EvidenceOutlivesFailures` shows that nothing is lost that is not
  in the published artifact.
* `SessionOverlap.cfg`, `IdentityChangesOnlyByReset`: two sessions opened before either is
  saved get two identities, and the later save replaces the earlier one;
  `ARCHITECTURE.md` says the identity is that of one local profile and changes when the
  profile is reset.
* `MCSchemaSubsecond.cfg`, `BaselinesAreEarlier`: retrieval times are compared as text
  without a zero fraction, so that half past a second sorts before the second. A
  backfilled snapshot of a whole second is compared with one retrieved after it, which
  `docs/spec/data-model.md` excludes. It takes a response on an exact second, hence
  hardly a test. The error is less than a second: a baseline is never of a later
  second, and none of an earlier one is passed over (`NearestToTheSecond`).

Two things the models of the experiments show, without a run of their own. The cadence
evaluation asserts that daily collection is an exact identity, as
`docs/spec/collection-cadence-experiment.md` requires, but adds up the ranked overlap in
binary64: for equal rankings of 4, of 11 to 13 and of some more games the sum is not 1,
and the evaluation refuses its own result. And a report of the cadence experiment may
cite, for a checkpoint, an observation that was backfilled after the evidence had been
analysed: `CitationsHold` says what remains true, that the cited one was fresh at the
checkpoint and is not older than the analysed one.

## 4. The proofs

`ProbeCollectionProofs`, for any set of queries, any families and texts, any limits
and either clock:

* `TypeCorrect`: `Spec => [](TypeOK /\ References)`. `TypeOK` alone is not inductive:
  `finish_run` indexes `runs` with the run a worker holds and `PageOf` indexes `raw`
  with its response, so `References` says that what a worker holds is stored.
* `StoredRunsAreSound`: `Spec => []RunsAreSound`, that is `PagesFormOneChain` and
  `StatusMatchesEvidence`.

The argument: `StepType` shows once, action by action, that a step keeps types and
references and changes the store of runs in one of four ways only (`RunsStep`:
nothing, a new run, a page that `Continues`, an end that `MayFinish`). `OneChain` and
`Evidenced` are properties of one run, so `OneChainExtended`, `OneChainChange` and
`EvidencedChange` need only look at that run's change, and the temporal steps combine
them. Whatever the workers, the retries and the kills do, the two guards of the store
are what the properties rest on.

Assumed: `ItemAssumption` (finitely many queries) and `LimitAssumption` (the ranges
the command line and the manifest validate), which TLC evaluates in the runs.

`ProbeCollectionProofs` goes on with what is selected, under the same assumptions:

* `SelectionIsSound`: `Spec => []OnlyCompletedRunsAreSelected`, and
  `StoredEvidenceStays`: `Spec => StoredEvidenceIsFinal`.

`SelectionInv` adds what carries a run from the worker that collected it to the
comparable: a worker writes to a run of its own query and reports it completed
(`WorkerKnows`), and during the search an item without a worker is selected
(`EndedItemsAreSelected`), so that nothing is missing when the workers are joined.
`ItemChanges` says once what the workers' steps do to an item. That a bound item is
never bound again needs that families are bound as a whole: `BuildComparable` binds all
members of a family in which one is unbound. Evidence may be lost between two invocations
only, by the kill that ended the first; `ThereInv` carries what `Invoke` found whole, and
what the workers wrote since, to the comparables.

and with what is cited:

* `EvidenceIsSound`: `Spec => []EvidenceIsCited`.

No lock is held between a response and the transaction that cites it, so the invariant
says what each worker knows at each place (`KnowsEvidence`: the response it holds
answers the token its run has reached, is uncited, and is completely written from
`interpret` on) and that workers are `Apart`: no two of them hold one response or one
run, and what a run blames no worker holds. `RawKept`, `PagesFrame`, `ErrorsFrame` and
`OthersFrame` say what a step does to the stores; `KnowsKept` shows that the steps of
others, kills and damage included, leave what a worker knows true, `WorkerLearns` what
it knows after its own. `StatusMatchesEvidence` is needed too: an error is only ever
written to a run that had none.

and with what becomes of a run in the end:

* `RunsAreLeftOpenByTheClock`: `Spec => OnlyTheClockLeavesRunsOpen`, for either clock;
* `EndedRunsStayTerminal`: `Spec => EndedRunsAreTerminal`, assuming
  `ClockStepsBack = FALSE` (`MCProbeClockBack.cfg` shows that it must be assumed);
* `OnlyMissingAreCollected`: `Spec => OnlyMissingQueriesAreCollected`, assuming
  `TextsDiffer`, that no two queries have the same text.

For the first, `OpenInv` says that the run a worker holds is still running where it may
fail (`RunIsOpen`): then the failure handler finds a run it may finish, unless its time is
before the last page. The second follows: while the clock is not set back, nothing stored
or held is later than it (`Timely`). For the third, `MissingInv` says that while an item waits or is
collected no stored run of its text is reusable (`Misses`): a running run is not, a run
is completed only by the worker that then selects it, and damage takes candidates away
but gives none, since a snapshot whose body is not yet stored has no verdict
(`IsUnfinished`). Two families with one text would each collect it, hence `TextsDiffer`.

`QuerySchedulerProofs`, for any number of queries and one to four workers:

* `TypesHold`, `FuturesAreDeliveredOnce`, `TheFirstFailureIsKept`, and
  `SchedulerImplementsBatch`: `Spec => BatchSpec`, the refinement of `QueryBatch`.

What the FIFO holds is not inductive by itself: whether a query that ends is put there
depends on its callback. `PlacesInv` says which futures have one (all that were
submitted, but for the last while the coordinator stands before `add_done_callback`),
that the coordinator waits for more only while something is active, and that it
submits only below the limit of workers; `StatusInv` that `next` separates the pending
queries from the others and that what is not finished is active. With them each action
keeps `DeliveryInv` and `FailureInv`. In the refinement a submission is `Batch!Start`
(`StartIsShown`), the end of a query `Batch!End`, taking a failure `Batch!Stop` and the
end of the call `Batch!Return` or `Batch!Raise` (`LeaveIsShown`); the rest stutters.

`ArtifactProofs`, of `WorkdirLifecycle`, for any set of resumes:

* `TypesHold`, `OneProcessCollects`, `ArtifactIsNeverPartial`, `EvidenceIsKept`.

`OneCollector` holds for different reasons before and after publication. Before it,
nothing is removed, so there is at most one `run.lock` and its inode decides
(`LockInv`, `OneOwner`). After it the lock file may be removed and created again, and
then the order decides: a resume gets past its preflight only when the run state is
there (`RunnerInv`), and from then on it finds the artifact. `PublishInv` says that only
a verified file is linked and that whoever reports success or removes comes after.

`PlansAndExperimentsProofs` begins with the database under the stores, for any set of
processes, each of which may be killed at any point, and any version of the database:

* `SchemaTypesHold`;
* `SchemaStaysWhole`: `SchemaSpec => []SchemaIsOfAVersion`: however openings overlap, the
  tables in the database are those of one version, never older than the version it
  states, and a process whose opening succeeded has all of them;
* `SettledDatabaseStaysUsable`: `SchemaSpec => SettledStaysUsable`: once the database is of
  this program's version, or a later one, and nobody is migrating it, it stays usable
  however later openings overlap.

None of them assumes that openings do not overlap, which nothing in `storage/sqlite.py`
enforces. They bound the damage that `migration_race` shows: only processes that meet
while it is migrated can make it unusable, and even then no table is missing
below the version it states. The two properties are not among those of the runs.

Then the stores, for any processes, declarations, runs and times:

* `StoreTypesHold`, `StoresWriteOnce` (`Spec => EntriesAreWrittenOnce`, the refinement of
  `WriteOnce`), `EntriesReadable` and `PlansComeFirst`.

`StoresStep`, `RunsStep`, `ClientStep` and `ReportsStep` say once what any step does to
the entries, the runs, what a process has in mind and the reports; everything else cites
them. The refinement needs the types only. A stored set stays readable because what it
refers to is final: families only grow and completed runs do not change
(`ReferencesStay`); `Validated` carries the validation from the lookup to the insertion.
For plans `InTime` carries the freezer's checks to the insertion, which the second
reading of the clock makes possible, and `Grounded` says of a report what the audit
established, which stays. It rests on `ScheduleAssumption`: the age a run may have at
its checkpoint (`MaxAge`, `_MAX_CHECKPOINT_AGE_SECONDS`) is not longer than the lead of
the freeze (`Guard`, `_FREEZE_GUARD`); both are two hours in the code, in two files.

Also assumed there: `StoreAssumption` (a plan has a checkpoint, numbers are naturals)
and `VersionAssumption`, which TLC evaluates in the runs.

`EvidenceArchiveProofs`, for any number of requests, tags and artifacts, and any commits,
expiries, failing calls and cancelled runs (assuming `ArchiveAssumption`):

* `ArchiveTypesHold`, `WhatIsPublishedIsWhole`, `NothingIsReplaced`, `SuccessArchives`.

`EvidenceStep` says what a step does to releases and assets (nothing, a new draft, one
more asset, a publication), `RunStep` what it does to the run, and `Phases` what the run
knows of the release it works on: that it is still a draft where the run uploads,
rechecks and publishes, and verified where it publishes. No lock protects that
knowledge, only that runs are serialised. `Behind` says that the requests before the
present one are archived; since archived evidence stays (`ArchivedStays`), it needs the
order of the requests (`LeastExists`) and nothing of what tags they have.

`SessionStateProofs`, for any processes and bounds:

* `SessionTypesHold`, and, as long as no session is opened before the last one was closed
  (`[]SessionsDoNotOverlap`), `CohortsAreOneProfile`, `ProfilesStayUsable` and
  `IdentitiesAreKept`.

The condition is on the behaviour and not on the constants: processes may take turns in
any order, and `SessionOverlap.cfg` shows what an overlap does. `ProfileInv` says what the
two files hold at every place between the two replacements: the jar is of the profile of
the metadata or of the session that is being saved (`JarIsOfTheProfile`), and what a
process has read is still what the files say (`Knows`), since nobody else writes.

`SchemaDriftProofs`, for any processes, bodies, scopes and times; what `Evaluate` makes of
two profiles is not looked into:

* `DriftTypesHold`, `OnlySoundEvidence`, `AnalysesStayFinal`;
* `NoDriftEscapes`: `Spec => []DriftIsActedOn`, for times of any fraction of a second
  (`TicksPerSecond` is any positive number, a million in the code). Within a second the
  text may choose wrongly, as `MCSchemaSubsecond.cfg` shows; the theorem says that it is
  wrong by less than that second, and not at all where `TextSortsAsTime` holds.

`EvidenceInv` says that there is one analysis of a snapshot and contract and that who
collected a snapshot is alone with it (`CollectorIsAlone`); `BaselineInv` that every
analysis has the events relative to the nearest snapshot analysed before, and that the
baseline a process looked up is still that one when its row is inserted: an analysis that
came in between is of a snapshot it would have had to know.

`ObservationStoresProofs`, for any processes, listings, developers and responses (assuming
`ResponseAssumption` and `NoneAssumption`, which the runs evaluate):

* `ObservationTypesHold`, `NoObservationIsPartial`;
* `IdentityIsOfTheHistory` and `HistoryStaysKept`, assuming that the text of the instants
  sorts as they do (`TextSortsAsTime`), as in the run.

`StoreInv` says of each stored observation that *every* game in its lineage says all of it
(`Observed`): the rows of one transaction are those of one game, and a later game of the
same listing and instant is refused unless it says the same. `IdentityInv` says that a
listing's row is what its observations say: its first and last instants are the oldest and
the newest, its present developer is that of the newest, and a developer has the name the
newest sighting gives (`ListingMatches`, `DeveloperMatches`, `NameIsSeen`). Only the
comparison of instants as text stands between the two, hence the assumption.

`PlansAndExperimentsProofs` goes on with the experiments, for any archive of runs, any
histories, submissions, candidate depths and intervals, while collection goes on:

* `VerdictsAlwaysHoldForMost`: `ExperimentSpec => []VerdictsHoldForMost`;
* `VerdictsAlwaysFollowTheEvidence`: `ExperimentSpec => []VerdictsFollowTheEvidence`;
* `CadencesAlwaysFit`: `ExperimentSpec => []CadenceFitsEverySignal`;
* `CitationsAlwaysHold`: `ExperimentSpec => []CitationsHold`.

The first and the third rest on lemmas about the statistics of any finite sample:
`HalfReachTheMedian`, `FewUnderTheFirstQuartile` and `FewOverTheThirdQuartile`, which say
how many members an interpolated quantile leaves on either side, ties included.
The second rests on `RenamedStatistics`, that renaming the members of a sample changes
none of them, and `SimilarityIsSymmetric`; the ranked overlap of all pairs of trials is
renamed with the pairs (`RenamedPairs`), although each pair is compared in the order of
submission.

`FeedIsSound` says what is in hand between two steps: eligible observations of distinct
runs, none of which is left to replay, so that a report's sample is a set of runs without
repetition (`ReplayedOnce`); a report is what the policy said of it then. That runs are
completed meanwhile does not matter, as an observation is not read twice.
`AuditIsFresh` says of the audit that what was analysed is still among what is fresh in
the histories (they only grow), and that what is cited is that or later: of the fresh
observations, the latest at the second reading cannot be before the latest at the first,
as `Later` is a total order of persisted observations. `AuditFits` adds the cadences.

Assumed: the shapes of what is stored and submitted (`ArchivesAssumption`,
`RequestsAssumption`, `HistoriesAssumption`, `ManifestsAssumption`), that there are
candidate depths, that one of the finitely many intervals is a day, and that listings are finite
and samples not empty (`DepthsAssumption`, `SampleAssumption`, `IntervalsAssumption`,
`ListingsAssumption`). `HistoriesAssumption` also says that no two observations of a
series share an id and both times, as ids are primary keys. `Total` and `Persistence` are
recursive functions; that they yield numbers follows from the least number for which
they would not (`SumExists`, `PowerExists`).

`ArtifactProofs` goes on with `ThesisIntelligence`, for any suite, number of runs and
resumes, batch size, source, policy, opinions and histories of any length:

* `ThesisInvariance`: `ThesisSpec => []ThesisInv`, the inductive invariant;
* `EvidenceOfTheLastAttempt`: `ThesisSpec => []EvidenceIsOfTheLastAttempt`;
* `VelocitiesAreMeasured`: `ThesisSpec => []VelocityIsMeasured`;
* `ReviewsAreBound`: `ThesisSpec => []ReviewsBindTheirEvidence`;
* `IntelligenceReproduces`: `ThesisSpec => []ArtifactsReproduce`;
* `AcceptedIsBuilt`: `ThesisSpec => []AcceptedInputsAreBuilt`.

None of the five is inductive. `CollectionInv` says what the workdir holds between two
steps: the responses of the present invocation answer batches that are disjoint cuts of
the catalogue, so that a listing is held by one of them at most (`InHand`); and of
artifacts that each is well made and of the invocation that published it, and that a run
published one at most. That needs `Listings` to list everything once, hence that
`Arranged` is a bijection for a strict total order (`Rank` counts what is before a
member). `IntelligenceInv` says that every artifact is the `Bundle` of some accepted
current artifact, history and reviews (`IsBuilt`). Artifacts are final, so the
properties of intelligence are theorems about bundles:

* *Velocity.* The latest of `PriorPoints` is the nearest of `EarlierRatings`
  (`SelectedIsLatest`): accepted histories have no two ratings of one instant that
  disagree, whichever digest breaks the tie.
* *Reproduction.* Histories that are permutations of each other have one canonical order,
  since only one sequence is sorted by a strict order (`OrderIsUnique`,
  `OneCanonicalHistory`). Conversely the inputs of a bundle name the runs of its sources,
  and a run published one artifact.
* *Reviews.* A review that fits has the report of this very run; since one review of a
  thesis is accepted, each candidate is counted once, and `confirmed` is a part of it.
* *Building.* One lemma per validator (`SoundRow`, `SoundQueue`, `SoundSurface`,
  `SoundQuality`, `SoundComparison`, `SoundInputs`): the code checks its results by other
  rules than it computed them by. The order of the candidates combines three weak orders
  (`Faster`, by cross-multiplication, `MoreRated`, `Younger`) and the identifier into a
  strict one; the counts by directness and by verdict add up because they are partitions.

Assumed: `RunsAssumption` (artifacts of two runs have different digests),
`SetsAssumption` (a comparable set lists a listing once, and because a query found it),
`PolicyAssumption` and `ListingsAssumption` (counts are naturals, an analyst gives one of
the four verdicts); TLC evaluates them in the run `thesis`.

Every invariant and every safety property of steps that a passing run checks is thus a
theorem, as are the two refinements. Only model-checked: the liveness properties
`CallEnds`, `InvocationEnds` and `RerunsCompleteTheCatalog`, since liveness under fairness
and ENABLED are out of the prover's reach, as is what a recursive definition computes in
general; and of the experiments that counting is the same as sorting
(`MCExperiments!CountingIsSorting`). `DatabaseStaysUsable` is violated with overlapping
openings; what is proved of them is `SchemaIsOfAVersion` and `SettledStaysUsable`. Some theorems have conditions that a run fixes by its
constants, and state them: a clock that is not set back, sessions that do not overlap,
texts that differ, and in `ObservationStores` instants whose text sorts as they do.

## 5. Not modelled, and why

* Feed runs in `ProbeCollection`: the same steps as a search run, without reuse. What
  the experiments do with stored feed runs is `FeedExperiments`.
* Parsing and redaction: stateless data conversion. The verdict on a response and the
  facts found in it are inputs.
* Market features, the search and feed rows of the export, CSV and Markdown renderings,
  canonical JSON and hashing: functions of what the models show to be bound.
* Union and ranking of comparable members: a function of the bound runs.
* Binary64: ratios are exact fractions in the models. Where rounding decides, a README
  section or a hazard says so.
* The event emitter: it decides nothing; its heartbeat may report a stage late.
* Taxonomy and point observation: offline commands over files, without stored state.
* Two families that declare the same query text are allowed by the constants but not
  instantiated: each may collect the text once in the same invocation.
* Command lines, printing and CI.

## 6. Plan

1. Done: the collection side (`ProbeCollection` with proofs, `QueryScheduler`,
   `WorkdirLifecycle`, `EvidenceArchive`, `SessionState`), the stores
   (`SchemaDriftRegistry`, `ObservationStores`, `SchemaMigrations`, `VersionedStores`)
   and the analyses (`FeedExperiments`, `CadenceAudit`, `ThesisFeatures`,
   `ThesisIntelligence`).
2. Next: the union of comparable members and the market features as operators; point
   observation; taxonomy sampling and agreement, against reference definitions.
3. Proofs: every safety property of the runs has its theorem; what comes next are those
   of the modules of item 2, and that counting is sorting, which needs an induction over
   the sample that the prover cannot instantiate.
