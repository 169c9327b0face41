# A TLA+ verification project for vector-db-benchmark

`vector-db-benchmark` loads a vector corpus into one of fifteen vector
databases, waits until the index is built, drives searches against it from many
threads and writes result files. Its numbers are worth something only if the
corpus is whole, the index is finished, the concurrency is the one reported, and
no failure is quietly dropped. This project models the parts of the program that
carry those promises, checks them with TLC on small instances, and proves the
most important ones with TLAPS for every value of the constants.

`PROJECT.json` is the machine-readable index: components, runs, mutants, the map
from definitions to source lines, findings, hazards and theorems. Line numbers
refer to `src/`, the repository at one commit.

* [The system](#the-system) – components, state, operations, interactions
* [Modules](#modules) – what each models and how it corresponds to the code
* [Runs](#runs) – what is checked, with which bounds and under which fairness
* [Proofs](#proofs)
* [Departures](#departures) – where the code and its comments disagree
* [Not modelled](#not-modelled) and [Plan](#plan)

## The system

One process runs a *sweep* (`experiment.rs`): it reads the configuration files,
selects configurations and datasets, and for each pair calls the `Engine` trait –
`configure`, `upload`, `search_*`, `delete` – repeats every search point, and
saves results. Around that core:

| Component | State it keeps | Operations | Hard part | What makes it correct |
|---|---|---|---|---|
| Start gate (`start_gate.rs`) | phase and four counters under a mutex, a condvar, one ticket per worker, join handles | `spawn`, `arrive`, `fail`, ticket drop, `wait`, `start_with`, pool drop | lost wake-ups, panics, spawn failure with others parked | nobody measures before all are warm; Ok means the planned concurrency; no thread outlives the pool; always ends |
| Streamed upload (`upload_stream.rs`, `stream_reader.rs`) | one two-file stream under a lock, error slot, counters | `next_raw`, decode, send, `finish` | vectors and payloads parting company after an error; end of stream | Ok means each row once, with its own vector and payload |
| In-memory upload (engines) | atomic batch counter, error slot, retry meters | claim, send, retry, give up | lost answers, partial batches, sixteen slightly different policies | Ok means stored; one owner per batch; it ends unless a request hangs |
| MS MARCO publication (`preparation.rs`, `prepare_msmarco.rs`) | published and `.part` files, `PREPARED.json`, `COMPLETE` | build, forced rebuild, three in-place upgrades, recovery | a crash between any two file operations | the loader never takes a mix of two corpora; a sealed publication can be finished |
| Dataset directory, readers and upload plan (`download.rs`, `dataset.rs`, `readers/`) | files per layout, cached memory plan, keys of a shared corpus | download, retry, extract, `exists()`, count checks, plan, read | cut extraction or download, two runs in one directory, truth of another corpus | what is uploaded and scored is what `datasets.json` declares, by one reader |
| Run plan (`config.rs`, `index_naming.rs`, `experiment.rs`) | configurations by file, skipped files, refusals | read, select, refuse, name the index | broken files, name clashes, derived names | a sweep never shrinks in silence; every configuration has its own index |
| Sweep (`experiment.rs`) | resident corpora, pending saves, loss and failure tallies | configure/upload/search/save/delete under flags | flags, partial failures, watchdog, budget | nothing short is published; results survive; exit 0 means everything owed was measured |
| Calibration (`experiment.rs`) | interval, last two probes | probe, narrow, finish | midpoint arithmetic at the ends | bracket kept; no probe twice; the crossing is reported |
| Engine life cycle (thirteen engines' `configure`, `upload`, `search`, `delete`) | collection, documents, background indexes; what the engine object has learned | drop, create, load, poll, query, delete; a second process with `--skip-upload` | refusals that go unchecked, lost answers, premature readiness, shared corpora | a search sees its dataset, fully indexed, and a foreign document only where a removal is known to go unchecked |
| Index readiness wait (`indexing_wait.rs`, Redis family) | clocks and budgets, last reading | poll, retry, give up | stale FT.INFO, restarts, dialects | Ok means built; bounded; blips ridden out |
| OpenSearch/Elasticsearch index phase | index, segments, merge tasks, attempts | delete, create, load, merge, refresh, health | answers lost, merges that outlive their client | Ok means a fresh index, all of it searchable, cluster at rest; for OpenSearch one segment |
| Search harnesses (24 functions) | shared ordinal counter, per-worker buffers, clock | take, pace, query, update, join, report | counter beyond the end, lateness, shedding, a worker that cannot connect or never hears back | each ordinal accounted for once; report says what ran |
| Filter builders and query path (every engine) | resolved filters; a document's value as stored, updated and asked for; replies | translate, refuse, upload, update, ask, parse, retry | seventeen dialects with different losses; odd replies | no declared filter is lost in silence; the filter finds what was written |
| Fulltext, hybrid, hybrid-rrf and filter-only workloads | index profile and marker, pipelines, bucket pass, layout labels | build, mark, validate, probe, fuse, remap, publish | what earlier runs and other configurations left on the server | a published result was measured on the analysis, fusion, filter and index it names |
| Provenance, summary, comparison | process-global recorder, collected rows, dump files | record, redact, headline, pair, verdict | one recorder for a sweep, order of searches, dumps cut short | an artifact explains its run and leaks no credential; a pass is evidence |
| Cluster transport (`redis_transport.rs`) | two topology readings, fingerprints | topology, scan per primary | slots migrating during the scan | a count is right or refused |
| Commandstats guard (`redis_utils.rs`) | server counters, baseline, primed flag | reset/snapshot, check | several runs on one server, restarts | own failures seen; old ones not blamed |

Interaction is by call and by shared state. The sweep calls the engine; an
engine's search builds a `WorkerPool` on a `StartGate` and reads one atomic
query counter; an upload shares an error slot and either a batch counter or the
stream's lock; separate *processes* meet in the server (its counters, keys,
slots, indexes, markers and pipelines) and in the dataset and result
directories. The modules cut along those lines, and each treats what is beyond
its cut as an environment that may do anything the code has to expect: a request
that arrives or not, an answer that arrives or not, a connection refused, a
thread panicking, a process dying.

`PROJECT.json` lists the hazards, each at the line where it bites, with the
properties that would catch it.

## Modules

### Threads and uploads

**StartGate** – every critical section of the gate is one step. The code drops
the lock before `notify_all`, so the notification is a step of its own (`owes`),
and a waiter may be woken spuriously. Workers can be refused by the OS, fail
their setup, panic anywhere, or finish; the coordinator spawns, waits, releases
or aborts, joins, and on every error path drops the pool. **StartContract** is
the abstract promise (workers warm up; all start together or none; one verdict),
and `ImplementsContract` is the refinement of it by `StartGate`, progress
included.

**UploadStream** – two positions in two files and one row number, which have to
agree. `NextRaw*` are the exits of `next_raw` under the lock, with all of their
half-done effects: after a bad payload line the vectors are consumed but
`next_row` has not moved. Decoding and sending happen outside the lock, and may
hang there (`DialHangs`, `SendHangs`): the closures are those of any engine.

**UploadWorkers** (with **UploadStream** in **CorpusProofs**) – one worker loop
for the in-memory uploads, and a row of policies for each of the sixteen
variants (sequential path, floor, cap, retries by class, what is read of an
answer, which requests its client bounds by a timeout). The server may keep none,
part or all of a batch whatever the client sees; a request that nothing bounds may
never come back (`Hang`). Turbopuffer's thread pool may fail to build (`PoolFails`).
`upload_params.parallel` starts at 0.

**SearchEngines**, **SearchHarness** – the loop every search function is an
instance of, with a row of policies (gate, prime query, commandstats check, what
a failed connect does, whether connecting and querying are bounded by a timeout)
for each of the 24 functions. Modes: closed loop, open loop with shedding,
duration, mixed search/update. A worker whose client sets no limit may wait for
ever (`Hang`, `stuck`), and the run with it (`Held`).

### The corpus

**Publication** – the prepared MS MARCO directory file by file. A content is a
token; a partial write is "torn". Each command is a list of file operations in
the code's order, `Crash` may come between any two, and the next command starts
with `recover_publication` as the code does. Proved in **CorpusProofs**.

**CorpusSource** – the other datasets: two runs on one directory, the download
with its retries, the extraction member by member (which a kill may end after
any of them), `exists()`, the count checks of the layouts, the upload plan that is
measured once per dataset, and what each reader makes of missing, cut, torn or
blank rows. `keys` is the shared corpus under a prefix with its gate. `IsDataset`
says what an entry of datasets.json may be: every file `Belongs` to its dataset,
though it may be absent, cut, torn or have blank lines. Proved in **CorpusProofs**.

**Sweep** – `run` and `run_single_experiment` with ten flags, chosen by TLC at
the start. An engine call is one step that succeeds or fails; a search may be
lossy; the watchdog and the time budget may strike; saves are deferred as in the
code.

**Calibrate** (+ **MCCalibrate**, **WorkloadProofs**) – the bisection with its
real integer arithmetic; the engine is a *curve* from knob value to precision
level, which the run quantifies over. A probe may fail.

### The index

**Lifecycle**, **LifecycleEngines** (+ **IndexPhaseProofs**) – the requests that `configure`, `upload`,
`search` and `delete` of each engine make, one after the other; every request
has a tolerance taken from the code (`?`, `let _ =`, a retry, an accepted
status). The server executes a request or not, answers or not, and indexes in
the background; waits poll it. `left` remembers what a removal left behind whose
failure the code passed over (in Redis, `FT.DROPINDEX … DD` of an index that is not
there: the keys stay, and `FT.CREATE … PREFIX` indexes them), `unseen` which indexes
a wait was not shown (Milvus asks for each by its own request and passes over one
whose answer has no data). Where documents are keys (`keyed`), an earlier run may
have left keys without an index. A client without a time limit may hang in any
request (`Hang`). After the first process, a second one may come with
`--skip-upload`, also after an upload that failed half way: it compares a row count,
`FT.INFO`'s in the Redis family. What the twenty rows have in common is `RowsAssumption`: who clears, loads, builds, waits and drops,
and in which order.

**IndexingWait** – polls of `FT.INFO` against a server that indexes, restarts,
loses its index, drops connections or answers in one of six dialects. Time is in
ticks; `Lateness` lets a thread wake up late, and Redis's own poll, whose connection
has no read timeout, may hang (`PollHangs`).

**LuceneIndex** – delete, create, load, merge, refresh and health of OpenSearch
and Elasticsearch, with the retry policy of each and merges that go on after
their client gave up. `searcher` is what queries see: a refresh reopens it; a merge
of Elasticsearch may or may not. Of Elasticsearch's merge only the HTTP status is
looked at, of OpenSearch's task every shard.

**PrefixScan** – `scan_prefix` between two topology reads, each of which is
itself two `CLUSTER SLOTS` with a per-node question between them. The cluster
migrates slots key by key at any time; the history `hands` counts how often a
slot changed its owner since the opening topology was confirmed.

**CommandStats** – `configure`, `upload`, `search`, `mixed` and the check, for
several runs on one server whose counters may or may not be resettable.

### The query

**FilterDialects**, **Filters** – a table per engine: what its builder makes of
each kind of leaf (`exact`, `none`, `all`, `wide`, `narrow`, `server`, `drop`,
`entry`), and how it combines `and`, `or`, nested groups and several keys.
`Filters` resolves a search's queries one after the other as
`QueryFilter::resolve_all` does, and gives every filter its *meaning*, the set of
valuations of the leaves it accepts, so that "the filter sent is the filter
declared" can be stated.

**QueryForms**, **QueryPath** – the forms a metadata value takes on its way:
stored by the batch upload, stored by the update of a mixed run, and written in
the query; the kind of index each field has; the replies and which of them an
engine takes for an answer, a failure or a reason to ask again.

### Text workloads

**Fulltext** – successive runs of configurations of one name on one index, its
marker and its normalised corpus; runs may die, markers may be refused, stale
or unreadable, indexes may be reused. **HybridBuckets** – the passes of a hybrid
run through `hybrid_pass`, record remapping and the evidence that the filter was
applied. **HybridRrf** – two processes that create, check, use and drop search
pipelines on one server. **RankFusion** – reciprocal rank fusion, the reference
page and the tie-tolerant recall, against a definition over all legal pages.
**WorkloadLayout** – which workload runs on which index layout, the refusals and
read-backs, the labels a result carries, on an index another configuration may
have built. **WorkloadProofs** proves what the five promise.

### Plan and artifacts

**RunPlan** – configuration files, clashes, selection (`--skip-vector-index` leaves
out what cannot run without vectors), index names.
**EngineKnobs** – which settings each engine resolves, from which sources, in
which phase. **Provenance** – the sweep as the recorder sees it: `begin`, the
readers of `effective_config.rs`, overrides, redaction, and the artifacts; a
`--timeout` may stop it, with Ok, before any experiment.
**Summary** – buckets, headline, curves, knee. **CompareResults** – two runs that
dump line by line and may be cut, and the comparison that meets their files.
**ProvenanceProofs** proves that the sweep is the one that was planned, that its
artifacts are honest, and that the summary and the verdict of a comparison say no more
than what was measured and dumped.

The MC modules put components that meet in the same place into one run. Where
they share no variable, a selector (`way`, `side`, `part`, `half`, `workload`)
says which one moves, so a run explores the union of their state spaces and not
the product; fairness is stated per component under the selector.

Definitions named in `PROJECT.json` under `mutants` ("as") are plausible bugs,
kept next to the definition they would replace; no specification uses them.

## Runs

Passing runs (TLC, complete exploration):

| Run | Modules | Bounds | Distinct states | Checks |
|---|---|---|---|---|
| `start_gate` | `StartGate` | 3 workers | 11 316 | `NoEarlyMeasurement`, `OkMeansFullConcurrency`, `NoLostWakeup`, `NoThreadOutlivesPool`, `ImplementsContract` |
| `uploads` | `MCUploads` | 3 rows, 2 workers, blocks of 0, 1, 2, every payload file with at most one bad line; 16 engine rows, parallel 0–2, 3 batches, 2 retries | 276 326 | `StreamedExactly`, `OkMeansStored`, `OneOwner`, `Terminates` |
| `publication` | `MCPublication` | all seven commands, any number of them and of crashes; eight dataset layouts, 3 rows, 2 queries, 2 runs, 2 download attempts, 1 restart; a local dataset is read with every `--upload-reader`, a downloaded one with `auto`, one of them also with `stream` | 614 613 | `PublishedWhole`, `RecoversUnlessStale`, `DatasetAsDeclared` |
| `calibrate` | `MCCalibrate` | values 1..10, six smallest values, three targets, every growing curve of four levels and every curve of two | 422 840 | `Bracket`, `NoPointTwice`, `ReportsTheCrossing` |
| `sweep` | `Sweep` | 2 configurations × 2 points × 2 repetitions, all 2^10 flag sets | 3 225 696 | `NoShortCorpusPublished`, `NoCorpusLeaks`, `EvidenceSurvives`, `OkMeansMeasured` |
| `search_harness` | `SearchHarness` | 24 harnesses; 2 workers; 0, 1 or 3 requests; closed, open, duration, mixed | 310 982 | `DispatchKept`, `ReportHonest`, `Terminates` |
| `redis_cluster` | `MCRedisCluster` | 3 primaries, 2 slots, 3 keys, 2 migrations; 2 runs (symmetric), 2 failures, 2 operations each | 2 067 498 | `CountIsSound`, `VerdictIsOwn` |
| `index_phase` | `MCIndexPhase` | 17 engine rows and the Qdrant variants, 2 polls; six FT.INFO dialects, 2 documents, floor 8 ticks; 3 merge retries, budgeted or not | 34 361 | `NoStaleCorpus`, `ReadinessVerdict`, `Terminates` |
| `query_path` | `MCQueryPath` | 17 searches × all leaf kinds, pairs, nestings and empty shapes; 17 engine rows × all field types and replies; 2 retries | 26 464 | `FilterHonest`, `FilterFindsDocument` |
| `text_workloads` | `MCTextWorkloads` | 15 fulltext and 13 layout configurations, 2 processes and 2 queries of hybrid-rrf, 9 hybrid query sets (one empty), fusion of all pairs of lists of up to 3 of 4 rows | 159 010 | `MeasuredAsPinned`, `RecallIsBestOverlap`, `FusedAsAsked`, `LabelsTrue` |
| `artifacts` | `MCArtifacts` | 2 configurations, every engine's settings with at most one variable set, up to 4 summary rows of 9, pairs of dumps of up to 2 points | 510 419 | `ArtifactHonest`, `PlanKept`, `HeadlineIsEarned`, `PassIsEvidence` |

and one that TLC has to refute: `calibrate_closest` (`ReportsTheClosest`), see
[Departures](#departures).

Some checks are conjunctions of named parts, each stated where its component is:

| Check | Parts |
|---|---|
| `StreamedExactly` | `OkMeansExactCorpus`, `NoRowTwice`, `MisalignedOnlyAfterError` |
| `PublishedWhole` | `LoaderSeesOneCorpus`, `MarkerMeansWhole` |
| `DatasetAsDeclared` | `CorpusAsDeclared`, `TruthAligned`, `OneReader` |
| `DispatchKept`, `ReportHonest` | `OrdinalOnce`, `RatioHeld`; `ReportConserves`, `FullConcurrency` |
| `VerdictIsOwn` | `FailureSeen`, `NoForeignBlame` |
| `ReadinessVerdict` | `OkMeansIndexed`, `OkMeansSettled`, `OkMeansBuilt`, `NoPrematureGiveUp` |
| `FilterHonest` | `NeverUnfiltered`, `FilterExact`, `StrictRefuses` |
| `LabelsTrue` | `RecordsIdentify`, `FilteredEvidence`, `LabelledAsBuilt` |
| `ArtifactHonest`, `PlanKept` | `ArtifactExplainsRun`, `NoCredentialPublished`; `NoSilentShrink`, `OwnNamespace` |

The type invariants of the modules are not listed checks of their own; those of
the modules that are proved about are part of the proved invariants.

What each shows:

* `start_gate`: whichever threads are refused, fail, panic or wake up for no
  reason, the workers start together or not at all, no notification is lost, an
  Ok means that all of them measured, and the abstract contract is implemented,
  liveness included.
* `uploads`: streamed, Ok means each row once with its own vector and payload,
  and a row can be mismatched only after an error is already recorded; from
  memory, Ok means stored for every engine whose answers can be read, and nobody
  sends another's batch. Both end whatever the server refuses; what may keep one
  from ending is a request that never comes back, of a client without a time limit.
* `publication`: no sequence of commands and crashes makes the loader take a mix
  of two corpora; a cut publication can be finished unless a stale `.part` of an
  earlier command is in its way. A binary matrix that was cut is never read as a
  smaller corpus, cut text is reported, rows keep their payloads and queries
  their truth, and one run uses one reader.
* `calibrate`: the two ends stay on their sides of the target, nothing is probed
  twice, and with a growing curve the reported value is next to the crossing.
* `sweep`: a file over a short corpus exists only where the check could not know
  or was waived; without a failure no corpus leaks; measured points are on disk;
  exit code 0 means nothing owed is missing.
* `search_harness`: each ordinal is handled by one worker and lands in one
  buffer, the report is what the buffers say, gated runs never report a
  concurrency they did not have, updates never run ahead of their ratio. A run
  ends, or every worker is through or waits for one that is stuck in a request its
  client does not bound.
* `redis_cluster`: a count never exceeds the corpus, and falls short only if a
  slot left its primary and came back; an operation that passed had no failed
  call unless somebody wiped the counters; a run is not blamed for failures older
  than itself.
* `index_phase`: whichever requests and answers are lost, a search runs over all the
  documents of its dataset and, but for what a removal left whose failure the code
  passed over or the operator's choice of place, over no others; they are in every
  index the wait was shown; OpenSearch serves one merged segment and nobody is still
  merging; a blip never ends a wait; every phase ends, or hangs in a request of a
  client that sets no time limit, and in no other.
* `query_path`: a declared filter reaches the server with its meaning or the
  search is refused; a document is found by the value it was written with, after
  an update too.
* `text_workloads`: what a published result says of its analysis, its rank
  constant, its filter, its records and its index is what was measured, whoever
  built, marked or dropped what was on the server.
* `artifacts`: an artifact's block explains the value each engine received and
  carries no credential; a sweep lists what it left out, begins no more than was
  announced and, unless `--timeout` cut it short, no less; the headline does not
  depend on the order of the searches; a comparison that passes saw every answer.

Why the bounds are enough for the cases that matter:

* *Gate.* Three workers is the least number with one parked, one failing and one
  still setting up while the coordinator decides; the proofs cover every number.
* *Uploads.* Three rows in blocks of two gives a short last block; blocks of one
  let both workers hold a block while a third row is left; 0 is refused. Three
  batches over two workers: one stored, one failing, one not claimed yet. Two
  retries distinguish an untouched, a used and a spent budget.
* *Publication.* There is no bound on commands or crashes: contents are tokens,
  so the directory has finitely many states and TLC visits all of them. Three
  rows can be cut to two, one and none; two runs and a restart let one run meet
  what a dead one left while a third extracts.
* *Calibration.* 1..10 makes up to four probes, so both ends move, and `Tops`
  covers an interval that converges at once, one of even and one of odd length,
  and a smallest value beyond the largest.
* *Sweep.* Two configurations let one run on what the other left; two points and
  two repetitions let one succeed, one fail and one be pending.
* *Harness.* Three requests over two workers makes the counter run past the end
  while the other worker is still in a request; `MaxTicks` is past every deadline.
* *Scan.* Two migrations are needed for a slot to leave and come back, which is
  where the double topology read stops helping; three primaries let a key move
  from one already scanned, or to one not yet scanned.
* *Index phase.* Two polls distinguish a flicker of readiness from a confirmed
  one. The outage window (3) is longer than a retry sleep (2), the override (3)
  shorter and the floor (8) longer than what the two documents need.
* *Filters.* Every kind of leaf alone, and with each common kind beside it, shows
  what a builder drops; three leaves suffice for both arms of a group and one
  nesting, and a second query after a good one for the refusal in mid-search.
* *Text workloads.* Two successive runs and a death in between reach every
  mismatch of index, marker and corpus; four rows and a window of three give ties
  within, across and beyond the cutoff; two rank constants tell pipelines apart.
* *Artifacts.* Two configurations are needed for one to inherit from the other;
  the rows of the summary lie on both sides of a bucket boundary, saturated or not.

Fairness, and why the code justifies it: a thread that can run is scheduled (weak
fairness per thread in `StartGate`, `UploadStream`, `SearchHarness`,
`UploadWorkers`); the clock runs (`Tick`); merges end (`Merge` – a budget of
"unlimited" waits for exactly that). A request is *not* assumed to end. Where the
client bounds it by a timeout it does, by an answer, an error or the timeout; where
it does not, hanging is one of its outcomes (`Hang`, `DialHangs`, `SendHangs`,
`PollHangs`), and the three `Terminates` say that nothing else keeps a phase from
ending. Who sets no limit was read off the clients: standalone Redis connections
(`redis_transport.rs:182`) but for the search workers that set their own, Valkey's search and filter-only
workers, VectorSets, the PostgreSQL client, MongoDB and Turbopuffer once connected, and in the Redis
family the handshake, since the limits are set after it; the HTTP clients, Qdrant and
Weaviate over gRPC, Vertex and the cluster connections bound everything. In
`UploadStream`, which does not know its engine, any call may hang. `Sweep` states no
fairness: the code's answer to a hung search is `--search-timeout`, off by default,
and the watchdog is a step of it.
In `StartGate` a worker's setup and loop are assumed to end, as the comment in the
code says: the gate has no deadline of its own. Nothing is assumed of failures,
crashes, spurious wake-ups, other processes or the cluster's operator. The other
runs check safety only and their specifications state none or do not use it.
Deadlock is checked except in `publication`, `query_path`, `text_workloads` and
`artifacts`, whose processes stop when their work, or the named bound on it, is
used up.

## Proofs

Eight modules hold proofs. Each has an inductive invariant, written as a
conjunction of named parts, and a theorem that it is one; the listed theorems
follow from it. An invariant a run checks is hardly ever inductive alone: what is
added says where a thing is *in the middle* of what the program does.

* **StartGateProofs**, for every `Planned \in Nat`. `IInv` = `TypeOK`,
  `Counting` (`settled` is the number of settled tickets, and a zero count of
  losses or failures means there is none), `Threading` (where a ticket is when its
  thread is at a given place), `Staging` (what the coordinator's place says of the
  phase and the result), `Joining` (handles taken are those of ended threads, and
  a panic that was counted is one of theirs) and `Sleeping` (a sleeper's condition
  is false or somebody owes a notification). `TypeCorrect`, `SynchronizedStart`
  (`NoEarlyMeasurement`), `HonestSuccess` (`OkMeansFullConcurrency`),
  `WakeupsArrive` (`NoLostWakeup`) and `PoolDrains` (`NoThreadOutlivesPool`) follow.
  That nobody measures early needs the counters to be the tickets, which needs
  threads and tickets to agree. `PoolKeepsContract` is the refinement: under the
  mapping of `Contract` every step of a worker or the coordinator is one step of
  `StartContract` (`WorkerContract`, `CoordContract`) or leaves the mapped state
  alone (`Stutters`). It is the safety part of `ImplementsContract`; the progress
  that the contract also promises is fairness and stays with the run.
* **WorkloadProofs**. For every curve, range, target and set of smallest values,
  `IInv` = `TypeOK`, `Within` (the interval stays inside its first extent), `Aim`
  (the next probe is the midpoint, and at an end only if that end is unprobed),
  `Trail` (every earlier probe lies outside the interval or is a probed end) and
  `Sides` (a probed end lies on its side of the target). `Brackets` and
  `NoProbeTwice` follow. With `LastProbe` (the last probe is an end of the interval)
  added, so does `CrossingReported` (`ReportsTheCrossing`): no room for a probe
  between the ends means that the ends are adjacent, and the reported one is an end.
  For every schema, set of engine configs and their search configs, `TextIInv` =
  `JobType`, `Origin` (the live index was created for some profile, or for none, a
  whole corpus in it was uploaded for that same profile, and a marker beside a
  normalised corpus is that profile's or lost) and `OwnIndex` (a run that uploads
  works on the index it created); `AnalysisIsPinned` (`MeasuredAsPinned`) follows,
  because what the validation reads of index and marker leaves one profile that can
  have built them (`ServedAsBuilt`). For every number of processes, configs and
  queries, `RrfIInv` = `RrfTypes`, `NamedByConstant` (a pipeline has the constant it
  is named for, or is not there: this is what keeps runs apart) and `RunCourse` (what
  a run's stage says of the checks behind it); `FusionIsOwn` (`FusedAsAsked`)
  follows. For every set of engine configs, `LayoutIInv` = `ReadBack` (who searches
  has read the live index back) and the property; `LayoutIsAsLabelled` is the
  `LabelledAsBuilt` part of `LabelsTrue`. For every query file and policy,
  `BucketsIInv` = `BucketTypes`, `Course` (`hybrid_pass` holds the queries of the
  bucket under way and nothing between two), `Recorded` (the records are the queries
  of the buckets that are over, each once, numbered in the order of their dispatch:
  stronger than what a published run claims, because it has to survive each
  renumbering) and `Evident` (the server counted only what reached it, and a bucket
  that is over has left its evidence). `PassIsBucket` and `BucketsOnce` say what
  `by_bucket` computes for every file; they rest on `CanBeSorted`, that every finite
  set of positions can be put in order, an induction over its parts that is done with
  the well-founded order of the library (`FS_StrictSubsetOrderingWellFounded`,
  `WFMin`), for which no operator has to be passed. `LabelsAreEarned` is the whole of
  `LabelsTrue`. For every corpus, window and pair of lists, and every `Scale` that is
  a common multiple of the denominators (`FusionAssumption`), `FusionIInv` says that
  the reference is the fusion of the two lists and an answer was scored against it;
  `Cutoff` says what lies above the score of the last reference row and what ties
  with it, `LegalIsCut` that a legal page is all of the first filled up with the
  second, `ScoreIsBest` that no legal page meets a page more often than `score_query`
  counts and one does as often. `RecallIsBestOfLegal` (`RecallIsBestOverlap`) follows.
  The last two hold of the run as it is (`MCSpec`), where `SideBySide` keeps the
  workloads that do not move where they are.
* **CorpusProofs**, for every set of engine rows, every number of workers,
  batches and retries. `IInv` = `TypeOK`, `Claimed` (a held batch was taken off the
  counter), `OneOwner`, `Conserved` (a batch taken off the counter is stored, in
  someone's hands, or an error is recorded or a worker hangs), `Drained` (without an error a thread
  leaves only when the counter is used up) and `Verdict` (given once, after the
  join). `SingleOwner` and `OkIsHonest` follow; the second is about engines that
  are not `lenient` and uploads that spawn a worker, see Departures for the others.
  And for every corpus, block size, payload file and limit, `StreamIInv` =
  `StreamTypes`, `BlocksApart` (no two blocks in hand overlap, and none reaches what
  was sent), `Aligned` (the two file positions and the row number agree until an
  error is recorded), `RowsKept` (a row handed out is in hand, sent, or an error is
  recorded), `EndSeen` and `Concluded`. `StreamedIsExact` (`StreamedExactly`)
  follows.

  And for every set of `prepare-msmarco` subcommands, `DirInv`. Neither
  property of the directory is inductive: both depend on what the command at work
  has still to do. A command follows one of seven plans, each known by when, counted
  from its end, it writes and renames every file and takes the marker away
  (`Times`); the `Covers` lemmas show that each operation list keeps to its plan.
  With that, `WorkOK` says what is staged and what is published with n
  operations left, and that the seal describes the directory the publication will
  leave; `RecoverOK` the same of a recovery, whose operations are exactly the
  renames still due, in order; `CutOK` that what a death leaves is still described by
  its seal; `MarkerOK` that `COMPLETE` beside a seal means the sealed files;
  `LegacyOK` that filter queries without a seal have their payloads; `DirOK` the
  types, among them that no partial write has a final name (`DirTyped`).
  `PublicationWhole` (`PublishedWhole`) and `CutPublicationRecovers`
  (`RecoversUnlessStale`) follow.

  And for every set of datasets, any number of invocations on one directory, of
  download attempts and of restarts, `SourceIInv` = `FilesBelong` (whatever was
  cut, killed or deleted, a file on disk is one that could be part of the dataset,
  and nothing is fetched where files were provided) and, for each invocation,
  `Placed` (where it is in its download), `Checked` (the count it accepted still
  holds of the directory, or somebody has written there since), `Loaded` (what it
  uploaded), `Scored` (queries and truth belong together) and `OneWay` (which
  readers its plan allows). The property is not inductive because an upload comes
  steps after the count check it rests on; the second half of `Checked` is what
  another process in the same directory does to that, and why `CorpusAsDeclared`
  says nothing of a directory rewritten under a run. `SourceAssumption` asks of a
  dataset that rows are in their places up to blank or broken lines, that the
  matrix of its vectors has all of them in its header, and that the truth of
  another sparse corpus is of a larger one; TLC evaluates it on the eight layouts
  of the run. `DatasetIsDeclared` (`DatasetAsDeclared`) follows.
* **SearchHarnessProofs**, for every harness row, mode, number of workers and of
  requests, ratio and clock. `IInv` = `TypeOK`, `HandledOwed`, `HeldFresh` (an
  ordinal in hand is in no buffer and in no other hand), `OrdinalOnce`, `Kept` (an
  ordinal off the counter is in a buffer or in a hand), `Course` (what a worker's
  place says of its buffers), `Ratio` (in the middle of a round the searches cover
  the updates done and still owed), `Settled` and `ReportHonest`. `DispatchIsKept`
  and `ReportIsHonest` follow.
* **SweepProofs**, for every number of configurations, datasets, points and
  repetitions and all flag sets. `IInv` = `TypeOK`, `Corpora` (a search runs on a
  whole corpus or a waived one), `Evidence` (a measured point is in the repetition
  going on, among the deferred saves, or on disk), `Owed` (under `--exit-on-error`
  a point left behind is pending or fatal), `Residence` (while nothing failed only
  the configuration at work has a corpus), and the properties. The four invariants
  of the run follow.
* **RedisClusterProofs**, for every set of primaries, slots and keys and any
  number of migrations. `ScanIInv` = `TypeOK`, `Placed` (a key is with its slot's
  owner or with the target of its migration), `Opened` (a slot that changed hands
  once is not where it was), `Covered` (a key that never left its primary has been
  seen, is being seen, or its primary is still to come), `Closing` (what the second
  topology read adds to that), `Alone`, `Quick` and `CountIsSound`;
  `ScanCountsSoundly` follows. For every set of runs, `StatsIInv` is the type and
  `OwnCourse`, what each run's place says of its snapshot and of its own failures;
  `VerdictsAreOwn` follows.
* **IndexPhaseProofs**. For every retry budget, `LuceneIInv` = the type, `Merges`
  (one merge for each attempt, and the one waited for is the last), `Merged` (the
  last merge done without a failed shard left one segment) and `Staged` (how far
  the index and what queries see of it are at each stage); `IndexIsSettled` follows, because the cluster merges
  in order: when the last merge is over, none is left. For every corpus, budget,
  window and interval, `WaitIInv` = the type, `Holdings` (only KiviDB's HNSW index
  compacts, and its index is complete as long as it is there) and `Outage` (an
  outage began after the last answer), with `OkMeansBuilt` and `NoPrematureGiveUp`;
  `WaitedForAll` and `BlipsAreRiddenOut` follow. For every table of engines that
  satisfies `LifecycleAssumption` (search() asks and learns, writes nothing, and finds
  out all that its queries use: TLC evaluates it over the real table), `ClientIInv` =
  `Shaped`, `SecondProcess` (nobody uploads in a process started to search) and
  `Prepares` (while a search prepares itself nothing is written, and a fact that it
  needs is known or still to be found out), on which the rest builds.

  And for every table that keeps to `RowsAssumption` as well, `LifeIInv`. What a
  search finds is made by steps long before it: configure() clears, upload() loads,
  builds and waits, delete() drops. So nothing that the properties say holds on the
  way, and each part of the invariant states a debt: it is paid, or the step that
  pays it is among those still to come (`Ahead` is what is known of them). `Renewed`:
  the documents of an earlier run are gone, were spared by a removal that failed
  unnoticed, or will be cleared; `Owned`: a document
  that configure() wrote will be taken away; `Uploaded`: the corpus is there or will
  be loaded; `Built` and `Covered`: every index is there or will be, and has every
  document, was not shown to the wait, or will be waited for; `Greens`: a collection seen idle is idle, unless
  the poll fell into a lull, which is why one sighting is not enough (`Confirmed`);
  `Gone`: a deleted engine is gone but for what such a removal left, or will be
  dropped; `Housed` ties indexes to their collection. A step leaves a debt unpaid only
  by failing or hanging, which ends the run, or in a way that `left` and `unseen`
  record. `CorpusIsOwn` (`NoStaleCorpus`)
  follows, and with the two invariants above, side by side as the run has them
  (`SideBySide`), `ReadinessIsEarned`: the whole of `ReadinessVerdict`.
  `RowsAssumption` asks of a row only what the rows do, each in its own order: TLC
  evaluates it over all of them, so an engine whose upload() returned before its
  wait, or whose configure() dropped what nothing makes again, would fail the run.
* **ProvenanceProofs**, for every set of configurations and of unreadable files,
  every command line and every environment: the inputs are any values at all.
  `PlanIInv` = `Shared` (the selection is shared out between the begun and the ones
  to come, and a sweep that ends well with some to come had a `--timeout`), `Guarded` (past the guard no two of them have one index) and `Reported`
  (a refused experiment is on the list of every summary, and none is refused while
  a summary is the last thing written). `SweepIsAsPlanned` (`PlanKept`) follows.
  For every engine of the table, and every environment, host and declared key whose
  text is one of the model's (`KnownTexts`: a credential that is a plain token comes
  under a credential's name), `ArtifactIInv` = `InOrder` (while an experiment runs the
  recorder is in order), `Written` (what was last written explains the experiment
  that wrote it and is cleared of credentials) and `KnownPolicies`. A recorder is in
  order (`RecorderOK`) when it was `Begun` for the running configuration, is
  `Grounded` (every value is that of a reader that records it, every text the
  environment's), `Complete` (nothing that a reader records or looks at is left out),
  and its `Defaults` and `Overrides` are what they say. Every read keeps it in order
  (`RecordedOK`), clearing it for the next experiment puts it in order (`BegunOK`),
  and the block of a recorder in order is honest (`BlockIsExplained`,
  `BlockIsCleared`); `ArtifactsAreHonest` (`ArtifactHonest`) follows. What the engine
  constructors have in common is `KnobsAssumption`: an engine reads a setting in one
  place, and a credential only through readers that have no other text for it.

  And for every row that can be measured, `SummaryIInv`: a written summary is that of
  the rows that had ended. What it says of them takes an induction over the rows, made
  by least counterexample (`Smallest`): after each turn the loop holds the best row of
  every bucket met so far (`HeldIsBest`, `BestIsBest`), because `Better` is an order
  (`BetterIsOrder`: an unsaturated row before a saturated one, then throughput). A
  curve that ends has a peak and the peak is its fastest level (`Largest`,
  `PeakIsFastest`). `HeadlineIsBestOfBucket` (`HeadlineIsEarned`) follows.
  And for every two runs that may dump anything (`CompareAssumption`: attempts are
  finitely many and numbered, hits are lists), `CompareIInv`: a report is that of the
  files as they were when the comparison was started. A pair with as many records as
  attempts has them all, since a record counts those before it (`WholeIsRead`); a first
  answer exists (`FirstAnswer`); the filtered list has no id twice (`TopIsDistinct`),
  so a jaccard and a rank correlation of 1 leave one list, in one order
  (`SameOrderIsSame`, `PerfectIsSame`); and a pass leaves no refusal, no failed attempt,
  no one-sided query and, if strict, no unpaired dump (`PassedPairs`).
  `PassComparesAll` (`PassIsEvidence`) follows; `SideBySide` puts the two together as
  the run has them.

The assumptions are the named `ASSUME`s of the component modules (the types of
their constants, and what the rows of an engine table have in common); TLC
evaluates them in every run.

What is model-checked only, and why:

* liveness (`Terminates`, and the progress in `ImplementsContract`): fairness and
  `ENABLED` are outside what this prover does;
* `FilterHonest`: `Filters` gives a filter its meaning with a `RECURSIVE` operator;
* `FilterFindsDocument`: it holds by what the tables of `QueryForms` say entry by
  entry, for which a run over the tables is the better argument.

## Departures

Where the code does something else than its own words say. The first is kept as a
run that TLC has to refute; the others are the reason for an exemption in a
property, named here so that nobody takes the exemption for a promise; a few are limits
of what the property says. Nearly all were found as counterexamples of the
property without the exemption.

| Where | What happens | Where it shows |
|---|---|---|
| `experiment.rs:2576` | calibration compares only its last two probes, and reports "the closest point found" although a closer one was measured before | run `calibrate_closest` |
| `experiment.rs:2524` | a sweep that converges on its first probe can report the initial 0.0 as the precision achieved | the hypothesis `outcome.achieved = curve[outcome.value]` of `ReportsTheCrossing` |
| `preparation.rs:141` | a stale `.part` of an earlier interrupted upgrade makes the recovery of a later, whole, sealed publication fail; the comment at 244 promises to finish it | second conjunct of `RecoversUnlessStale` |
| `prepare_msmarco.rs:596` | `--force` removes `COMPLETE` first, so dying halfway does not "leave the previous good corpus intact" (505) | `Start` resets `cut` for a forced build |
| `experiment.rs:692` | with `--exit-on-error false` a failed experiment is not torn down, and `--reset-between-configs` leaves two corpora resident | `failed = {}` in `NoCorpusLeaks` |
| `experiment.rs:2004` | a failed warm-up returns on the spot and drops the points that had succeeded, which the comment at 1721 rules out for searches | `excused` in `EvidenceSurvives` |
| `redis.rs:3345` and the other harnesses without a gate | a worker that cannot connect returns empty buffers and the report claims the full `parallel`, against the policy at `start_gate.rs:78` | `harness.gated` in `FullConcurrency` |
| `redis.rs:3000` | the error of a prime query, "ignored" (2983), is counted by the server and fails the run | `counted'` in `Setup` of `SearchHarness` |
| `redis.rs:671` | with `parallel` 1 the in-memory upload has no reconnect; `stream_upload.rs:4` says both have the same policy | `seq` in `UploadWorkers` |
| `weaviate.rs:568`, `milvus.rs:1109` | a 200 whose body cannot be read counts as a batch without refusals | `lenient` in `OkMeansStored` |
| `redis_transport.rs:355` | a slot that leaves and comes back between the two topology reads yields a short count, against "fail closed" (286) | `MovedBack` in `CountIsSound` |
| `redis.rs:3203` | the baseline is taken once, so one failed call fails every later, clean search of the configuration | `ownFails` in `NoForeignBlame` |
| `opensearch.rs:1316` | a create whose answer was lost is retried into its own index and fails the configuration | an error outcome of `LuceneIndex`, which `OkMeansSettled` does not count |
| `elasticsearch.rs:255` and seven other engines | `upload_params.parallel` of 0 spawns no worker and the upload returns Ok with nothing sent | last hypothesis of `OkMeansStored` |
| `redis.rs:440`; milvus, chroma, turbopuffer, vectorsets, valkey, dragonfly, kividb | a removal that failed is not noticed, and the next corpus is loaded on top of the old one; in Redis also when the index is gone and only its keys are left | `Swallows` and `left` in `NoStaleCorpus` |
| `milvus.rs:800`, `839` | an index whose description has no `data` is left out, and the rest is enough; the comment at 817 says "Block until every index covers every row" | `unseen` in `OkMeansIndexed` |
| `elasticsearch.rs:1003` | the refresh comes before the merge, which "does not promise to reopen the searcher" (325); `opensearch.rs:593` names it and leaves it to a follow-up. A merge with a failed shard passes on its HTTP status | `searcher # "none"` for Elasticsearch in `OkMeansSettled` |
| `redis.rs:3349` and other unbounded clients | a request to a silent server hangs for ever; `redis_transport.rs:183` says "Timed search workers continue to set their own socket timeouts", which the mixed workers do not | `Hang` and the second alternatives of `Terminates` |
| `redis.rs:145` | the shared-corpus gate counts keys under the prefix, whichever dataset they are of | `redis_shared` in `NoStaleCorpus` |
| `vertex.rs:1191` | the streaming wait gives up with a warning and the search begins | exemption in `OkMeansIndexed` |
| `experiment.rs:1099` | `--skip-upload` compares a count of rows (of `FT.INFO`'s `num_docs` in the Redis family), neither which rows they are nor, elsewhere, whether they are indexed | `restarted # "afterFailure"` in `OkMeansIndexed`, `restarted = "no"` in `NoStaleCorpus` |
| `experiment.rs:1758`, `2418` | `delete()` runs only on the success path | `Lifecycle` reaches "failed" without it |
| `vertex.rs:247`, `turbopuffer.rs:221`, `chroma.rs:692`, `mongodb_engine.rs:1748` | Vertex ignores an `or` beside an `and`, Turbopuffer reads the first key only, Chroma combines its two parts with `and` whatever the group said, MongoDB overwrites one of two ranges on a field | `ShapeLost` in `FilterExact` |
| OpenSearch, Elasticsearch | an empty range matches every document | last disjunct of `NeverUnfiltered` |
| `geo.rs` | a radius that is missing becomes 1000 | `geoNoRadius` in `StrictRefuses` |
| `qdrant.rs` sparse, hybrid and multivector uploads | the points carry no payload, so a filter finds none of them | the upload rows of `QdrantVariants`; `FilterFindsDocument` is about the dense upload |
| turbopuffer, mongodb, vectorsets, vertex, chroma | numbers or digits in keyword fields, booleans or lists take another form when stored than when asked for, as their comments say | `Blind` in `FilterFindsDocument` |
| vectorsets, turbopuffer; six engines for an unknown metric | ranked by cosine (or dot) whatever the dataset's metric is | no property speaks of metrics |
| `parsers.rs:109` and the parsers of other engines | some replies that are no answer are read as "no hits"; pgvector only prints a query error | the reply tables of `QueryForms`; no property forbids it |
| `fulltext.rs:516` | a vector configuration with `--skip-upload` runs on an index a fulltext configuration of its name built, although parity "must never apply to other workloads" | `~published.skip` in `MeasuredAsPinned` |
| `opensearch/hybrid_rrf.rs` | a pipeline that fails its read-back is left on the server | no property forbids it |
| `redis.rs:1223` | fulltext labelled `vector` may run on an index without a vector field (OpenSearch does not look) | last alternative of the layout conjunct of `LabelledAsBuilt` |
| `effective_config.rs:532` | artifacts are written after the last search, so a setting each search resolves shows the last one's value in every file | "of one of them" in `ArtifactExplainsRun` |
| `effective_config.rs` | `connection_params` are used and appear in no block | `how # "connection"` in `ArtifactExplainsRun` |
| `experiment.rs:590`, `196` | a `--timeout` ends the sweep with Ok and the rest unstarted, and `--skip-vector-index` leaves configurations out; both say so on stderr, and no artifact lists what is missing | `budget` and `Announced` in `NoSilentShrink` |
| `experiment.rs:178` | a configuration of an unknown engine type is not selected, without a word | `supported_engines` in `NoSilentShrink` |
| `experiment.rs:662` | an error of `create_engine` ends the whole sweep, also with `--exit-on-error false` | an end of `Provenance` other than "ok" |
| `compare.rs` | two dumps cut after the same query look like complete ones; in single-file mode points of different parallelism are paired | `Whole(f)` in `PassIsEvidence` |
| `summary.rs` | hybrid and vector rows share buckets; the peak of a curve may be a saturated point | `HeadlineIsEarned` speaks of one bucket and of throughput only |
| `dataset.rs:236`, `download.rs:135` | a partial extraction or a body that ended early is kept and never fetched again; text layouts only get a warning, and a missing `payloads.jsonl` means "no metadata" | `warned` and `Blank` in `CorpusAsDeclared` |
| `dataset.rs:722` | a corpus another run rewrites between the count check and the read escapes the check | `rewritten` in `CorpusAsDeclared` |
| `dataset.rs:943` | the sparse guard catches truth of a larger corpus only; its comment describes 100K truth beside the 1M corpus, which it cannot see | sparse datasets in `CorpusAsDeclared` |
| `dataset.rs` `read_sparse_data`, jsonl | the sparse reader compares no counts; jsonl skips blank lines and does not count truth rows against queries | exemptions in `CorpusAsDeclared`, `TruthAligned` |

## Not modelled

Marked `not_modelled` in `PROJECT.json`, with the reason. In short: generated
gRPC clients, a library API no binary calls and the retired Python tool (`v0/`)
– not this program's logic; floating-point metrics, latency digests and `/proc`
sampling – numerics out of TLC's reach, without state of their own; synthetic
data, plots, tables and flag parsing – conversions without interaction.

Left out of components that are modelled in part:

* MS MARCO: the download of the shards with their receipts, the selection of
  passages, and how filter and hybrid queries are sampled from them. They compute
  the *contents* that `Publication` treats as tokens.
* A `remove_file` whose error is swallowed (`preparation.rs:339`,
  `prepare_msmarco.rs:570`, `592`) leaves what a crash just before it would; that the
  command goes on to rename files in the same directory, which denied the removal, is
  not modelled. Nor is an `FT.DROPINDEX DD` that meets an index still scanning and
  deletes only the keys it has seen.
* Cluster transport: connection set-up, TLS and URL handling.
* Readers: the bytes of HDF5, NPY, CSR and JSONL. What a cut, torn, blank or
  missing file becomes is modelled, how a number is decoded is not.
* Fulltext and filter-only: tokenisation, stemming and query wording, the counts
  of filter-only, `check_redis_calls` (a lower bound), and `WITHOUTCOUNT` pages
  that coincide by luck beyond the probed queries.
* Comparison: the count-agreement metrics.

Abstractions inside what is modelled: a row, query or payload is its number or a
token; precisions are levels; time is ticks; a request's wire format is absent; a
server is the set of behaviours the client code has to expect. The plan and the
read of a corpus are one step in `CorpusSource`; available memory is an external
input there. A Qdrant collection that already holds the points is taken not to
be green before its optimizer has run. The legacy MongoDB and Valkey filter-only
paths, which are alike, are one row of `WorkloadLayout`.

## Plan

Modelled: every component above that has state, interaction or failure handling.
Runs stay few: a component joins the run of the ones it meets.

What is left to prove is small: `QueryPath` is a matter of its tables, and a meaning of
filters without `RECURSIVE` would put `FilterHonest` in reach only of an induction over
data.
