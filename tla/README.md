# Verification of beholder

TLA+ models of the parts of beholder that are concurrent, durable, cached or
restarted: how a change of a file becomes an indexed and then an enriched
revision, what the registries, the watcher, the shutdown and the garbage
collection do meanwhile, what is kept between analyses, and what queries see.
The modules are model-checked with TLC on small instances.  Most of their safety
properties are also proved with TLAPS, for every value of the constants: of the
path from a change to its revision, of the inventory, the registries and
watches, the lifecycle of the daemon, the store as a refinement of what it
promises, and what is derived in it.  Paths below are relative to the root of the repository, which
`PROJECT.json` names `src/`; crates are named without `crates/`.

`PROJECT.json` lists the components, the runs, the source lines each definition
stands for, the hazards of the code and the properties aimed at them.

A run is `tlc -config <cfg> <MC module>`, the proofs of a module are checked with
`tlapm <module>`.

## 1. The system

beholder indexes Git repositories, grouped in workspaces, into a semantic store
and answers queries about them.  One daemon per user watches the files, keeps
the store current and serves a command line, an MCP server and a user interface
over a socket.  Language adapters read syntax in the daemon itself; analyzer
workers (separate processes, for instance the one for Rust) enrich what was
indexed with what only a compiler knows.

### Components

| Component | Code | State | Operations |
|---|---|---|---|
| Dirty intents | `daemon/src/indexing/scheduler.rs` `DirtyRepository` | per workspace and repository: pending paths, `reconcile`, `head`, event count | `apply`, `record_event`, `merge`, `durable`, `from_durable` |
| Index scheduler | `daemon/src/indexing/scheduler.rs` | generation per workspace, `dormant_generations`, `automatic_jobs`, `changed`, the operation gate | `add_event`, `mark`, `enqueue_dirty`, `run_index_job`, `complete_generation`, `stop` |
| Durable job queue | `daemon/src/jobs.rs` | rows of two SQLite tables (index, enrichment), admission lock | enqueue of both kinds, coalescing, retry, acknowledgement, `recover`, list |
| Query freshness | `scheduler.rs`, `rpc_service.rs` | none of its own | `query_metadata` |
| Inventory | `daemon/src/indexing/inventory.rs`, `sources.rs` | manifest of file hints, contents on disk and in memory, checkpoint | refresh in its modes, verify against a checkpoint |
| Enrichment scheduling | `daemon/src/indexing/enrichment.rs`, `enrichment_publication.rs` | jobs in the queue, selected contribution in the store | planning, `run_enrichment_job`, publication |
| Semantic store | `adapters-mnestic/src/storage.rs`, `store.rs`, `rules/core` | states, shards, published views, selected enrichments, resolved dependencies, the garbage queue | publish, enrich, delete, claim, sweep, refresh of what is derived |
| Semantic queries | `adapters-mnestic/src/query.rs`, `semantic.rs`, `store.rs` | none; a query reads in one transaction | `dependencies`, `impact`, `trace`, `traverse_graph`, search, context, topology |
| Garbage collection | `daemon/src/daemon.rs` | running flag | monitor, `collect_garbage` |
| Watch ownership | `daemon/src/daemon.rs` `WatchOwnership` | who owns each watched path, and in which mode | `replace`, `update` |
| Registries | `daemon/src/workspace_registry.rs`, `repository_registry.rs` | workspaces, repositories, their two files | register, select plugins, delete, save, load |
| Daemon lifecycle | `daemon/src/main.rs`, `ipc.rs`, `single_instance.rs` | lock file, socket, stopping flag | start, recover, shut down within a deadline |
| RPC service | `daemon/src/rpc_service.rs` | none of its own | registration, deletion, `submit_index`, `submit_enrichment`, queries |
| Daemon client | `daemon-client` | none | forwards a request over the socket, decodes and validates the answer |
| Worker client, worker protocol | `worker-client`, `protocol/src/worker.rs` | the session with a worker, the answer accumulated so far | start, connect, reuse, stream, time out, kill |
| Analyzer workers | `worker-rust` and others | the compiler kept between requests, a cache on disk | prepare, invalidate, resolve, persist |
| Indexing port | `indexing/src/lib.rs` | analyses in memory and on disk, by key | plan, analyze, cache, clear |
| Language adapters | `adapters-treesitter-*`, `adapters-protobuf` | parsed files and resolutions, downloaded dependencies | analyze, resolve between repositories |
| Git adapter | `adapters-git` | none | identity, fingerprint and administrative paths of a checkout |
| Domain, presentation, CLI, MCP, UI, observability | the other crates | none | data types, layout, front ends |

### How they interact

```
 requests --registry mutex--> registries --> files, watch ownership --> notify
                                                                          |
 files --notify--> watcher thread --add_event--> generations, dirty intents
                        |                                 ^
                        +--- changed (Notify) ---+        | complete_generation
                                                 v        |
                       producer task: enqueue_dirty       |
                                                 v        |
 submit_index -----------------------> durable index jobs |
                                                 v        |
                 index attempts, one at a time under the operation gate:
                 inventory - indexing port and its caches - inventory again
                 - publish - checkpoint
                                                 v
                 automatic_enrichment_jobs - admission lock - enrichment jobs
 submit_enrichment ----------------------------------------^      |
                                                                  v
                 enrichment attempt: sources, fingerprint, baseline, inputs,
                 a session with the worker, publish_enrichment

 store: publication -> resolved dependencies -> queries
        deletion, replacement -> garbage queue -> collector threads
```

The watcher thread, the producer task, attempts on the blocking pool, collector
threads and RPC requests share the scheduler and the registries through separate
mutexes; the queue and the store are databases that survive the process.
Nothing holds one lock across a step from reading the disk to publishing:
generations are compared instead.

### What is hard

* Changes arrive while a run reads, analyzes, publishes, or has published and
  not yet completed its generation.
* Generation numbers start again at 1 whenever a workspace is clean.
* Notifications are permits (`Notify`): one is lost if the state it announces
  is read before it is set, and one permit wakes one of several waiters.
* Jobs are coalesced: an enqueue is dropped when an equivalent job is active,
  although that job may already be past the point where it would notice.
* Attempts fail, jobs run out of attempts, the process dies between any two
  steps, and is restarted with other analyzers installed.
* Events are lost (watcher errors) or too many (limits on pending intents).
* One attempt reads several things in several queries and uses them together.
* A file is judged by its metadata, and its metadata and bytes are read at
  different moments.
* Two files and a set of watches have to follow one registry; each write and
  each watch may fail.
* The sweep works in batches beside publications that may bring back what it is
  removing.
* Everything derived (winners, resolved dependencies, compiler sessions,
  analyses) is updated for what is thought to be affected, and kept otherwise.
* A traversal searches a part of the graph and must not mistake the edge of that
  part for the edge of the graph.

### What makes each part correct

* Dirty intents: nothing that was reported is forgotten, memory is bounded.
* Index scheduler: only contents that existed are published, never an older one
  over a newer; queries admit staleness; every change is eventually indexed.
* Durable queue: attempts are bounded, equivalent work is queued once.
* Inventory: a hint is trusted only for the content it was taken with; a
  completed generation is what is on disk.
* Enrichment: a contribution is selected only for the input it was computed
  from; an obsolete attempt leaves newer work eligible; the newest input wins;
  what is on disk is eventually enriched.
* Semantic store, garbage collection: nothing shown is collected, what is not
  shown is, a view is replaced as a whole, and what is derived incrementally is
  what the rules define.
* Queries: the answer is what the whole graph says, or says that it is not.
* Watch ownership: a path is watched as long as some workspace needs it, also
  when a watch call fails half-way.
* Registries: memory and files agree after an error or a crash; no request waits
  for ever.
* Daemon lifecycle: one daemon at a time; shutdown ends, and a clean one leaves
  nothing running.
* Worker client: an answer belongs to its request, a process to a session, and
  every call returns.
* Caches and compiler sessions: a warm answer is the cold one.

## 2. The modules

### `DirtyIntents`

`DirtyRepository` for one repository of one workspace, with everything done to
it.  `generation` and `dirty` are its entries in `generations` and
`dirty_repositories`, `job` and `jobGeneration` the intents and the generation
of the automatic job that was enqueued.  The history variables `owed`, `jobOwed`
and `since` keep what was reported and not indexed yet, in all, when the job was
submitted, and since then.  Actions: `add_event` (with `record_event`, `merge`
and the limits), `reconcile_after_watcher_error`, `mark`, `enqueue_dirty`,
`job_finished` with `complete_generation`, and `job_failed`.  The limits
`MAX_PENDING_PATHS` and `MAX_PENDING_EVENTS` are constants.

### `IndexScheduler`

Everything between a change and its publication, for any set of workspaces,
inputs and jobs.  A content is a function from inputs to version numbers.

| Variable | Code |
|---|---|
| `disk`, `events`, `seen` | the files, notifications not delivered yet, all contents there have been (history) |
| `generations`, `dirty`, `dormant`, `automatic_jobs`, `changed` | the fields of the scheduler, 0 and `{}` for no entry |
| `watcher` | workspaces whose generation was advanced and whose notification is to follow |
| `producer` | where the producer task is, its snapshot of generations, what it is about to enqueue |
| `jobs` | rows of the index queue |
| `runs` | attempts: step, generation, first and second reading |
| `gate` | the holder of the operation gate |
| `published`, `checkpoint`, `inputs_for` | published view, inventory checkpoint, the analyzers whose inputs are stored |
| `catalog` | the installed enrichment workers |

`Watching` is the watcher thread; `Producing` the producer task: `producer_woken`,
`producer_coalesces`, `enqueue_dirty`, `enqueue_workspace`,
`enqueue_automatic_index`; `Running(j)` one attempt: `check_generation`,
`begin`, `read_input` (one input at a time), `checkpoint_verified`, `refreshed`,
`analyzed`, `reverified`, `publish_verified`, `ensure_enrichment_inputs`,
`attempt_error` at any of these, `settle` (`complete_generation`, after the
gate was released), `automatic_job_failed`, `acknowledge`,
`automatic_job_finished`.  `restart` is a crash at any moment followed by
`recover` and `mark`.

### `EnrichmentJobs`

One workspace repository and one analyzer.  A content is a record of its
`meaning`, which the enrichment input fingerprint sees, and its `layout`, which
only the comparison of sources sees.  An index run is one publishing step here:
`IndexScheduler` is about its inside.

* `Indexing(i)`: the run publishes, `automatic_enrichment_jobs` plans,
  `plan_fingerprint` reads the fingerprint in a query of its own,
  `select_active_enrichment` takes the admission lock and selects,
  `supersede_obsolete` marks rows one by one, `enqueue_automatic_enrichment`
  pushes; failures on the way (`index_failed`, `enqueue_failed`).
* `Submitting`: `submit_enrichment` in the steps of the RPC handler:
  `overlapping_index_jobs`, `manual_enrichment_targets`,
  `submit_index_prerequisite`, `enqueue_manual_enrichment`, or refused.
* `Enriching`: one attempt: `await_prerequisites`, `read_sources`,
  `read_fingerprint`, `check_fingerprint`, `read_baseline`, `read_inputs`,
  `check_current`, `enriched`, `publish_enrichment`, `attempt_failed`,
  `acknowledge`.
* `stop` and `restart` with `recover`.

apalis, which stores rows and hands them to the worker, is external: only its
use is modelled (`start_attempt`, `acknowledge`, `IndexDone`,
`acknowledge_index`).

### `Inventory`

Extends `DirtyIntents` with what a run does with the intents, for one
repository.  A file is its content and the stamp of its metadata; an edit may
leave the stamp as it is.  `manifest` pairs hints with contents, `blobs` and
`memory` hold the contents themselves, `checkpoint` and `published` what was
vouched for and what was published.  `stat` and `read` are separate steps, so a
file may change between them; `verify_checkpoint`, `verify_manifest` and
`accept_checkpoint` are the fast path that ends a run on hints alone.
`begin_other` is a run of another owner of the same inventory, `operation_fails`
an error anywhere, `lose_blobs` and `clear_cache` what may happen to caches, and
`restart` a crash with the recovery of the job.

### `WorkspaceAdmin`

The registries with their two files, the mutexes of registry and watcher, the
operation gate, watch ownership, the watcher's event loop and the index runs
that read configurations, for two clients at a time.  `Serve(c)` is one request
in the steps between its locks and writes: registration of workspaces and
repositories, plugin selection, deletion of repositories.  Writes and watch
calls may fail, the daemon may be killed between any two steps, and `restart`
reads the files back.

### `DaemonLifecycle`

The shutdown of `run_daemon`, step by step, beside everything that has to notice
it: runs and deletions that wait for the gate with a condition variable, the
checkpoint thread, the producer, the monitor of the garbage collection, the
collector threads with the flag that admits one of them, and the next daemon,
which waits for the lock and binds the socket.  A collector is started only when
one of `Collectors`, the bound on collector threads, is free.  `Notify` permits, the flag and
the condition variable are modelled with the instants at which they are read
and set.  `deadline` is the end of the process ten seconds after the signal.

### `SemanticStore` and `PublishedViews`

`PublishedViews` is what the store promises: a view shows one state and a set of
enrichments, and a publication, enrichment or deletion replaces what it shows in
one step; garbage collection does not appear in it.  `SemanticStore` holds the
relations: revisions, states with the fact relations that hold their rows, shard
versions, enrichment outputs with their contributions, the garbage queue.  Each
write is one transaction under the engine mutex.  `sweep_garbage_collection`
goes through the phases of the collector in batches; each batch is selected
without that mutex and removed in a transaction with its guards.
`stop_sweep` interrupts it between two batches.  The refinement mapping
(`Promise`) computes what a view shows from the rows that exist.

The history variables `reselected`, `recreated` and `requeued` record the three
overlaps of a publication and the sweep against which the code has no
protection (section 4); the properties make an exception for the states and
snapshots recorded in them and for nothing else.

### `ResolvedDependencies` and `SemanticQueries`

`ResolvedDependencies` has for one view the rows of its facts, shards, gRPC
bindings, overrides and enrichments, and what is derived from them: the winners
among analyzers and the resolved dependencies.  `direct` is the definition by
`rules/core/direct.datalog`; `refresh_resolved_dependencies` is the incremental
computation by `rules/core/outgoing_*.datalog` for the sources that each
operation collects.

`SemanticQueries` extends it with queries over the resolved dependencies.
`closure_hop` and `boundary_probe` acquire rows for `dependencies`, `impact` and
`trace`; `acquire_hop` for `traverse_graph` without target repositories;
`reverse_seed`, `reverse_frontier` and `forward_hop` for `traverse_graph` with
them: first which entities can reach each target, then the states (entity,
targets visited, repository that completed them) hop by hop.  `search` is the
search over what was acquired, `visit` its recursion.  `reply` also ends an
acquisition that takes too long.  Row and step limits are fields of a query, so
that one run has several.

### `RustCompiler` and `WorkerSession`

`RustCompiler` has the compiler session of the Rust worker as operators: what
changed between two snapshots, `affected_modules`, which resolutions are kept,
the cache file.  What rust-analyzer computes from a file and the files it
consults is external.  `WorkerSession` is the client's session and its
processes: `connect`, reuse, the answer as a stream of chunks with a completion,
`inactivity_timeout`, `terminate_for_memory_event`, `connect_fails`; the worker's
preparation, failures, panics and persistence; `die` at any moment.  A worker
that timed out keeps running and may get the next request.

### `Indexer`

The indexing port with the adapters' caches: by repository (memory and disk,
with hard links between equal analyses and writes in place), by the semantic key
of TypeScript, by file, and by downloaded Protobuf dependency.  Two repositories
call each other by name and by package, which only the workspace overrides
resolve.  A definition has a range or only a line: `semantic_shape`, from which the
semantic key is made, keeps the ranges and drops the lines.  An analysis is one step, because each cache is consulted under a key
that holds everything the entry depends on (but for those lines), and under a lock of
its own.
`write_fails` leaves a torn file.

Definitions named `Mutant...` are the plausible bugs that each property is
tested against; no specification uses them.

## 3. What is checked

TLC explores every interleaving within the bounds.  Deadlock is checked in
`resolved_dependencies`; elsewhere it is not, because a daemon without work
idles and the bounds on edits, faults and requests let it run out of work.

| Run | Bounds | Properties |
|---|---|---|
| `inventory` | 2 paths, one of them configuration, limits of 1 path and 1 event, generations up to 3, 2 changes, 1 incident (crash, failure, lost contents, foreign run) | `NoIntentLost`, `BoundedPending`, `PublishedExisted`, `ManifestIsHonest`, `CompletedIsCurrent` |
| `index_runs` | `HEAD` as input; any 2 of 1 edit, 1 manual request and 2 faults (error or crash); 2 attempts per job, 1 upgrade, fair | `CheckpointIsComplete`, `PublishedNeverRegresses`, `EventuallyIndexed` |
| `index_freshness` | 1 input, 1 edit, 1 manual request; a violation | `HonestFreshness` |
| `enrichment` | 1 edit, 1 manual request, 1 incident (failing index job, failing attempt, stop or crash, with or without a new analyzer); the analyzer is not active on one of the two contents; fair | `TypeOK`, `QueueIsCoalesced`, `SelectionIsOfItsInput`, `PublishedWorkIsKept`, `EventuallyEnriched` |
| `enrichment_layout` | 1 edit of the layout alone; a violation | `NewerWorkRemainsEligible` |
| `workspace_admin` | 2 clients, 2 workspaces, 2 repositories, one of them with a linked worktree, a clone and another checkout; 2 requests, 1 event, 1 fault, fair | `StoredSelectionsResolve`, `WatchedAsOwned`, `OwnersCounted`, `RegistrationsSurviveRestart`, `RequestsAreAnswered`, `RegisteredIsIndexed` |
| `daemon_lifecycle` | 1 run, 1 deletion, 3 collector threads, 2 events, fair | `CleanExitIsQuiet`, `OneCollector`, `NextKeepsItsSocket`, `ShutdownEnds`, `WaitersAreWoken`, `GarbageIsSwept` |
| `semantic_store` | 2 views (one standalone, one enriched), 2 states, 2 snapshots, 4 publications, 1 interruption, fair | `LiveStateIsStored`, `GarbageIsAccounted`, `ImplementsPublishedViews`, `GarbageIsReclaimed` |
| `resolved_dependencies` | 2 shard owners, 2 analyzers, 3 sets of facts for a state and for a shard, 4 payloads, graphs of up to 7 entities in 3 repositories, 16 queries | `WinnersAreCurrent`, `ResolvedIsDirect`, `TraversalIsExact`, `ClosureIsExact` |
| `query_frontier` | 1 graph of 6 entities in 3 repositories, 1 query with two targets and 19 rows; a violation | `PathsAreReal` |
| `worker_session` | 3 calls over 4 snapshots of 3 files in 2 shapes, 2 processes, 1 fault, fair | `AnswersAreCurrent`, `WorkersAreOwned`, `CallsReturn` |
| `indexer` | 2 repositories, 4 and 2 contents, 2 versions, 3 changes, 1 fault | `AnalysisIsFresh` |

Three runs are violations: each shows a sentence of the repository's documents
that the code does not keep, as section 4 explains.  The others pass.

Why these bounds let the interesting cases happen:

* The limits of `inventory` are below what two paths can report, so every
  promotion to a reconciliation occurs.  Two changes are an edit between
  a `stat` and its `read` and one between two readings, or after the run; what is on disk
  at first has not been indexed either.
* Two changes are needed for a mixture of contents (one of each file between two
  readings), which is why `PublishedExisted` is checked in `inventory`; one edit suffices
  where only the order of one change and one publication matters.
* In `index_runs` two disturbances are an edit beside a manual run, a fault in either,
  or two faults, by which a job runs out of attempts.
* Where a property is proved as well (section 5) its bounds do not limit what is
  known; the run guards against a slip in a definition, and its mutants show
  that the property can fail.
* Two identities for index jobs are enough, as a finished job gives its identity
  back and at most one automatic and one manual job exist.
* An index job of `EnrichmentJobs` is referred to by prerequisites after it is
  done, so it does not give its identity back: three are the first run, the run
  for the edit, and the run for the restart or the manual request.  Three rows
  are enough that no enqueue has to wait for one.
* Two requests of two clients meet in every pair of steps: two registrations of
  one workspace, a registration and a deletion, a selection of plugins and a
  run.  A linked worktree (whose administrative paths are watched with those of
  the main one), a clone and another checkout are the three ways a second checkout
  relates to the first.
* Three collectors are the one that runs, the one that was started while it
  ended, and one that must not be admitted.
* Two views that may show the same state, and four publications, let a state be
  published, replaced, claimed, and published again during the sweep; the
  number of batches per phase is that of the relations.
* The facts of `resolved_dependencies` repeat each other with other confidences
  and evidence, and every override meets the fact it replaces.  The graphs have
  cycles through the repositories, so an entity is reached with different
  targets behind it; the limits of the queries cut in each phase, in the middle
  of a hop and in the middle of the evidence of an edge.
* Three calls are one that fills the compiler and the cache, one that changes an
  interface, and one that must see it; the chain of three files is longer than
  one reference.
* Three changes suffice to leave a content, come back to it, and change the
  version in between.
* The files of `indexer` have definitions with a range and with a line alone, and an edit may
  move either without changing anything else.

The properties, in words:

* `NoIntentLost`: whatever was reported and not indexed is covered by what is
  pending, and what was owed when a job was submitted is covered by the intents
  a run reads back from its durable form.
* `BoundedPending`: no storm of events makes the pending intents grow beyond
  their limits.
* `ManifestIsHonest`: an entry whose hint is that of the file has its content,
  unless the edit changed no metadata.
* `CompletedIsCurrent`: without a pending generation the published snapshot is
  what is on disk, but for events that are still to be delivered; this includes
  edits without a trace in the metadata if the run was told their path.
* `HonestFreshness`: a query that does not report staleness, when no event is on
  its way, sees what is on disk.
* `CheckpointIsComplete`: a checkpoint that matches the published view and the
  installed workers implies that the inputs of those workers are stored.
* `PublishedExisted`: what is published is one state the files were in together, never
  a mixture of two, but for edits without a trace in the metadata.
* `PublishedNeverRegresses`: no step replaces a version of an input by an older
  one.
* `EventuallyIndexed`: a change is indexed, or the generation is put to rest
  after the last attempt, as long as no manual request was made (section 4).
* `QueueIsCoalesced`: at most one automatic enrichment job is queued, and no two
  in their first attempt do the same work.
* `SelectionIsOfItsInput`: sources and baseline of the selected contribution have
  the input it is selected for.
* `NewerWorkRemainsEligible`: while the baseline is not enriched, something is
  under way that will enrich it.
* `PublishedWorkIsKept`: while a job for the published input waits, only an index run that
  planned for other input and holds the admission lock can end it.
* `EventuallyEnriched`: what is on disk is eventually published and enriched, through stops
  and crashes, as long as no attempt fails and no manual request is made.
* `StoredSelectionsResolve`: every repository that `workspaces.json` mentions is
  in `repositories.json`, after whatever crash, failure or deletion.
* `RegistrationsSurviveRestart`: a crash takes back nothing that memory, and so a
  response, showed.
* `WatchedAsOwned`: a path is watched in the strongest mode its owners ask for,
  unless an update that failed was to change this path: one failing call costs no other
  path its watch.
* `OwnersCounted`: the count of a target is the number of workspaces that own it, when
  registrations overlap, when an update fails half-way, and after a crash.
* `RequestsAreAnswered`: every request returns; no two locks are taken in a
  cycle, the watcher's thread included.
* `RegisteredIsIndexed`: the configuration that is registered is in the end the
  published one, unless an update of the watcher failed.
* `CleanExitIsQuiet`: a shutdown that ends before its deadline leaves no job,
  request, checkpoint or task behind, whatever was started meanwhile.
* `OneCollector`: one collector thread works at a time.
* `NextKeepsItsSocket`: the socket of the next daemon is not removed by the one
  that leaves.
* `ShutdownEnds`, `WaitersAreWoken`, `GarbageIsSwept`: after the signal the
  process ends; nobody waits for the gate for ever; obsolete states are
  eventually removed while the daemon lives.
* `LiveStateIsStored`: the rows of a state that a view shows are all there.
* `GarbageIsAccounted`: what still holds rows is a state that exists or one that
  is queued for removal.
* `ImplementsPublishedViews`: the store implements `PublishedViews`: the sweep
  never changes what a view shows (`docs/VISION.md:1196`).
* `GarbageIsReclaimed`: rows that nothing shows are eventually removed.
* `WinnersAreCurrent`, `ResolvedIsDirect`: what is maintained incrementally is
  what the definition gives for what is selected now.
* `PathsAreReal`: every path of an answer is a path of the graph that ends as
  reported, with all the evidence of its edges.
* `TraversalIsExact`: that is so unless the acquisition was cut for a query with several
  targets; no path is there twice; without a reason for truncation other than the hops every
  path is there; and a reason that is given is one.
* `ClosureIsExact`: every entity within the hops has its distance, a trace is a
  shortest one, and truncation is reported exactly when the graph goes on.
* `AnswersAreCurrent`: the answer to a call is what a fresh compiler gives for
  its snapshot, although compilers, answers of earlier calls and cache files
  are around.
* `WorkersAreOwned`: a process that runs is that of the session or is being
  started by the call in progress.
* `CallsReturn`: a call returns, however the worker falls silent, fails or dies, as long as
  it does not report progress for ever (each event restarts the timer).
* `AnalysisIsFresh`: an analysis with the caches there are is the one without
  any, ranges included; the lines of TypeScript facts that have no range are not
  compared, and neither are Protobuf facts of keys in `failed` (section 4).

### Fairness

* `IndexScheduler`: weak fairness of the watcher thread, of the producer task and
  of every attempt.  Each is a loop on a thread or task of its own that the
  runtime schedules, waits only on conditions another one establishes, and
  retries or ends after an error.
* `EnrichmentJobs`: weak fairness of every index job, of the enrichment worker,
  and of the restart of a daemon that is stopping: what is on disk is enriched
  provided that somebody starts the daemon again.
* `WorkspaceAdmin`: of every handler, the watcher's thread and the runs.
* `DaemonLifecycle`: of every task and thread while the process lives, of the
  monitor's interval and of the shutdown's deadline, which are timers of the
  runtime.
* `SemanticStore`: of claim and sweep, which the monitor repeats; what it repeats
  is checked in `DaemonLifecycle`.
* `WorkerSession`: of the task that made the call and of its timers; nothing is
  assumed of the worker.

Edits, requests, failures, crashes, interruptions and upgrades are not fair: they
need never happen.

## 4. What the code does differently from its documents

Three of the cases below are findings with a violation run of their own.  The bounds
of the passing runs, or an exception that a property makes, exclude the others; each
can be reproduced by changing the constants as said.

Indexing
* `index_freshness` (finding): generation numbers start again at 1
  (`scheduler.rs:993`).  An automatic and a manual run are under way
  for generation 1; one of them completes it, a change starts generation 1
  again, and the other run completes that one, which it has not read.  Queries
  report fresh; `docs/VISION.md:1198` promises freshness metadata whenever the
  filesystem has advanced.  `EventuallyIndexed` would be violated for the same reason,
  and so holds only of behaviours without a manual request.
  Without manual runs `HonestFreshness` is violated when `HEAD` may be edited
  (`Inputs = {p1, HEAD}`, `Editable` the same, `MaxEdits = 2`, `MaxManual = 0`): a batch of
  Git metadata is completed without a run (`scheduler.rs:2519`), although the other
  input may have changed with `HEAD`.
* An entry of `automatic_jobs` is made before the job is coalesced into an active
  one of another generation, and only a job of exactly its generation removes it
  (`scheduler.rs:1613-1617`): queries report indexing with nothing under way
  until the next change (`openspec/specs/indexing-pipeline/spec.md:68`).
* A restart starts generations again too: a recovered job may complete a
  generation of the new process that has more to do.  `CompletedIsCurrent` shows
  that this loses nothing but edits without a trace in the metadata.
* Reconciliations (overflow, watcher errors, manual runs) accept the checkpoint,
  so they compare hints only: an edit that keeps length and timestamps and whose
  event was lost or folded into a reconciliation is not indexed
  (`inventory.rs:119`, `scheduler.rs:2474`; exempt in `CompletedIsCurrent`).
* `store_blob` keeps a corrupted content of equal length (`inventory.rs:482`);
  it costs another reading every time.

Enrichment
* `enrichment_layout` (finding): a change of the sources that leaves the enrichment input
  the same is coalesced onto the running job for that input (`jobs.rs:599`), which
  then finds its sources changed and ends as superseded
  (`openspec/specs/analyzer-workers/spec.md:48-49`).
* The same property with `Layouts = {l1}`, `MaxEdits = 0`, `MaxIncidents = 1` and
  `MAX_ATTEMPTS = 2`: when enqueueing
  fails, the index job is retried, but its generation is complete: the retry is superseded
  and plans no enrichment (`jobs.rs:1269`; `analyzer-workers/spec.md:79-80`).
* With one edit and one manual request an index run that planned before a later one
  published, and enqueues after it, discards the later run's job (`jobs.rs:602`;
  `analyzer-workers/spec.md:53-54`: obsolete snapshots "are replaced by the newest eligible
  input").  `PublishedWorkIsKept` allows this step and no other.
* `SelectionIsOfItsInput` is checked with one edit: an edit that is published
  between the queries of `enrichment_snapshot` and undone before the publication,
  which compares the fingerprint only, would be selected for the restored input.

Registries and watches
* Two overlapping registrations of one workspace may update the watcher in the
  other order than the registry: what is watched is then what the earlier one asked for.
  `WatchedAsOwned` and `OwnersCounted` are about the owners the watcher was told, so they
  hold of it.
* A failed update of the watcher takes the owners back and leaves the paths it was to change
  as they are (`unwatched`), some of them removed or added; every retry of the
  request fails again without a `mark` (`daemon.rs:475`).
* A manual run reads the configuration before the generation, and a manual run
  of a standalone repository may publish after its deletion.

Store
* A batch of the sweep is selected before a publication selects the same
  snapshot, and removed after it (`reselected`, `storage.rs:3159-3190` beside
  `4129-4225`; `docs/INDEXING_PERFORMANCE.md:182-184`); a state is published
  again while its relations are swept (`recreated`, `4461-4474`); a state is
  queued again and its queue row removed by the sweep in progress (`requeued`,
  `4449-4458`).
* Whether garbage is pending is read from metadata (`3916-3942`): after an
  interruption superseded rows may stay until the next publication.
* Entity and observation rows of shard versions that nothing selects are not
  swept.

Queries
* `query_frontier` (finding): with two target repositories a traversal that hits its row
  or step limit may present an incompletely known entity as a leaf: the search passes
  through an entity of the incomplete frontier along edges that were acquired for another
  state, and reaches one whose rows were filtered for that other state.
  The graph has the edges 1 -> 2, 4; 2 -> 3; 3 -> 4; 4 -> 5; 5 -> 3, 6, entities 3 and
  5, 6 in the two targets, and the query starts from 1 with four hops and 19 rows: the path
  1, 2, 3, 4, 5 is reported as a leaf.  The comment at `query.rs:2391` ("incomplete
  frontiers never imply leaves") and `openspec/specs/query-api/spec.md:176` ("an
  incompletely acquired frontier is never presented as a leaf, cycle, or
  repository-boundary termination") exclude it.  `TraversalIsExact` is what holds.
* A target repository that is further away than `max_hops` yields an empty answer
  without a reason for truncation (`query.rs:2196`).

Workers
* A worker that timed out is not killed and may get the next request
  (`worker-client/src/lib.rs:553`).  There is no limit for a whole call: a worker that
  reports progress for ever keeps it, since every event restarts the timer.
* Only `use` and `mod` make a reference between modules, so a call by a path in a
  body is not invalidated (`docs/VISION.md:816`,
  `docs/INDEXING_PERFORMANCE.md:280-282`; exempt in `AnswersAreCurrent`).
* A file that cannot be parsed has no dependencies (`worker-rust/src/lib.rs:1308-1315`),
  and only the files that changed are asked whether they can be analyzed
  (`889-899`): while it stays broken, a change of a file behind it forgets none of
  what was resolved through it (exempt in `AnswersAreCurrent`; without the exemption the
  snapshots with the broken `b` and the two versions of `a` violate it).
* A panic poisons the compiler's lock: later analyses report
  `rust.semantic_resolution_unavailable` and are published as successful.

Caches
* The semantic key of a TypeScript repository is a digest of `semantic_shape`, which
  clears `definition.line`, the lines of GraphQL documents and the number and lines of recovered
  parse errors (`adapters-treesitter-typescript/src/model.rs:75-168`), and of Grats
  resolvers without their evidence (`analyzer.rs:616-647`); the cached
  contribution keeps all of them (`model.rs:260`, `analysis.rs:1930`).  A definition whose
  context has a range brings it back into the key, so its line is fresh; a namespace has none
  (`analysis.rs:1279`).  With a comment put above `export interface Foo {}` the contribution
  of the earlier text is returned, evidence line included, where a cold analysis gives
  the next line.  `AnalysisIsFresh` compares everything but the lines of such facts
  (`unplaced`); `docs/INDEXING_PERFORMANCE.md:302` expects of an edit of comments and
  whitespace that it changes no observation.
* A dependency of Protobuf that cannot be downloaded becomes a warning of a
  complete analysis, which is cached (`adapters-protobuf/src/lib.rs:120-135`) and
  stays after the network is back, until an input changes or the cache is
  cleared (`failed`; exempt in `AnalysisIsFresh`).
* Equal analyses of a repository share one file by a hard link, and a later
  analysis is written in place (`indexing/src/lib.rs:1628-1635`, `1673-1682`).  Two contents that
  both failed to compile have equal analyses although their definitions differ:
  when the file was torn and one of them is analyzed again with the network
  back, the key of the other is served definitions that are not its own.  `failed`
  therefore covers every key that shares a file with one that failed.
* TypeScript filters the candidates of a repository by what other repositories
  resolve, and they are cached under the key of the repository alone
  (`indexing/src/lib.rs:1609`); candidates are not modelled.

## 5. What is proved

The theorems hold for all values of the constants (one of them,
`SelectionsOfTheirInput`, for those that its hypothesis admits); they rest on the
named assumptions of the modules and nothing else.  Those say that limits and bounds
are natural numbers, that there is at least one attempt, that paths, workspaces,
runs and collector threads are finitely many, that paths are numbers where the
inventory orders them, that the value for "none" is not also a value, that
the intent to reconcile is neither an input nor `HEAD`, that the
tasks that share the gate are different tasks, and that a watch is recursive or
not.  TLC evaluates each of them on the instance of a run.

An invariant that a run checks is seldom inductive.  Each proof module states the
inductive one it needs, whose parts are described here; TLC checked each on the
instance of a run before it was proved.  The proofs have one lemma per action, or per kind of
action with the same effect on the invariant.  The theorems called `TypeCorrect`
cover the type invariants that no run needs to check.

`InventoryProofs`, of `DirtyIntents` alone: `TypeCorrect`, `IntentsAreNeverLost`,
`PendingIsBounded`.  The inductive invariant `IInv` adds two facts to the
properties.  `JobIsCurrentOrOlder`: a job of the current generation has seen
everything that was reported, which is what makes the comparison in
`complete_generation` a sound test.  `CleanWithoutGeneration`: without an entry
nothing is pending and nothing is owed.  Lemmas say what each intent, `merge`
and `durable` do to coverage and to the number of paths.

`IndexSchedulerProofs`: `TypeCorrect`.  `TypeInv` adds to `TypeOK` that an
attempt under way belongs to a row with a target and attempts left
(`JobsWellFormed`) and that the producer, when it is about to act, holds a
workspace (`ProducerWellFormed`); without these the steps of an attempt are not
typed.  Further:
* `PublishedReallyExisted` (of the `PublishedExisted` of `IndexScheduler`) and
  `PublicationIsMonotonic`.  `PublicationInv` says
  that the run that reads or publishes holds the gate (`GateInv`), that what is
  published existed and is nowhere newer than the disk (`ContentInv`), and
  that what a run read lies between the published version and the disk, and,
  once two readings agreed, is a content that existed (`RunsInv`): when the
  second reading of every input equals the first, there was a moment between the
  two passes at which the disk had all of them.
* `CheckpointsAreComplete`.  `CheckpointInv` adds that no checkpoint is of a later
  catalog of workers than the installed one.

`EnrichmentJobsProofs`: `TypeCorrect`, and `Coalesced`, which proves
`QueueIsCoalesced`.  Its invariant says that an index job about to push holds
the admission lock (`AdmissionInv`) and that what it selected still bounds the
first attempts in the queue (`SelectedInv`): between the selection and the push
rows only start, end or fail, none of which adds one, and every row that is
still queued is one of the obsolete ones it has yet to mark.

Further:
* `SelectionsOfTheirInput` proves `SelectionIsOfItsInput` when no edit brings back an
  earlier meaning.  To say so, meanings are numbers (`Numbered`) and every step
  leaves the disk with the same or a higher one (`[][GoesForward]_vars`), which
  numbers any history without a return.  Requests, failures, crashes and edits
  are otherwise arbitrary.  `OrderInv`: what an attempt read, in the order in which
  its queries read it, lies between the fingerprint that was compared first and
  the published revision (`ReadInOrder`); the transaction that publishes finds the
  two ends equal, hence everything in between.
* `PublishedKept` proves `PublishedWorkIsKept` without a hypothesis.  A row ends in an attempt
  that runs (`AttemptRuns`), in a restart, which leaves it waiting, or because an index
  job under the admission lock marks it as obsolete.  `WorkInv` says that what an index job
  planned is for the installed worker (`PlannedVersion`), and that what it selected as
  obsolete and is still queued differs from its plan in input or version
  (`ObsoleteDiffers`); a row for the published input can therefore be marked only by a job
  whose plan is for other input.  Section 4 has the case in which that happens.

`InventoryProofs`, of `Inventory`: `ManifestHonest`, `CompletedCurrent`, and the
properties of `DirtyIntents` again (`IntentsSurvive`, `PendingStaysBounded`), here
with restarts and with jobs of an earlier process.
The invariant `InventoryInv` numbers the edits (`EditsNumbered`): an entry whose
hint is the number of a file's last edit was read after it.  An edit without a
trace in the metadata is the exception, and `EntriesVouched` says of it that its
path is still to be reported, is pending, or is recorded as forgotten: no report,
merge, overflow, restart or completion loses it (`RememberKeeps`).  `PassIsFresh`
says that while the generation of a run is the current one, what the run has
dealt with is on disk but for what is still to be reported; a report advances
the generation, after which the run claims nothing.  For a file that is not read
again this needs that the paths the run was told are the pending ones
(`JobsInOrder`, `RunHasJob`, `KeptIsFresh`), and that the hint was taken before
the bytes (`HintIsTaken`).  `HintsCompared` is the same for the fast path, where
the intents are a reconciliation and hence no path is pending.  `PassIsStored`
ties manifest and publication to the pass.  `IntentsKept` adds, for the intents,
that nothing was reported since a current job of this process was submitted; a
job of an earlier process may complete a generation all the same, which is
counted as completing everything in it (`complete_recovered`).

`SemanticStoreProofs`: `LiveStateStored`, `GarbageAccounted` and
`StoreImplementsPublishedViews`.  `StoreInv` says that a state that exists has
all its facts (`StoredStates`) and that what a revision selects exists
(`LiveStatesExist`); that the state under the sweep's hands has no rows in the
relations it has visited (`VisitedRelations`), without which the row in the
queue could be removed too early; that fingerprint, shard and names of a view
are those of its state (`SelectedShards`); that the rows of a current revision
are there (`CurrentRows`), which the sweep respects because the revisions it
takes lie below one that is no newer than the current one (`SweptRevisions`);
and that a selected snapshot is complete (`SelectedSnapshots`).  The refinement
follows step by step: from `StoreInv` a view is never torn (`NothingIsTorn`), a
write maps to the publication, enrichment or deletion of its view, and each
claim, batch and interruption to a stuttering step.

`DerivedFactsProofs`, of `ResolvedDependencies`: `WinnersCurrent` and `ResolvedDirect`, without any
assumption on the constants.  The two properties are inductive together.  The
argument is about sets of rows: what an operation collects as changed covers
every key whose contributions differ (`Covers`), who wins a key
depends on that key only, and a resolved dependency depends on the rows of its
source only; so rows outside the refreshed sources stay what `direct` defines
and those within are computed anew.

`DerivedFactsProofs`, of `Indexer`: `CachesStayGood` and `AnalysesFresh`, without any
assumption on the constants.  The argument is that whatever is cached is a
function of the key it is cached under, so that it does not matter when, from
which caches or by which process it was computed.  The functions are written
down without caches: `Parsed` for a file, `TypescriptOf` for the semantic key
of a repository, `AnalysisOf` for the key of a repository.  `IndexerInv` says that
memory (`GoodMemory`) and `cache_dir` (`GoodDisk`) hold their values, and that the last
analysis is `FreshAt` the snapshot and the build.  On disk this needs that the keys which are
linked to one file define the same analysis (`LinksAgree`): the file is written
in place, and what is written for one key is read for all.  The Protobuf facts
of the keys in `failed` are excused, as are the lines that a semantic key leaves out:
contributions are compared by their `facts`, and a lemma shows that a contribution's
facts are those of the shapes of its files.  `Remembers` and `Stores` say what an analysis adds to the caches of repositories.  Calls between repositories are
never cached; `OverridesNow` shows that they come out the same from cached
and from recomputed repositories.  A kept SourceFile of Rust is not a function
of a key, and is sound because it has its text and its plugins with it
(`RustParsed`).

`DaemonLifecycleProofs`: `CleanExitQuiet`, `CollectorIsOne` and `NextSocketKept`.
`LifecycleInv` says that gate and mutex name the task that has them
(`GateNamesHolder`), that the flags are set exactly as long as the threads they
stand for are there (`CheckpointFlagged`, `CollectorFlagged`), that what a stage
of the drain waited for stays finished in the later ones (`DrainedInOrder`), and
that the lock is held as long as the process lives (`LockGuardsSocket`).

`WorkspaceAdminProofs`: `StoredResolve`, `WatchedIsOwned`, `CountsAreOfOwners` and, as
an action property, `RegistrationsSurvive`.  `AdminInv` says that
`workspaces.json` holds what memory holds at every moment (`WorkspacesStored`),
that a request in a critical section has its lock (`LocksHeld`), that the
selections a registration is about to refer to were written first
(`RepositoriesStaged`, the order of the two writes), and that what a workspace
refers to is known in memory and on disk (`SelectionsKnown`).  For the watches:
the counts are numbers of workspaces (`OwnersCounted`, itself an invariant), and in the
middle of an update each path is watched as before it, as after it or not at all,
depending on how far the update has come, but for the paths that an earlier update
failed to change (`WatchesKept`, `Midway`).  An update that fails puts the counts back and
adds to those paths the ones it was to change, which is why every other path is
watched as it was before.

`WorkerSessionProofs`: `WorkersOwned`, `AnswersCurrent` and `SessionTyped`.
`WorkerInv` says that a call that started a process, sent to it or waits for it
still has it (`CallHasProcess`), that an analysis that runs has a process
and a snapshot (`AnalysesRun`), that what a live compiler and the cache file
hold is sound (`CachesAreSound`), and that a stream begun is the answer to the
current call (`StreamIsOfCall`).  A cache is sound for the texts it has summaries of when its
resolutions are what the compiler says of those texts, but for the calls that are exempt.
The step that matters is an update from one snapshot to another:
`RetainedUnchanged` shows that a file outside `affected_modules` reaches no file
whose interface changed, so that the resolutions kept are those of the new
snapshot.  That is a statement about every import graph, cycles included, and
`Reachable` is a recursive function over stages; the library's induction
theorems cannot be used for it, so `Induction` is proved here for sets of
numbers, from the least element of a set, and `Stages`, `StagesGrow`,
`ReachableLocal` and `ReachableWithoutLoops` follow from it.
`SnapshotsAssumption` says what a snapshot is: finitely many files, that import
and name files, and that equal bodies name equal paths, since a path is part of
the body's text.

`PROJECT.json` lists the theorems with the properties they state.  Only
model-checked:
* the liveness properties, because the prover has no rules for fairness and
  `ENABLED`;
* `PublishedExisted` of `Inventory`, where a file may be edited without a trace in the metadata
  (the theorem of `IndexScheduler` is about readings that show every edit);
* `SelectionIsOfItsInput` where an edit may bring back an earlier meaning: `enrichment`
  checks it with one edit that may go either way;
* the negative results of the three violation runs, which are counterexamples;
* `TraversalIsExact` (with `PathsAreReal`) and `ClosureIsExact`: `SemanticQueries` declares a recursive
  operator (`visit`), which puts it out of the prover's reach, and what it
  computes would need induction over paths.

## 6. What the models leave out

`IndexScheduler`:
* a version is never restored by a later edit;
* the metadata hints of the inventory and its caches: a reading is the content
  at its moment (`Inventory` is about them);
* the comparison of views and verification fingerprints is equality of contents;
* an upgrade only adds enrichment workers;
* shutdown with its draining, the checkpoint thread and the garbage collection
  (`DaemonLifecycle`), which hold the gate and only delay runs;
* an error while enqueueing stops the producer and the daemon: it is a restart;
* panics of an attempt; repository-scoped manual runs; the several
  comparisons of a generation between two passes are one.

`EnrichmentJobs`:
* one target and one analyzer, one manual request at a time;
* an index run is one step up to its publication, which one run at a time makes;
* a generation whose job ran out of attempts may be enqueued again, where the
  code lets it rest until the next change;
* closing admission and stopping the scheduler are one step;
* `Queued` and `Pending` are one status; retry delays are left out, a failed job
  may start at any time;
* a contribution that is identical to the selected one has the same identity, so
  selecting it again changes nothing.

`Inventory`: one repository; statistics and the encoding of the files; a failed
write of the manifest is the failure of its operation.

`WorkspaceAdmin`: the inside of an index run, which reads the configuration and
publishes it; the reading of Git's files; the answers to requests other than
their order.

`DaemonLifecycle`: the moment between the release of the lock and the end of `main`, in which
detached threads still run; the paths on which a background task ends by itself and takes
the daemon with it; the enrichment jobs' wait for the stop; what a run or a sweep
does while it holds the gate.

`SemanticStore`: the rows themselves, of which only the relation and the owner
matter; reuse of analyzed states, semantic candidates, schema migration; several
repositories of a view.

`ResolvedDependencies`: one view; provenances; `SemanticQueries`: what is known
of an entity besides its name, diagnostics, the refusal of queries on a view
without a revision; the order in which the states of a hop are expanded, on
which it only depends whether the steps run out before or after the first path
is complete (both are allowed); repositories whose identities nest.

`WorkerSession`: one analyzer and one call at a time, as the session lock allows;
the contents of a contribution beyond what was resolved and for which snapshot (that the
client refuses one whose analyzer, overrides or plugin facts do not fit is a choice);
errors halfway through the worker's preparation or extraction, which need sources that
the baseline analyzer has refused before.  `RustCompiler`: the evidence of a symbol,
whose change would only invalidate more.

`Indexer`: semantic candidates, fact shards, the identities of enrichment inputs;
C#, Elixir and GraphQL, whose caches keep a subset of what TypeScript keeps.

Not modelled: search, context, topology and explanation queries, which are one
Datalog query each, and their presentation; the domain and transfer types; the
grammars and what the adapters extract from them; the Elixir and TypeScript
workers and the plugin SDK; the daemon client, command line, MCP server and user
interface; and observability.  They transform data or are front ends; of the
workers only the Rust one was chosen, because it keeps a compiler between
requests and prunes what it resolves again.

## 7. Plan

Done: the path from a change to an indexed and enriched revision, the inventory,
registries and watches, the lifecycle of the daemon, the store with its garbage
collection as a refinement of what it promises, what is derived in the store,
the graph queries, the session with a worker and its compiler, and the caches of
the indexing port.  To follow, in this order:

1. Violation runs for the remaining cases of section 4 that a document excludes (the
   overlaps of `SemanticStore`, path calls of `RustCompiler`, failed enqueueing and overtaken
   plans of `EnrichmentJobs`).
2. Semantic candidates, from the adapters through the caches to enrichment.
3. Repository-scoped manual runs, several targets in `EnrichmentJobs`, the fatal
   branch of `run_daemon`.
