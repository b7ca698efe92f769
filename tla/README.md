# A verification project for dxt

dxt is a native engine for dbt projects: one Zig binary that loads a project, resolves its graph,
renders its templates, runs the resulting SQL on DuckDB or PostgreSQL, and writes dbt's artifacts.
Around it the repository keeps the programs that build, test and publish it: an orchestrator of
coding agents, two supervisors that restart one, a synchroniser of issues and the project board,
the sharding of its compatibility tests, and the release pipeline. This directory holds TLA+
modules of the parts of both that are hard to get right and hard to test, the TLC instances that
check them, and proofs of what matters most for every value of the parameters.

Every definition is translated from the source; `PROJECT.json` maps each to the lines it stands
for. Paths below are relative to `src/src/project/` unless they name a directory; `scripts/` is
`src/scripts/`.

1. [The system](#1-the-system)
2. [Modules](#2-modules)
3. [Runs](#3-runs)
4. [Fairness](#4-fairness)
5. [Proofs](#5-proofs)
6. [What the runs found](#6-what-the-runs-found)
7. [What is only model-checked, and what is not modelled](#7-limits)
8. [Next modules](#8-next-modules)

## 1. The system

### Components

The parts that decide in what order things happen and what is left when something fails:

| Component | Source | State it keeps | Operations | Correct when |
|---|---|---|---|---|
| Dependency scheduler | `scheduler.zig` | none; a pass keeps `remaining`, `ordered` | physical dependencies through ephemeral models, blocking, `orderNodes` | the order is topological, complete, and a cycle is reported exactly when there is one |
| Concurrent runner | `concurrent_runner.zig` | jobs and their states, worker numbers, counters, blocked ids, fail-fast flag, result rows, one mutex and condition | the supervisor's passes (collect, skip, launch, wait, cancel), the worker's `perform` | a resource runs after what it reads from and after its gates; failures skip exactly what is below them; every exit joins its workers; rows, counters and exit status are truthful |
| Relation cache | `relation_cache.zig`, `adapter.zig`, the two drivers | entries, completely listed schemas, generation, `active_writes`; per session a transaction guess | lookup, fill, warm, invalidate, brackets around scripts and transactions | an answer is what the catalog holds; every bracket is closed exactly once |
| Materialization journal | `materialization_journal.zig`, `materialization_runtime.zig`, `duckdb_file_materialization.zig` | entries with their lock, staged file, backup and flags | prepare, publish, rollback, autocommit failure, finalize, close | a view and the file it reads are replaced together or not at all; nothing committed is lost |
| Native sessions, DuckDB pool | `native_duckdb.zig`, `native_postgres.zig` | database handles by path and mode, users, open transactions, cancellation token | acquire, promote, release, query, cancel | one writer handle per file; no session uses a closed handle |
| Concurrent compiler | `concurrent_compiler.zig` | compiled artifacts and counts | compile through the runner | as the runner, in compile mode |
| Sequential build | `src/src/project.zig` | loop state, results | the one-thread run, build and test loops | the same build queue as the runner |
| Freshness runner | `freshness_runner.zig`, `source_freshness.zig` | a shared cursor, a row table | bounded workers, cancellation | one row per source, in order; every exit joins |
| Incremental and microbatch | `microbatch_run.zig`, `microbatch.zig`, `incremental.zig` | the batches of a run and their statuses | batch loop, first-batch rule, retry of the failed batches | batches partition the range; a retry repeats the failed ones only |
| Snapshots and seeds | `snapshot_runner.zig`, `seed_lifecycle.zig` | row versions; the target's kind | merge, insert, replace | at most one open version per key |
| Cross-database execution | `cross_database_*.zig` | a task pool with per-database limits, target locks, a commit marker and a state file | reserve, run, throttle, commit, recover | shares are returned; a crash is resolved from the marker |
| Workflow environments | `workflow.zig`, `workflow_intervals.zig` | environments, plans, applied intervals | plan, apply, promote, roll back | a stale plan is refused; a promotion is all or nothing |
| Dependency installation | `dependencies.zig` | staged packages, lock file | stage, replace, write lock | packages and lock file agree |
| Selection, state, retry | `selector.zig`, `state.zig`, `run_results.zig` | none | set algebra over the graph | selectors mean what dbt's mean |

The parts around the engine:

| Component | Source | State it keeps | Operations | Correct when |
|---|---|---|---|---|
| Agent orchestrator | `scripts/agent_os_orchestrator.py` | `state.json` with the runs it knows; claims and labels on GitHub; git worktrees | `run`, `run --merge-ready`, `merge-ready`, `stop`, `status`, `cleanup --apply`, `product-manager` | no two agents edit one branch; a limit on workers; dependencies come first; conflicting changes are not merged on stale checks; nothing unmerged is removed |
| Codex restart in a pane | `scripts/codex_tmux_supervisor.py`, `scripts/hermes_codex_watchdog.py` | `state.json`, `request.json`, tmux panes, a guardian | start, request, ready, cancel, guardians, cron ticks, the watcher | a live Codex is not killed, nor told to leave before its turn ended; a ready request is served |
| Codex restart, detached | `scripts/codex_pull_plug.py` | `request.json`, `guardian.json` | request, cancel, guardians, watchers | one guardian; one launch per request; a due request is served |
| Project board | `scripts/github_agent_os.py` | none of its own; labels, issues and the board on GitHub | labels, check, seed-issues, project, project-items, setup | what a finished run leaves agrees with the manifests and the issues; reruns make no duplicates |
| Compatibility shards | `scripts/compatibility_shards.py`, `pytest_shard.py`, `check_compatibility_shards.py`, `check_pytest_report.py` | plans, manifests and reports as files | plan, execute, audit | every planned case ran and passed exactly once |
| Release archives | `scripts/check_release_archive.py`, `check_install.py`, `package_release.py`, `release_markdown.py` | archives and checksum files | package, certify, combined gate | an accepted archive is complete, and its binary's header is its target's |
| Release pipeline | `scripts/release_workflow.py`, `src/.github/workflows/` | CI records, the tag, release runs, the public release | CI, certify, merge, tag, qualify, package, publish | what is published was tested, from one revision, whole |

The rest of the repository (templates and expressions, values and dates, parsing, manifests and
docs, SQL analysis, the command line, the compatibility gates and generators) transforms text,
serves files, or runs one program and compares its output; `PROJECT.json` lists each with the
reason it is not modelled.

### Interaction

A command loads the graph, selects resources, and hands them to the concurrent runner, to the
compiler, which uses the runner in compile mode, or, with one thread on DuckDB, to the sequential
loops, which take their order from the scheduler. A worker opens a native session and gives the
supervisor a pointer to it for cancellation. The session's context calls the relation cache before
and after every script, and the session's reads of the catalog go through the cache. A resource's
body runs inside the materialization lifecycle, which holds the SQL transaction and, for external
models, the journal.

Around the engine, commands share files and GitHub and hold no lock. The orchestrator's commands
copy `state.json` whole, at their start and at their end; what keeps their workers apart is what
they read of pull requests, claims and git worktrees in between. The board's commands read a list
and then write what it lacks. The restart tools each pass a request file between a requesting
turn, a watcher and its guardian. The shards' plan, manifests and reports meet in CI's audit; an
accepted CI run leaves a record of the source tree it tested, and a release run compares the tree
of its tag with these records before it builds, checks the archives and publishes them.

### What is hard

- *Interleaving.* Supervisor and workers share the job table under one mutex, which the supervisor
  releases in five places. An interrupt is lost if no statement executes. A fill of the cache asks
  the database without any lock, while other sessions write and commit.
- *Guessing.* DuckDB's transactions are inferred from the text and the success of whole scripts.
- *Ordering.* Tests gate models and models gate tests by three rules, drawn into one graph that
  must stay acyclic, and blocking has its own rules that must agree with it.
- *Failure.* Every call of the supervisor may fail while workers run; every call of the file
  system may fail between two renames, a removal half-way, and the process may die anywhere.
- *Staleness.* Every script decides from a list, a file or a snapshot that others may have changed
  by the time it acts: a second supervisor that has not saved its launches, a request replaced
  while a watcher restarts Codex, an item added by another run, a tag moved after the check.
- *Restarts.* Commands are killed and started again, watchers stopped between a restart and its
  record, CI runs rerun after their records expired, release jobs rerun with what is left.

`PROJECT.json`, "hazards", lists these at their lines with the properties that cover them.

## 2. Modules

| Module | Models | Used by |
|---|---|---|
| `BuildGraph` | projects, traversals of `scheduler.zig`, edges of `wirePrerequisites`, blocking | `NodeOrder`, `BuildQueue`, `ConcurrentRunner` |
| `NodeOrder` | `orderNodes` | `MCNodeOrder` |
| `BuildQueue` | abstract: what a build promises, whoever schedules it | instantiated by `ConcurrentRunner` |
| `ConcurrentRunner` | `runMode` and `Job.work` | `MCConcurrentRunner` |
| `RelationCache` | the cache and the drivers' calls around it | `MCRelationCache` |
| `MaterializationJournal` | the journal and the lifecycle around it | `MCMaterializationJournal` |
| `AgentPlanning` | operators: what the orchestrator decides from what it has read | `AgentOs` |
| `AgentOs` | the orchestrator's commands, their workers and people | `MCAgentOs` |
| `CodexPane` | the restart of Codex in its tmux pane | instantiated by `CodexRestart` |
| `PullPlug` | the detached restart | instantiated by `CodexRestart` |
| `CodexRestart` | both, beside one another | runs and proofs |
| `BoardValues` | operators: the value of every field of the board | `ProjectBoard` |
| `ProjectBoard` | the commands that bring GitHub to the manifests | `MCProjectBoard` |
| `CompatibilityShards` | operators: plan, what a shard records, audit | instantiated by `ReleasePipeline` |
| `ReleaseArchives` | operators: what makes an archive, a binary and a set of downloads acceptable | `ReleasePipeline` |
| `ReleasePipeline` | CI, merges, tags and release runs | `MCReleasePipeline` |
| `*_proofs` | theorems about the module they are named after | |

An operator whose comment begins with "Mutation:" is a plausible mistake in the definition that
follows it; nothing refers to it. Each property is violated when one of them takes the place of
its original.

### BuildGraph

A project is a record: nodes, ephemeral nodes, dependencies, kinds, unit-test targets, and the jobs
in the order they are handed over. The code's recursive traversals with a visited set are least
closed sets here (`Closure`); they are recursion-free, so the proofs can use them. Each rule of
`wirePrerequisites` is one operator (`NeedsOutput`, `UnitGates`, `UnitChain`, `DataTestGates` with
the would-cycle exception), and `Prerequisites` is their union. `WellFormed` states what
`resolve.zig` guarantees of a graph; `NoCycle` that the graph of models has none.

### ConcurrentRunner

Variables carry the names of the code's fields: `state`, `output`, `worker`, `active`,
`completed`, `blocked`, `stop`, `rows`. `sup` and `cursor` say where `runMode` is, `wpc` where a
worker is.

- The supervisor holds the mutex from `lock` on and lets go of it only to wait, to sleep 10 ms, to
  run a job inline, to join, or to return (`MutexFree`). Each job a pass handles is one step.
  `Collect`, `Skip`, `Launch` are the three passes in the code's order of jobs; `Wait`,
  `CancelAgain` and `Resume` are the end of a round; `Unwind` and `Return` the `defer` that runs on
  every exit.
- A worker's steps under the mutex (`Register`, `Deregister`, `Publish`) need `MutexFree`; opening,
  the token check, the start and the end of its statement and closing do not.
- `CheckToken` and `StartStatement` are two steps, so an interrupt can arrive between them, where
  it has no effect.
- With `CallsMayFail`, writing an event, transferring a result, reserving, spawning and sleeping
  may each fail.
- A build never receives ephemeral models as jobs; a compilation may.

### BuildQueue

The abstract specification: a job is waiting, running, succeeded, failed or skipped; it may start
if there is room and everything it reads from and every unit test that gates it succeeded; it may
be skipped only after a failure; the build ends when nothing runs. `ConcurrentRunner` defines
`Queue` by instantiation, with `Phase(j)` as the refinement mapping, and `ImplementsQueue` says
that every step of the runner is a step of the queue or a stutter. Data tests are not among the
abstract gates: the would-cycle exception makes them best-effort, and `TestsGate` states exactly
what holds of them.

### RelationCache

Each critical section of the cache's mutex is one step, each statement of a script is one step,
and the catalog query of a fill is one step. SQL is abstracted to the five classes `classify`
tells apart (read, write, begin, commit, rollback); a script is a sequence of them. `Classify`
computes what the code computes from the text; whether a transaction is really open is
`tx`, the database's own state, and `open` is what the context believes. PostgreSQL has its server
report the transaction's state; DuckDB's context concludes it in `Final`. `StartNested` is
`queryParameters` handing a script on to `query`, which brackets it twice; the constant `Adapted`
says which scripts do so. A failed statement of a DuckDB batch leaves the earlier ones executed;
in PostgreSQL it aborts the transaction; a lost connection rolls it back. The `warm_*` operations are `Warm`, `List`, `StoreRow`, `EndListing`.

A failed DuckDB `COMMIT` leaves the context open although the transaction is over. That is
pessimistic: the session stops using the cache and its bracket stays until the session closes.

### MaterializationJournal

Each call of the file system is one step and may fail; a removal that fails may have removed part
of a directory (`Torn`). Loops over entries visit them in any order, which includes the code's.
`pc` follows `executeWithBody`: body, publishing, the commit, finalizing; or failed, the SQL
rollback, `autocommitFailure`, rollback, and the second rollback of `deinit`. In autocommit a view
is visible when it is created; otherwise at `Commit`. `Crash` may happen at any step: the lock is
released, DuckDB drops the transaction, files stay. Each run writes a fresh member of `Contents`,
so a stale file cannot look like a new one. In production a journal has one entry; the journal
supports several, and so does the model.

Two outcomes of the code are visible in the model and are excluded from the properties by name:
a crash between publish and commit leaves the new file under the old view and its backup beside it,
where no code picks it up (`disturbed`, `orphans`); and without transactions a published file is
kept although its view may not have been created yet.

### AgentPlanning and AgentOs

`AgentPlanning` holds the orchestrator's decisions as operators over what it has read: the order of
candidates, what blocks a launch (a dependency, an overlap of files or of guarded labels, a branch,
pull request or worktree that exists), the queue of one merging pass, and what a cleanup would
remove. `AgentOs` runs the commands as processes that share `file` (state.json), GitHub (`claimed`,
`open`, `prs`, `merged`) and git (`trees`, `dirty`, `commits`). `mem[p]` is a command's own copy of
the runs: it is loaded once and saved at the end of a batch, so a later save overwrites an earlier
one. A step is one external call, or the code up to the next one; the calls that make up one list
count as one. A call may fail in the way the code treats it, which is to raise, to count as an empty
list (`Snapshot`, `SnapshotPrs`, `SnapshotStates`, `ReadForCleanup`), to leave a pull request without
body and files (`PrView`), to read as a clean worktree or as an unmerged branch (`CheckStatus`,
`CheckMerged`), or to be passed over (`ClaimLabel`, `Unclaim`). `Abort` is a call that raises, or a
killed command, whose launches are forgotten.

A merging pass is `List`, `Queue` and one `Merge` for each number of the queue; workers may push in
between, and a merge takes what is on the branch by then, so the history `merged` keeps both that and
what the pass had read. Dependencies of a pull request are those its body names (`Cites`). A cleanup
reads its plan and then looks again at each worktree in three calls, `CheckStatus`, `CheckMerged` and
`RemoveWorktree`; `late` are the branches committed to between the second and the third. Workers
edit, commit, open pull requests and exit, and people review and close, whenever they like.

### CodexPane, PullPlug and CodexRestart

A watcher is a sequence of steps, between which anybody may write its files: `Poll` copies the
request, `Check`, `SendExit`, `SeeShell` or `TimeOut`, and `Respawn` follow, and `Record` writes the
copy back whatever the file holds by then. `SeeShell` has two outcomes: the pane is back at its
shell, or its processes cannot be read, in which case a pane whose command is bash passes although
Codex runs in it too (`respawn blind`). `PullPlug` has `Poll`, `Launch` and `Record`. Guardians are
watchers registered in a file; the calls that start and stop them are steps too: one reads the file
(`StartGuardian`, `StopGuardian`, which kills what it finds), starts the process (`PopenGuardian`)
and writes (`RegisterGuardian`, `WriteStopped`), and one may be killed on its way (`CutStart`).
Cron's tick is a watcher with `--once`. `CodexEnds` and `PaneCloses` are what the pane does by itself.
Histories (`rude`, `killed`, `launches`) say what was done to a Codex, others whether watchers
overlapped (`crowded`), whether one was stopped between an act and its record (`torn`), whether that
happened or a request was made or canceled while a watcher was at work (`disturbed`), and whether a
guardian was forced or the calls that start and stop it overlapped or were cut off (`slipped`). The
promises are conditional on these, as section 7 explains. `CodexRestart` puts both tools under one specification: they share no
file, so a step of one is a stutter of the other.

### BoardValues and ProjectBoard

`BoardValues` is the table of every field's value: priority lists over labels and the events in an
issue's text; `Options` is what `project.json` offers in each field. In `ProjectBoard` each `gh` call is one step and may fail; `view` is what a run has
read, `overtaken` whether others have written since it began, and `Listed` the open issues within
`--limit`, which are those that `project-items` and the properties about it speak of. A program is a sequence of commands,
as `setup` runs them until one does not return 0. Two runs and people work side by side.

### CompatibilityShards, ReleaseArchives and ReleasePipeline

`CompatibilityShards` are the operators of the plan (longest module first, to the shard with the
least load), of a shard's manifest and report, and of the audit. `ReleaseArchives` says what an
acceptable binary, member list, link, checksum file and set of downloads is. `ReleasePipeline`
drives both: `Collect`, `ExecuteShard`, `Accept` and `Certify` are the jobs of CI; `Merge` and
`PushTag` the repository; `Source`, `Qualify`, `Package`, `Verify`, `CheckTag`, `Create`, `Upload`
and `Finish` a release run. A tree is the set of the heads merged into it, so "the same tree" is
equality. A run that fails or is interrupted may be rerun from the failed job with what the others
left (`Fail`, `Rerun`); a record expires and may be renewed on the old head (`Expire`, `RerunCi`);
the tag may move at any time.

## 3. Runs

| Run | Instance | States | Shows |
|---|---|---|---|
| `NodeOrder` | every graph of 3 nodes, cyclic too, every ephemeral subset, every selection | 20,916 | order, completeness, cycle report |
| `RunnerBuild` | five projects built and compiled, one more compiled with ephemeral jobs; 1 and 2 threads; fail-fast; single-threaded; every supervisor call may fail | 1.27 million | order, gates, skips, rows, summary, no false cycle, exits, sessions, the build queue |
| `RunnerLive` | six projects, 1 and 2 threads, calls may fail | 86,196 | every run whose statements end returns; fail-fast empties the runner although statements do not end by themselves |
| `RelationCache` | 2 sessions, 2 relations, 1 schema, both drivers, scripts bracketed once and twice, broken connections, 3 generations | 4.0 million | answers are true; brackets are returned |
| `MaterializationJournal` | 2 writers, 2 targets, 3 runs, with and without transactions | 3.4 million | nothing is lost; undo is complete; view and file agree |
| `AgentOs` | 3 issues, 3 child processes, 1 or 2 rounds, 8 scenarios of one or two commands, up to 3 faults | 4.38 million | who edits where, how many, in which order; what merging and cleanup may touch |
| `CodexRestart` | 1 pane, 2 watchers and 2 requests; 2 detached watchers and 2 requests | 421,606 | what a restart may kill, and whom it may tell to leave; guardians and launches are single; a request that is ready or due is served, or replaced for the reason named |
| `ReleasePipeline` | 2 pull requests, 3 test modules, 2 shards, 3 sets of timings, 2 release runs, 4 scopes | 709,012 | records, archives, tags and uploads: what is published was tested, has its target's header, and is whole |
| `ProjectBoard` | 2 runs that overlap, up to 3 starts, 1 edit by people, 71 scenarios | 319,593 | what a finished run leaves; what only an overlap can damage |
| `RunnerCrossing`, `RelationCacheLeak`, `AgentOsBranch` | | | violations, section 6 |

### Why the bounds are enough

*Runner.* The projects are the smallest shapes in which each rule matters: a chain with a generic
and a unit test; two ephemeral models in a row; a test that reads a model and its descendant; two
unit tests of an unselected model; a relationships test with a second parent; crossing tests. Two
threads suffice for every race between a worker and the supervisor and between two workers; with
one thread the capacity limit binds. The proofs in section 5 drop these bounds for most properties.

*Cache.* Two sessions give every pair of fill and write; two relations in a schema let a listing be
overtaken between two rows; three generations allow a bracket to open and close around a fill and
a further write to overtake it. `MaxGeneration` stops new scripts, nothing else, and where it does
the system may stop, so deadlock is not checked. The proof has no such bound.

*Journal.* Two writers of the same targets meet at the lock file, before and after a crash of one;
three runs allow a run over what a crashed run over a committed run left. When `Contents` are used
up no run starts, so deadlock is not checked. The proof has no such bound.

*Orchestrator.* Issues 1 and 2 change a common file, of which only issue 1 says so beforehand;
issue 3 depends on issue 2, and the pull request of issue 2 may name issue 1. That gives a launch
that an announced overlap prevents, one that must wait for an issue to close, two pull requests that
conflict without having announced it, and a merge that must wait for an issue. Two rounds and up to
three faults allow a supervisor to be killed after a launch it has not saved and to be started again
beside the live worker; three child processes are one more than the limit of workers. A scenario's
other command may come anywhere in between. Two scenarios are about merging: two passes of
`run --merge-ready` without failures, so that the second can merge what the first had to leave, and
one pass that may fail to read the details of a pull request. In the scenario of three faults the
worktrees can be listed (`fallible` leaves them out), because three failures of which one is that
list would part the editors. The proofs have no such bounds.

*Restarts.* Two watchers are a guardian and its successor, a guardian and a cron tick or `watch`
beside it, or two guardians whose starts overlap; two requests let one replace another while a
watcher is at work. A start-guardian call belongs to the watcher it starts, so as many overlap as
there are watchers; one stop call is under way at a time. A request never changes its pane, so one
pane shows all that can happen to it. The same safety properties hold in an instance of two panes and
three detached watchers (3.0 million states), which is too large for the liveness properties, and the
safety proofs have no bounds.

*Pipeline.* Two pull requests are enough for the tested merge to differ from what main becomes.
Three modules over two shards make the plan choose. A scope bounds one story at a time: CI runs
that go wrong and expire; heads that move under a release; a tag that moves under it; two release
runs with two interruptions. The archives are one good one per target, one of a foreign machine
and one without its notices. The proofs have no such bounds.

*Board.* Each scenario fixes what exists before (nothing, an older manifest's board, boards with a
field of the wrong kind, two boards of one title), which commands run, and what people may do. In one there are three issues and
`--limit` is 2, so that closing one lets another into the list; 58 are single issues that go through
the values of every field. The proofs have no such bounds.

The commands of the last four groups end, and their bounds are used up; deadlock is not checked
there. Symmetry is used for sessions, writers, targets and contents and for the board's two runs,
in runs without liveness properties only.

## 4. Fairness

*Runner.* `Terminates` and `StopDrains` are checked under `FairSpec`:

- *Supervisor:* weak fairness of `Proceeds`, any supervisor step that is not a failing call. Its
  thread is scheduled whenever it can move; nothing relies on a failure.
- *Workers:* strong fairness of each worker's `StepsUnaided`: every step but the end of a statement
  that nobody interrupted. A worker at the mutex is enabled only while the supervisor is off it,
  which is not continuous but recurs: the supervisor waits on the condition or sleeps 10 ms in every
  round without progress.
- *Statements:* that they end is no part of `FairSpec`. `Terminates` has it as a premise,
  `StatementsEnd`. `StopDrains` does without: the repeated cancellation, not luck, drains the
  runner.

*Restarts.* A watcher that is alive goes on (`WF` of `Watch`): its loops only sleep, and its calls of
tmux return. A request's delay ends (`WF` of `DelayEnds`). Nothing is assumed of Codex, of people, or
of cron: `ReadyIsServed` and `RequestIsServed` speak of the time a lasting watcher or guardian lives.

## 5. Proofs

All are checked by TLAPS for every value of the constants that satisfies the named assumptions
(`ProjectsAssumption`, `NumberedAssumption`, `RunnerAssumption`, `CacheAssumption`,
`JournalAssumption`, `PlanningAssumption`, `ScenarioAssumption`, `RestartAssumption`,
`PipelineAssumption`, `BoardAssumption`), each of which TLC evaluates in the
runs.

| Module | Properties of the runs that are theorems | Further theorems |
|---|---|---|
| `NodeOrder_proofs` | `Topological`, `CompleteOrCyclic` | `TypeOK` |
| `ConcurrentRunner_proofs` | `CancelIsSafe`, `JoinedBeforeReturn`, `UpstreamSettled`, `TestsGate`, `OnlyDescendantsSkipped`, `SummaryTruthful`, `ImplementsQueue` | `TypeOK`, `SeatsAgree`, `UnitsInTurn`, `StopIsFinal`; `NoFalseCycle` where at most one data test has several dependencies |
| `RelationCache_proofs` | `Truthful`, `UsersSeeTheCatalog`, `ReleasedWhenQuiet` | `TypeOK`, `UncommittedIsBracketed`, `CommitsAreBracketed` |
| `MaterializationJournal_proofs` | `NothingLost`, `ViewAndFileAgree`, `ClosedIsClean`, `ReferencedIsKept` | `TypeOK` |
| `AgentOs_proofs` | `WorkersWithinLimit`, `DependenciesFirst`, `RemovesOnlyMerged`; `MergesApart` where one command merges; `EditorsApart` where one supervisor can list its worktrees | `TypeOK` |
| `CodexRestart_proofs` | `RespawnsOverNothing`, `ExitOnlyWhenReady`, `OneGuardian`, `LaunchedOnce` | `TypeOK` of both tools |
| `ReleasePipeline_proofs` | `PlansAreValid`, `CertifiedIsProven`, `PublishedTested`, `PublishedRuns`, `MovedTagRejected`, `FinishedIsWhole` | `TypeOK` |
| `ProjectBoard_proofs` | `FinishedIsSynced`, `SetupCompletes`, `DuplicatesNeedOverlap`, `OptionsKept` | |

**NodeOrder**, for any projects whose nodes are numbered. `IInv` adds to `Topological` that every
selected node is in exactly one of what remains and what is ordered (`Partition`), that no knot goes
through a node that was taken (`Untangled`), that a pass without progress leaves behind it only nodes
that wait for one that remains (`Stuck`), and that a result is right when it is given (`Ended`).

**ConcurrentRunner**, for any projects, thread counts and outcomes. The module begins with the
lemmas about the graph: least closed sets are closed and stay inside the resources; physical
dependencies are ancestors; tests are above nothing. `SeatsAgree` is not inductive: counters are
compared with sets of jobs, and a step changes both. The argument has layers, each inductive
relative to the one before.

1. *Bookkeeping*: types; the wiring is the graph's; `active`, `occupied` and `completed` are the
   cardinalities of the sets they count; no two jobs in flight share a number; a living thread's
   job is running. This gives `TypeOK`, `SeatsAgree` and `StopIsFinal`.
2. *Handover*: who may touch a session when. A registered session is open because only its own
   worker closes it and withdraws it first. This gives `CancelIsSafe`, and `JoinedBeforeReturn` on
   every exit, whatever call failed.
3. *Ordered*: a failed or skipped job is in `blocked`, or what is below it still waits for its
   row; a job that runs had all its prerequisites done when it was launched and nothing above it
   blocked. This gives `UpstreamSettled`, `TestsGate` and `UnitsInTurn`.
4. *Blame*: whatever is stopped, blocked or skipped goes back to a job that failed; without
   fail-fast a blocked id is blocked by that job or was skipped itself, and a skipped job has one
   that failed above it, because closures are transitive; the summary counts the jobs that failed;
   a job has a thread exactly from its launch to its result. This gives `OnlyDescendantsSkipped`
   and `SummaryTruthful`.

`CyclesAreReal` and `NeverFalselyCyclic` add a layer, *Scanned*: until the supervisor lets go of the
mutex, a scan that changed nothing leaves no job that must be skipped, and a launch loop that ended
leaves none that can be launched. A round without progress therefore leaves jobs of which each waits
for another one that is left. That this needs a cycle of the graph is an argument about the wiring:
a job's level is three times the number of nodes before its subject, plus its kind; a job waits only
for lower ones, or for earlier ones of its level, as long as every data test has one dependency, and
a lowest job waits for none (`Least`: a nonempty set of numbers has a least one). One test with
several dependencies can be added: the jobs it waits for are about nodes above it, and those wait for
no test below. A second one cannot, as `RunnerCrossing` shows, so the premise is needed.

The first four layers together give the refinement, `RunnerImplementsQueue`: under `Phase` each step of the
runner is one of the queue or changes nothing the queue sees. A launch is a `Start`: the threads alive
are among the jobs in flight, which `active` counts; what the job reads from succeeded (*Ordered*); a
unit test that gates it is done, did not fail, and was not skipped either, since what it was skipped
for would be blocked above the launched model too (*Blame*). A skip is a `SkipOne` because something
failed, publishing a result an `End`, and returning a `Close` because nobody is alive. The instance
has its own copies of the graph's operators; `SameQueue` shows that they are the same.

**RelationCache**, for any sessions, relations, schemas, kinds and scripts, under `Adapted = {}`: no
script is bracketed twice. Section 6 shows that this premise is needed. In two layers.

1. *Books*: types; `activeWrites` is the number of sessions that hold a bracket; a running script
   is covered by its `Change`; a context that believes it is closed belongs to a session outside
   transactions, also through DuckDB's guess; uncommitted writes are bracketed. The guess is the
   delicate part: `GuessRight` relates what is left of a script to what `classify` said of all of
   it. This gives `TypeOK`, `UsersSeeTheCatalog`, `UncommittedIsBracketed` and
   `ReleasedWhenQuiet`.
2. *Coherent*: without a bracket, every entry equals the catalog, every listed schema's relations
   are cached or absent, and a fill whose generation is still current holds the present catalog.
   This gives `Truthful`.

**MaterializationJournal**, for any writers, targets and contents. `NothingLost` alone says nothing
of which file a rollback removes. The invariant `Books` adds, per writer, what the flags mean at
each point (`WriterRight`), and, per entry, where the old and the new content are (`PlacesRight`),
what the loops have done with the targets they left (`LoopRight`) and what the committed view reads
(`ViewRight`); across writers, that runs write different contents (`RunsDiffer`). One lemma,
`Apart`, says that a step of one writer leaves the others' journals and targets alone, because the
lock file does; the rest is about one writer and one target. This gives `TypeOK` and the four
checked properties, each as a theorem.

**AgentOs**, for any issues, labels, dependencies and files, any commands that run together, any
limit and any number of failures. `Sorted`, `Candidates` and `MergeQueue` come first: a total order
on a finite set sorts it into a sequence in which every member stands once (`OrderedOnce`, through
the ranks of the members), and a queue that grows by pull requests that touch none of its files
never holds two that touch a common one (`QueueApart`; a function over 0..n that is unfolded step by
step carries an invariant from 0 to n, `HandedOn`). `Base` holds together the types, what nobody can
know of processes never started and that no two open pull requests have one number (`Sound`), and that what a batch or a pass still has to go through are issues or numbers, each once,
and what it has read of a pull request it has read once (`Queued`). On it rest:

1. *Limited*: active workers plus free slots are within the limit while a batch fills up, in every
   copy of the state and in the file; a refreshed or foreign copy only knows fewer
   (`WorkersWithinLimit`).
2. *Closed*: what was read as closed is closed for good, an issue about to be launched has its
   dependencies among what was read, what a pass has read of a pull request's body is what the open
   pull request of that number still says (`AsRead`), and whatever stands in a queue and could be read
   has its dependencies closed (`Awaited`). This gives `DependenciesFirst`; section 7
   says why it speaks of pull requests that could be read.
3. *Passing*: the files a pass has read of the numbers it still has to merge are apart from one
   another and from what had been read of whatever was merged since it read the list (`Ahead`); so of
   two merges the pass of one had seen the other, or the files read of them are apart (`ListsApart`).
   A pull request of which more is merged than had been read is outside `MergesApart`. The premise `OneMerger` is needed: two commands that merge side by side part
   `MergesApart`.
4. *FoundMerged*: while a cleanup is about to remove a worktree, whatever is on its branch and not in
   base was committed after the cleanup had found the branch merged (`RemovesOnlyMerged`).
5. *Settled*: a live worker keeps its worktree until it is evicted; while a batch goes on, the
   supervisor has seen that worktree or will not come to its issue again; what it is about to launch
   had no worktree when it looked. The premise `Careful` names what is needed: one supervisor, a
   branch of its own for every issue (`AgentOsBranch` shows the contrary), and worktrees that can be
   listed (`scenario.fallible`). With a list that fails, a supervisor killed after a launch and a claim label that is not
   set, a second worker meets the first.

**CodexRestart**, for any number of watchers, panes and requests. For the pane, the invariant says
that a request and its copy name a pane (`Placed`), that a watcher which never overlapped another
is the only one alive (`Alone`), that between its look at a shell and its respawn the pane has no
Codex (`Vacated`: nothing but a watcher puts one into a used pane; a look at processes that could not
be read is not covered, as section 7 explains), and that what it may tell to leave has marked
its turn, unless the request was changed under it (`Told`). For the detached tool: requests are
numbered upwards (`Numbered`); as long as nothing was forced, cut off or overlapped, a call that
starts a guardian is the only call and, until it has started it, no other lives, a guardian that
lives afterwards is the registered one or is about to be registered, and a call that stops it leaves
none and writes back what is registered (`Registered`), so that what a call reads at its start is
still true when it acts; a watcher is alone (`Alone`), and a request that still waits, or that a watcher has copied and not launched, has no
launch unless a stopped watcher left it so (`Fresh`). Each invariant is about one tool; a step of
one tool is a stutter of the other.

**ReleasePipeline**, for any pull requests, suites, weights, shards, targets and archives. `CiInv`
counts: the number of times a case has passed is what the manifest of its shard says, so an audit
that accepts implies that each planned case passed once. `RepoInv`: main only grows, so a commit's
tree never changes. `JobsInv` says what a release run has established at each of its stages, reruns
included, and that at most one is active; `Held` says the same of the published files.
`PlansAreValid` is proved by going through `Place` module by module (`Fills`): a shard has no load
exactly if it has no module, because no cost is zero, so the lightest shard is an empty one as long
as there is one, and each module fills one more shard until all have one. That the schedule exists
at all (a first module among those left, a lightest shard, the function that places one after the
other) is proved from the well-foundedness of finite sets (`OneIsFirst`, `LightestIsLeast`,
`StepByStep`, `AssignmentFills`).

**ProjectBoard**, for any manifests that offer at least what `project.json` does (and the same fields
as text fields), any issues and their order, any programs of any number of runs, and people.
Each run reads lists and then acts on them, so the invariant `IInv` separates what it has read by how
long it is true. `Lasting` holds whoever writes, because kinds of fields, items on a board and seed
issues never go away (`Grows`): the board a run has chosen exists, the fields and items it has seen
are there, the seed issues it has seen or made have a copy. `Fresh` holds of a run nobody has
overtaken: its lists are those of GitHub except where the run itself has written, which is what lies
before its place `n` in the loop, and that part is done (`LabelsFresh`, `SeedsFresh`, `FieldsFresh`,
`ItemsFresh`); and if its program has gone through `project`, the one board is prepared. One lemma,
`Frame`, carries both over a step of somebody else, who either overtakes the run or writes nothing;
`MovedInv` and `ReturnedInv` leave, for each call, only what it does to the run that makes it.
`FinishedIsSynced` is `Fresh` at the end of the loops. `SetupCompletes` needs in addition that
`project-items` never asks a prepared board for an option it lacks: every row of every priority table
is an option of its field (`TablesOffered`), hence every value that can be derived is
(`DesiredOffered`). `DuplicatesNeedOverlap` and `OptionsKept` follow from `Fresh` and from which
calls add issues, boards or options at all (`SeedsStep`, `BoardsStep`).

## 6. What the runs found

- `RunnerCrossing`: two tests that each read one branch's end and the other's beginning make every
  remaining job wait for another. The run ends with the error that the model graph has a cycle,
  which it has not.
- `RelationCacheLeak`: `queryParameters` brackets a script and the `query` it falls back to
  brackets it again. In a transaction the inner bracket is handed to the transaction and the outer
  one is never closed; the cache answers nothing for the rest of the invocation.
- `AgentOsBranch`: `run --branch` gives every candidate of a batch the same branch, from a snapshot
  taken before the batch; the second worker is put into the worktree of the first, against
  "One editing agent owns one branch and one git worktree" (`docs/MULTI_AGENT_WORKFLOW.md:36`).

## 7. Limits

### Only model-checked

Liveness (`Terminates`, `StopDrains`, `ReadyIsServed`, `RequestIsServed`) and anything about
`ENABLED`, which the prover does not handle. `NoFalseCycle` in builds in which several data
tests have more than one dependency, where `RunnerCrossing` shows that it can fail.

### Simplified

- *Engine.* `NodeOrder` selects from enabled nodes other than seeds (`scheduler.zig:90-93` drops the
  others). A result of `warn` is a pass, since both leave a job unblocked. A forced warm whose listing
  fails ends its session, where the code hands the error to its caller.
- *Orchestrator.* `ReadForCleanup` and each list are one step, and the commits and changes of single
  worktrees do not fail one by one in a snapshot. A commit is pushed at once. Pull requests keep the
  body they were opened with, carry no labels, and are fewer than `--limit 50` (507); closed issues
  stay closed. No scenario has two supervisors beside one another: `WorkersWithinLimit`,
  `DependenciesFirst` and `RemovesOnlyMerged` are proved for any number of them, `EditorsApart` for one.
- *Restarts.* A Codex that was marked ready does not begin another turn before it is told to leave.
  The calls of the pane's tool are not killed on their way. One stop call is under way at a time.
  `start --session` is left out.
- *Board.* `--limit` of `project-items` is modelled. Those of the other lists are not reached:
  1000 seeds (251), at least 1000 items, and 30 projects, which is `gh`'s default (297).
- *Release.* A shard's two architectures are one `Runtime` (`ci.yml:242-247`, `294-300`). A rerun of
  CI repeats all jobs, not the failed ones alone, so that "passed once" is about one attempt.
  `gh release create` is one step, draft and assets included (`release.yml:181-183`). The execution of
  `certify_adapter` by `check_install.py:138-146` is left out, so `PublishedRuns` is about headers.

### Abstracted

The text of rows, events and SQL; a job's several statements, which are one; the contents of
relations, which are a kind; paths, of which two are equal or not; prompts, reports and handoff
texts; the bytes of archives, of which the checks see places, kinds, headers and links; hashes of
trees, which are equal when the trees are.

### Known, and not excluded by any property

Engine:

- A selected node whose selected ancestor is reached only through an unselected physical node does
  not wait for it, and whether it is skipped depends on timing.
- A failed unit test keeps its siblings from running (`UnitsInTurn`), which a test of the scheduler
  wants and the comment at `concurrent_runner.zig:309-310` excludes: the comment is out of date.
- An error exit of the supervisor cancels once, without the 10 ms retry, and then joins.
- A script bracketed twice that ends its transaction closes twice the bracket the transaction held;
  the assertion at `relation_cache.zig:86` would fail there. One whose connection breaks outside a
  transaction leaves a bracket open.
- Sessions that `duckdb.zig` opens without a cache context write without a bracket, which is sound
  only because their callers hold no other session.

Restarts:

- `start` writes the state file anew, without the registered guardian, so that `start-guardian` puts
  a second watcher beside the first; two watchers may respawn over each other's Codex. That is why
  the promises are stated for watchers that do not overlap (`crowded`).
- A failed restart ends the watcher, the guardian included; later requests wait for a new one.
- Where the pane's processes cannot be read, `pane_has_codex_process` is false
  (`codex_tmux_supervisor.py:115-120`), the pane's own command is the `bash` that runs Codex, and the
  wait for the shell is over (350): `respawn-pane -k` kills the live Codex, although
  `docs/AGENT_OS.md:322-323` says that the request is marked failed instead. `RespawnsOverNothing` is
  about all other ways to a respawn; the history `killed` tells the two apart.
- Two start-guardian calls that overlap both find no guardian and start one each, and the file names
  one of them; a call killed before it writes leaves a guardian nobody has registered (`slipped`).
- A request made or canceled while a watcher is at work is overwritten by the outcome of the request
  that watcher had taken; a canceled one may be served all the same (`disturbed`).

Orchestrator:

- Launches are saved at the end of a batch; a supervisor killed before that forgets them. The
  snapshot of worktrees, not the state file, keeps the next one from launching over them.
- A pull request that GitHub refuses to merge ends the loop.
- A pull request whose details `gh pr view` fails to give keeps what the list said, without a body
  (`agent_os_orchestrator.py:517`), and is merged as if it named no dependency and changed no file,
  although `docs/MULTI_AGENT_WORKFLOW.md:209-211` has such pull requests skipped. Commits pushed to a
  branch after the pass has listed it are merged unseen, because `gh pr merge` is not given the head.
  `DependenciesFirst` and `MergesApart` except both by name.
- A snapshot takes a list it cannot read for an empty one. Where that is the list of worktrees, the
  supervisor was killed after an unsaved launch and the claim's label was not set, nothing keeps a
  second worker off the first one's branch.
- Two commands that merge side by side may merge two pull requests that change a common file, each
  with the checks it had before the other.
- A worker may commit between a cleanup's `git merge-base` and its `git worktree remove`, which then
  removes the clean worktree of a branch that is not merged (`late`; the branch itself remains).
- The limit of workers counts what a supervisor remembers: one started anew after it was killed, or
  one whose runs another command has overwritten, counts afresh.
- A cleanup may remove the worktree of a fresh live worker that has not changed anything yet
  (`evicted`), and only then may a second worker meet it on its branch.

Board:

- Two runs that overlap may create a seed issue or a project twice, and an option created between a
  run's reading and its update is lost with the values that used it (`DuplicatesNeedOverlap`,
  `OptionsKept` say that nothing else does this).
- A value that cannot be derived leaves an old one in place; a text field where the manifest wants a
  select field is noticed by `project`, the reverse is not and stops `project-items`; of two boards of
  one title each command takes the one listed first at its time (`SetupCompletes` excludes both as
  `Muddled`); an item that another run added meanwhile counts as
  empty; one refused value keeps the later issues from being updated; the status and the readiness
  fields rank labels and events differently; `docs/GITHUB_PROJECTS.md` leaves the track open where
  several labels match, the code takes the first.

Release:

- The tag may still be moved between the last check and the upload (`late`).

### Not modelled

The engine's components below the journal in section 1's first table, except the compiler, whose
scheduling is the runner's compile mode, and what `WellFormed` says of reference resolution. Dry
runs of the scripts and the orchestrator's nudging comment change nothing the properties speak of.
The compatibility gates and generators are one process each that runs another program, compares or
prints, and exits; their outcome is the choice in `ReleasePipeline` whether CI's other jobs succeed.
`PROJECT.json` gives the reason for every component.

## 8. Next modules

In this order:

1. `CrossSchedule` (the adaptive task pool: shares are returned, limits stay positive, no stall)
   and `CrossRun` (commit marker, state file, crash and recovery, against an abstract atomic
   commit), with a proof that recovery is right.
2. `Workflow` (plan, apply, promote, roll back under two environment locks, taken in one order;
   crash and repair) and `WorkflowIntervals` (half-open intervals against sets of days).
3. `SequentialBuild`: the one-thread loops, as a second implementation of `BuildQueue`.
4. `DuckDBPool`: acquire, promotion of a read-only handle, release, retries under the mutex.
5. `FreshnessRunner`: cursor, rows, cancellation and join; safety proofs as for the runner.
6. `Microbatch` with retries, `Snapshot` row versions, `ParseCache` fingerprints, `Install`.
7. Selectors as operators, checked against a reference definition.
