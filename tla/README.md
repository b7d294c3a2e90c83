# Kyoko in TLA+

Kyoko records the runs of an agent, has an operator (a coding agent started as a
subprocess) analyse them, turns recurring failures into *issues*, authors *proposals*
that fix them, applies these to the agent's context (skillbook entries, delivery rules)
or to its harness (files of a repository), watches whether the failure comes back, and
rolls back the fix if it does. It is a Python program around one SQLite file and one
working tree. This directory holds specifications of the parts in which order,
concurrency and failure decide whether that works: what TLC checks of them on small
instances, and what TLAPS proves for any.

Sources are cited relative to `kyoko/` (`src/kyoko/` of the repository checkout) unless
they start with `docs/` or `tests/`. `PROJECT.json` maps every definition to its lines.

Contents: 1 the system, 2 plan, 3 modules and the code, 4 runs and bounds, 5 fairness,
6 proofs, 7 where documentation and code disagree, 8 what is not modelled.

## 1. The system

Everything shares one database. Processes: the server `kyoko serve` (a thread for each
request, a scheduler thread, one analysis worker), any number of CLI commands and MCP
servers, and operator, judge and replay subprocesses. There is no server-side
serialisation of callers: what keeps them apart is SQLite. Two of its rules shape every
module:

* A connection of Python's `sqlite3` runs `SELECT`s in autocommit until its first
  `INSERT`/`UPDATE`/`DELETE`, which begins a transaction and takes the write lock
  (`storage.py`, `connect`). Whatever was read before that write may be stale when it
  happens. Most functions check first and write later, so each check and each write is
  an action of its own.
* A transaction is invisible until it commits and vanishes if its process dies. Files,
  subprocesses and in-memory queues do not vanish with it, or vanish without it. A
  statement that defines or drops a table commits by itself.

### Components

| Component (code) | State | Hard parts | Correct when | Modules |
|---|---|---|---|---|
| Context store (`apply.py`) | skills, delivery rules, their revision logs, `learning_proposals.state` | stale checks, several revisions in a transaction, one transaction per rollback in a loop | applied whole and once; the log accounts for the rows; locks hold; `rolled_back` means undone | `Skillbook`, `ProposalLifecycle`, proved |
| Issues, loop, gates, guard monitor (`issues.py`, `improve.py`, `autonomy*.py`, `guard_monitor.py`) | issue rows, watermarks, attempts | read on one connection, write on another; lists read at the start; a crash between any two steps | no fix on one occurrence; a regression is a new observation; attempts bounded | `IssueLoop`, proved |
| Harness patches (`harness.py`, `human_locks.py`) | `patch_transactions`, locks, the working tree | files written inside a database transaction, human edits, hunks that overlap | rows and files agree; locks hold; what an apply overwrites was committed when it checked; a diff does what it says | `Harness`, proved; `UnifiedDiff` |
| Scheduler, jobs, cancellation (`analysis_runner.py`, `cancellation.py`) | schedules, cursors, an in-memory queue, tokens | re-arm before submit, lost queue, overlapping jobs, late traces, a cancel between spawn and registration | a cursor passes nothing unexplained; new traces are analysed in the end; an accepted cancel kills | `AnalysisScheduler`, `Cadence`, proved |
| Analysis turn, routing (`analyze.py`, `operator_*.py`, `profiles.py`, `profile_next.py`) | operator runs, what a turn surfaced | processes that fail, are retried, race; rows and policies that change between look, check and write | a row tells what its turn left; a step never replaces review | `OperatorTurn`, `Routing`, proved |
| Checks, replays, judges (`checks.py`) | check specs, replay and check runs, trust, locks | rows numbered by counting, answers of processes, reads before the lock | trust rises on evidence and falls only by a read that was too early | `Checks`, proved; `CheckEvaluation` |
| Judges and measurements (`llm_evals.py`, `evals_measure.py`, `eval_issues.py`) | judge definitions, results, counters | calls side by side | counts and issues agree with results | `Measurements` |
| Replay servers (`replay_servers.py`, `replay_adapters.py`) | processes, a state file, a URL | pids reused, zombies, servers that hang or are foreign | stop can reach what runs, and returns | `ReplayServers`, proved; `Setup` |
| Storage and migrations (`storage.py`) | schema version, tables | DDL commits by itself; two processes upgrade, one dies | no row behind an empty table; upgrades complete | `Migrations`, proved |
| Retention, blobs (`retention.py`, `blobs.py`) | rows and references; payload files | candidates collected before the transaction | cited evidence survives; no row without its file | `Retention`, `Blobs`, proved |
| Live events (`live.py`, `web.py`, `LiveTail.tsx`) | event rows, subscriber queues, a page | two writers, times given by clients, dropped events, a stream that breaks | the tail is the run unless a named loss happened; publishers are never held up | `LiveEvents`, proved |
| Views, confidence, metrics (`details.py`, `confidence.py`, `dashboard_metrics.py`, `evidence.py`) | none: reads | statement by statement while others commit | nothing that stays is missed or misjudged | `Views` |
| Delivery (`skillbook.py`) | used counts | three reads on three connections | a prompt follows the rules that stood | `Delivery`, proved |
| Telemetry (`otlp*.py`, `span_normalize.py`, `sdk.py`) | traces, spans | batches out of order and repeated, a wire that is cut, open blocks | each span stored as last traced, shown as recorded | `Traces`, `Wire`, `SpanView`, `Recorder` |
| Importers (`hermes_import.py`, `openclaw_import.py`) | boards and sessions | read while agents write | the import is whole and agrees with what was there | `HermesImport`, `OpenClawImport` |
| MCP server (`mcp.py`, `mcp_log.py`) | the log, a conversation | death between a row and a line, batches, busy database | the log tells the conversation; a proposal has an origin | `Mcp` |
| ACE bridge (`ace_bridge.py`) | a clone of the skillbook | the book changes under the clone | edits come back, or are reported | `AceBridge`, proved |
| Bootstrap, discovery, adapters (`project_bootstrap.py`, `source_discovery.py`, ...) | files, a shared config | failing halfway, two callers, equal ids | what was asked for is there and kept apart | `Setup` |
| Diagnostics and smokes (`doctor.py`, `*_smoke.py`) | directories of evidence | repeated and cut off in the same directory | evidence is claimed only of what happened | `Doctor`, proved |
| CLI, web handlers, demos | none of their own | | | callers in every module, section 8 |

How they interact: a scheduled job of `AnalysisScheduler` runs turns (`OperatorTurn`); a
turn surfaces issues (`IssueLoop`); gate 1 accepts one and has a proposal authored;
checks and replays (`Checks`) say what it is worth, and `Views` shows it; gate 2 applies
it, which for context is the transaction of `Skillbook` and for files is `Harness`; the
loop then takes the watermark that the monitor judges by, and the monitor's rollback is
again `Skillbook`'s loop over an issue's revisions. The modules meet on the proposal's
`state` column, and `ProposalLifecycle` is what that column promises to each.

The 40 hazards that guide the properties are listed in `PROJECT.json`, each with its line
and the properties that would catch it.

## 2. Plan

Order is by what a defect costs: the store that agents read, the loop that changes it
without a human, the files of a repository, the analysis that feeds all of it, then what
comes in and goes out.

1. Done: all modules of section 3, their runs, and the refinement of `ProposalLifecycle`
   by `Skillbook` and by `IssueLoop`.
2. Done: proofs of every safety property the runs check of `Skillbook`, `AceBridge`,
   `IssueLoop`, `Harness`, `Doctor`, `AnalysisScheduler`, `Cadence`, `Checks`, `Migrations`,
   `LiveEvents`, `Delivery`, `ReplayServers`, `Routing`, `OperatorTurn`, `Blobs` and `Retention`.
   A proof module speaks of several components, through the MC module that hosts them.
3. Left: the readers and parsers, whose properties are about data more than about steps
   (section 6, "What stays with TLC"), and what section 8 lists.

## 3. Modules and the code

A module that is checked beside others is hosted by an MC module with a variable `part`,
which says what a behaviour is about; the parts share no variable.

**`Skillbook`** (`apply.py`, `update_issue` of `issues.py`). `entries`, `revisions`,
`state` are committed rows, both revision tables in one sequence; `tx` is the one open
write transaction with its own view of rows and log; `call[c]` is where a caller stands
between two statements. `ApplyRead` .. `ApplyCommit` is `apply_context_proposal`,
`RollbackCheck` .. `RollbackWrite` a revision's rollback, `IssueStart` .. `IssueClose`
the loop over an issue's revisions; `SetLock`, `EditRead`, `EditWrite`, `Crash`. A revision
carries two history fields: the change that wrote it and the revision it undid.

**`ProposalLifecycle`**. The abstract specification of the state column: absent, pending,
applied once, rolled back for good. `Skillbook` implements it with its own `state`,
`IssueLoop` with a mapping from its rows, restricted to context proposals.

**`IssueLoop`**. `issues` and `proposals` are rows, `mode` the policy, `call` what each
worker and each monitor is in the middle of, with the row it read. `SurfaceFind` ..
`BundleWrite` are the dedup net; `LoopStart` .. `Link` gate 1 and authoring;
`AutonomyRead` .. `LoopEnd` gate 2 and what follows; `MonitorStart` .. `MonitorEnd` the
monitor. One request of a human, agent or detector is one action. `observed`, `stamped`
and `human` are history.

**`Harness`**. `files` and `head` are the working tree and the last commit; `patches`,
`state`, `locks` the rows; `writer` whoever holds SQLite's lock from
`_ensure_kyoko_source` to the commit. The dirty check (`Begin`), the reading of each
preimage (`ReadFile`) and each write or restore of a file are actions of their own, so a
crash falls between any two, and so does `EditFile`: an editor or git outside changes a
file whenever it likes, because SQLite's lock means nothing to it. `edited` is history:
what was edited since the writer's check. What git ignores is never dirty, and without a
`.git` nothing is (`Reported`). A diff's text and the preimage of its rollback are one
reading here (the code reads the file twice); deletions are writes of `Absent`; whether a
patch is permitted at all is in `Routing`. **`UnifiedDiff`** is the algorithm that places the hunks of a diff
(`harness.py` 695-856) against what the author of the diff meant.

**`AnalysisScheduler`**. `schedule` and `watermark` are rows; `tick`, `queue`,
`worker[Server]` the memory of the server; other workers are CLI processes. A trace has
the second it started in, because cursors compare whole seconds. A worker goes `begun`,
`resolved`, `ready`, for each turn `spawned`, `registered`, `running`, then `done`, the
last before the result is recorded. `canceller` is the thread inside
`CancelToken.request`. `settled`, `missed`, `late` are history: covered by a successful
job, failed in a sweep that went on, arrived behind a scan, a cursor or a cutoff that is
carried by a snapshot or a waiting job. **`Cadence`** is `compute_next_run_at` against a
clock that may jump.

**`OperatorTurn`** (`analyze.py`, `operator_adapters.py`): the row of a turn from before
its process until its outcome, retries, salvaged output, surfacing, authoring.
**`Routing`** (`profiles.py`, `profile_next.py`, `autonomy_runner.py`, and what they call of
`apply.py` and `harness.py`): `Look`, `Weigh` and the step that was decided. A run of
autonomy is `RunAutonomy` (the policy), `ListPending`, and for each proposal `TakeUp`,
`Prepare`, `FindReady`, `ReadStatus`, `ReadPermission`, `WritePatch` and `MarkApplied`, each a
read or a transaction of its own; `Skip` is any refusal, `Die` the end of the process.
Between any two, owners change the policy and humans prepare, write, roll back and mark
patches by commands of their own (`PrepareByHand` .. `MarkByHand`), the first two of which
leave the proposal pending. `granted` is history: what the policy granted since the caller began, and of
patches since it read the row. A harness proposal has one patch here; several, and their
files, are `Harness`'s.

**`CheckEvaluation`** is `_evaluate` as a function of a definition, the verdict, the
replay row and the runs. **`Checks`** has the rows: generate, lock, approve, check,
replay, judge, prune, crash, with every read that happens before its transaction.

**`Measurements`**: a call seeds the judge, measures unit by unit, completes, raises an
issue. **`Views`**: each view is a list of reads, writers commit between them; `seen` is
history. **`Delivery`**: the three reads of a fetch that decide; a fourth, of the rules
that are shown beside them, is left out. **`ReplayServers`**: processes, parents, the
port, the state file; `Reuse` gives a pid to somebody else. **`Migrations`**: statement
by statement through `initialize_database`, one table standing for each kind of change.
**`Retention`**: writers, `Collect` in autocommit, `Apply` in a transaction under the
foreign keys. **`Blobs`**: look, write, register; list, unlink, delete. **`LiveEvents`**:
`Draw` reads the next seq in autocommit, `Insert` commits an event with any time of `Times`
(a client may supply it), `Publish` and `Offer` broadcast it to bounded queues; a page
fetches (the rows by time, then by seq) and listens. A tail that is given another run is
here opened anew; the code shows the old rows until the answer comes.

**`Traces`**, **`Wire`**, **`SpanView`**, **`Recorder`**: batches and the order of insertion
under the parent key; protobuf bytes; display adapters; the SDK's stack and snapshots. **`HermesImport`**,
**`OpenClawImport`**: table by table, file by file.
**`Mcp`**: one process per client, a transaction for each row of the log, the tools that
submit. **`AceBridge`**: export, command, difference, submit, report. **`Setup`**:
bootstrap, discovery and adapters, as three topics. **`Doctor`**: the smokes and the
conclusions drawn from what they leave (retained ACE evidence, `doctor.py:686`, is left out).

Named simplifications elsewhere: a cancel kills at once, where the code signals SIGTERM
first (`cancellation.py:76`), so "killed" means signalled; the `ace` analyzer's turn is
`AceBridge`'s; `Retention`'s `Collect` reads its tables at one moment, writers follow;
`MarkErrored` of `Checks` overwrites the outcome without the stale `result_json`.

MC modules: `MCSkillbook` (store, ace), `MCIssueLoop`, `MCHarness` (patches, diff,
doctor), `MCAnalysisScheduler` (server, cli), `MCChecks` (checks, views), `MCRetention`
(rows, hermes, openclaw, wire, spans, mcp, setup), `MCDataPaths` (delivery, clock,
traces, recorder, measure), `MCProcesses` (servers, routing, turns, blobs), `MCServer`
(migrations, publishers). `LiveEvents` and a run of `Migrations` are checked as they are.

## 4. Runs

States are distinct states after symmetry reduction.

| Run | Shows | States | Instance, and why it is enough |
|---|---|---|---|
| `skillbook` | the log explains the store; a proposal is applied whole and once; ACE edits come back | 948,975 | Two callers, the least that interleave; `p1` creates a rule, `p2` activates an entry and deactivates that rule: two changes in one transaction, one refused without `p1`, a shared row. `MaxRevisions` 4: both applied and rolled back. ACE: two skills, texts, sections and traces, two runs, two edits, one change by others |
| `issue_loop` | the loop keeps to evidence and bounds; the lifecycle is refined | 1,553,406 | One issue, two fixes (a retry), a worker, a monitor, humans. `RecurrenceThreshold` 2, `RegressionThreshold` 1, `MaxObserved` 3, `MaxAttempts` 1: escalation is reached |
| `harness` | rows, files, locks agree; what is overwritten was committed; diffs mean what they say; evidence is earned | 1,999,790 | Two callers, one proposal of two overlapping patches, `allow_touched_only`, one edit from outside (`MaxEdits`, of any file, at any step), commits, one ignored file, one path that is locked. Diffs of files of up to three lines, up to two hunks of up to two lines. Two operators, up to two smokes |
| `analysis_scheduler` | losses are explained; a cancel kills | 1,604,445 | The server with one schedule, two traces and two troubles; or two CLI processes that run every scope on one cursor |
| `analysis_liveness` | each trace is analysed in the end | 169,746 | One schedule, one trouble (a crash, a failure or a cancel), under fairness |
| `checks` | numbers identify; trust rises on evidence; views miss nothing | 873,228 | Two callers, one spec of three kinds, two rows, five answers, one lock; views of two runs, three spans and two proposals with up to two writes beside them |
| `live_events` | the tail tells the run | 3,741,454 | Two server threads and a CLI write to a run a page watches; two times, in any order; queue of one, so it overflows; three events, so that two draw one seq and a third follows; one break; safety only |
| `retention` | prunes keep what is cited; imports, MCP and setup leave what was asked for | 2,098,609 | Two runs and spans and one row of each other table with every reference graph; a board of two tasks, `MaxRows` 3, two imports; a session of up to three records; bytes of base 16; two MCP servers with a line each and one fault; two adapters, two URLs |
| `migrations` | no row is lost without a broken rebuild; upgrades complete; publishers return, streams that were left go | 208,388 | Two processes, databases of versions 0, 14, 30, 31, 33 and 34, two crashes. Two server threads that race for the one place of a queue, three events, under fairness |
| `migration_loss` | finding, section 7 | 178 | One process, one crash |
| `data_paths` | prompts, traces, recorders, judges, clocks | 1,932,878 | Three skills, two rules, one write during a fetch; intervals 5 to 48 h over 96 h; three spans in two batches posted up to three times; two runs, two handles, one send; two calls of a judge over two of three units |
| `processes` | servers can be stopped; turns and steps keep to their rows; payloads have files | 563,890 | Two callers, two pids, one foreign process, one trouble; one router, two proposals of two sections, with every policy, patch and check that changes under it (all evidence has failed, so `monitor` is not routed to); two turns, two spans, three entries, one retry; two payloads, two clients, one crash |

Every bound is a named constant (`MaxRevisions`, `MaxObserved`, `MaxTime`, `MaxQueue`,
`MaxTrouble`, `MaxRows`, `MaxWrites`, ...). Deadlock is checked except where the cfg says
otherwise: in those runs bounded parts come to an end (all traces in, all posts made), as
the system may. Symmetry is over callers, fixes, traces or processes, none of which the
constants tell apart; it is not used for liveness. The code's large limits are scaled
down to be reached: `QueueMax` 1 for the subscriber queue, `Limit` 2 for a corpus,
`Worst` 1 for the five units an issue cites, `Base` 16, `MaxBytes` 2, `Fixed` 2 and
`Limit` 256 for varints, fixed fields and 64 bits. In `Doctor` at most one check deviates
from its best answer.

Every property has a mutant in `PROJECT.json`: a variant of one definition (next to it,
"Variant") with a plausible bug, under which the same run finds it violated.

## 5. Fairness

* `AnalysisScheduler` (`Fairness`, for `TraceIsAnalyzed`): weak fairness of time passing,
  the scheduler thread, the worker thread, each step of a job (an operator ends or is
  killed at its timeout), a restart after a stop, and a cancel that has begun. Nothing is
  assumed of ingest or humans; failures are at most `MaxTrouble`. Strong fairness is not
  needed: a due schedule stays due, a queued job queued.
* `LiveFairness` (`LiveEvents`, for `IngestReturns`): weak fairness of a writer that has drawn its number, to
  insert, and then to broadcast (its thread runs on; an insert that fails ends it as well), and of the server's thread of a stream that its client has left, which writes
  an event or a keep-alive and fails. Nothing is assumed of browsers.
* `Migrations` (`UpgradeCompletes`): the server opens the database again, and a process
  that has begun an upgrade or a use goes on; others need not open it.
* `ReplayServers` (`StopReturns`): a call that has begun goes on. Servers need not exit.
* `FairSpec` of `IssueLoop` is used only for `RegressionIsHandled` (section 7): calls go
  on, and nothing starts one, because nothing in the code schedules the monitor.

## 6. Proofs

Each proof module proves its theorems for every value of the constants, from the named
assumptions of its component (types; `None` is none of the ids; bounds are numbers; a
proposal has a change, a patch a file). TLC evaluates these assumptions in every run. No
property below is inductive as stated; each module defines an `Inv` (in `SkillbookProofs`
several) that TLC confirmed on small instances first.

| Module | Theorems (of a property that a run checks, unless in brackets) |
|---|---|
| `SkillbookProofs` | `LogExplainsEntriesAlways`, `AppliedWholeOrNotAtAllAlways`, `StateAgreesWithLogAlways`, `RolledBackWasUndoneAlways`, `EditsComeBackAlways` (`AceBridge`), `BeforeContinuesLogAlways`, `ApplyRespectsLocksAlways` (action), `LifecycleRefinedAlways` (refinement) [`TypeOKAlways`] |
| `IssueLoopProofs` | `WatermarkFollowsApplyAlways`, `NeverAcceptedOnASingleOccurrenceAlways`, `RegressionIsConfirmedAlways`, `RetriesAreBoundedAlways` (action), `LifecycleRefinedAlways` (refinement) |
| `HarnessProofs` | `AppliedLeavesNothingReadyAlways`, `OverwritesCommittedOnlyAlways`, `EvidenceIsEarnedAlways` (`Doctor`), `RecordedIsOnDiskAlways` (action) |
| `AnalysisSchedulerProofs` | `LossIsExplainedAlways`, `CancelStopsTheOperatorAlways` |
| `ChecksProofs` | `NumbersIdentifyAlways`, `RegressionIsProvenAlways`, `TrustIsKeptAlways` (actions) |
| `ServerProofs` | `RowsAreAccountedForAlways` (`Migrations`), `TailTellsTheRunAlways` (`LiveEvents`), `PromptIsRightAlways` (`Delivery`), `NextRunIsOnTimeAlways` (`Cadence`, action) |
| `ProcessesProofs` | `StateFileKnowsTheServerAlways` (`ReplayServers`), `TurnsAreAccountedForAlways` (`OperatorTurn`), `RowsHaveFilesAlways` (`Blobs`), `ReviewIsNotReplacedAlways` (`Routing`, action) |
| `RetentionProofs` | `CitedEvidenceSurvivesAlways` (action) [`StaysWholeAlways`] |

The theorems about a component that an MC module hosts are stated of that module's
specification: its constants are any, and the component's assumptions are named there
(`PromptAssumption`, `ClockAssumption`, ...).

### The arguments

`Skillbook`. A commit publishes what a transaction holds, so each invariant says of the
uncommitted copy what it says of the store; a crash or a refused change is then harmless.
`AppliedWholeOrNotAtAll` needs that the transaction's log is the committed one followed by
one revision for each change made, which comes from the duplicate check under the lock.
`RolledBackWasUndone` needs what a caller in the loop over an issue knows: unless it has
met a failure, each revision of its proposal is still to do, in hand, or undone.

`IssueLoop`. A caller carries a row across the steps of others, so the invariant says of
each call how what it holds relates to the store of now. The store only *grows*: observed
counts never fall, equal observed counts mean equal recurrence counts, proposals never
vanish or become pending again. What is known of a call survives growth; a step then owes
growth and what it says of its own caller. The bound on attempts needs that the monitor
runs alone (`LoneOK`).

`Harness`. Of Kyoko's callers only the writer is in the middle of files, so what it has
written so far is what they hold, save what was edited from outside since its check
(`edited`); what it has yet to overwrite is what is committed, with the same exception and
that of ignored files (`Committed`), which every edit and every commit keeps; a caller's
queue, the patch in hand and the settled patches make up the whole plan.

`AnalysisScheduler`. A cutoff is followed from the cursor it is read from,
through a tick's snapshot and the job that carries it, to the scan of a worker and back:
below it every trace is accounted for at each stage. A process that runs is known to the
token. `LossIsExplainedAlways` speaks of requests without a cutoff of their own, as the
property does (with one, section 7, `CursorMarksTheSeen`).

`Checks`. The key of a row is unique because an insert that collides fails; until rows are
pruned no number exceeds its spec's count, so the next is free, a caller's row stays, and
an answer is written into the row it was accepted for. `Migrations`. Whoever is past the
renaming knows the new name; what was moved away has its mover, or a rebuild was broken
off. `Retention`. Of the references a prune looks for, only the one of a replay to a run
by way of an attempt can be missed; then the attempt is itself a candidate, the replay
that stays holds it by a foreign key, rows only grow during a prune, and the deletion
fails whole. `ReplayServers`. As long as no calls overlap, the place of the one caller at
work says which processes may be alive; between calls only one that answers at the URL
and is in the file.

`LiveEvents`. A writer's numbers grow, since it draws one only after its last commit; so the
rows by time and number list its events in order, save one that bears an earlier time than
an event before it, and that is what the tail has shown (`Told`). What was read is all there
was at that moment (`Downward`). A queue holds the events of one writer in the order of its
rows, and none older than what is shown; and as long as the tail knows of no gap,
each event of the server it has not shown is still coming: in the queue, in the fetch, or
with a writer that has yet to broadcast it.

`Delivery`. The filters a fetch has read hold every rule in force that was not touched
since it began, and are those if none was; what it gives fits these filters, and what it
leaves out is kept out by one, or by a limit that newer skills have filled. `Cadence`. The
next run is at the anchor's hour whenever the interval is whole days.

`Routing`. What a caller has found at a place (`Fit`) stays true while others change the
rows: check runs are not taken back, a patch that is past being ready does not return to it,
and of the policy holds that it granted this at some moment since the run, or the reading of
the patch's row, began (`granted`); a permission that is withdrawn after it was read does not
stop the write, and the property says so. `OperatorTurn`. The place a turn is at says
what it has written and what its row may say. The theorems assume that proposals and
entries are numbered from 1, and that an answer is a sequence of findings.

`AceBridge`. As long as nobody else writes, each skill is as
it was exported or as the command made it, ids belong to one skill each, and what is put
in is pending. `Blobs`. A payload that nobody prunes has a file if it has a row or is being
written; one that is being pruned has its row until the commit and its file until it is
taken; one that was disturbed keeps only "no row without a file until it is listed".
`Doctor`. A run that failed as expected was captured when it was recorded; the handoff is
written after the provider's answer; the report is forgotten with the next change.

The proofs are laid out alike: lemmas on data; lemmas on the shapes of steps (a caller
moves, a row is written, nothing but time changes); one lemma for each action; the
invariant; the theorems.

### What attempts to prove found

* `LossIsExplained` was false of a schedule whose job waits while its cursor moves on: the
  stale cutoff that the job or the tick's snapshot carries counts too. `late` says so now.
* The bound on attempts was false for several monitors side by side (three monitors,
  `MaxAttempts` 3: five attempts). It is stated for one that runs alone.
* `RegressionIsProven` was false once a prune lets a replay take the number of an older
  one: an answer judged by what the old replay was asked to do completes the new row. It
  is stated until rows are pruned, and the case is a hazard of its own.
* Assumptions were missing: that the answers of a replay name runs, and that the graphs
  of references are graphs.

### What stays with TLC

* `TraceIsAnalyzed`, `IngestReturns`, `UpgradeCompletes`, `StopReturns`: liveness under
  fairness and `ENABLED` are beyond this version of the prover.
* What a recursive definition computes for every input: induction over data is out of
  reach, since the library's theorems take an operator as a parameter. Least
  counterexamples over numbers do work, and give the maximum of a set of seconds in
  `AnalysisSchedulerProofs`; they do not help where a definition of the model is itself a
  fold, a filter or a flattening. That leaves `DiffIsAppliedAsMeant` (a fold of hunks over
  a file), `TraceIsKept` (folds over sorted spans), `ViewsAreRight` (filters of rows that
  others append to), `ImportsAreWhole` and `AgentsAreAccountedFor` (files, lines and log
  rows as sequences; `MCRetention` also reaches the `RECURSIVE` operators of `Wire`).
* `RebuildPreservesRows` is refuted, not proved (section 7).

## 7. Where documentation and code disagree

### With a run

`migration_loss`, `RebuildPreservesRows`: `storage.py:1714` says of the rebuild of a table
that it recreates it "preserving rows". The rename commits by itself and the schema script
commits the new, empty table before the copy: a process that dies in between leaves the
rows in `_skills_rebuild_tmp`, and no later open looks there.

### Other divergences

No run is kept for these. Each is a property in the last section of its module, and quotes
what it contradicts. To see one: take the configuration named, put the property in place
of its properties, make the changes named; where a part is named, let `part` begin as that
one, and write the instance's prefix (in brackets) before the property. TLC finds each
violated (with `SYMMETRY` left out and deadlock not checked). "(a)" marks action and
temporal properties, which go under `PROPERTY`.

| Property | Configuration, changes | The code |
|---|---|---|
| `RollbackUndoesLatest` | `MCSkillbook`, store, `MaxRevisions = 3` | docs/specs/0001:537, "only allowed for the latest revision": tested before the write lock (`apply.py:603`). Two callers undo one revision |
| `IssueRollbackNotBlockedByItself` (a) | the same, `Changes <- MCTwoChangesOneSkill` | docs/specs/0018:338, "auto-rollback freely": of two revisions of one row, undoing the later appends one, so the earlier is never the latest (`apply.py:297`) |
| `LockedRuleNotRolledBack` (a) | `MCSkillbook`, store, `MaxRevisions = 3` | docs/specs/0001:588: the lock is read before the transaction (`apply.py:690`) |
| `ActiveEntryEvolvesThroughGate` (a) | the same | `issues.py:705`, "Refuses an active (injected) entry": tested on one connection, written on another |
| `InactiveStaysInactive` [A] | `MCSkillbook`, ace | what an ACE command left inactive: an update activates it |
| `NewChangesArrive` [A] (a) | the same, `MaxEdits = 3` | docs/specs/0002-ace-compatibility.md:76-80: a change decided on before stops the new ones behind it |
| `BlockedFallsBackToHitl` (a) | `MCIssueLoop` | `issues.py:914`, "falls back to HITL": gate 2 never looks at the flag (`autonomy_runner.py:394`) |
| `DismissedIsTerminal` (a) | the same | `issues.py:30`: `accept_issue` and `link_proposal_to_issue` write whatever the status has become |
| `HitlAuthorsOnlyHumanAccepted` | the same | `autonomy.py:53`: "accepted" does not record who accepted |
| `Gate2OverOneProposal` (a) | the same | `improve.py:211`, "over this one proposal": every pending one is taken |
| `AppliedIsWatermarked` | the same | `guard_monitor.py:3`: not by a human's apply (`web.py:1614`), nor after a crash |
| `ClearedMeansGone` (a) | the same | `issues.py:912`, "the fix is gone": also cleared when the rollback skipped one |
| `NoRollbackOnPreFixTraces` | the same | docs/specs/0018:159: analysing an old trace again raises the count (`issues.py:650`) |
| `FireBundlesIntoSameIssue` | the same, `Issues <- MCIssues` | `guard_monitor.py:5`, "bundles the recurrence back into the *same* issue": it creates one without signature (`eval_issues.py:70`) |
| `NoDuplicateIssues` | and `Workers = {w1, w2}` | `issues.py:37`: looked up on one connection, created on another |
| `NeverASingleFire` | `Proposals = {p1}`, `Workers = {w1, w2}`, `RegressionThreshold = 2`, `HandStatuses = {}`, `MaxObserved = 5` | `guard_monitor.py:8`: counts written over each other |
| `RegressionIsHandled` (a) | `Proposals = {p1}`, `MaxObserved = 2`, `SPECIFICATION FairSpec` | docs/specs/0018:305, "a recurring Scheduler pass": nothing runs the monitor |
| `RolledBackIsTerminal` (a) | the same | docs/specs/0002:174: `_mark_proposal_applied` does not look (`autonomy_runner.py:441`) |
| `AppliedOnlyFromReady` (a) | the same, `DirtyPolicy = "allow"` | `harness.py:286` refuses any status but ready, on a row read before the lock |
| `InsertionsToo` [D] | `MCHarness`, diff | a hunk that only adds lines is inserted one line early (`harness.py:839`) |
| `LiveSmokeSatisfies` [E] | `MCHarness`, doctor | docs/specs/0005:391-398: a turn links no proposal to its run, so the suggested smoke never satisfies |
| `JudgesOnlyNewRuns` | `MCAnalysisScheduler`, `Judges = {s1}`, `Requests <- MCNone`, `MaxQueue = 1`, `MaxTrouble = 0` | `analysis_runner.py:390`: the corpus starts at the cursor, not after it (`evals_measure.py:169`) |
| `CatchUpJudgesAll` | the same, `CorpusLimit = 1` | `analysis_runner.py:391`, "judges the whole corpus once": cut at a limit (`evals_measure.py:123`) |
| `CancelStopsTheJudge` | the same, `CorpusLimit = 2`, `MaxTrouble = 1` | `cancellation.py:5`: a judge's process is registered nowhere (`llm_evals.py:362`) |
| `CursorMarksTheSeen` | `MCAnalysisScheduler`, `Requests <- MCSince` | `analysis_runner.py:475`: a cutoff later than the cursor skips some |
| `FailedTraceIsRecorded` | `MCAnalysisScheduler` | `improve.py:519`, "record it and move on": the cursor passes the trace |
| `NewTraceIsAnalyzed` | the same | `tests/test_llm_evals.py:437`: not those that arrive with an earlier start |
| `CursorAdvances` (a) | the same | `storage.py:2218`, "Advance": overlapping jobs write it back |
| `StopAlwaysReturns` (a) | `MCProcesses`, servers | the loop after SIGKILL has no deadline (`replay_servers.py:327`) |
| `PruneSkipsReferenced` (a) | `MCRetention`, rows | docs/specs/0001:892: not what is named between collection and deletion |
| `UndisturbedPruneSucceeds` (a) | the same | a run that stays may name an attempt, and a span a parent, of a run that goes: the prune fails whole |
| `SettingsSurvive` (a) | `MCServer`, migrations | `storage.py:1075`, "runs once on upgrade": an opener that read the old version drops the table again |
| `CountsTheInjected` [D] | `MCDataPaths`, delivery | `mcp.py:1936`: what is counted is the skillbook of all profiles |
| `ExportSucceeds` [D] | the same | inactive entries that are still problems have no section |
| `CadenceSteps` [C] (a) | `MCDataPaths`, clock | `analysis_runner.py:537`: the anchor is taken from each day anew |
| `SpanTreeIsBuilt` [T] | `MCDataPaths`, traces | docs/specs/0013:178: not across the batches of a trace |
| `SnapshotsAreAccepted` [R] (a) | `MCDataPaths`, recorder | `sdk.py:427`: a snapshot taken while something is open is refused |
| `IssuesAreScored` [M] | `MCDataPaths`, measure | `metric_bindings.py:15-17`: a corpus skipped as a whole has value 0 |
| `BoardsAreKeptApart` [H] (a) | `MCRetention`, hermes, `Board = {"b1", "b2"}`, `BoardTask = {1}`, `MaxRows = 2` | runs are numbered by the board |
| `TaskAgreesWithRuns` [H] | `MCRetention`, hermes | tables are read one after another |
| `SpansFormATree` [O] | `MCRetention`, openclaw | ids that differ by their case have one slug |
| `PromptOfUserIsShown`, `ExecuteToolIsATool` [V] | `MCRetention`, spans | `span_normalize.py:76-79` (a JSON number), `:325-327` (a system prompt) |
| `BacklinksAreKept`, `CountsAddUp` [M], `DismissedStays` [M] (a) | `MCRetention`, mcp | rows read on one connection and written on another |

### Seen while reading, not stated

* Context. An approval ignores a lock set after it looked (docs/specs/0010:149-151);
  stale trust lowers L3 (0010:145); `trust_level` is taken verbatim from a proposal.
* Checks. An ingest that is refused leaves its replay row "passed", and so does a crash;
  numbers are a count plus one and collide after a prune, and a late completion writes
  into the row that got its number.
* Harness. Files are written before the row commits (`harness.py:322`), so after a crash the
  retry records its own output as the preimage (docs/specs/0001:825). From ten patches on, the order by id puts the tenth before the second
  (`autonomy_runner.py:584-596`); a partly applied proposal cannot be retried by a human.
* Loop. The router never asks for analysis again once something was applied, looks at the
  newest pending proposal only while the runner applies all, and takes a passing check of
  an older run over a later failure.
* Turns. A row may stay "running"; the evidence of a run is not filtered by profile
  (`evidence.py:253-281`).
* Judges. An error leaves its run "running"; bundled judges belong to the first profile
  that seeded them.
* Telemetry. The outcome of a run is overwritten by a late batch; the profile inferred
  from each batch's first span splits a trace.
* MCP. Notifications are answered; a log row that fails ends the server; the log's query
  returns its oldest rows (`mcp.py:918-920`); a named issue is not linked back;
  `next_step` with `run=true` can apply (`mcp.py:286-289`).
* Setup. An upsert moves a profile's `created_at`, and with it which profile is the first
  (`storage.py:1635`); a refused bootstrap leaves what it wrote; the MCP config is read,
  merged and written without a lock; adapters that share a URL are answered by each
  other's server (`replay_servers.py:826-841`); re-registering strands a server.
* Storage. The schema script turns `foreign_keys` on again in the middle of a rebuild; a
  database of version 34 without its policy row is reseeded only by the next ingest.
* Views. A gate's check passes though specs never ran (`details.py:1148-1172`); an attempt
  pruned between two reads is a `KeyError`; dangling references raise a score; a float
  decides a boundary; rows of one second are ordered by id.
* Doctor. An error that no check catches ends it; `safe_smokes_complete` holds with
  warnings; a stale run or event of an earlier smoke is taken for this one's.

## 8. Not modelled

* Text: prompts, reports, signatures, redaction, suggested commands, templates. Where text
  decides (does a patch apply, do two failures share a signature) it is a model value.
* `cli.py` and the other handlers of `web.py`: each command or request is a call of a
  function that is modelled, so it is a caller in the modules. Pages are left out but for
  the live tail.
* `demo.py`, `framework_smoke.py`, release, load, dashboard, improve and otlp smokes, the
  examples: scripts that drive the above once, and fixture servers.
* `gates.py`, which reads artifacts of the development of Kyoko itself; `inspection.py`
  (search and paging), timelines and subagent trees; prices and the vocabulary, which are
  tables; the subprocess of a code detector; the TypeScript client's buffering.
* SQLite itself: one writer, atomic commit, autocommit reads and its foreign keys are
  assumed.
