# Busytok: a TLA+ model of its runtime

Busytok records the token usage of coding agents and runs *logical subagents*:
named, long-lived helpers whose tasks are delegated through a local service and
executed in sessions of a Node.js sidecar.  A desktop application keeps the
service running and shows its data.  This directory holds TLA+ modules that
model the parts of the repository in which concurrency and failure matter, TLC
configurations that check them on small instances, and TLAPS proofs of the
properties that matter most.  Paths below are relative to the repository root.

## 1. Inventory of the system

| part | code | state | operations | talks to |
|---|---|---|---|---|
| Task lifecycle | `crates/busytok-subagent/src/manager.rs`, `crates/busytok-store/src/subagent_queries.rs` | rows of tasks, logical subagents and bindings; lifecycle gates; cancel signals | delegate, dispatcher, execute, cancel, hibernate, delete, reap | database mutex, executor, pressure gate |
| Executor | `.../sidecar/executor.rs` | none of its own | run a turn, evict a session, close a session | worker pool, sidecar RPC, database |
| Sidecar supervisor, RPC client, worker pool | `.../sidecar/supervisor.rs`, `client.rs`, `pool.rs` | child process, client, spawn lock, generation, restart and crash counters | ensure_started, shutdown, force_kill, supervision loop | the process, the responder, the database |
| Pressure | `.../pressure.rs`, `resource.rs` | memory state, gate | sample, respond, pause, resume | supervisor, executor, manager |
| Session pool | `apps/pi-sidecar/src/session_pool.ts`, `pi_session.ts`, `handlers/` | sessions, LRU list, pending set, busy and eviction markers, creation and cancellation state | turn_auto, cancel, activate, prepare_hibernate, close, timers | the vendor SDK |
| Ingest | `crates/busytok-runtime/src/tail.rs`, `scan.rs`, `writer.rs`, `crates/busytok-tailer` | file checkpoints, pending batches, rows, rollups | watch, read, batch, flush, rescan, prune, rebuild of rollups | file system, database, event bus |
| Deduplication | `crates/busytok-store/src/write_queries.rs`, `crates/busytok-adapters`, `scan.rs` | usage rows, rollups, Codex snapshots | upsert a batch, compute deltas | writer |
| Generations | `crates/busytok-runtime/src/generation_manager.rs`, `bootstrap.rs`, `rebuild.rs` | active and building generation, readiness | create, promote, activate, hydrate | writer, database |
| Events and control | `crates/busytok-control`, `crates/busytok-events` | subscriptions, the bounded bus | dispatch with a time-out, publish, subscribe | everything above |
| Desktop shell | `apps/gui/src-tauri/src` | lifecycle state, suppression on disk, bootstrap lock, subscription | ensure, repair, quit, reopen, reconnect | launchd, control |
| Event provider of the web UI | `apps/gui/src/api/EventSubscriptionProvider.tsx` | service status, scopes to invalidate, queries | listen, invalidate, fetch | desktop shell |
| Views, command line, parsing, pricing, configuration | `apps/gui/src`, `apps/cli`, `crates/busytok-adapters`, `-pricing`, `-config`, `-domain`, `-platform`, `-discovery`, `-aggregator` | none that two actors share | pure functions and I/O | control |

The hard behaviours: one `delegate` call, the execution it spawns, the
dispatcher, a cancel and a hibernate act on one task in separate critical
sections; a session is known to a row, to a pool in another process and to a
worker, and no lock spans two of them; the service, the sidecar or the desktop
may stop between any two steps; a turn may hang, a cancel may be late, a
request may be dropped; log files grow, are truncated and replaced while they
are read; the desktop repairs a service that launchd restarts at the same time.
`PROJECT.json` lists the hazards one by one, each at its line, with the
properties that would catch it.

What makes each part correct, in one line:

* tasks: executions of one subagent are serialised, cancels are neither lost nor
  undone, rows, results and hot status agree, every task ends;
* session pool: its limit holds under concurrent creation, one session per
  subagent, no eviction under a turn, cancels hit their own turn;
* supervisor: one live process per worker, a loop supervises it, a dead
  process's bindings are released, nobody waits for ever;
* hot sessions: rows, sessions and workers account for each other;
* ingest: checkpoints never pass a line that is not recorded, rollups follow
  rows, every line is recorded in the end;
* deduplication: one row per message, the right one, whatever the order;
* generations: what is stored is visible;
* desktop: the service comes up and is of this build, and a stopped one stays
  stopped;
* events: stale data is never shown with no refresh on its way.

## 2. Modules

| module | models |
|---|---|
| `TaskLifecycle` | the abstract lifecycle of tasks, as callers see it |
| `SubagentTasks` | the task lifecycle, which implements it |
| `SubagentTasksProofs` | the theorems about `SubagentTasks`, the refinement among them |
| `SessionPool` | the sidecar's session pool with the handlers and the turn state of the SDK session |
| `SidecarSupervisor` | the supervisors of the sidecar processes, the RPC client's admission, sampling, pressure responder and gate |
| `HotSessions` | the composition of bindings, session pools and worker pool: turns, commit and activation, eviction, hibernation, replaced workers |
| `Ingest` | the path of a line from a file into rows and rollups: scanner, scan, tailer, writer, generations, boot and shutdown |
| `UsageLedger` | what a batch does to rows and rollups: deduplication of Claude messages, deltas of Codex totals |
| `DesktopLifecycle` | how the macOS desktop host keeps the service running and stops it |
| `EventStream` | from the writer's commit over bus, server, bridge and listeners to the page |
| `SessionPoolProofs`, `SidecarSupervisorProofs`, `HotSessionsProofs`, `DesktopLifecycleProofs`, `EventStreamProofs`, `IngestProofs`, `UsageLedgerProofs` | the theorems about the module they are named after |
| `MC...` | constants of the TLC runs |

The modules meet where a guarantee of one is an assumption of another.
`SessionPool` and `HotSessions` assume one execution per subagent, which
`ExecutionsSerialised` proves of `SubagentTasks`.  `HotSessions` takes a request
to a pool or a supervisor as one step that may fail, whose inside is
`SessionPool` and `SidecarSupervisor`.  `UsageLedger` is the transaction that
`Ingest` has as one step, and `EventStream` starts where that transaction is
committed.  `EveryTaskSettles` has the opening of the gate as its hypothesis.

### SubagentTasks

State: `row`, `started`, `reason`, `born` are columns of `subagent_tasks`;
`sub` and `hot` are the status of the logical subagent and whether it has a hot
binding; `gate` is the lifecycle mutex of a subagent, `sig` the entry of a task
in the registry of cancel signals, `paused` the pressure gate.  `del`, `pc`,
`cpc`, `ctl` and `disp` are the program counters of delegate, of
`execute_and_persist`, of cancel, of hibernate and delete, and of the
dispatcher.  A task id is one future call of `delegate`.

An action is one critical section of the database mutex or one step on an
in-memory registry, in the order of the code.  `delegate` is `DelegateResolve`,
`DelegateReadGate` (it reads the pressure gate before it takes the database
lock) and `DelegateInsert`.  The dispatcher is `DispatchPick` (pick and flip in
one transaction), `DispatchResolve`, `DispatchRecheck`.  `execute_and_persist`
is `AcquireGate`, `RegisterSignal`, `CheckCancelled`, `BuildContext`, the turn
(`TurnReturns` or `TurnCancelled`, the two arms of the `select!`), the ways to
persist it (`PersistOutput`, `PersistError`, `PersistHotLimit`, `PersistFails`,
`BindingCommitFails`), `Activate`, `FinalRead`, `Hook`, and, for a task that met
the session limit, `Requeue` or `GiveUp`.  Cancel is `CancelRead`, `CancelFlip`,
`CancelSignal`; hibernate and delete are `ControlRequest`, `ControlTimeout`,
`HibernateCommit`, `HibernateClosed`, `HibernateCloseFails`, `SoftDelete`,
`HardDelete`.  `Reap`, `SidecarCrash`, `SidecarShutdown`, `Evict`, `SetPaused`
and `ServiceRestart` are the environment.

Abstractions: prompts, memory and usage figures are left out; warm and cold are
one status; time is a free choice (a running row may be overdue at any moment,
a retry deadline may have passed), which covers every clock; the supervisor's
crash and shutdown are here by what they write to the database, and they may
happen at any time.

### SessionPool

State: `pool` is a record with the maps and sets of the class; the other
variables are the progress and answer of a turn and the fields of
`PiSdkSession`.  The sidecar is a single event loop, so an action is what runs
between two awaits: `Ensure` (hit, miss, limit or refusal), `Created` or
`CreateFails` when the session factory settles, `StartTurn`, `Settle`,
`CancelTurn`, `CancelCleanup` (the fallback timer), `ActivateSession`,
`PrepareHibernate`, `CloseRpc`, and `Age` for the passage of time.  The methods
of the class are operators from a pool to a pool, so that a handler that calls
several of them (expiry, then ensure, then touch) is one action, as in the code.
A session is named after the turn that created it.

The module assumes of its client only what the service guarantees: the session
ids in requests come from earlier answers (`Known`), and a session is not
activated while a later turn of its subagent is in flight, because the service
holds the lifecycle gate from `turn_auto` to `activate` (`ExecutionsSerialised`
is the theorem behind this).

### SidecarSupervisor

State: `sup` is the `SupervisorState` of each worker, `proc` what its processes
are doing and whether their client admits calls, `lock` the holder of the spawn
lock, `paused` the gate that all workers share, `level` the memory the next
sample will find.  `at` and `on` are the progress of the callers of a supervisor
and the process they hold in their hands.  The callers are the tasks, the
pressure responder of each worker, and its supervision loops, one for each
generation, of which several can be alive at once.

An action is one critical section of the state mutex or one step on an atomic of
the client.  `ensure_started` is `EnsureStarted`, `SpawnedMeanwhile` or
`SpawnLock`, `SpawnProcess`, then `Install` or `SpawnFails`.  A call is
`BeginCall`, `CountCall`, `AdmitCall` (the flags are read before and after the
active count goes up), then `CallReturns` or `CallEnds`.  A task makes a turn,
commits its binding and activates its session.  `shutdown_internal` is
`StopLock`, `CloseForShutdown`, `Drained` or `DrainTimeout`, `StopTake`,
`StopKill`, `StopRelease`; `force_kill` is `KillTake`, `KillProcess`,
`KillReconcile`.  The loop's checks are `LoopStale`, `LoopChildTaken`,
`LoopCrash` with `LoopReconcile`, `LoopIdle`, and `LoopSamples`, after which it
holds no lock until `Sample` latches the level and sets the responder off
without another look at the generation.

Abstractions: clocks are free choices (idle time, the crash window, the time
limits of drain and calls); the health request is part of `LoopSamples`; an
eviction of the responder is one step, since its protocol is the subject of
`HotSessions`.  A session is named by the process it lives in.

### TaskLifecycle

Two variables: the `status` a caller is shown and the set of tasks an execution
is `active` on.  A task is submitted, started when no task of its subagent is
shown as running, settles, is put back, cancelled, given up or removed; a
restart loses every execution.  `SubagentTasks` implements it under
`status <- row` and `active <-` the tasks whose execution is under way
(`ImplementsLifecycle`).  It says in one formula what no single invariant does:
a cancelled task stays cancelled, a queued one is settled by nobody, an
execution ends only when its row is settled, two running rows never meet.

### HotSessions

State: `workers`, `run` and `orphaned` are the worker pool and its processes,
`sess` and `lru` the sessions in the sidecars, `hot` and `closed` the binding
rows, `exec` the step of each subagent's execution or control request with the
supervisor and session it holds, `ev` the evictions under way.  An execution is
`ensure_worker`, `ensure_started`, `turn_auto` (with `LimitReached` and
`TryAgain` around an eviction), `TurnEnds`, `commit_hot_binding_and_status`,
`activate_session` or `activate_rollback`, and the close; an eviction is
`evict_lru`, `prepare_hibernate`, `commit_eviction`, `EvictClose`.  Hibernation,
hard deletion, a provider change that kills the old worker, an authentication
failure, the end of a process and its reconciliation interleave with all of
them.  `HibernateDropped` and `ExecutionDropped` are the time-out of the control
server and the cancellation of a task: the future is dropped where it stands.

A session is `new` from the request that asks for it: the factory and the turn
that creates it are awaited, and the session is pending, or gone, after them
(`SessionTurnEnds`).  A turn with another model closes the old session before
the await (`turn_auto`), so a factory that fails leaves the subagent with none.
A turn that nobody waits for any more (`Abandoned`) ends in the sidecar by
itself (`AbandonedTurnEnds`), or the fallback timer of `session.cancel` closes
its session, activated or not (`CancelFallback`).  A reservation and a pending
session expire by the wall clock, that is, at any step (`ReservationExpires`,
`PendingExpires`), also under an evictor or an execution that is still at work.
`EvictFails`, `RollbackFails` and `ReconcileFails` are errors of the database
and of calls.

Three history variables tell the ways apart in which the parties come to
disagree, so that the properties can say that nothing else goes astray: `lost`
has the sessions whose release was dropped, failed, or done on one side only;
`shed` those that the sidecar closed of its own accord, for another model or
after a cancel; `late` those whose reservation ran out while an eviction was
between its prepare and its close.

### Ingest

State: `fs` are the files (whole lines, a torn last one, inode), `ckpt` the
`log_files` rows, `rows`, `daily` and `buckets` the store, `audit`, `active`,
`ssReady` and `snapReady` the generation and readiness in database and memory,
`queue`, `pend` and `wmode` the writer actor, `pc` and `job` the boot sequence
and the tailer, of which only one runs at a time.  Offsets count two units per
line, so that an odd one is inside a line.  `read_file_once` is the scanner as an
operator: whole lines after the checkpoint, and the offset it stores, which
lags behind empty lines as in the code.  A batch goes through `TailSend` or
`ScanSend`, `WriterRecv`, `WriterFlushGroup` (one transaction per generation,
or a failure that drops the group), and the checkpoint is written with the rows
or not at all.  `pend` keeps the pending batches by generation, in the order they
were received, which is the grouping that `flush_pending_batches` makes of them;
the order of the groups is free, as that of its hash map.  `CatchUp`, `TailEvent`, `RescanBegin` and `RescanFile` are the
ways by which the tailer finds out about lines.  `Boot`, `StartGeneration`,
`Barrier`, `BootDone` and `BootFailed` are a start; `Shutdown`, `Exit` and
`Crash` its end.

### UsageLedger

`upsert_usage_events_dedup_aware` folds `upsert_one` over a batch, as the loop of
the code does: `new_beats_existing` decides whether a line replaces the row of its
message, and `compute_delta` is what reaches the rollups.  For Codex,
`CodexRead` computes the amounts of a batch from the last stored snapshot while
earlier batches may still be in the queue, and `CodexCommit` or `CodexDropped`
ends them.  A behaviour is about one of the two agents, which share no row.

`files` holds the Codex file and those it replaced, `inc` says which one is
there.  A line has a running total, something else, or nothing.  The scanner
skips empty lines but counts a line of the file for each line it returns, so
the stored offset lags behind by as many lines as were empty, and lines are read
again (`checkpoint_offset`).  A batch without totals moves the checkpoint all
the same.  A turn that says it used nothing leaves a snapshot and no event
(`explicit_zero_component_codex_delta`).  `totals` and `stale` are history: how
far each file was committed, and whether a batch has left snapshots with higher
ordinals than its own behind.

### DesktopLifecycle

State: `host`, `quit`, `phase` and `inFlight` are the desktop process and its
coordinator, `disk` the suppression that survives it, `plist`, `job`, `proc`,
`serving` and `files` what launchd and the file system know of the service, `pc`
the step of each caller.  Callers of `ensure_running` are the start-up task, the
bridge, a command of the user and a reopen.  `Ask` decides under the mutex;
`LaunchctlPrint`, `Probe`, `Socket`, `Bootout`, `Bootstrap`, `Fresh`,
`Kickstart` and `Wait` are the ladder without it; `Finish` takes it again.  Quit
is `RequestQuit`, `Suppress`, `RecordSuppression`, `StopService`, `Exit`.
`HostCrash`, `ServiceCrash`, `CommandFails`, `Dropped` and `Reboot` are the
faults.

### EventStream

State: `store` and `seq` are committed, `latest` is what the status snapshot says,
`rx` what the subscription has yet to deliver, `bridge`, `lastSeen` and `gap` the
bridge task, `listening` how many of the three listeners are registered, `page`
the refs of the provider, `cached` the version on the screen.  `Commit` and
`PublishBatch` are two steps, because the service may die between them.  `Send`
drops the oldest event when the receiver is full.  `OnEvent`,
`OnSubscriptionStatus` and `OnServiceStatus` are the listeners as operators on
the page.

## 3. Runs

| run | configuration | checks |
|---|---|---|
| `tasks_safety` | `MCSubagentTasks_two.cfg` | `TypeOK`, `OneExecutionPerSubagent`, `AtMostOneRunning`, `CancelNotLost`, `ResultAgreesWithRow`, `HotIffBound`, `TurnHasSubagent`, and the refinement `ImplementsLifecycle` |
| `tasks_settle` | `MCSubagentTasks_live.cfg` | `EveryTaskSettles` |
| `pool_safety` | `MCSessionPool_safety.cfg` | `TypeOK`, `CapacityRespected`, `OneSessionPerSubagent`, `CancelledNeverCompletes`, `CancelHitsItsOwnTurn`, `TurnsKeepTheirSession` |
| `sidecar_safety` | `MCSidecarSupervisor_safety.cfg` | `TypeOK`, `OneSidecar`, `Supervised`, `NoCallAfterShutdown`, `NoGhostBinding` |
| `sidecar_live` | `MCSidecarSupervisor_live.cfg` | `TasksProceed` |
| `hot_sessions` | `MCHotSessions_safety.cfg` | `SlotAccounted`, `HotRowHasSession`, `TurnKeepsSession`, `DivergenceNeedsDelete` |
| `ingest_safety` | `MCIngest_safety.cfg` | `CheckpointCovers`, `RollupsFollowRows`, `VisibleUnlessFault` |
| `ingest_live` | `MCIngest_live.cfg` | `TailerCatchesUp` |
| `usage_ledger` | `MCUsageLedger_ledger.cfg` | `BestLineWins`, `TokensFollowRows`, `CodexTotalStored` |
| `desktop_lifecycle` | `MCDesktopLifecycle_safety.cfg` | `TypeOK`, `ServiceStaysDown`, `EnsuredIsCurrent`, `ServiceComesUp` |
| `event_stream` | `MCEventStream_stream.cfg` | `TypeOK`, `StaleIsAnnounced`, `PageCatchesUp`, `PageSaysReady` |
| `quit_wins` | `MCDesktopLifecycle_quit.cfg` | `QuitWins`, violated |

**Bounds.**  The task runs have two tasks of one subagent and one restart.  Two
is what the properties need: every one of them relates a task to one other task
or to a control operation of the same subagent, and subagents share only the
dispatcher and the pressure gate.  The theorems hold without the bound.
`pool_safety` has three subagents on a pool of two, so that a third session
needs an eviction, with one subagent that sends three turns, one of them with
another model (which replaces the session).  A cancel is possible for one of
them.  The supervisor runs have two spawns, so that a process, a loop and a
binding of the past meet their successors; `sidecar_safety` has all memory
levels and one task beside the responder, `sidecar_live` two tasks and no
pressure.  The cap on crashes is two there, so that it is met.
`hot_sessions` has two subagents on a pool of one, so that each execution has to
evict the other's session, two sessions and two workers of one provider, one
fault at any place, and either subagent may be deleted.  The two are
interchangeable, hence symmetric.  States are compared without the entries of
`lost`, `shed` and `late` that no property can ask for any more (`VIEW Relevant`:
a session that is gone, in no hot row and held by no execution), which leaves 1.6
of 3.9 million distinct states; `MCHotSessions_types.cfg` checks the same
properties without the view.
`ingest_safety` has one file, two lines, one empty or partial one, two starts,
one fault, one change of the timezone, and batches and a queue of two;
`ingest_live` a file that is truncated or replaced once, lines that grow old,
two starts and no fault, with the other write policy.  One file is enough for
what the properties say of a file; the price is that a rescan of several files
is not interleaved with itself, which the single tailer thread does not do.
`usage_ledger` has two messages with two requests each, two batches of up to two
lines in any order; four Codex lines in all, of turns with and without tokens,
one restart of the file and a queue of two.  `desktop_lifecycle` has the bridge as the only client, two
launches, one fault and one request of the user; a fault is enough to leave a
repair half done, and the second launch meets what the first one left.
`event_stream` has two writes, two faults and a bus of two, so that it
overflows; the bridge gives up after two failures instead of seven.

**Deadlock** is checked for `event_stream`, whose sampler never stops.  In the
other runs a finite set of tasks, turns, lines or launches is eventually done.

**Fairness.**  `tasks_settle` assumes what tokio and the operating system
give: a spawned future is polled again, the lifecycle gate is a fair mutex (a
waiter gets it if it is free again and again), a turn ends (its RPC has a
timeout), the dispatcher's and the reaper's interval loops run, and time passes,
so that a row that is running again and again is at some point overdue and a
task that keeps meeting the session limit at some point passes its deadline.
Nothing is assumed of the pressure gate: that it opens again and again is a
hypothesis of the property.  `sidecar_live` assumes that tasks, shutdowns and
responders proceed up to their calls; calls in flight may hang and the
supervision loop may never be polled.  Weak fairness is enough: a fixed number
of spawns also bounds how often the spawn lock can be taken before it stays
free.  `ingest_live` assumes that the writer, the boot sequence and the tailer
run on; nothing is assumed of those who write the files, of starts, crashes and
faults.  The property is about behaviours without faults, in which the watcher
delivers every notification; the rescan runs against them but does not have to
make up for a lost one.
`desktop_lifecycle` assumes that launchd keeps a loaded job alive, that threads
run on, that the bridge tries again after every backoff and gets the bootstrap
lock in its turn (tokio's mutex is FIFO: strong fairness of `Connect`), and that
a service that is started removes the old marker within one backoff of the
bridge (strong fairness of `ClearMarker`: it is the first thing `ServiceApp::boot`
does, and a bridge that always came before it would repair a starting service
for ever).  `event_stream` assumes that every task and timer runs on, that the
service is started again, and that the sampler, which ticks every two seconds,
keeps ticking; nothing has to be written and nothing has to fail.

**Exceptions.**  Some properties name a case in which the code does not keep
them, and hold in all others.  `SlotAccounted` excepts sessions in `lost`,
`HotRowHasSession` sessions in `lost` and in `shed`, `TurnKeepsSession` sessions
in `late`.  `CodexTotalStored` excepts a batch that ends below the
highest ordinal stored, after which the latest snapshot is not the last one.
That is the first batch of a file that starts over with fewer totals, or a batch
that was read from a lagging checkpoint while batches in the writer went
further: two empty lines, totals 1 and 2, two other lines, totals 3 and 4, with
two batches in the writer, end at the snapshots 1, 2, 3, 2 and five tokens
instead of four.  `VisibleUnlessFault` and `TailerCatchesUp` are
about behaviours without faults, the latter also about files that are not
mistaken for their predecessor.  `ServiceComesUp` excepts a count that a dropped
call has leaked, and a user who keeps asking for repairs.  `StaleIsAnnounced`
and `PageCatchesUp` except an invalidation that was pushed out of the bus, and a
service that is back before the third listener is registered.

Every property of a passing run has a mutant in `PROJECT.json`: a plausible bug
in a definition that makes TLC report the property as violated.  The mutated
forms stand in the modules, marked `Mutant` or `Bug`, and are used by nothing
else.

### Known divergences

`quit_wins` is a run of its own: the comment in `quit_desktop_host` says that
`request_quit` keeps racing ensures from undoing the stop, but a ladder that
was decided before it does not look at it again, and loads the job after the
stop.  `ServiceStaysDown`, which passes, says the same for every quit that no
ladder is in flight of.

The following are disagreements of the same kind between the code and what the
repository says of it.  Each has a configuration under which TLC prints the
counterexample (`tlc -config <file> <module>`); they are kept beside the runs and
are not among them.

| configuration | violated | what the counterexample shows |
|---|---|---|
| `MCSubagentTasks_fifo.cfg` | `FifoPerSubagent` | the design document promises a FIFO queue per subagent, but `delegate` looks at the gate and the running row only (`manager.rs:521`): a task queued while the gate was closed is overtaken by a younger one delegated before the dispatcher's next tick |
| `MCSubagentTasks_tombstone.cfg` | `TombstonesStay` | the commit of a hot binding (`subagent_queries.rs:825`) has no guard against a soft-deleted subagent, so a task that was already delegated revives it |
| `MCSessionPool_quarantine.cfg` | `QuarantineEnds` | cancelling a queued task of a subagent disarms the fallback timer of its running, cancelled turn (`session_pool.ts:310`); with one cancel per subagent the property holds (`MCSessionPool_fallback.cfg`) |
| `MCSidecarSupervisor_gate.cfg` | `GateReopens` | the pause for memory pressure is lifted by the sampler, the sampler runs in the loop of a live sidecar, and while the gate is closed nothing starts one (`pressure.rs:194`) |
| `MCSidecarSupervisor_others.cfg` | `OtherWorkersKeepSessions` | a crash is reconciled for the harness, which all workers share (`subagent_queries.rs:1302`) |
| `MCHotSessions_race.cfg` | `HotRowBacked` | `activate` succeeds for a session that is reserved for eviction (`session_pool.ts:378`); the row stays hot without a session |
| `MCHotSessions_shed.cfg` | `HotSessionStays` | `cancel.ts:15` says that a session is NOT closed or evicted by a cancel and stays in the hot pool, but the fallback timer closes an activated session as well (`session_pool.ts:489`), and nobody tells the service: its row stays hot.  A turn with another model ends the same way when its factory fails (`session_pool.ts:168`, `214`, `230`) |
| `MCHotSessions_expiry.cfg` | `TurnOutlivesEviction` | a reservation that a second evictor takes over is not renewed (`session_pool.ts:470`) and ends after two minutes; a turn that then reuses the session loses it to the evictor's close |
| `MCIngest_flush.cfg` | `FlushCommits` | a flush answers success although a batch before it was dropped (`writer.rs`, `flush_pending_batches`) |
| `MCIngest_once.cfg` | `CountedOnce` | a replaced file whose old rows were pruned is read again, and its lines reach the rollups a second time |
| `MCIngest_rollups.cfg` | `ReadPathsAgree` | a change of the timezone rebuilds `daily_usage` from rows of which all but the last day were pruned (`writer.rs:1355`) |
| `MCUsageLedger_buckets.cfg` | `BucketsFollowRows` | the difference between a displaced row and its successor is booked in the bucket of the new line, so buckets are right in sum only |
| `MCUsageLedger_restart.cfg` | `CodexRestartCounted` | after a Codex file starts over, the baseline is the snapshot with the highest ordinal, which may be one of the old file |

`MCSubagentTasks_cancel.cfg` checks `CancelStopsTurn`: a cancelled turn ends
although the executor hangs; `MCSessionPool_books.cfg` checks `PendingOrListed`,
`ReservedIsIdle` and `BusyMeansTurn` of the pool's books, and
`MCHotSessions_types.cfg` checks the types of `HotSessions`, that the LRU list
holds activated sessions only (`ListedIsActive`), and the properties of
`hot_sessions` on all states.  They pass.

Seen while modelling and part of the actions, but of no property: a hard limit
that is still exceeded at the next sample takes no action (`supervisor.rs:1014`);
idle exit looks at the start of the last call, so a long turn counts as idle
(`supervisor.rs:824`); `restart_attempts` never exceeds one, so the backoff is
never exponential (`supervisor.rs:714`); the bridge's `consecutive_failures` is
never reset, because the function that streams never returns `Ok`, so the
service is declared unavailable after any seven ends of the stream
(`subscribe.rs:168`); the sequence an invalidation carries is one less than the
one the status reports, so every reconnect reports a gap.

## 4. Proofs

Every safety property of the passing runs is also a theorem, for every value of
the constants: any number of tasks, subagents, workers, turns, processes,
sessions, lines, batches, launches, writes and faults.  The proofs use the named assumptions of the
modules, which TLC evaluates in every run, and nothing else.

| module | theorem | property |
|---|---|---|
| `SubagentTasksProofs` | `TypeCorrect` | `TypeOK` |
| | `ExecutionsSerialised` | `OneExecutionPerSubagent` |
| | `OneRunning` | `AtMostOneRunning` |
| | `PollersSeeConsistentRows` | `QueuedNotStarted` |
| | `CancelDelivered` | `CancelNotLost` |
| | `HookSeesRow` | `ResultAgreesWithRow` |
| | `HotStatusAgrees` | `HotIffBound` |
| | `TurnsOutliveDelete` | `TurnHasSubagent` |
| | `CancelledForGood` | `CancelledIsFinal` (action) |
| | `DispatcherFifo` | `DispatcherIsFifo` (action) |
| | `ManagerImplementsLifecycle` | `ImplementsLifecycle` (refinement) |
| `SessionPoolProofs` | `TypeCorrect` | `TypeOK` |
| | `WithinCapacity` | `CapacityRespected` |
| | `OneSession` | `OneSessionPerSubagent` |
| | `CancelHolds` | `CancelledNeverCompletes` |
| | `CancelIsOwn` | `CancelHitsItsOwnTurn` |
| | `BusyIsInUse` | `BusyMeansTurn` |
| | `SessionsKept` | `TurnsKeepTheirSession` (action) |
| `SidecarSupervisorProofs` | `TypeCorrect` | `TypeOK` |
| | `AtMostOneSidecar` | `OneSidecar` |
| | `AlwaysSupervised` | `Supervised` |
| | `NoLateCall` | `NoCallAfterShutdown` |
| | `GhostsAreReleased` | `NoGhostBinding` |
| `HotSessionsProofs` | `TypeCorrect` | `TypeOK` |
| | `SlotsAreAccounted` | `SlotAccounted` |
| | `HotRowsAreTrue` | `HotRowHasSession` |
| | `TurnsKeepSessions` | `TurnKeepsSession` |
| | `OnlyDeletesDiverge` | `DivergenceNeedsDelete` |
| `DesktopLifecycleProofs` | `TypeCorrect` | `TypeOK` |
| | `LaddersExclude` | `OneLadder` |
| | `StaysDown` | `ServiceStaysDown` |
| | `EnsuredCurrent` | `EnsuredIsCurrent` (action) |
| `EventStreamProofs` | `TypeCorrect` | `TypeOK` |
| | `StaleAnnounced` | `StaleIsAnnounced` |
| `IngestProofs` | `TypeCorrect` | `TypeOK` |
| | `CheckpointSafe` | `CheckpointCovers` |
| | `RowsVisible` | `VisibleUnlessFault` |
| | `RollupsCorrect` | `RollupsFollowRows` |
| `UsageLedgerProofs` | `TypeCorrect` | `TypeOK` |
| | `OneBestRow` | `BestLineWins` |
| | `RollupsFollow` | `TokensFollowRows` |
| | `CodexStoredOnce` | `CodexTotalStored` |

Almost none of these is inductive.  Each module of proofs states the inductive
invariant first (`Inv`, checked with TLC on the module's safety run before it was
proved), then lemmas about the operators of the model, then one lemma per action
or group of actions, and last the theorems.

### SubagentTasks

The strengthening is layered, and each layer is proved with the ones below it as
hypotheses:

* `ExecInv` ties program counters, rows and the dispatcher together: an
  execution exists only for a row that was started, the dispatcher works on one
  picked task, a queued row has no execution.
* `GateInv`: whoever is between `AcquireGate` and its release is the recorded
  holder of the subagent's gate, and `closing` means the control call holds it.
* `SignalInv`: the entry in the signal registry lives from `RegisterSignal` to
  the end of `execute_task`; a row that is cancelled in between was cancelled by
  a call that still has to signal, or has.
* `SubInv` and `MockInv`: a task with an execution has its subagent, and with
  the mock executor nothing is ever hot.
* `HotInv`, `ResultInv`: the hot status follows the binding; the result in hand
  follows the row, except where a read is still to come.

The two action properties follow from these and from what each action writes.
`QueuedNotStarted`, `CancelledIsFinal` and `DispatcherIsFifo` are proved for all
constants, and the runs do not repeat them.

The refinement is a step simulation: `LifecycleStep` takes one action of
`SubagentTasks` after the other and names the action of `TaskLifecycle` it is, or
shows that neither variable changes.  It needs `ExecInv` (an execution works on
a row that is neither absent nor queued) and `ResultInv` (one that ends has a
settled row); `OutcomeWritten` is the case that all ways of persisting share, in
which a cancelled row is left alone.

### SessionPool

The parts of the invariant are predicates on a pool, not on the variable, since
an action is a chain of methods (release of reservations, expiry, replacement of
a session of the wrong model, admission or creation).  All methods of a chain but
the last only close sessions: `ClosedBy` says what that does to the fields the
invariant speaks of, and `CloseKeeps` that it keeps it.  `CapacityIn` counts a
creation that is awaited as a session, which is what makes the limit hold across
the await; `OneIn`, `CreatingIn` and `FreshIn` make the map of subagents, the set
of sessions and the creations name each other; `TurnIn` and `LeaseIn` tie a
lease to the handler it was given to.  `AckIn` follows an acknowledged cancel
through the three places that remember it (the cancelled creation, the lease,
the generation of the SDK session), and `CancelHolds` is its last line.  The
eviction candidate is the least index of an idle session in the LRU list; that
there is one is well-foundedness of the naturals (`MinExists`).

### SidecarSupervisor

`LockInv` and `StartInv` give `OneSidecar`: whoever starts a process holds the
spawn lock, and finds no child installed; `AliveInv` adds that a process which is
not the child is in the hands of a caller that finishes its start or kills it.
`LoopInv` gives `Supervised`: `supervision_started` is set only while the loop of
the current generation runs, and a child without it has a loop that is stopping
it.  `CallInv` and `BindInv` are about the callers: a call names a process that
was spawned and not asked to shut down after the check, and a binding whose
process is gone is one that somebody is about to reconcile.  A step of one
worker leaves the other workers' parts alone; the lemmas on "quiet" steps say
what a step may change without touching a part of the invariant, so that an
action is looked at only where it matters.

### HotSessions

Two facts carry the proof.  `ActiveInv`: a session that was activated lives in
the process that its provider's worker runs now, because the process of a worker
that is replaced is killed with it; so every close that is addressed to the
current process reaches the activated session, and every execution calls the
process in which its subagent's session is (`ExecOK`).  `EvictOK`: between
`prepare_hibernate` and the close a session is reserved and idle, unless its
reservation ran out and it is in `late`; so no turn is on a session that an
eviction closes, with the same exception (`TurnOK`, hence `TurnKeepsSession`).
`HotOK` and `Accounted` then say what stands behind a hot row and who answers for
an activated session, with the windows in which another actor is about to
restore the agreement: a reconciliation that is due, an activation or rollback
in progress, or an entry in `lost` or `shed`.  Nothing ever leaves these sets
(`Recorded`), so an exception that holds once holds for good.  `CommitOK` and
`EvRowOK` are what an execution and an eviction have already written when they
reach the close; `Found` says that an evictor finds a row of every activated
session whose subagent was not deleted.  Steps are grouped by what they do to sessions (none, one changed, one
added, some closed), and each group is shown to keep what it does not touch.

### DesktopLifecycle

The mutex of the coordinator is released while the ladder runs; `OneLadder` says
that it excludes a second ladder all the same.  Hence what a ladder found out
about launchd stays true up to a crash, a respawn, or the quit pipeline
(`LadderInv`), and after a clean stop there is none left to load the job
(`StopInv`).  `EnsuredIsCurrent` is `LadderInv` at the step that reports success.

### EventStream

Between the read of a query and its answer the page shows the old version and is
about to show the one that was read.  `FreshInv` therefore speaks of the version
that will be shown next, and asks for an announcement that outlives the query.
It rests on `LinkInv`, what the server and the bridge know of each other.

### Ingest

`GenInv` bounds the generation ids that a start may still hand out.  `StreamInv`
is the control part: behind a flush or a shutdown command there is only
the rebuild of the rollups, and whoever sent it waits for its answer (`Ordered`,
`FlushInv`); while the process is down or booting and once an answer has arrived,
no batch is on its way, and registrations are there only while a first start
registers (`PhaseInv`); the tailer or the scan reads with the checkpoint that is
still the stored one (`JobInv`).  `SeenInv`: a file that anybody speaks of exists.

`CheckpointCovers` rests on `CoverInv`, which says the same of everything that
can become a checkpoint: the stored row (`RowInv`), a batch in the queue or in
the writer's hands (`BatchInv`), and a read that is not sent yet (`ReadInv`).  Its
offset *fits* the file: it is of an earlier incarnation, or inside the present
content.  It is *covered*: every line below it that a registration has not passed
over is stored or comes with the same batch, so that a dropped batch loses no
line to a later one, which is covered by itself.  Odd offsets, inside a
line, come only from the registration of a torn last line, and a batch that
knows an older incarnation than the stored row never meets a registration that
it could take back (`Found`).

`VisibleUnlessFault` follows from `CleanInv`: while nothing has failed, either
nothing was promoted and no row exists, or all rows and all batches that carry
lines are of the active generation.  `RollupsFollowRows` is inductive with it:
with insert-once a line is counted and stored when it has no row in any
generation, while under replace it is counted when it has none in the batch's own
generation, which agrees with what is stored only when all rows are in one.

### UsageLedger

The operations of this module fold over the lines of a batch and add up sets of
amounts, so its proof needs induction over data.  It is done with sets:
`NatInduct` says that a set of naturals that has 0 and is closed under successor
has all of them, and each use names the set of the numbers for which the claim
holds.  The fold of the community modules is a recursive function on finite
subsets; `SumIterAt` and `FoldIterAt` show that it satisfies its equation, and
from there `SumAdd`, `SumRemove` and `SumReplace` are the rules for sums, and
`FoldPrefix` says that a batch is `upsert_one` on its lines, one after the other.

`Ledger` is the invariant of Claude Code, stated of a state of the fold and a set
of lines: one row per message seen, of the class and with the tokens of one of its
lines, beaten by none of the others, and rollups that add up to the rows.
`UpsertKeeps` is one line, `BatchKeeps` a batch.

`CodexInv` is the invariant of Codex.  `StoreInv`: each file is stored up to
one of its totals, each turn up to there with its exact amount, and no other
amount is stored.  `CkptInv`: the latest snapshot is the total up to which the
file of the checkpoint is stored, and the lines before the checkpoint are, however
far it lags.  `QueueInv`: each batch in the writer
has the exact amounts of the lines it counts, or of lines that are stored already,
and later batches are of a later file or not behind in their totals.  A batch that
is committed or dropped keeps this, in any order of reads and commits
(`CodexReads`, `CodexDrop`); what a batch adds is the difference of
two totals, because the amounts between them telescope (`Telescope`, `NewSum`).

The attempt to prove it corrected the model three times.  An earlier version let
a checkpoint lag by any number of lines, which the invariant cannot tolerate and
the scanner does not do; it had no lines without a total, which are what lets a
checkpoint lag behind lines that a batch in the writer goes past; and it had no
turns without tokens, whose repeated totals the invariant must tell from
written amounts.

### Only model-checked

The liveness properties `EveryTaskSettles`, `TasksProceed`, `TailerCatchesUp`,
`ServiceComesUp`, `PageCatchesUp` and `PageSaysReady`: fairness and `ENABLED` are
outside the reach of the prover.

## 5. Plan

Nothing of the safety properties is left to prove.  The next steps would be
models: the updater and the rebuild command, and a Codex scan of several files
of one source.

## 6. Not modelled

The assumptions and the left-out branches of the modelled parts come first.

* **SubagentTasks.**  An error of the read of the running row in `delegate` is
  taken for "none" by the code (`manager.rs:520`) and is not modelled; an error
  of the rollback after a failed activation ends the task in the code and is
  collapsed with the rollback here (it is `RollbackFails` in `HotSessions`).
  `ServiceRestart` is a restart of the process.  A rebuild of the manager inside
  a running service, which shares the lifecycle registry and has fresh cancel
  signals (`manager.rs:224-249`), is not modelled.
* **SidecarSupervisor.**  Atomics are sequentially consistent, where
  `client.rs:89-122` uses acquire and release; the argument of
  `NoCallAfterShutdown` is the order of two operations on two atomics in each of
  two threads, and holds on the hardware only as far as that order is seen by
  both.  Reconciliation and release always reach the database; a failure of
  theirs is logged and ignored (`supervisor.rs:503-509`, `1105-1111`), and for
  the former is `ReconcileFails` in `HotSessions`.
* **HotSessions.**  A `find_*` query that fails is taken for "no row"
  (`subagent_queries.rs:1005`, `1074`, `1111`); it ends the eviction as
  `EvictFails` does, and is not counted as a divergence of rows and sessions.
* **Ingest.**  Left out are the branches of `recover_missing_generation_metadata`
  (`generation_commands.rs:161-182`), a degraded state that a start preserves
  (`preserves_real_degraded_state`), the drift branch and the replay drain of
  `execute_promotion_barrier` (`rebuild.rs:388-456`), and a `try_write` that
  meets a reader (`generation_manager.rs:64`, `85`).
* **UsageLedger.**  Every Codex line has running totals that agree with its
  amounts; lines with `last_token_usage` only (`codex.rs:138`, `212`) are left
  out.  An event is identified by its line, where the code uses session,
  timestamp and amounts (`codex.rs:220`), so two turns of one millisecond and
  one amount, which the code takes for one, are two here.  A file that was cut
  short is always noticed.
* **DesktopLifecycle.**  A probe of a serving process gets a well-formed answer;
  an error of the call or of its decoding, which leads to a repair
  (`smappservice.rs:553-582`), is left out.  `StopService` is bootout and
  removal of the marker in one step.
* **EventStream.**  `PublishBatch` sets `latest_event_seq` and publishes in one
  step (`writer.rs:637`, `648`).  A query to a service that is up succeeds within
  its retries (`read_service.rs:218-239`, `useBusytokData.ts:96`), and so do
  `live.window` and `shell.status` (`subscribe.rs:273`, `321`); `PageCatchesUp`
  rests on it.

Views, command line, parsing of vendor logs, pricing, configuration, discovery
and platform code hold no state that two actors share; the read queries and read
models of the service are functions of the database; they are listed in
`PROJECT.json` with the reason.  They, and the unit tests that stand inside the
source files, are most of the repository's lines, so the modules cover about a
ninth of them: the ninth in which order and failure matter.  Of the modelled
parts: the Windows path of the desktop's service lifecycle, the updater, the
rebuild command and its cancellation, and the doctor probe are left out.  The
webview is assumed to run a listener when an event is emitted, and the bridge's
own status line is left out.  Wall-clock durations are abstracted to free
choices, in `HotSessions` too, so no property is about how long something takes.  The data of a turn
(prompt, memory, usage) is left out.
