# Verification of SmarTune

SmarTune watches the pressure on a machine (CPU, memory, disk, network), caps the
applications that cause it, lifts the caps again once the pressure is gone, and
holds back applications launched meanwhile.  Around this it freezes and pins
applications on request, shapes their traffic, grows swap, runs benchmarks with the
balancer held off, and keeps a history and alerts.  This directory models the parts
that decide, act and remember: TLA+ modules, TLC configurations and TLAPS proofs,
each definition traced to its lines of source in `PROJECT.json` (`map`).

Paths below are relative to `src/`.  `balancer.py` is `balancer/balancer/balancer.py`.

## 1. Inventory

### Components, their state and operations

| Component | State | Operations | Where |
|---|---|---|---|
| Limit registry and exclusions | `apps` (an `OrderedDict` of `LimitedApp`), `auto_limit_exclusions`, a lock | lookup by channel, public id or any id; pop, put, move to end; add, remove, test an exclusion | `balancer.py` 169-418 |
| Limit lifecycle | the registry, `operation_lock`, the cgroups' caps | apply and merge auto limits, install manual limits, deferred IO cap, staged restore, user restore, hand-over and adoption, reaper, shutdown sweep | `balancer.py` 1789-1985, 2216-2620, 3020-3290, 3690-4860 |
| Top-consumer prefetcher | `_cache`, `_inflight`, worker threads | `start`, the worker, `resolve_for_critical` | `balancer.py` 520-714 |
| Monitor loop and separated policy | `_MonitorLoopState` (timers, held batch, edges, `restore_pending`) | one tick: limit CPU/memory, limit disk, release a launch, run the recovery timers; quiet mode; the passive-control switch | `balancer.py` 422-515, 1033-1790 |
| Launch interception and queue | the critical flag, `handled_processes`, `app_pending_queue`, `app_priority_queue` | exec events, SIGSTOP, queueing, ranking, release, cancel | `balancer/controller/app_intercept.py`; `balancer.py` 717-757, 1432-1448, 2327-2376, 3407-3430 |
| Manual freeze | `LimitedApp.frozen`, `cgroup.freeze`, a state file | freeze, thaw, thaw at start | `balancer/controller/control_manager.py`; `balancer.py` 4140-4210 |
| CPU affinity | `_affinity_apps`, the originals of each cgroup, two locks | pin, unpin, release, reap, restore at shutdown | `balancer.py` 3292-3384, 4231-4310 |
| Network shaping | tc classes, filters, nft marks, stage and timers, RPS masks | set up, shape, escalate, recover, reload, clean up | `balancer/controller/network.py` |
| Swap ladder, memory reclaim | growth slot, single-worker executor, swap files | grow, release, sweep orphans, reclaim step by step | `balancer/controller/swap.py`, `memory.py`; `balancer.py` 1984-2200 |
| Quiet mode | owner, deadline, gate | enter, renew, exit, takeover, watchdog | `utils/quiet_mode.py` |
| Benchmark jobs, log and events | the single job slot, sampler, log pump, streams with a bounded backlog | start, reap, cancel, sample, follow the log | `benchmark/service/`, `dashboard/src/components/Benchmark.tsx` |
| UI lease | sessions and their deadlines | heartbeat, release, watchdog | `utils/ui_lease.py` |
| Pressure monitor, disk and network pressure | PSI window, smoothed scores, sticky and peak levels, media of disks, loss windows | sample, classify, publish, consume the peak | `monitor/psi.py`, `monitor_api.py`, `disk_pressure.py`, `network_pressure.py` |
| Telemetry answers | section snapshot, parked refresher of app statistics | collect, probe on demand, answer, park and wake | `monitor/monitor_api.py` |
| Diagnostics | event ledger, alerts, cursors of log scans, inventory revisions, level tracker | emit, summarise, reconcile after a restart, fire, recover, expire, escalate, scan | `diagnostics/`, `db/DatabaseModel.py` |
| Settings and controlled apps | editable sections in memory and `config.yaml`, stamps; list and table of controlled apps | read, check, write, reload; add, merge, edit, enable, purge, reconcile | `balancer/balance_service.py`, `monitor/monitor_api.py`, `utils/app_utils.py`, `db/` |
| Snapshot history | rows of `MonitorSnapshot`, the gate of the interval, retention days in memory and `runtime_state.json` | store, sweep, set the days, query | `monitor/monitor_api.py`, `diagnostics/retention.py`, `db/` |
| The rest | samplers, GPU/NPU/PMT telemetry, REST plumbing, benchmark scripts, dashboard, packaging | | see `components` in `PROJECT.json` |

### Threads and how they meet

- the **monitor loop** (once a second) is the only thread that applies auto limits, runs the
  staged restore, reaps closed apps, releases launches and ticks swap;
- the **refresh thread** of the pressure monitor sets the levels and calls listeners (the
  intercept flag, the prefetch trigger, swap growth);
- the **intercept thread** polls exec events; the **handle thread** moves suspended launches from
  one queue to the other;
- **REST threads** install and lift limits, pins and freezes, take limits over, edit settings and the
  list of applications, cancel launches, start and cancel benchmarks, at any moment;
- **prefetch workers**, the **swap worker**, a benchmark's **reaper, sampler and log pump**, the
  **watchdogs** of quiet mode and of the UI lease, the **collector** and **refresher** of telemetry, the
  **retention sweep** and the **log scan** run beside them; the **main thread** shuts the service down.

They share the registry (its lock covers single lookups and updates, not a whole operation),
`operation_lock` (held across the two appliers and the deferred IO cap), unsynchronised queues, SQLite tables
(one statement is atomic, two are not), `config.yaml`, and the kernel's cgroup files, always written
with the registry's lock released.

### What is hard, and what must hold

- Who owns a cap: the pressure loop must not cap over a user's limit nor the reverse, with lookups,
  writes and bookkeeping in separate steps (`OwnersDisjoint`).
- The registry and the kernel agree after any sequence of merges, partial restores, failed writes,
  exits and hand-overs (`NoOrphanCap`, `NoPhantomCap`, `StageMatchesCap`, `StoppedClean`).
- What the user exempts stays exempt although candidates are sampled before they are used
  (`ExclusionRespected`, `FreedStaysFree`).
- One pair of recovery timers serves all apps, and must neither fire early (`HoldPeriod`) nor never
  (`CalmLiftsEveryCap`); limiting must reach past the heaviest app (`CriticalReachesEveryApp`).
- A process stopped with SIGSTOP must be resumed or killed by somebody, once (`NothingStranded`,
  `QueuedOnce`, `CalmReleases`, `LaunchesAreReleased`).
- Racing prefetch triggers must not close the gate for ever (`GateHasOwner`, `WarmIsStable`,
  `LookupsReturn`).
- A change to the machine must survive its maker: crash, time-out, exit or restart between any two
  steps (`ChangesCanBeUndone`), with records that match the kernel (`RecordsMatchKernel`) and no
  harm to what others did (`ForeignStaysFrozen`).
- One benchmark at a time, under its own hold of quiet mode, which ends with it (`OneProcess`,
  `MeasuredUnderHold`, `CleanMeansQuiet`, `HoldEndsWithRun`, `CancelFreesSlot`, `PumpFollowsJob`).
- Tabs, streams and heartbeats cross a network that delays and loses (`WhatIsWatchedStays`,
  `ServiceStops`, `LogIsShown`).
- What is seen must be counted once, over late lines, overlapping sweeps and restarts
  (`NothingIsLost`, `LedgerTellsTheTruth`, `PressureIsReal`), and what is stored twice must agree
  (`StateStaysConsistent`, `HoldsStayReachable`, `AnswersAreCurrent`).

`hazards` in `PROJECT.json` lists these and the open ones, each at the line where it bites.

## 2. Modules

| Module | Models | Granularity and state |
|---|---|---|
| `InsertionOrder` | the order of a Python dictionary's keys | a set of pairs; deleting, adding, moving to the end and the first match are operators, which unlike filters of a sequence can be proved about. |
| `LimitRegistry` | `LimitedApp`, `LimitRegistry`; extends `InsertionOrder` | `registry` (key to entry), `order` (its insertion order), `exclusions` and theirs; queries and updates as operators. An entry's `id` stands for the Python object's identity, so that a stale reference is visible. |
| `LimitLifecycle` | every operation on limits; extends `LimitRegistry` | one action per lookup, cgroup write and bookkeeping block; `pc` and `op` are each thread's position and locals, `chan` those of `_restore_channel_for`; `oplock` is `operation_lock`; `cap` is the kernel. `Ops`, `Serial` and `WritesMayFail` choose the instance. |
| `TopConsumerPrefetcher` | the class of that name | every access to `_inflight` and every block under `_lock` is a step; a discrete clock. |
| `MonitorLoop` | `_run_monitor_resource_loop`, `_tick_separated_policy`, `_tick_separated_restore`, the peak latch; extends `InsertionOrder` | one step per tick, but the staged restore is split at its lookup. Clocks are ages, capped where the code stops distinguishing them, so that behaviours are infinite. |
| `LaunchQueue` | `AppIntercept`, `MaxPriorityQueue`, the handle loop, the drain, the cancel | every touch of a shared queue or flag is a step; `remove_if` is a scan and a swap. The heap is a bag; ties are broken in any way (the code takes the oldest). `raced` records that a swap discarded a change made while it was prepared. |
| `Freezer` | `set_freeze`, `freeze_cgroup`, `set_frozen`, `thaw_recorded` | `want`/`frozen` are what a cgroup was told and what it is, `record` the state file, `entry` the registry's; each request's steps interleave with restores, limits, hand-overs, a crash and the next start. |
| `CpuAffinity` | pinning, unpinning, release, reaper, `restore_all` | one step per operation-lock section and per write of a cpuset; cgroups may be shared, others may write them. `raced` marks a binding that overlaps the shutdown. |
| `NetworkShaping` | the shaping cycle of a NIC | a cycle is a sequence of steps (apps, limits, stage), each the commands that belong together. |
| `SwapLadder` | growth, release, orphan sweep, reclaim | one step per file operation; the worker's queue `jobs`; the tick, the listener and the REST request meet at the slot. |
| `QuietMode` | every method that changes the hold | operators over one record, each one lock section. |
| `JobSlot`, `BenchRuns` | the abstract slot; requests, jobs, samplers, reapers, cancels, watchdog; extends `QuietMode` | one step per lock section of `jobs.py`, `runner.py` and `quiet_mode.py`. `BenchRuns` implements `JobSlot` (`OneProcess`). |
| `BenchLog` | the log's pump, backlogs, the pane | a byte is its job and its position; a stream holds at most `Backlog` ranges and drops the rest. |
| `UiLease` | leases, watchdog, the tabs' timers, the network between | a discrete clock; messages may be delayed, overtaken and lost. |
| `PsiSampling`, `PressureLevels`, `DiskPressure`, `NetworkPressure` | how stalls, scores, disks and lost packets become a level | coarse integer scales; readers that share one file, a listener that may fail, names given to new devices. |
| `SectionCache`, `AppStatsCache` | the caches behind the dashboard | a step per lock section, clocks as ages; `unsettled` and `stranded` mark the two windows described in section 5. |
| `ControlLedger` | the history of limits | rows with the deduplication, query, reconciliation and retention of `DatabaseModel.py`; `base` is the registry's truth to compare with. |
| `AlertBook`, `LogDetector`, `InventoryRevisions`, `LevelTracker` | the rest of what diagnostics remember | every SQL statement is a step; clocks, lines and occurrences are bounded. |
| `SharedSettings`, `ControlledApps` | settings (thresholds, shares, weights, the switch, network, monitored sections, retention) and the list of applications | check and write are separate steps of each request; edits by hand and restarts in between. |
| `SnapshotHistory` | snapshots behind the gate of their interval, the sweep, the days that users set, queries, restarts | a step per lock section and per SQL statement; `made` is what must be there, `overdue` and `failed` mark the windows in which more may be. |
| `MCLimits`, `MCLaunchQueue` | TLC instances | which cgroups belong to which app, which ranks they have. |
| `Controllers` | `Freezer`, `CpuAffinity`, `NetworkShaping`, `SwapLadder`, one at a time | `part` names the controller that a behaviour is about. They share no state, so nothing is lost by taking turns, and each property is the conjunction of the parts' properties of one kind. |
| `MCControllers` | TLC instance of `Controllers` | which apps share a scope, and where the balancer ends. |
| `MCServices`, `MCMonitoring` | TLC instances of `TopConsumerPrefetcher`, `BenchLog`, `UiLease` and `SwapLadder`, and of the modules from `PsiSampling` to `SnapshotHistory` | by turns, as in `Controllers`. |
| `*_proofs` | theorems of the module they are named after; `BenchRuns_proofs` has those of `BenchLog`, too, `ControllerParts_proofs` and `MonitoringParts_proofs` have those of the controllers and of the measuring and remembering parts | each part for constants of its own. |

`MonitorLoop` and `LimitLifecycle` meet in the staged restore: `MonitorLoop` says *when* a channel is
due, with an app reduced to two caps; `LimitLifecycle` says *what* the restore does, cgroup by
cgroup, with "due" left open.  `MonitorLoop` and `LaunchQueue` meet in the drain in the same way.
`BenchRuns` is the composition of the job manager with quiet mode.  `PressureLevels` produces, by the
peak it publishes, what `MonitorLoop` consumes; `LimitLifecycle`'s operations are what `ControlLedger`
records.

**Abstractions.**  Rates, sizes, names and timestamps are gone; a cap is `none`, `half` (relaxed to
twice the value) or `full`/`whole`.  A cgroup write succeeds, fails, or meets a cgroup that has gone,
chosen freely where `WritesMayFail`/`faulty` allows it.  The sampling pipeline may return the
candidates in any order.  PIDs are not reused.  Formatting and logging are left out.

## 3. Runs

| Run | Configuration | Shows |
|---|---|---|
| `limits_serial` | 1 app, 2 cgroups, all operations but an edit, one at a time; exits, launches, shutdown | no cap is forgotten, shutdown leaves none, excluded apps are not limited |
| `limits_apps` | a controlled and an unmanaged app; any write may fail | registry and kernel agree on caps and stages |
| `limits_concurrent` | monitor and 2 REST threads, free interleaving | the two owners never share a cgroup |
| `monitor_safety` | 1 app, all levels, all switches, failing writes, requests inside a restore | hold periods, freed apps stay free |
| `monitor_liveness` | 2 apps, two levels, quiet mode, launches | calm lifts every cap, critical reaches every app, launches are released |
| `monitor_wedge` | 2 apps, requests inside a restore | **violated**: a request wedges the restore |
| `launch_queue` | 2 processes of equal rank, re-exec, exits, one cancel at a time, shutdown | no launch is lost or queued twice, calm releases all |
| `controllers` | freezer: 2 own cgroups, 1 foreign, 2 requests, crash; affinity: 2 apps in one scope, and 1 app of 2 cgroups with the shutdown; network: 2 apps and a pool of one mark, and a NIC under pressure; swap: 2 files, restart | changes can be undone, records match the kernel, foreign freezes stay |
| `bench` | 2 requests, measured or not, cancels, lapsed leases, a user at the gate | one process at a time under its own hold; holds end; the refinement of `JobSlot` |
| `bench_leak` | 1 request with edited commands | **violated**: a refused request keeps quiet mode on for ever |
| `services` | prefetch: loop, a listener, 2 workers; log: 2 jobs of 2 bytes, backlog 3; lease: 2 tabs, 1 missed beat; swap: 2 files, one in use at most, a request that waits | everything begun ends, under each part's fairness; what is watched stays |
| `monitoring` | eighteen instances of the modules `PsiSampling` to `SnapshotHistory`, two interchangeable actors | nothing is lost or counted twice, the ledger is true, stores agree, answers are current, levels are real |

**Why these bounds.**  An entry has a primary and extra cgroups, and only the distinction matters, so
two cgroups suffice for one app; a second app is there where entries compete for order.  Two REST
threads are the fewest that race each other besides the monitor.  The disk period is 1 or 2 units
because its double must differ from it; `STABLE_PERIOD` is longer than the idle interval so that the
gate closes while a timer runs.  Two fetch workers exceed the one the prefetcher intends.  Two
processes and two unpolled events give re-execution, overtaking and an emptied queue.  Two benchmark
requests race for slot and hold, and the second's job follows the first's.  A backlog of three is
overrun by the four ranges of two jobs.  The graces and the interval of the lease keep their order and
proportion (startup and grace exceed an interval, the short grace does not).  Two lives of a limit over two
restarts make a ledger row meet a successor, a reboot and a re-start; one life with failures covers
retries.  Three lines against a query cap of two overflow it; two boots separate cursors.  Two
overlapping requests find the check-then-write races of settings and lists; one request after three
events by hand finds the sequences.  Saves of `thresholds` and `shares`, one call each, overlap within a
second (`weights` take the same steps without a validation and have no instance); the other settings get two seconds, so that a stamp can be seen to move.  The counters of PSI and of
the NIC run past one window (three and four units against one and two).  Two retention settings, snapshots
as old as either of them, two sweeps left out under quiet mode and one restart are all that the history
tells apart.

`Serial` limits those runs whose property the code does not keep under concurrency (section 5);
`limits_concurrent`, `monitor_safety`, `launch_queue` and all later modules have no such restriction.
Where the code leaves a window open that defeats a property, the model keeps the window, a history
variable records that it was hit (`raced`, `crossed`, `lost`, `doubt`, `overtaken`, `spoiled`,
`excused`, ...), and the property is claimed up to exactly that; each such window is in section 5.

**Deadlock** is checked in the three runs of the monitor loop, which never rests.  The other
configurations have states in which the system may really stop (shut down, nothing to do) or in which
the bounded history is used up.

**Fairness.**  The loop, handle, intercept and worker threads run for ever (`while self.is_running`,
with handlers around the body) and the interpreter schedules each of them, so a step of theirs that
stays enabled is taken; the refresh thread returns from its listeners; a request once begun ends.
A process that was sent a signal exits, a lease that is not renewed lapses, the watchdogs wake up;
the browser runs its timers and the network delivers what it does not lose.  One assumption is strong:
a `swapoff` that can be done again and again is not refused for ever.  Nothing is assumed of users, of the
pressure, of apps, of triggers or of shutdown.  The liveness properties have the form "if from some
time on the system is calm (critical, without tabs, ...), then ...".

## 4. Proofs

All theorems hold for every value of the constants that satisfies the modules' assumptions (`ASSUME`s
about disjoint identities and positive periods); `tlapm` checks them to the last leaf.  Where a module is
instantiated with constants of its own, its theorems carry the assumption as a hypothesis.  Those of the
controllers are discharged in `Controllers`, whose assumptions are that own and foreign cgroups are disjoint
(`OwnIsNotForeign`), that each app has a set of cgroups (`HomesAreSlices`), that the pool's size is a number
(`PoolIsCounted`) and that swap files are named by positive ones (`FilesAreNumbered`).

- `TopConsumerPrefetcher_proofs`: `TypeCorrect`; `GateIsOwned`, that a set gate always has a live
  worker (`GateHasOwner` is inductive beside the types: only a worker that then becomes idle clears
  the gate, and it clears it in that step); `WarmStaysWarm`, that the cache is never replaced by an older
  answer, since no stamp in the cache or in a worker's hands is ahead of the clock (`NotAhead`).
- `LimitLifecycle_proofs`, the largest.  Every query of the registry is a first match in insertion order, so
  the proofs rest on lemmas that deleting, adding and moving a key leave an order (`KeptOrder`,
  `ToEndOrder`), and on what each query can return (`ByPublicIdFinds`, ...).
  - `LifecycleTypeCorrect`: the types, with the registry's and the exclusions' order, in any interleaving.
  - `OwnersAreDisjoint`, in any interleaving.  `OwnersDisjoint` is not inductive: that an upsert is
    safe depends on a check made several steps before.  `ApplyInv` and `InstallInv` carry it: between
    its ownership check and its record, each applier holds `operation_lock`, and no entry of the other
    owner touches its targets.  Lemmas show that every other operation only shrinks or hands over what
    is owned (`Tame`) and leaves foreign locals alone (`Frame`).
  - `NoCapIsForgotten` and `ShutdownLeavesNoCap`, for `Serial` instances whose writes succeed and which do not
    edit a manual limit (the three restrictions are the windows of section 5).  `OInv` says, label by label,
    for which caps the thread in the middle of an operation answers until the registry does.
  - `NoCapIsImagined` and `StagesAgree`, for `Serial` instances in which apps go on running and with any write
    failing; a stage is only that of the entry's primary cgroup, so that with failures each app has one.
    `AInv`, `Agreed` and `HalfRecorded` say what each label has already told the kernel.
  - `ExemptAppsAreSpared`, for `Serial` instances in which every app is controlled; `XInv` says that entries,
    locals and exclusions each name cgroups of one app.  Without that hypothesis TLC refutes it (section 5).
- `MonitorLoop_proofs`: `CapsAreHeld`, that no restore step comes before its period.  The
  strengthening says that a channel's timer never runs ahead of the age of its newest cap
  (`TimersBehindCaps`) and that a restore step in hand is due (`StepsAreDue`); the shapes a tick's
  list of steps can take (`Todos`) are enumerated.  `MonitorTypeCorrect` and `FreedAppsStayFree` come from
  `TInv`, which adds the ranges of the timers, that a held batch consists of candidates in some order, and that
  no freed app is capped: each arm filters the held batch anew, and a restore needs an entry.
- `LaunchQueue_proofs`: `LaunchTypeCorrect`; `NoLaunchIsForgotten`, where `AllHeld` is inductive beside the
  shape of the state, since each thread enters a launch in the next place before or in the step in which
  it leaves the last; `NoLaunchIsQueuedTwice`, whose strengthening adds that a living process that was
  handled is known to the interceptor, and that what a cancel found is still in the heap.
- `BenchRuns_proofs`: `BenchTypeCorrect`; `OneProcessAtATime`, the refinement of `JobSlot`;
  `PumpIsTheJobs`; `MeasuredRunsUnderHold` and `CleanResultsWereQuiet`, from an invariant that relates the
  slot, the hold and what each request still has to do.  `PaneIsWhole` is about `BenchLog`, for any number of
  jobs and all sizes of log, tail and backlog (`Sizes`: jobs have positive numbers): until the output of two
  jobs meets, all that is queued or answered lies within what was written, so that whatever is spliced where
  the pane ends goes on with it.
- `ControllerParts_proofs`, for the controllers each by itself:
  - Freezer: `FreezerTypeCorrect`, `ForeignIsLeftAlone`, and `FreezesAreRecorded`: a cgroup told to
    freeze is in the file the next start reads, in every state and hence after a crash anywhere.  The
    strengthening follows each request from its record to its write.  `FlagTellsTheTruth`: with no request
    under way, the kernel is as the entry says.  `FlagInv` says, for each cgroup not in doubt, that a freeze is
    alone on it (each request covers all the app's living cgroups), what a freeze or a thaw has done of it so
    far, and that a cgroup told to freeze under an entry that is not frozen is owed a thaw by somebody.
  - Pinning: `PinsCanBeUndone`, `PinsAreTracked`.  The invariant says, unless a binding overlapped the
    shutdown, that a changed cgroup has its original on record, that a record being made is fresh, that what a
    sweep has passed is free, and that every pinned cgroup is on an app's record or in the hands of the
    operation at work.
  - Network shaping: `MarksAreApps`, a mark in the kernel is that of one application on record;
    `RatesAreTheStages`, the classes' rates are those of the stage; `MasksCanBeUndone`, a widened mask has its
    original on record, up to the windows of section 5.  No mark is two applications', or both held and
    free; that the mark made up when the pool is empty is fresh rests on a bound: no mark exceeds the pool's
    size plus the marks ever made up.
  - Swap: `SwapTypeCorrect`, with the invariant that a request which waits has a growth queued or under
    way; `SwapKeepsItsFile`: the orphan sweep never deletes a file that is swapped on.
- `Controllers_proofs`: the four properties of the run `controllers` as theorems of `Controllers`:
  `ControllersTypeCorrect`, `ControllersUndoable`, `ControllersTruthful`, `OthersStayFrozen`.  That an instance
  in `Controllers` is the one that was proved about is a lemma that unfolds both; a part whose turn it is not
  keeps its invariant because none of its variables moves.
- `MonitoringParts_proofs`, for the parts that measure, remember and answer:
  - Alerts: `OccurrencesAreArchived`, `AlertsAreHiddenOnPurpose`, `StormsAreEarned`.  An event still to be
    folded in has begun no occurrence, so that no two in the archive begin with the same one.
  - Levels (hypothesis `Limits`: the thresholds are in order and the hysteresis is narrower than their
    distances): `PeaksReachTheBalancer`, `LevelsFollowScores`.  Changes of the level (`Dwells`):
    `OnlySustainedChanges`, where a pending change began with its side's first reading.
  - Statistics (`Periods`): `RequestsAreHeard`, `StatisticsAreFresh`.  What is left of the refresher's sleep
    counts towards the age of what it has; a parked one has dropped it, and is woken by what it did not see.
  - Lease (`Graces`: the grace outlasts one heartbeat more than may be missed):
    `OpenTabsKeepTheService`, for any number of tabs over a network that delays and loses.  The lease outlasts
    the heartbeats that may still get lost.
  - Stalls: `BadSamplesPass`, two overlapping readings are both odd and both are gone with the next
    window.  Inventory: `ChangesAddUp`, `RemovalsAreConfirmed`; the last change noted of a field has its value.
  - Log (`Scans`: a second has positions, the bounds are numbers): `LinesAreNotMissed`, `LinesAreReportedOnce`.
    A scan can end with one of several cursors, depending on where the query stops and on crashes; the
    invariant says of each of them that what it has passed is reported, rightly missed, or still to be
    processed, and that no cursor goes back.
  - Network pressure (`Windows`: a window of 1 to 4 seconds, over which 40 packets of one busy second
    still count as traffic): `CapsAnswerLoss`, `LossIsAnswered`, `LevelsFade`, `GaugeIsTheWorst`.  Every sample
    kept tells, by the counters, what the NIC has lost since it and when, whatever resets, gaps and absences
    came between; much distress has a cause within the window.
  - Settings (`NobodyIsFree`: the lock's idle mark is no client): `EditsAreFromCurrentForms`, `SettingsAreSafe`,
    for any number of clients.  A form that does not show the values in force has an older stamp, or the save
    that will move the stamp on is still under way; a save that nobody has overtaken still fits what it has
    validated, and so puts values in force that agree; memory and file differ only by the part under the lock.
  - History (`Spans`: days and turns of the loop have a length): `HistoryIsThere`, `HistoryIsFinite`,
    `EvidenceIsAsOld`.  What must be there are always the last rows, so that a sweep is harmless exactly if it
    goes by a time that the first of them is not older than: one that is under way took its time under days that
    no needed row has outlived, a request's sweep comes after its days are in force, and no tick passes between.
    Either the rows were swept by the days in force, or whoever set those is about to.
  - Answers (`ProbesAreShort`: a probe is kept no longer than the collector's period; 1 s and 2 s in the code):
    `AnswersAreFresh`, `AnswersAreComplete`.  Outside quiet mode a settled cache will have been replaced before
    it is older than the period; what each request that nothing has overtaken has read so far, and what it may
    still read, is no older, whatever other requests and the collector do in between.
  - Disks (`DisksAreKnown`: finitely many names, each of devices of the five kinds): `DisksAreJudged`, for
    any number of names and whatever comes and goes behind them, and `SwampedIsSeen`, for up to seven.  The
    bound is the code's: the score is the mean raised by 0.8 of the worst disk (`disk_pressure.py` 623-626),
    each idle disk lowers the mean, and in the model's scale an eighth leaves 0.994 where 0.995 rounds to
    critical; "a single saturated disk dominates" (lines 12-13) is to be read with that.  The sum over the
    disks is a fold over a set: it is shown to exist, and bounded, by a least counterexample.

**Model-checked only.**  Everything temporal beyond invariants, action properties and the refinement
(fairness and `ENABLED` are out of the prover's reach).  Of the composed properties of `services` and
`monitoring`, the theorems above cover the prefetcher, swap and the lease, and alerts, levels, statistics,
stalls, inventory, log scans, network and disk pressure, settings, the history, the pane and the answers: every part of
`NothingIsLost`, `WhatIsWatchedStays` and `AnswersAreCurrent` is proved for all values of that part's constants,
`PressureIsReal` too (swamped disks up to seven), and `StateStaysConsistent` but for the list of applications;
that the composition's formulas follow is not stated as a theorem.  What remains is checked by TLC alone:
`ControlLedger` and `ControlledApps`, which filter, merge or count rows and lists in ways that need induction
over sequences.
What the instances of `LimitLifecycle` leave out (section 5) is claimed by no theorem either.

## 5. Where the code and its text disagree

Kept as runs, with the quotation in `findings`:

1. *A user restore in the middle of a staged restore wedges the recovery* (`monitor_wedge`).
   `move_to_end` raises with `restore_pending` set, and `reset()` does not clear it.
2. *A refused request keeps quiet mode on* (`bench_leak`).  `start_run` enters quiet mode and starts the
   sampler before it checks the edited commands, outside the block that releases them.

Met while modelling, not kept as runs.  The models follow the code in each case; where a property
would be false, its claim stops at exactly the window described.

**Limits, loop and launches** (`balancer.py`)

- `_install_resource_limit` replaces an entry with the parts of this request only: limiting an app twice
  forgets the cap that the second request does not name (2525), which is why no run edits a limit;
- a hand-over during a staged restore is lifted by it, because the restore works on an entry found
  earlier (1862);
- the exclusion list is not consulted again by the applier (docstring at 4583); a manual-limit exemption
  and a user exemption share one key, and lifting the limit drops the user's (384; docstring at 369);
  instance exclusions also match by app id (411; docstring at 353); when an app that was not controlled is
  lifted, its exclusion names the one cgroup that was limited, and once the app is controlled the check looks
  only at the cgroups that were sampled (1450-1490, 2763-2775) while the limit reaches all of them, which is
  why `ExclusionRespected` is claimed of controlled apps;
- `set_restore_resource` pops the entry before it writes, so a failed write leaves an orphan cap (4336;
  compare the comment at 4602), which is why `limits_apps` leaves `restore` out;
- an entry is keyed by the lexicographically first live cgroup; when that one exits, the next limit of
  the app gets a second entry with overlapping cgroups (2243); merging disks as a union ignores that an
  empty list stands for every disk (2277);
- the deferred IO cap may land after a restore (3739; comment at 3730), and an apply in progress may record
  its entry after the shutdown's sweep (4852), which is why `NoOrphanCap` and `StoppedClean` are checked in
  serial instances;
- two prefetch triggers may both pass the gate (606); the wait for an in-flight prefetch returns at once,
  since `_inflight` is set while the fetch runs (691);
- `remove_if` discards what is put into the heap between its scan and its swap (740-748), and the process
  concerned stays stopped; shutdown resumes no launch (4850); a queued launch may die and its PID be
  reused before it is signalled (3424);
- the pressure timer is not reset by "high", so medium, high, medium counts as medium throughout (1745);
  while pressure stays "medium" the disk timer's arm is never reached (1767-1771).

**Controllers**

- *Freezer*: a freeze that timed out is reported failed and its record dropped, but may land later
  (`docs/design/balancer.md:235-236`, `docs/reference/api.md:1072`); limiting an app again while frozen
  replaces its entry by one with `frozen=False` (`api.md:1076`).
- *CPU affinity*: the reaper pops an app before it restores its cgroups and never retries a failure,
  against the comment at `balancer.py:3319-3320`; `restore_all` takes no operation lock; a failed rollback
  is not tracked; originals are stale when a path is used again; unpinning one app of a shared scope
  unpins the other.
- *Network shaping*: the receive escalation is not undone by the clean-up at exit, nor by a reload for a
  NIC that is no longer shaped, and a restart takes the widened mask for the original; filter and police
  priorities can collide, and removing one app's filter deletes the other's; restoring the receive side
  resets the clock and delays the classes' recovery.
- *Swap*: the release at shutdown runs off the worker, and its sweep of orphans may delete a file that is
  being swapped on; growth after `EAGAIN` bypasses the slot (`balancer.py:2130`, 2201); the "exhausted" arm
  has no hysteresis (`swap.py:98-100`).

**Benchmarks and the dashboard's lease**

- the loser of two racing `start_run`s takes quiet mode over and drops the winner's hold (`robbed`); a
  takeover clears `user_exited`; `held_clean` ignores an expired lease; the watchdog exits whatever hold it
  then finds (`quiet_mode.py:246`); a run's end clears the live sampler of another; `cancel` marks a job whose
  process has ended, answers "nothing to cancel" while the process is being spawned, and leaves
  `os.getpgid` unguarded (`jobs.py:254`);
- nothing follows a last delta that is dropped, or ignored while a catch-up read is under way, so the pane
  ends short of the log (compare `events.py:88-91`); a stopped pump's last delta may come after the next job's
  start and flip the pane; an answer for one job is spliced onto the next at an equal offset;
- a tab's release that arrives after the reloaded page's heartbeat, or that of a duplicated tab with the
  same session, stops the service under an open tab: the grace that follows is shorter than the heartbeat's
  interval (`ui_lease.py:40-42`).

**Settings and the list of applications**

- check and write are not under one lock, `GET` reads the values before the stamp, and stamps have one
  second, so that an edit may be overwritten unseen, although `monitor_api.py:308-318` says "To prevent
  silent last-write-wins overwrites"; overlapping partial updates can leave thresholds out of order, or
  network control on without a NIC; a failed write of the file leaves the memory changed and unstamped;
- two overlapping adds or enables of one id list it twice; merge and edit overwrite the whole list and do not
  check for overlap; switching control on after a purge inserts a controlled row without an entry; a limit
  or pin installed between a purge's or edit's check and its write has no entry, although
  `balance_service.py:1161-1163` calls that check a "server-side safety net for direct callers and races";
- `set_list_section` returns False ("Failed to update config.yaml") when nothing changes, and brings back an
  entry deleted by hand; purging an app whose entry was deleted by hand lifts its limit, then fails;
  switching control off leaves a manual limit on a hidden row and only logs a failed unpin.

**Telemetry and pressure**

- a section monitored again answers with its old snapshot for one cycle; just after a switch to all sections
  `/dynamic_info` returns some, though its docstring says "always returns all sections regardless of config";
  a statistics request overtaken by quiet mode fills the cache of the parked refresher (compare
  `monitor_api.py:209-210`);
- overlapping readings store wrong PSI samples (`psi.py:78`, 130), an app's fraction is smoothed with an
  earlier app's, and a cgroup that comes back measures over a longer interval; a failed refresh tells the
  listeners that critical pressure is over;
- the shipped `config.yaml` gives disks of unknown media the NVMe numbers, although its lines 59-61 promise
  those of an HDD; "HDD is the most TOLERANT class" (`disk_pressure.py:70`) does not hold of the defaults; a
  name given to another disk keeps its cached media;
- the first sample after a quiet gap longer than the window reports no distress (compare
  `network_pressure.py:149-151`); a new NIC is never monitored while others exist.

**Diagnostics**

- a re-capped limit's row is dropped as a duplicate (`control_lifecycle.py:44-48` against
  `control_events.py:97` and `DatabaseModel.py:348-350`); the rows of a live re-capped limit are pruned
  (docstring at 405-411); a later RECOVERED is dropped, so that a failure never resolves; "one terminal per
  resource, so the counts pair up" (`_is_unresolved`) is not so; a reboot after a restart leaves
  "requires_verification"; a hand-over's APPLIED may follow a restore's RECOVERED;
- escalation fields survive into an alert's next occurrence; a sweep's stale read may close an alert that was
  just renewed; a recovery between `record_pending` and `record_fire` leaves the alert active; an
  acknowledgement is by key and may meet the next occurrence;
- after a reboot the detector reports the lines at its cursor again (`rules.py:14-16`); lines beyond the cap
  are lost, though `rules.py:110-112` says "partially deferred"; a failed insert or a line written late is lost;
- a crash between a revision's insert and its event loses the event; two failed reads of the latest
  revision insert a second baseline; the level tracker begins at normal after a restart, and a failed emit
  is lost (`episodes.py:5-6`).

## 6. Not modelled, and the plan

`PROJECT.json` gives the status and the reason of each component.  Outside are: the samplers and GPU, NPU and
PMT telemetry (they read counters and decide nothing); the benchmark scripts and result tables (sequential
data processing); routes and their validation, tokens and response bodies; the catalogue of events, custom
rules, digests and insights; zswap and the arithmetic of reclaim; the weights of the pressure score and the
correction for the dominant application; the dashboard but for its log pane and its timers; packaging.

What would add most from here:

1. The ledger's truth (`ControlLedger`) as a theorem.
2. An abstract specification of a limit (owner, stage) that `LimitLifecycle` implements in its serial
   instances, and one of a launch (running, held, released or killed) that `LaunchQueue` implements.
3. The list of applications (`ControlledApps`) as a theorem.
4. `_split_proportionally` and the pressure score as operators checked against reference definitions.

## 7. Running it

    tlc -config MonitorLoop_Safety.cfg MonitorLoop.tla
    tlapm LaunchQueue_proofs.tla

`PROJECT.json` lists each run's module and configuration.  The longest take under two minutes.  For each
property a mutant of the code's definition is listed under which TLC finds the property violated.
