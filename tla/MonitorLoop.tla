----------------------------- MODULE MonitorLoop -----------------------------
(***************************************************************************)
(* The decision loop of the balancer: _run_monitor_resource_loop, its      *)
(* per-loop state (_MonitorLoopState) and the separated policy tick, with  *)
(* the peak latch of SystemPressureMonitor that feeds it.                  *)
(*                                                                         *)
(* The loop wakes once per unit of time.  A wake-up whose gate is open     *)
(* consumes the peak levels seen since the last one and takes one of four  *)
(* arms: cap the top CPU/memory consumer, cap a disk consumer, release a   *)
(* suspended launch, or run the two recovery timers.  Clocks are kept as   *)
(* ages (time since), so that the model runs for ever; an age stops        *)
(* growing at the value past which the code cannot tell it from an older   *)
(* one.                                                                    *)
(*                                                                         *)
(* LimitLifecycle models what a cap is and who owns it, cgroup by cgroup.  *)
(* Here an app has at most one cap per channel, whole or relaxed to half,  *)
(* and the subject is when the loop installs and lifts it.                 *)
(***************************************************************************)
EXTENDS Integers, Sequences, InsertionOrder

CONSTANTS
    Apps,                   \* the apps the sampling pipeline may report
    NoApp,                  \* no restore target picked
    STABLE_PERIOD,          \* pressure must hold a level this long
    STABLE_DISK_IO_PERIOD,  \* the disks must be out of stress this long
    TOP_BATCH_TTL,          \* longest life of a held candidate batch
    IDLE_CHECK,             \* default_idle_check_interval
    Levels,                 \* pressure levels the refresh thread may report
    DiskLevels,             \* disk levels it may report
    MaxLaunches,            \* bound: suspended launches at one time
    Switches,               \* which of "passive", "quiet" and "faults" may be flipped
    Concurrent              \* may REST requests run during a staged restore?

LevelOrder == [unknown |-> -1, low |-> 0, medium |-> 1, high |-> 2, critical |-> 3]

ASSUME PeriodAssumption ==
    /\ STABLE_PERIOD \in Nat \ {0}
    /\ STABLE_DISK_IO_PERIOD \in Nat \ {0}
    /\ TOP_BATCH_TTL \in Nat
    /\ IDLE_CHECK \in Nat \ {0}
ASSUME LevelAssumption ==
    /\ "low" \in Levels /\ Levels \subseteq DOMAIN LevelOrder
    /\ "low" \in DiskLevels /\ DiskLevels \subseteq {"low", "medium", "high", "critical"}
ASSUME AppAssumption == NoApp \notin Apps /\ Concurrent \in BOOLEAN
ASSUME LaunchAssumption == MaxLaunches \in Nat

\* A recovery channel: "sys" stands for CPU and memory, "io" for disk IO.
Channels == {"sys", "io"}
\* A cap as installed, relaxed by a partial restore, or absent.
Stages == {"none", "half", "whole"}

VARIABLES
    pc,             \* the loop: "asleep", "awake" or "restoring"
    level, disk,    \* SystemPressureMonitor._current_level and _current_disk_level
    peak, peakDisk, \* its _peak_level and _peak_disk_level
    passive,        \* passive_resource_control.enabled
    prevPassive,    \* state.prev_passive_enabled
    quiet,          \* quiet_mode.is_active()
    faulty,         \* may writes fail and candidates be gone or negligible?
    prevCritical,   \* state.prev_critical
    sinceCheck,     \* age of state.last_check_time
    batch,          \* the held candidates in order, the channel they are for, their age
    timer,          \* ages of pressure_start_time and disk_io_not_stressed_start_time
    stableLevel,    \* state.current_pressure
    restorePending, \* state.restore_pending
    todo, target,   \* the restore steps of this tick, and the app of the current one
    cap, order,     \* the auto caps, and the order of the auto entries of the registry
    excluded,       \* apps the user took out of the candidate pool
    pending, queue, \* lengths of app_pending_queue and app_priority_queue
    held            \* history: time since the newest cap of each channel was installed

levelVars == <<level, disk, peak, peakDisk>>
switchVars == <<passive, quiet, faulty>>
stateVars == <<prevCritical, sinceCheck, batch, timer, stableLevel, restorePending>>
capVars == <<cap, order, excluded, held>>
launchVars == <<pending, queue>>
vars == <<pc, levelVars, switchVars, prevPassive, stateVars, todo, target, capVars, launchVars>>

NoTimer == -1
NoCap == [sys |-> "none", io |-> "none"]
NoBatch == [apps |-> {}, order |-> {}, source |-> "none", age |-> 0]

\* The apps with an auto entry in the registry.
Limited == {a \in Apps : cap[a] # NoCap}

TypeOK ==
    /\ pc \in {"asleep", "awake", "restoring"}
    /\ level \in Levels /\ peak \in Levels
    /\ disk \in DiskLevels /\ peakDisk \in DiskLevels
    /\ {passive, prevPassive, quiet, faulty, prevCritical, restorePending} \subseteq BOOLEAN
    /\ sinceCheck \in 0..IDLE_CHECK
    /\ batch.source \in Channels \cup {"none"} /\ batch.age \in 0..(TOP_BATCH_TTL + 1)
    /\ batch.apps \subseteq Apps /\ IsOrder(batch.order, batch.apps)
    /\ timer \in [sys : NoTimer..STABLE_PERIOD, io : NoTimer..(2 * STABLE_DISK_IO_PERIOD)]
    /\ stableLevel \in {"none", "low", "medium"}
    /\ \A i \in DOMAIN todo : todo[i] \in [channel : Channels, stage : {"none", "half"}]
    /\ (pc = "restoring") = (todo # <<>>)
    /\ target \in Apps \cup {NoApp}
    /\ cap \in [Apps -> [sys : Stages, io : Stages]]
    /\ IsOrder(order, Limited)
    /\ excluded \subseteq Apps
    /\ pending + queue \in 0..MaxLaunches
    /\ held \in [sys : 0..STABLE_PERIOD, io : 0..(2 * STABLE_DISK_IO_PERIOD)]

Init ==
    /\ pc = "awake"
    /\ level = "low" /\ peak = "low" /\ disk = "low" /\ peakDisk = "low"
    /\ passive = TRUE /\ prevPassive = TRUE /\ quiet = FALSE /\ faulty = FALSE
    /\ prevCritical = FALSE
    /\ sinceCheck = IDLE_CHECK
    /\ batch = NoBatch
    /\ timer = [sys |-> NoTimer, io |-> NoTimer]
    /\ stableLevel = "none"
    /\ restorePending = FALSE
    /\ todo = <<>> /\ target = NoApp
    /\ cap = [a \in Apps |-> NoCap]
    /\ order = {} /\ excluded = {}
    /\ pending = 0 /\ queue = 0
    /\ held = [sys |-> STABLE_PERIOD, io |-> 2 * STABLE_DISK_IO_PERIOD]

(***************************************************************************)
(* The registry's order                                                    *)
(***************************************************************************)
Without(a) == Kept(order, Limited \ {a})
MoveToEnd(a) == ToEnd(order, Limited, a)
Capped(ch) == {a \in Apps : cap[a][ch] # "none"}

\* The entry of a leaves the registry with whatever caps it had.
Forget(a) ==
    /\ cap' = [cap EXCEPT ![a] = NoCap]
    /\ order' = Without(a)

(***************************************************************************)
(* The rest of the service, between two wake-ups of the loop               *)
(***************************************************************************)
Peak(a, b) == IF LevelOrder[a] > LevelOrder[b] THEN a ELSE b

\* The refresh thread, stopped in quiet mode: new levels, and the peaks latched.
Refresh ==
    /\ pc # "awake" /\ ~quiet
    /\ level' \in Levels /\ disk' \in DiskLevels
    /\ peak' = Peak(level', peak) /\ peakDisk' = Peak(disk', peakDisk)
    /\ UNCHANGED <<pc, switchVars, prevPassive, stateVars, todo, target, capVars, launchVars>>

Flip ==
    /\ pc # "awake"
    /\ \/ "passive" \in Switches /\ passive' = ~passive /\ UNCHANGED <<quiet, faulty>>
       \/ "quiet" \in Switches /\ quiet' = ~quiet /\ UNCHANGED <<passive, faulty>>
       \/ "faults" \in Switches /\ faulty' = ~faulty /\ UNCHANGED <<passive, quiet>>
    /\ UNCHANGED <<pc, levelVars, prevPassive, stateVars, todo, target, capVars, launchVars>>

\* The user restores an auto-limited app, which takes it out of the pool.
UserRestore(a) ==
    /\ pc = "asleep" \/ (Concurrent /\ pc = "restoring")
    /\ a \in Limited
    /\ Forget(a)
    /\ excluded' = excluded \cup {a}
    /\ UNCHANGED <<pc, levelVars, switchVars, prevPassive, stateVars, todo, target, held, launchVars>>

\* The user puts an app back into the pool.
Unexclude(a) ==
    /\ pc # "awake"
    /\ a \in excluded
    /\ excluded' = excluded \ {a}
    /\ UNCHANGED <<pc, levelVars, switchVars, prevPassive, stateVars, todo, target,
                   cap, order, held, launchVars>>

\* A capped app exits, and the reaper at the end of the iteration drops it.
Reap(a) ==
    /\ pc = "asleep"
    /\ a \in Limited
    /\ Forget(a)
    /\ UNCHANGED <<pc, levelVars, switchVars, prevPassive, stateVars, todo, target,
                   excluded, held, launchVars>>

\* The intercept thread suspends an app launched while pressure is critical.
Intercept ==
    /\ pc # "awake"
    /\ level = "critical"
    /\ pending + queue < MaxLaunches
    /\ pending' = pending + 1
    /\ UNCHANGED <<pc, levelVars, switchVars, prevPassive, stateVars, todo, target, capVars, queue>>

\* The handle thread moves a suspended launch to the priority queue.
HandleLaunch ==
    /\ pending > 0
    /\ pending' = pending - 1 /\ queue' = queue + 1
    /\ UNCHANGED <<pc, levelVars, switchVars, prevPassive, stateVars, todo, target, capVars>>

\* The user cancels the queued launches of an app.
CancelLaunch ==
    /\ pc # "awake"
    /\ queue' \in 0..(queue - 1)
    /\ UNCHANGED <<pc, levelVars, switchVars, prevPassive, stateVars, todo, target, capVars, pending>>

(***************************************************************************)
(* One wake-up of the loop                                                 *)
(***************************************************************************)
\* Mutant: an age that is never capped.
OlderForEver(age, limit) == IF age = NoTimer THEN age ELSE age + 1
Older(age, limit) == IF age \in 0..(limit - 1) THEN age + 1 ELSE age

\* time.sleep(1)
Sleep ==
    /\ pc = "asleep"
    /\ pc' = "awake"
    /\ sinceCheck' = Older(sinceCheck, IDLE_CHECK)
    /\ batch' = IF batch.apps = {} THEN batch
                ELSE [batch EXCEPT !.age = Older(batch.age, TOP_BATCH_TTL + 1)]
    /\ timer' = [sys |-> Older(timer.sys, STABLE_PERIOD),
                 io |-> Older(timer.io, 2 * STABLE_DISK_IO_PERIOD)]
    /\ held' = [sys |-> Older(held.sys, STABLE_PERIOD),
                io |-> Older(held.io, 2 * STABLE_DISK_IO_PERIOD)]
    /\ UNCHANGED <<levelVars, switchVars, prevPassive, prevCritical, stableLevel, restorePending,
                   todo, target, cap, order, excluded, launchVars>>

\* The head of the loop body: on the falling edge of the passive switch every
\* auto entry becomes a manual one, cap and all, and its app an excluded one.
NoteSwitch ==
    /\ pc = "awake" /\ prevPassive # passive
    /\ prevPassive' = passive
    /\ IF passive THEN UNCHANGED <<cap, order, excluded>>
       ELSE /\ excluded' = excluded \cup Limited
            /\ cap' = [a \in Apps |-> NoCap]
            /\ order' = {}
    /\ UNCHANGED <<pc, levelVars, switchVars, stateVars, todo, target, held, launchVars>>

Awake == pc = "awake" /\ prevPassive = passive

\* What state.reset() does to the batch and the pressure timer.
Reset ==
    /\ batch' = NoBatch
    /\ timer' = [timer EXCEPT !.sys = NoTimer]

\* Mutant: quiet mode and the policy tick only reset the loop's state.
DrainNothing == Reset /\ UNCHANGED launchVars

\* _drain_pending_app_queue: SIGCONT to the head of the queue, then reset().
\* A process that is gone raises, and the loop's handler resets just the same.
Drain ==
    /\ queue > 0
    /\ queue' = queue - 1
    /\ Reset
    /\ UNCHANGED pending

\* Quiet mode: no decision, but launches are still released.
QuietTick ==
    /\ Awake /\ quiet
    /\ pc' = "asleep"
    /\ prevCritical' = FALSE
    /\ \/ Drain
       \/ queue = 0 /\ UNCHANGED <<batch, timer, launchVars>>
    /\ UNCHANGED <<levelVars, switchVars, prevPassive, sinceCheck, stableLevel, restorePending,
                   todo, target, capVars>>

Gate ==
    \/ queue > 0
    \/ level = "critical" /\ ~prevCritical
    \/ sinceCheck >= IDLE_CHECK

\* The gate is closed.
SkipTick ==
    /\ Awake /\ ~quiet /\ ~Gate
    /\ pc' = "asleep"
    /\ prevCritical' = (level = "critical")
    /\ UNCHANGED <<levelVars, switchVars, prevPassive, sinceCheck, batch, timer, stableLevel,
                   restorePending, todo, target, capVars, launchVars>>

\* The gate is open: consume_peak_pressure_level() and the bookkeeping of every
\* decision.
Decide ==
    /\ Awake /\ ~quiet /\ Gate
    /\ peak' = level /\ peakDisk' = disk
    /\ prevCritical' = (level = "critical")
    /\ sinceCheck' = 0
    /\ UNCHANGED <<level, disk, switchVars, prevPassive, target, excluded>>

DiskStressed == peakDisk \in {"high", "critical"}
Limiting == passive /\ (peak = "critical" \/ DiskStressed)
Draining == ~Limiting /\ queue > 0 /\ peak # "critical" /\ ~DiskStressed

(***************************************************************************)
(* The two limiting arms                                                   *)
(***************************************************************************)
\* Outcomes of one fallible call.
Succeeds == {TRUE, ~faulty}

\* stale_top_batch_reason
Stale(ch) == batch.source # ch \/ batch.age > TOP_BATCH_TTL

\* The batch b without the apps outside S.
Narrowed(b, S) == [b EXCEPT !.apps = @ \cap S, !.order = Kept(@, b.apps \cap S)]
DropExcluded(b) == Narrowed(b, Apps \ excluded)

\* What the sampling pipeline may answer: every app, in any order of usage.
Samples(ch) ==
    {[apps |-> S, order |-> r, source |-> ch, age |-> 0] :
        S \in IF faulty THEN SUBSET Apps ELSE {Apps}, r \in SUBSET (Apps \X Apps)}
Fresh(ch) == {DropExcluded(b) : b \in {x \in Samples(ch) : IsOrder(x.order, x.apps)}}

\* Is there a held batch that a limiting arm may work from?
Usable(ch) == batch.apps # {} /\ ~Stale(ch)

\* Mutant: a held batch is not filtered again (_refilter_held_batch dropped).
BatchesUnfiltered(ch) == IF Usable(ch) THEN {batch} ELSE Fresh(ch)

\* The batches a limiting arm may work from: the held one, refiltered, if it is
\* usable, or else a new one.  The disk arm also replaces it when its
\* prefetcher's answer is stale.
Batches(ch) ==
    IF ~Usable(ch) THEN Fresh(ch)
    ELSE {DropExcluded(batch)} \cup IF ch = "sys" THEN {} ELSE Fresh(ch)

\* Mutant: the candidate acted on stays at the head of the batch.
KeepAll(b, a) == batch' = b

\* The batch less the candidate a, which was acted on.
Keep(b, a) == batch' = IF b.apps = {a} THEN NoBatch ELSE Narrowed(b, Apps \ {a})

\* Cap the CPU and memory of a.  An auto io cap of a is lifted first.
LimitSys(a) ==
    \/ /\ cap[a].sys # "none" \/ faulty
       /\ UNCHANGED <<cap, order, held>>
    \/ /\ cap[a].sys = "none"
       /\ \E yielded, landed \in Succeeds :
             LET new == [sys |-> IF landed THEN "whole" ELSE "none",
                         io |-> IF yielded THEN "none" ELSE cap[a].io]
             IN  /\ cap' = [cap EXCEPT ![a] = new]
                 /\ order' = IF new = NoCap THEN Without(a) ELSE MoveToEnd(a)
                 /\ held' = IF landed THEN [held EXCEPT !.sys = 0] ELSE held

\* The age of pressure_start_time after a critical tick.
PressureTimerAfterCritical == NoTimer
\* Mutant: disk stress leaves the timer of the disk channel running.
DiskTimerKept == timer.io
\* The age of disk_io_not_stressed_start_time after a tick of stress.
DiskTimerAfterStress == NoTimer

\* CPU/memory critical acts on the first candidate and consumes it.
SysArm ==
    /\ Decide /\ Limiting /\ peak = "critical"
    /\ pc' = "asleep"
    /\ restorePending' = FALSE
    /\ timer' = [timer EXCEPT !.sys = PressureTimerAfterCritical]
    /\ \E b \in Batches("sys") :
          IF b.apps = {}
          THEN batch' = NoBatch /\ UNCHANGED <<cap, order, held>>
          ELSE LET a == First(b.apps, b.order) IN LimitSys(a) /\ Keep(b, a)
    /\ UNCHANGED <<stableLevel, todo, launchVars>>

\* Cap the disk IO of a.
LimitIo(a) ==
    \E landed \in Succeeds :
       IF landed
       THEN /\ cap' = [cap EXCEPT ![a].io = "whole"]
            /\ order' = IF a \in Limited THEN order ELSE MoveToEnd(a)
            /\ held' = [held EXCEPT !.io = 0]
       ELSE UNCHANGED <<cap, order, held>>

\* The candidates _handle_disk_io_stressed may act on.
Throttleable(b) ==
    LET free == {a \in b.apps : cap[a].io = "none"}
    IN  {a \in free : faulty \/ Before(a, free, b.order) = {}}

\* Disk stress identifies a target at "high" and caps one at "critical".
DiskArm ==
    /\ Decide /\ Limiting /\ peak # "critical"
    /\ pc' = "asleep"
    /\ restorePending' = FALSE
    /\ \E b \in Batches("io") :
          \/ /\ b.apps = {}
             /\ batch' = NoBatch
             /\ timer' = [sys |-> NoTimer, io |-> DiskTimerAfterStress]
             /\ UNCHANGED <<cap, order, held>>
          \/ /\ b.apps # {}
             /\ timer' = [timer EXCEPT !.io = DiskTimerAfterStress]
             /\ \/ /\ peakDisk # "critical"
                   /\ batch' = b
                   /\ UNCHANGED <<cap, order, held>>
                \/ /\ peakDisk = "critical"
                   /\ \E a \in Throttleable(b) : LimitIo(a) /\ Keep(b, a)
                \/ /\ peakDisk = "critical"
                   /\ Throttleable(b) = {} \/ faulty
                   /\ batch' = NoBatch
                   /\ UNCHANGED <<cap, order, held>>
    /\ UNCHANGED <<stableLevel, todo, launchVars>>

DrainArm ==
    /\ Decide /\ Draining
    /\ pc' = "asleep"
    /\ Drain
    /\ UNCHANGED <<stableLevel, restorePending, todo, cap, order, held>>

(***************************************************************************)
(* The staged restore                                                      *)
(***************************************************************************)
CheckPressure == peak \in {"medium", "low"} /\ Capped("sys") # {}
CheckIo == ~DiskStressed /\ Capped("io") # {}

\* The timers as this tick leaves them.
PressureTimer ==
    IF CheckPressure /\ (timer.sys = NoTimer \/ stableLevel # peak) THEN 0 ELSE timer.sys
DiskTimer == IF CheckIo /\ timer.io = NoTimer THEN 0 ELSE timer.io

Step(ch, stage) == [channel |-> ch, stage |-> stage]

\* The restore steps the timers call for.
Due ==
    LET pressureStable == CheckPressure /\ PressureTimer >= STABLE_PERIOD
        ioStable == CheckIo /\ DiskTimer >= STABLE_DISK_IO_PERIOD
        ioDoubleStable == CheckIo /\ DiskTimer >= 2 * STABLE_DISK_IO_PERIOD
    IN  IF pressureStable /\ peak = "medium" THEN <<Step("sys", "half")>>
        ELSE IF ioStable /\ ~ioDoubleStable THEN <<Step("io", "half")>>
        ELSE (IF pressureStable THEN <<Step("sys", "none")>> ELSE <<>>)
             \o (IF ioDoubleStable THEN <<Step("io", "none")>> ELSE <<>>)

RestoreArm ==
    /\ Decide /\ ~Limiting /\ ~Draining
    /\ IF Limited = {} \/ restorePending
       THEN pc' = "asleep" /\ UNCHANGED <<batch, timer, stableLevel, restorePending, todo>>
       ELSE IF ~CheckPressure /\ ~CheckIo
       THEN pc' = "asleep" /\ Reset /\ UNCHANGED <<stableLevel, restorePending, todo>>
       ELSE /\ timer' = [sys |-> PressureTimer, io |-> DiskTimer]
            /\ stableLevel' = IF CheckPressure THEN peak ELSE stableLevel
            /\ todo' = Due
            /\ restorePending' = (Due # <<>>)
            /\ pc' = IF Due = <<>> THEN "asleep" ELSE "restoring"
            /\ UNCHANGED batch
    /\ UNCHANGED <<cap, order, held, launchVars>>

\* The step at the head of todo is over; after the last one the tick clears
\* restore_pending and the loop sleeps.
StepOver ==
    /\ todo' = Tail(todo)
    /\ target' = NoApp
    /\ restorePending' = (Tail(todo) # <<>>)
    /\ pc' = IF Tail(todo) = <<>> THEN "asleep" ELSE "restoring"

\* Mutant: apps already relaxed are skipped by a full restore too.
EligibleWhole(s) == {a \in Limited : cap[a][s.channel] = "whole"}

\* The apps with the channel capped; a partial step skips those already relaxed.
Eligible(s) ==
    {a \in Limited : /\ cap[a][s.channel] # "none"
                     /\ s.stage = "half" => cap[a][s.channel] = "whole"}

\* first_auto_with_part: the oldest entry that is eligible.
PickTarget ==
    /\ pc = "restoring" /\ target = NoApp
    /\ LET found == Eligible(Head(todo))
       IN  IF found = {} THEN StepOver
           ELSE target' = First(found, order) /\ UNCHANGED <<pc, todo, restorePending>>
    /\ UNCHANGED <<levelVars, switchVars, prevPassive, prevCritical, sinceCheck, batch, timer,
                   stableLevel, capVars, launchVars>>

\* restore_resources and the accounting after it.  A full restore of the disk
\* channel restarts its timer.
RestoreStep ==
    /\ pc = "restoring" /\ target \in Limited
    /\ \E ok \in Succeeds :
          LET s == Head(todo)
              new == IF ok THEN [cap[target] EXCEPT ![s.channel] = s.stage] ELSE cap[target]
          IN  /\ cap' = [cap EXCEPT ![target] = new]
              /\ order' = IF new = NoCap THEN Without(target) ELSE MoveToEnd(target)
              /\ timer' = IF ok /\ s = Step("io", "none")
                          THEN [timer EXCEPT !.io = NoTimer] ELSE timer
    /\ StepOver
    /\ UNCHANGED <<levelVars, switchVars, prevPassive, prevCritical, sinceCheck, batch,
                   stableLevel, excluded, held, launchVars>>

\* The entry was popped by another thread since it was picked: move_to_end
\* raises KeyError and the loop's handler calls state.reset(), which leaves
\* restore_pending as it is.
RestoreRaises ==
    /\ pc = "restoring" /\ target # NoApp /\ target \notin Limited
    /\ pc' = "asleep"
    /\ Reset
    /\ todo' = <<>> /\ target' = NoApp
    /\ UNCHANGED <<levelVars, switchVars, prevPassive, prevCritical, sinceCheck,
                   stableLevel, restorePending, capVars, launchVars>>

\* The entry was popped after restore_resources had looked it up, and no other
\* channel of it is capped: a full restore finds nothing left to pop.
RestoreGone ==
    /\ pc = "restoring" /\ target # NoApp /\ target \notin Limited
    /\ Head(todo).stage = "none"
    /\ timer' = IF Head(todo).channel = "io" THEN [timer EXCEPT !.io = NoTimer] ELSE timer
    /\ StepOver
    /\ UNCHANGED <<levelVars, switchVars, prevPassive, prevCritical, sinceCheck, batch,
                   stableLevel, capVars, launchVars>>

LoopStep ==
    \/ Sleep \/ NoteSwitch \/ QuietTick \/ SkipTick
    \/ SysArm \/ DiskArm \/ DrainArm \/ RestoreArm
    \/ PickTarget \/ RestoreStep \/ RestoreRaises \/ RestoreGone

Next ==
    \/ LoopStep
    \/ Refresh \/ Flip
    \/ Intercept \/ HandleLaunch \/ CancelLaunch
    \/ \E a \in Apps : UserRestore(a) \/ Unexclude(a) \/ Reap(a)

\* The loop thread and the handle thread run for ever; nothing else is assumed.
Fairness == WF_vars(LoopStep) /\ WF_vars(HandleLaunch)

Spec == Init /\ [][Next]_vars /\ Fairness

-----------------------------------------------------------------------------
\* A recovery timer never relaxes a channel sooner after the newest cap of
\* that channel than the period it stands for, although one timer serves every
\* app and survives ticks, arms and switches that do not concern it.
HoldPeriod ==
    [][RestoreStep => \A a \in Apps :
          /\ cap'[a].sys # cap[a].sys => held.sys >= STABLE_PERIOD
          /\ cap'[a].io # cap[a].io => held.io >= STABLE_DISK_IO_PERIOD
          /\ cap'[a].io # cap[a].io /\ cap'[a].io = "none" => held.io >= 2 * STABLE_DISK_IO_PERIOD]_vars

\* An app the user takes out of the pool is not limited again, although the
\* loop may be holding a batch, sampled before, that still names it.
FreedStaysFree == \A a \in excluded : cap[a] = NoCap

\* If the system stays calm and writes succeed, every automatic cap is lifted.
Calm == level = "low" /\ disk = "low" /\ ~quiet /\ ~faulty
CalmLiftsEveryCap == <>[]Calm => <>[](Limited = {})

\* If pressure stays critical, every app in the pool that is there to be
\* limited gets a CPU/memory cap, and not only the heaviest one.
Critical == level = "critical" /\ passive /\ ~quiet /\ ~faulty
CriticalReachesEveryApp ==
    \A a \in Apps : <>[]Critical => []<>(a \in excluded \/ cap[a].sys # "none")

\* A suspended launch does not wait for ever once pressure has left critical
\* and the disks are calm, or a benchmark holds quiet mode.
LaunchesAreReleased ==
    <>[](level # "critical" /\ (quiet \/ disk = "low")) => <>[](pending + queue = 0)

=============================================================================
