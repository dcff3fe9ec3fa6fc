---------------------------- MODULE MCMonitoring ----------------------------
(***************************************************************************)
(* What the service measures, keeps and shows, for TLC, one part at a      *)
(* time: part names the module that a behaviour is about.  The parts have  *)
(* no state in common, so that they take turns with one set of variables,  *)
(* which each of them calls by its own names; what a part does not need    *)
(* is 0.                                                                   *)
(***************************************************************************)
EXTENDS Integers, Sequences, FiniteSets, TLC

CONSTANTS
  Absent, \* no value, for the inventory
  Actors  \* two tabs, clients, threads or handlers, who can change places

Exchange == Permutations(Actors)

VARIABLES part, v1, v2, v3, v4, v5, v6, v7, v8, v9, v10, v11, v12, v13

all == <<part, v1, v2, v3, v4, v5, v6, v7, v8, v9, v10, v11, v12, v13>>

\* the variables that a part with so many of its own has no use for
none11 == <<v12, v13>>
none10 == <<v11, v12, v13>>
none9 == <<v10, v11, v12, v13>>
none7 == <<v8, v9, v10, v11, v12, v13>>
none6 == <<v7, v8, v9, v10, v11, v12, v13>>
none5 == <<v6, v7, v8, v9, v10, v11, v12, v13>>
none4 == <<v5, v6, v7, v8, v9, v10, v11, v12, v13>>

Rest11 == v12 = 0 /\ v13 = 0
Rest10 == v11 = 0 /\ Rest11
Rest9  == v10 = 0 /\ Rest10
Rest7  == v8 = 0 /\ v9 = 0 /\ Rest9
Rest6  == v7 = 0 /\ Rest7
Rest5  == v6 = 0 /\ Rest6
Rest4  == v5 = 0 /\ Rest5

-----------------------------------------------------------------------------
\* two tabs that edit each kind of section, one after the other; and a section that is one
\* call, in saves that overlap within a second
Settings == INSTANCE SharedSettings
    WITH Clients <- Actors, Sections <- {"network", "sections", "switch", "retention"}, MaxTime <- 2,
         section <- v1, memory <- v2, disk <- v3, stamp <- v4, snap <- v5, clock <- v6, holder <- v7,
         form <- v8, fresh <- v9, raced <- v10, moved <- v11, spoiled <- v12, yaml <- v13
Overlapping == INSTANCE SharedSettings
    WITH Clients <- Actors, Sections <- {"thresholds", "shares"}, MaxTime <- 1,
         section <- v1, memory <- v2, disk <- v3, stamp <- v4, snap <- v5, clock <- v6, holder <- v7,
         form <- v8, fresh <- v9, raced <- v10, moved <- v11, spoiled <- v12, yaml <- v13

\* one client is enough: requests do not touch each other
Sections == INSTANCE SectionCache
    WITH Sections <- {"cpu", "gpu"}, Clients <- {"t1"}, Interval <- 1, TTL <- 1,
         quiet <- v1, monitored <- v2, coll <- v3, cache <- v4, probe <- v5, req <- v6, unsettled <- v7

Stats == INSTANCE AppStatsCache
    WITH Clients <- Actors, Refresh <- 2, Timeout <- 5,
         quiet <- v1, stats <- v2, idle <- v3, event <- v4, ref <- v5, req <- v6, asked <- v7,
         failing <- v8, stranded <- v9

\* limits that follow each other over restarts; and one with failures and operations anew
Ledger == INSTANCE ControlLedger
    WITH MaxLives <- 2, MaxStarts <- 2, Window <- 2, Ops <- {},
         ledger <- v1, entry <- v2, restore <- v3, handoff <- v4, ids <- v5, base <- v6, starts <- v7,
         boot <- v8, doubt <- v9, recapped <- v10
Troubled == INSTANCE ControlLedger
    WITH MaxLives <- 1, MaxStarts <- 1, Window <- 2, Ops <- {"fail", "again"},
         ledger <- v1, entry <- v2, restore <- v3, handoff <- v4, ids <- v5, base <- v6, starts <- v7,
         boot <- v8, doubt <- v9, recapped <- v10

\* an occurrence, its successor and the event between them
Alerts == INSTANCE AlertBook
    WITH Threads <- Actors, Ttl <- 1, Threshold <- 2, Rule <- 2, Late <- 1, MaxTime <- 2, MaxEvents <- 3,
         kind <- v1, now <- v2, row <- v3, archive <- v4, eval <- v5, sweep <- v6, events <- v7, fires <- v8,
         closed <- v9, acked <- v10, overtaken <- v11

\* more lines than a query returns
Detector == INSTANCE LogDetector
    WITH PerSecond <- 2, Cap <- 2, SeenMax <- 1, Late <- 1, Backfill <- 2, MaxTime <- 3, MaxLines <- 3, MaxBoots <- 1,
         src <- v1, now <- v2, log <- v3, up <- v4, cursor <- v5, saved <- v6, seen <- v7, scan <- v8,
         boot <- v9, reports <- v10, excused <- v11

\* two fields in one change; and one that is changed, removed and found again
Inventory == INSTANCE InventoryRevisions
    WITH Fields <- {"hw", "sw"}, Values <- {"old", "new"}, MaxRevisions <- 2,
         revisions <- v1, check <- v2, events <- v3, misses <- v4
Lasting == INSTANCE InventoryRevisions
    WITH Fields <- {"hw"}, Values <- {"old", "new"}, MaxRevisions <- 4,
         revisions <- v1, check <- v2, events <- v3, misses <- v4

Level == INSTANCE LevelTracker
    WITH Trigger <- 1, Clear <- 2, MaxTime <- 6,
         now <- v1, snapshot <- v2, confirmed <- v3, dir <- v4, since <- v5, read <- v6, changes <- v7

Psi == INSTANCE PsiSampling
    WITH Readers <- Actors, Window <- 1, MaxTime <- 3,
         now <- v1, stalled <- v2, pos <- v3, reader <- v4, last <- v5, window <- v6

Pressure == INSTANCE PressureLevels
    WITH Medium <- 2, High <- 4, Critical <- 5, Hysteresis <- 1,
         score <- v1, sticky <- v2, level <- v3, peak <- v4, told <- v5, telling <- v6, held <- v7

\* a name that stays an NVMe disk, and one that is given to disks of three kinds
Disk == INSTANCE DiskPressure
    WITH Names <- {"fast", "slow"},
         Devices <- [n \in {"fast", "slow"} |-> IF n = "fast" THEN {"nvme"} ELSE {"stick", "ssd", "spindle"}],
         plugged <- v1, known <- v2, compared <- v3, report <- v4, truth <- v5

Network == INSTANCE NetworkPressure
    WITH Nics <- {"eth"}, Window <- 5, MaxTime <- 7, MaxTurns <- 2,
         now <- v1, present <- v2, counters <- v3, util <- v4, monitor <- v5, snapshot <- v6, trouble <- v7

\* two requests at once with what may happen between them; and one after several events
Together == INSTANCE ControlledApps
    WITH Ids <- {"a", "b"}, Programs <- {"p", "q"}, Scopes <- {1, 2}, NoScope <- 0, Handlers <- Actors,
         Placements <- {[p \in {"p", "q"} |-> IF p = "p" THEN 1 ELSE 2]},
         MaxRequests <- 2, MaxEvents <- 1,
         memory <- v1, file <- v2, rows <- v3, where <- v4, running <- v5, limit <- v6, pinned <- v7, req <- v8,
         asked <- v9, happened <- v10, last <- v11, unsaved <- v12, crossed <- v13
Alone == INSTANCE ControlledApps
    WITH Ids <- {"a", "b"}, Programs <- {"p", "q"}, Scopes <- {1, 2}, NoScope <- 0, Handlers <- Actors,
         Placements <- {[p \in {"p", "q"} |-> 1], [p \in {"p", "q"} |-> IF p = "p" THEN 1 ELSE 2]},
         MaxRequests <- 1, MaxEvents <- 3,
         memory <- v1, file <- v2, rows <- v3, where <- v4, running <- v5, limit <- v6, pinned <- v7, req <- v8,
         asked <- v9, happened <- v10, last <- v11, unsaved <- v12, crossed <- v13

\* two days, snapshots that are older than one and sweeps that are left out, over a restart
History == INSTANCE SnapshotHistory
    WITH Collectors <- {"c"}, Tabs <- {"t"}, Interval <- 2, Every <- 1, Day <- 1, MaxDays <- 2, MaxTime <- 3,
         MaxStarts <- 2, MaxSwitches <- 1,
         now <- v1, quiet <- v2, rows <- v3, stored <- v4, due <- v5, days <- v6, file <- v7, save <- v8,
         sweep <- v9, made <- v10, turns <- v11, failed <- v12, overdue <- v13

-----------------------------------------------------------------------------
Init ==
    \/ part = "settings" /\ Settings!Init
    \/ part = "overlapping" /\ Overlapping!Init
    \/ part = "sections" /\ Sections!Init /\ Rest7
    \/ part = "stats" /\ Stats!Init /\ Rest9
    \/ part = "ledger" /\ Ledger!Init /\ Rest10
    \/ part = "troubled" /\ Troubled!Init /\ Rest10
    \/ part = "alerts" /\ Alerts!Init /\ Rest11
    \/ part = "detector" /\ Detector!Init /\ Rest11
    \/ part = "inventory" /\ Inventory!Init /\ Rest4
    \/ part = "lasting" /\ Lasting!Init /\ Rest4
    \/ part = "level" /\ Level!Init /\ Rest7
    \/ part = "psi" /\ Psi!Init /\ Rest6
    \/ part = "pressure" /\ Pressure!Init /\ Rest7
    \/ part = "disk" /\ Disk!Init /\ Rest5
    \/ part = "network" /\ Network!Init /\ Rest7
    \/ part = "together" /\ Together!Init
    \/ part = "alone" /\ Alone!Init
    \/ part = "history" /\ History!Init

Next ==
    /\ UNCHANGED part
    /\ \/ part = "settings" /\ Settings!Next
       \/ part = "overlapping" /\ Overlapping!Next
       \/ part = "sections" /\ Sections!Next /\ UNCHANGED none7
       \/ part = "stats" /\ Stats!Next /\ UNCHANGED none9
       \/ part = "ledger" /\ Ledger!Next /\ UNCHANGED none10
       \/ part = "troubled" /\ Troubled!Next /\ UNCHANGED none10
       \/ part = "alerts" /\ Alerts!Next /\ UNCHANGED none11
       \/ part = "detector" /\ Detector!Next /\ UNCHANGED none11
       \/ part = "inventory" /\ Inventory!Next /\ UNCHANGED none4
       \/ part = "lasting" /\ Lasting!Next /\ UNCHANGED none4
       \/ part = "level" /\ Level!Next /\ UNCHANGED none7
       \/ part = "psi" /\ Psi!Next /\ UNCHANGED none6
       \/ part = "pressure" /\ Pressure!Next /\ UNCHANGED none7
       \/ part = "disk" /\ Disk!Next /\ UNCHANGED none5
       \/ part = "network" /\ Network!Next /\ UNCHANGED none7
       \/ part = "together" /\ Together!Next
       \/ part = "alone" /\ Alone!Next
       \/ part = "history" /\ History!Next

Spec == Init /\ [][Next]_all

-----------------------------------------------------------------------------
\* The shape of every part's state.
TypeOK ==
    CASE part = "settings" -> Settings!TypeOK
      [] part = "overlapping" -> Overlapping!TypeOK
      [] part = "sections" -> Sections!TypeOK
      [] part = "stats" -> Stats!TypeOK
      [] part = "ledger" -> Ledger!TypeOK
      [] part = "troubled" -> Troubled!TypeOK
      [] part = "alerts" -> Alerts!TypeOK
      [] part = "detector" -> Detector!TypeOK
      [] part = "inventory" -> Inventory!TypeOK
      [] part = "lasting" -> Lasting!TypeOK
      [] part = "level" -> Level!TypeOK
      [] part = "psi" -> Psi!TypeOK
      [] part = "pressure" -> Pressure!TypeOK
      [] part = "disk" -> Disk!TypeOK
      [] part = "network" -> Network!TypeOK
      [] part = "together" -> Together!TypeOK
      [] part = "alone" -> Alone!TypeOK
      [] part = "history" -> History!TypeOK

\* No answer is older, and no accepted form staler, than its promise.
\* (_respond_dynamic_sections, get_app_resource_stats, _check_config_conflict.)
AnswersAreCurrent ==
    [][CASE part = "sections" -> Sections!AnswerFresh /\ Sections!AnswerComplete
         [] part = "stats" -> Stats!StatsFresh
         [] part = "settings" -> Settings!AcceptedFormIsCurrent'
         [] part = "overlapping" -> Overlapping!AcceptedFormIsCurrent'
         [] OTHER -> TRUE]_all

\* Nothing that was seen is lost, nor counted twice, on its way to those who act on it: a request for
\* statistics, an alert's occurrences and fires, a line of a log, a change of the inventory, a sustained
\* change of level, a peak of pressure, a snapshot that is within the days in force.
\* (refresh_loop, record_fire, run_once, check_once, observe, consume_peak_levels, delete_older_than.)
NothingIsLost ==
    CASE part = "stats" -> Stats!NoRequestIsMissed
      [] part = "alerts" -> Alerts!EpisodesAreExact
      [] part = "detector" -> Detector!LinesAreReported /\ Detector!ReportedOnce
      [] part = "inventory" -> Inventory!HistoryAddsUp
      [] part = "lasting" -> Lasting!HistoryAddsUp
      [] part = "level" -> Level!ChangesAreSustained
      [] part = "pressure" -> Pressure!NoPeakIsMissed
      [] part = "history" -> History!HistoryIsKept
      [] OTHER -> TRUE

\* The history of limits tells what the registry holds: what it shows as active is limited and the other
\* way round, what an earlier run left is classified, and nothing recovers that was never limited.
\* (control_lifecycle.py, control_events.py, ControlLifecycleEvent.)
LedgerTellsTheTruth ==
    CASE part = "ledger" ->
           /\ Ledger!ShownIsLive /\ Ledger!LimitIsShown
           /\ Ledger!InterruptedIsClassified /\ Ledger!NoPhantomRecovery
      [] part = "troubled" ->
           /\ Troubled!ShownIsLive /\ Troubled!LimitIsShown
           /\ Troubled!InterruptedIsClassified /\ Troubled!NoPhantomRecovery
      [] OTHER -> TRUE

\* What is stored in two places, or was said by a user, stays consistent over overlapping requests, edits by
\* hand and restarts: memory and file, list and table, what hides an alert or makes it critical, what
\* counts as removed, how long history is kept.
\* (update_config_section, reconcile_controlled_apps, AlertState, ConfigRevision, _run_snapshot_cleanup.)
StateStaysConsistent ==
    CASE part = "settings" -> Settings!SettingsStayConsistent
      [] part = "overlapping" -> Overlapping!SettingsStayConsistent
      [] part = "alerts" -> Alerts!HiddenOnPurpose /\ Alerts!CriticalIsEarned
      [] part = "inventory" -> Inventory!RemovalIsConfirmed
      [] part = "lasting" -> Lasting!RemovalIsConfirmed
      [] part = "together" -> Together!ListedOnce /\ Together!ControlledIsListed /\ Together!ReturnsAsItWas
      [] part = "history" -> History!HistoryIsBounded /\ History!EvidenceSharesWindow
      [] part = "alone" -> Alone!ListedOnce /\ Alone!ControlledIsListed /\ Alone!ReturnsAsItWas
      [] OTHER -> TRUE

\* What holds an application stays reachable: no edit and no deletion takes a limited or pinned one from
\* the list.  (set_controlled_app_processes, purge_controlled_app.)
HoldsStayReachable ==
    [][CASE part = "together" -> Together!HoldsKept [] part = "alone" -> Alone!HoldsKept [] OTHER -> TRUE]_all

\* The level of pressure is that of the machine: stalls, smoothed scores, disks judged by their media,
\* packets that were lost, and nothing that lasts when its cause is gone.
\* (PSI.get_pressure, _classify_with_hysteresis, compute_disk_pressure, NetworkPressureMonitor.sample.)
PressureIsReal ==
    CASE part = "psi" -> Psi!OverlapsAreForgotten
      [] part = "pressure" -> Pressure!LevelFitsScore
      [] part = "disk" -> Disk!LoadIsJudgedByMedia /\ Disk!SwampedDiskIsCritical /\ Disk!QuietDisksAreCalm
      [] part = "network" -> /\ Network!CriticalIsReal /\ Network!LossIsSeen
                             /\ Network!PressureFades /\ Network!GaugeShowsLevels
      [] OTHER -> TRUE
=============================================================================
