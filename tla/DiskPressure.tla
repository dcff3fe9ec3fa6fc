---------------------------- MODULE DiskPressure ----------------------------
(***************************************************************************)
(* How hard the disks work (disk_pressure.py): DiskIOMonitor compares two  *)
(* readings of the kernel's counters, judges each disk by what its media   *)
(* sustains, and combines them; PressureAnalyzer weighs the result with    *)
(* the time that tasks were stalled (pressure.py).  Disks come and go.     *)
(*                                                                         *)
(* Scores are permille.  The logistic curve of a measure is taken in three *)
(* steps: nothing up to half of its middle, all from three halves of it,   *)
(* half between.  What comes after the raw score is PressureLevels'.       *)
(***************************************************************************)
EXTENDS Integers, FiniteSets, FiniteSetsExt

CONSTANTS
  Names,   \* the kernel's names of disks
  Devices  \* Devices[n]: the devices that may have the name n

NoDevice == "none"

VARIABLES
  plugged,  \* the device behind each name
  known,    \* the media each name was found to be, for ever
  compared, \* what the last reading saw of each name: nothing, this device or another
  report,   \* the result of the last measurement
  truth     \* history: what the disks did in it, how tasks were stalled, and which disks were
            \* compared with themselves and judged by their own media, or were new

vars == <<plugged, known, compared, report, truth>>

\* What a disk may do between two readings: utilisation in percent, the time of one operation in
\* ms and the operations in flight.  flush is the log being written on an idle disk, write what a
\* stick does when it is written to, swamped more than any disk sustains.
Load(l) ==
    CASE l = "idle"    -> [util |-> 0,   await |-> 0,  queue |-> 0]
      [] l = "flush"   -> [util |-> 10,  await |-> 60, queue |-> 0]
      [] l = "write"   -> [util |-> 100, await |-> 10, queue |-> 0]
      [] l = "deep"    -> [util |-> 100, await |-> 10, queue |-> 6]
      [] l = "swamped" -> [util |-> 100, await |-> 60, queue |-> 50]
Loads == {"idle", "flush", "write", "deep", "swamped"}

\* stalled: some tasks, and all of them; blamed: all of it is a limited application's doing
Stalls == {s \in [some : {0, 1000}, full : {0, 300, 1000}, blamed : BOOLEAN] : s.full <= s.some}

-----------------------------------------------------------------------------
(* The judgement of one disk.                                              *)

\* what sysfs says of each device
Facts(d) ==
    CASE d = "nvme"    -> [name |-> "nvme", usb |-> FALSE, rotational |-> "no", depth |-> 1000]
      [] d = "stick"   -> [name |-> "sd", usb |-> TRUE, rotational |-> "no", depth |-> 1]
      [] d = "card"    -> [name |-> "mmcblk", usb |-> FALSE, rotational |-> "no", depth |-> 0]
      [] d = "ssd"     -> [name |-> "sd", usb |-> FALSE, rotational |-> "no", depth |-> 32]
      [] d = "spindle" -> [name |-> "sd", usb |-> FALSE, rotational |-> "yes", depth |-> 32]

\* a mistake in the order: what does not rotate is a fixed SSD
ClassifiedEarly(d) ==
    LET f == Facts(d)
    IN IF f.rotational = "no" /\ f.name = "sd" THEN "sata_ssd"
       ELSE IF f.name = "nvme" THEN "nvme" ELSE IF f.name = "mmcblk" THEN "mmc" ELSE "hdd"
\* _classify_media; a device whose rotation cannot be read is left out
Classified(d) ==
    LET f == Facts(d)
    IN IF f.name = "nvme" THEN "nvme" ELSE IF f.usb THEN "usb"
       ELSE IF f.name = "mmcblk" THEN "mmc" ELSE IF f.rotational = "yes" THEN "hdd" ELSE "sata_ssd"

Media == {"nvme", "usb", "mmc", "hdd", "sata_ssd"}

\* the middles: _UTIL_HALF, _AWAIT_HALF_MS and _QUEUE_HALF_DEFAULT
Middle(m) ==
    CASE m = "nvme"     -> [util |-> 95, await |-> 1,  queue |-> 32]
      [] m = "usb"      -> [util |-> 80, await |-> 30, queue |-> 1]
      [] m = "mmc"      -> [util |-> 80, await |-> 10, queue |-> 2]
      [] m = "hdd"      -> [util |-> 80, await |-> 20, queue |-> 3]
      [] m = "sata_ssd" -> [util |-> 85, await |-> 5,  queue |-> 16]

\* the device's own depth makes it more sensitive, never less; a spindle's is not believed
QueueMiddle(m, depth) ==
    IF m = "hdd" \/ depth < 1 \/ depth > Middle(m).queue THEN Middle(m).queue ELSE depth

\* _sigmoid_pressure in halves
Curve(x, middle) == IF 2 * x <= middle THEN 0 ELSE IF 2 * x >= 3 * middle THEN 2 ELSE 1

\* a mistake in the pressure: what an idle disk's few operations took counts in full
ActivityAlways(util) == 2
\* how far a disk is from idle, in halves
Activity(util) == IF util >= 20 THEN 2 ELSE IF util >= 10 THEN 1 ELSE 0

\* _disk_pressure: 55 % latency, 35 % queue and 10 % utilisation
Pressure(l, m, depth) ==
    LET s == Load(l)
    IN (Activity(s.util) * (275 * Curve(s.await, Middle(m).await)
                            + 175 * Curve(s.queue, QueueMiddle(m, depth)))) \div 2
       + 50 * Curve(s.util, Middle(m).util)

-----------------------------------------------------------------------------
(* All disks, and the stall.                                               *)

Sum(p) == MapThenSumSet(LAMBDA n : p[n], DOMAIN p)
Worst(p) == Max({p[n] : n \in DOMAIN p})

\* a mistake in the aggregate: the mean
CombinedMean(p) == IF DOMAIN p = {} THEN 0 ELSE Sum(p) \div Cardinality(DOMAIN p)
\* evaluate: the mean, raised towards 1 by the worst disk
Combined(p) ==
    IF DOMAIN p = {} THEN 0
    ELSE LET mean == Sum(p) \div Cardinality(DOMAIN p)
         IN 1000 - ((1000 - mean) * (1000 - (8 * Worst(p)) \div 10)) \div 1000

Low == 400
Medium == 600
High == 800
\* critical is 1.0 after rounding to two digits
Critical == 995

\* a limited application's own share of the stall counts by 30 %
Stalled(s) ==
    Min({1000, (((s.some \div 2) + 3 * s.full) * (IF s.blamed THEN 3 ELSE 10)) \div 10})

\* a mistake in the gate: a stall counts whatever the disks do
SaturationAny(c) == 1000
\* how far the disks are from where a stall is none of theirs to where it is theirs
Saturation(c) == Max({0, Min({1000, ((c - Low) * 1000) \div (High - Low)})})

\* classify_disk_pressure: the stall raises the score within what is left of it
Raw(c, s) == c + ((1000 - c) * ((Stalled(s) * Saturation(c)) \div 1000)) \div 1000

-----------------------------------------------------------------------------
NoStall == [some |-> 0, full |-> 0, blamed |-> FALSE]
NoReport == [score |-> 0, busy |-> {}]
NoTruth == [did |-> [n \in Names |-> "idle"], disk |-> [n \in Names |-> NoDevice],
            stall |-> NoStall, own |-> {}, new |-> {}]
Rested == report = NoReport /\ truth = NoTruth

Plug(n) ==
    /\ Rested /\ plugged[n] = NoDevice
    /\ \E d \in Devices[n] : plugged' = [plugged EXCEPT ![n] = d]
    /\ compared' = [compared EXCEPT ![n] = IF @ = "nothing" THEN "nothing" ELSE "another"]
    /\ UNCHANGED <<known, report, truth>>

Unplug(n) ==
    /\ Rested /\ plugged[n] # NoDevice
    /\ plugged' = [plugged EXCEPT ![n] = NoDevice]
    /\ UNCHANGED <<known, compared, report, truth>>

Present == {n \in Names : plugged[n] # NoDevice}

\* a mistake in the sampling: what was not there counts from zero, with all it has ever done
SeenAlways(l, n) == Loads
\* What the difference of the readings shows of the load l: nothing the first time, and anything
\* when the counters are another device's.
Seen(l, n) ==
    CASE compared[n] = "nothing" -> {"idle"} [] compared[n] = "this" -> {l} [] OTHER -> Loads

\* media_for_disk: probed once for each name
Found == [n \in Names |-> IF n \in Present /\ known[n] = NoDevice THEN Classified(plugged[n])
                          ELSE known[n]]

\* _collect_disk_io_stats, evaluate and the raw score: what each disk has done since the last
\* reading, and how the tasks were stalled
Measure ==
    /\ Rested
    /\ \E did \in [Present -> Loads] :
       \E shown \in {f \in [Present -> Loads] : \A n \in Present : f[n] \in Seen(did[n], n)} :
       LET p == [n \in Present |-> Pressure(shown[n], Found[n], Facts(plugged[n]).depth)]
           c == Combined(p)
           busy == {n \in Present : p[n] >= Medium}
       IN \E s \in Stalls :
            /\ report' = [score |-> Raw(c, s), busy |-> busy]
            /\ truth' = [did |-> [n \in Names |-> IF n \in Present THEN did[n] ELSE "idle"],
                         disk |-> plugged, stall |-> s,
                         own |-> {n \in Present : compared[n] = "this"
                                                     /\ Found[n] = Classified(plugged[n])},
                         new |-> {n \in Present : compared[n] = "nothing"}]
    /\ known' = Found
    /\ compared' = [n \in Names |-> IF n \in Present THEN "this" ELSE "nothing"]
    /\ UNCHANGED plugged

\* the result has been used, and is not kept: what follows depends on the readings only
Rest ==
    /\ report' = NoReport /\ truth' = NoTruth
    /\ UNCHANGED <<plugged, known, compared>>

-----------------------------------------------------------------------------
Init ==
    /\ plugged \in [Names -> {NoDevice} \cup UNION {Devices[n] : n \in Names}]
    /\ \A n \in Names : plugged[n] \in {NoDevice} \cup Devices[n]
    /\ known = [n \in Names |-> NoDevice]
    /\ compared = [n \in Names |-> IF n \in Present THEN "this" ELSE "nothing"]
    /\ Rested

Next == (\E n \in Names : Plug(n) \/ Unplug(n)) \/ Measure \/ Rest

Spec == Init /\ [][Next]_vars

TypeOK ==
    /\ \A n \in Names : plugged[n] \in {NoDevice} \cup Devices[n]
    /\ known \in [Names -> {NoDevice} \cup Media]
    /\ compared \in [Names -> {"nothing", "this", "another"}]
    /\ report \in [score : 0..1000, busy : SUBSET Names]
    /\ truth.did \in [Names -> Loads] /\ truth.stall \in Stalls
    /\ \A n \in Names : truth.disk[n] \in {NoDevice} \cup Devices[n]
    /\ truth.own \subseteq Names /\ truth.new \subseteq Names

-----------------------------------------------------------------------------
\* A disk is busy when it does more than any sustains, and a slow one is not for what is routine
\* for it.
LoadIsJudgedByMedia ==
    \A n \in truth.own :
        /\ truth.did[n] = "swamped" => n \in report.busy
        /\ truth.did[n] = "write" /\ truth.disk[n] \in {"stick", "card", "spindle"}
             => n \notin report.busy

\* One swamped disk of a few is critical when every task waits, whatever the others do and whoever
\* is to blame for it.  Each idle disk lowers the mean: of eight or more, one may not be enough.
SwampedDiskIsCritical ==
    (\E n \in truth.own : truth.did[n] = "swamped") /\ truth.stall.full = 1000
        => report.score >= Critical

\* Disks that are new, or do no more than a few operations in the background, are no pressure,
\* however long tasks wait.
QuietDisksAreCalm ==
    (\A n \in Names : \/ truth.disk[n] = NoDevice \/ n \in truth.new
                      \/ n \in truth.own /\ truth.did[n] \in {"idle", "flush"})
        => report.score < Medium /\ report.busy = {}
=============================================================================
