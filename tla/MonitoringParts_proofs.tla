----------------------- MODULE MonitoringParts_proofs ------------------------
(***************************************************************************)
(* Theorems about what the service measures, keeps and shows: alerts (A),  *)
(* levels of pressure (P), statistics of applications (S), samples of      *)
(* stalls (Q), revisions of the inventory (R), changes of the level (T),   *)
(* scans of the log (L), pressure on the network (N), settings that are    *)
(* edited by several clients (G), the history of snapshots (H), answers to *)
(* requests (C) and the load of the disks (D), each for any values of its  *)
(* own constants.  A theorem is about one of them; names that several of   *)
(* them give to a variable are shared by their instances.                  *)
(*                                                                         *)
(* Alerts: an event that is still to be folded in has begun no occurrence, *)
(* so that no two occurrences in the archive begin with one.               *)
(* Levels: the peak is above all that was published since the question.    *)
(* Statistics: what is left of the sleep counts towards the age; a parked  *)
(* refresher has dropped what it had, and is woken by what it did not see. *)
(* Stalls: a reading takes no time, and two that overlap are both odd.     *)
(* Inventory: the last change noted of a field has the field's value.      *)
(* Changes: a pending change began with its side's first reading.          *)
(* Log: what any cursor may have passed when the scan ends is reported,    *)
(* rightly missed or still to be processed.                                *)
(* Network: every sample kept tells what has been lost since it, and when. *)
(* Settings: a form that does not show the values in force has an older    *)
(* stamp, or a save that will move the stamp on is under way; a save that  *)
(* nobody has overtaken still fits what it has validated, unless it is     *)
(* going to store other values, or leave the file without one.             *)
(* History: the rows that must be there are the last ones, and no sweep    *)
(* that is under way or follows a save goes by less than their days.       *)
(* Answers: outside quiet mode the collector will have replaced a settled  *)
(* cache before it is too old, and a request may take what it had.         *)
(* Disks: a sum is above each of its parts, and a mean of up to seven has  *)
(* a seventh of the worst; the curves and the gate by their bounds.        *)
(***************************************************************************)
EXTENDS Integers, SequenceTheorems, FiniteSetTheorems, WellFoundedInduction, TLAPS

CONSTANTS
  Threads, Ttl, Threshold, Rule, Late, MaxEvents,      \* the alerts'
  Medium, High, Critical, Hysteresis,                  \* the levels'
  Clients, Refresh, Timeout,                           \* the statistics'
  Readers, Window,                                     \* the samples'
  Fields, Values, Absent, MaxRevisions,                \* the inventory's
  Trigger, Clear,                                      \* the tracker's
  PerSecond, Cap, SeenMax, Backfill, MaxLines, MaxBoots, \* the scan's, which shares Late
  Nics, MaxTurns,                                      \* the network's, which shares Window
  Sections,                                            \* the settings', which share Clients
  Collectors, Tabs, Interval, Every, Day, MaxDays, MaxStarts, MaxSwitches, \* the history's
  Names, Devices,                                      \* the disks'
  TTL,                                                 \* the answers', which share Sections, Clients and Interval
  MaxTime                                              \* the clock's bound

VARIABLES
  kind, now, row, archive, eval, sweep, events, fires, closed, acked, overtaken,
  score, sticky, level, peak, told, telling, held,
  quiet, stats, idle, event, ref, req, asked, failing, stranded,
  stalled, pos, reader, last, window,
  revisions, check, misses,
  snapshot, confirmed, dir, since, read, changes,
  src, log, up, cursor, saved, seen, scan, boot, reports, excused,
  present, counters, util, monitor, trouble,
  section, memory, disk, yaml, stamp, snap, clock, holder, form, fresh, raced, moved, spoiled,
  rows, stored, due, days, file, save, made, turns, failed, overdue,
  monitored, coll, cache, probe, unsettled,
  plugged, known, compared, report, truth

A == INSTANCE AlertBook
P == INSTANCE PressureLevels
S == INSTANCE AppStatsCache
Q == INSTANCE PsiSampling
R == INSTANCE InventoryRevisions
T == INSTANCE LevelTracker
L == INSTANCE LogDetector
N == INSTANCE NetworkPressure
G == INSTANCE SharedSettings
H == INSTANCE SnapshotHistory
C == INSTANCE SectionCache
D == INSTANCE DiskPressure

-----------------------------------------------------------------------------
(***************************************************************************)
(* Alerts: the row of the present occurrence, the archive of those         *)
(* before it, and threads that fold events in, in several steps each.      *)
(***************************************************************************)

Folding == {"pending", "fire"}

Rows == [status : {"absent", "pending", "active", "resolved"}, first : Nat \X Nat, seen : Nat, count : Nat,
         ack : BOOLEAN, silenced : BOOLEAN, sev : {"policy", "critical"}, rule : BOOLEAN]

AlertShape ==
    /\ now \in Nat /\ events \in Nat /\ fires \in Nat
    /\ row \in Rows /\ archive \subseteq Rows
    /\ eval \in [Threads -> [at : {"idle", "pending", "fire", "escalate"}, ts : Nat \X Nat, count : Nat]]
    /\ overtaken \in BOOLEAN

\* An event that is being folded in has begun no occurrence yet, and no two threads have the same.
Unused ==
    \A t \in Threads : eval[t].at \in Folding =>
        /\ eval[t].ts[1] <= events
        /\ \A u \in Threads \ {t} : eval[u].at \in Folding => eval[u].ts[1] # eval[t].ts[1]
        /\ \A e \in archive : e.first[1] # eval[t].ts[1]
        /\ row.status = "active" => row.first[1] # eval[t].ts[1]

\* The archive is that of the occurrences that were closed, and the present one is not in it.
Exact ==
    /\ {<<e.first, e.count>> : e \in archive} = closed
    /\ \A e, f \in archive : e.first[1] = f.first[1] => e = f
    /\ \A e \in archive : e.first[1] <= events
    /\ row.status = "active" =>
         /\ row.count = fires /\ row.first[1] <= events
         /\ \A e \in archive : e.first[1] # row.first[1]

\* Only an escalation makes an alert critical; who escalates has a fire of this occurrence.
Earned ==
    /\ row.sev = "critical" => row.rule
    /\ A!HiddenOnPurpose
    /\ row.status = "active" /\ ~overtaken =>
         /\ \A t \in Threads : eval[t].at = "escalate" => eval[t].count <= fires
         /\ row.sev = "critical" => fires >= Threshold

Limits == Late \in Nat /\ Threshold \in Nat

AlertInv == AlertShape /\ Unused /\ Exact /\ Earned

\* The first state: nothing is told, nothing is archived.
LEMMA AlertInit == A!Init => AlertInv
<1> SUFFICES ASSUME A!Init PROVE AlertInv
  OBVIOUS
<1>1. \A t \in Threads : eval[t].at = "idle"
  BY DEF A!Init
<1>2. row.status = "absent" /\ row.sev = "policy" /\ archive = {} /\ closed = {}
  BY DEF A!Init
<1>3. AlertShape
  BY DEF A!Init, A!NoTime, AlertShape, Rows
<1> QED BY <1>1, <1>2, <1>3 DEF A!HiddenOnPurpose, AlertInv, Unused, Folding, Exact, Earned

\* An event has a time stamp that no occurrence has begun with.
LEMMA FaultKeeps == ASSUME Limits, AlertInv, NEW t \in Threads, A!Fault(t) PROVE AlertInv'
<1>0. \A at \in (IF now < Late THEN 0 ELSE now - Late) .. now : at \in Nat
  BY DEF AlertInv, AlertShape, Limits
<1>1. PICK at \in Nat : eval' = [eval EXCEPT ![t] = [at |-> "pending", ts |-> <<events + 1, at>>, count |-> 0]]
  BY <1>0 DEF A!Fault
<1>2. /\ events' = events + 1 /\ UNCHANGED <<now, row, archive, fires, closed, acked, overtaken>>
      /\ eval[t].at = "idle" /\ at \in Nat
  BY DEF A!Fault, AlertInv, AlertShape
<1>3. AlertShape'
  BY <1>1, <1>2 DEF AlertInv, AlertShape
<1>4. /\ eval'[t].at = "pending" /\ eval'[t].ts[1] = events + 1
      /\ \A u \in Threads \ {t} : eval'[u] = eval[u]
  BY <1>1, <1>2 DEF AlertInv, AlertShape
<1>5. Unused'
  BY <1>2, <1>3, <1>4 DEF AlertInv, AlertShape, Unused, Exact, Folding, Rows
<1>6. Exact'
  BY <1>2, <1>3, <1>4 DEF AlertInv, AlertShape, Exact, Rows
<1>7. Earned'
  BY <1>2, <1>4 DEF AlertInv, Earned, A!HiddenOnPurpose
<1> QED BY <1>3, <1>5, <1>6, <1>7 DEF AlertInv

\* A row that is made pending is not of an occurrence yet.
LEMMA PendingKeeps == ASSUME Limits, AlertInv, NEW t \in Threads, A!Pending(t) PROVE AlertInv'
<1>1. /\ UNCHANGED <<now, archive, events, fires, closed, acked, overtaken>>
      /\ eval[t].at = "pending" /\ eval' = [eval EXCEPT ![t].at = "fire"]
      /\ eval'[t].at = "fire" /\ eval'[t].ts = eval[t].ts /\ \A u \in Threads \ {t} : eval'[u] = eval[u]
  BY DEF A!Pending, AlertInv, AlertShape
<1>2. /\ row' \in Rows /\ row'.rule = row.rule /\ (row'.sev = "critical" => row.sev = "critical")
      /\ row'.status = "active" => row' = row
  BY DEF A!Pending, AlertInv, AlertShape, Rows
<1>3. AlertShape'
  BY <1>1, <1>2 DEF AlertInv, AlertShape
<1>4. Unused'
  BY <1>1, <1>2 DEF AlertInv, Unused, Folding
<1>5. Exact'
  BY <1>1, <1>2 DEF AlertInv, Exact
<1>6. Earned'
  BY <1>1, <1>2 DEF AlertInv, Earned, A!HiddenOnPurpose
<1> QED BY <1>3, <1>4, <1>5, <1>6 DEF AlertInv

\* A fire counts in the present occurrence or begins one, with the time stamp of an event that has
\* begun none; a row that begins anew is not critical.
LEMMA FireKeeps == ASSUME Limits, AlertInv, NEW t \in Threads, A!Fire(t) PROVE AlertInv'
<1>1. /\ UNCHANGED <<now, archive, events, closed>>
      /\ eval[t].at = "fire" /\ eval'[t].at \in {"escalate", "idle"}
      /\ eval'[t].count = A!Counted /\ \A u \in Threads \ {t} : eval'[u] = eval[u]
      /\ eval' \in [Threads -> [at : {"idle", "pending", "fire", "escalate"}, ts : Nat \X Nat, count : Nat]]
  <2>1. A!Counted \in Nat
    BY DEF AlertInv, AlertShape, A!Counted, Rows
  <2> DEFINE p == [eval[t] EXCEPT !.at = IF kind = "storm" THEN "escalate" ELSE "idle", !.count = A!Counted]
  <2>2. p \in [at : {"idle", "pending", "fire", "escalate"}, ts : Nat \X Nat, count : Nat]
        /\ p.at \in {"escalate", "idle"} /\ p.count = A!Counted
    BY <2>1 DEF AlertInv, AlertShape
  <2>3. eval' = [eval EXCEPT ![t] = p] /\ eval[t].at = "fire" /\ UNCHANGED <<now, archive, events, closed>>
    BY DEF A!Fire
  <2> HIDE DEF p, A!Counted
  <2> QED BY <2>2, <2>3 DEF AlertInv, AlertShape
<1>2. /\ row' \in Rows /\ row'.status = "active" /\ row'.count = A!Counted /\ row'.rule = row.rule
      /\ row'.sev = A!Severity
      /\ row.status = "active" => row'.first = row.first /\ row'.ack = row.ack
      /\ row.status # "active" => row'.first = eval[t].ts /\ ~row'.ack
  <2> DEFINE b == A!Begun(row, eval[t].ts)
  <2>1. /\ A!Counted \in Nat /\ A!Severity \in {"policy", "critical"} /\ eval[t].ts \in Nat \X Nat /\ eval[t].ts[2] \in Nat
        /\ row \in Rows
    BY DEF AlertInv, AlertShape, A!Counted, A!Severity, Rows
  <2>2. /\ b \in Rows /\ b.rule = row.rule
        /\ row.status = "active" => b.first = row.first /\ b.ack = row.ack
        /\ row.status # "active" => b.first = eval[t].ts /\ ~b.ack
    BY <2>1 DEF A!Begun, Rows
  <2>3. row' = [b EXCEPT !.status = "active", !.count = A!Counted, !.seen = eval[t].ts[2], !.sev = A!Severity]
    BY DEF A!Fire
  <2> HIDE DEF b
  <2> QED BY <2>1, <2>2, <2>3 DEF Rows
<1>3. /\ fires' \in Nat /\ fires' = A!Counted
      /\ row.status = "active" => fires' = fires + 1 /\ UNCHANGED <<acked, overtaken>>
      /\ row.status # "active" => /\ fires' = 1
                                  /\ overtaken' = \E u \in Threads \ {t} : eval[u].at = "escalate"
  <2>1. row.status = "active" => A!Counted = fires + 1
    BY DEF AlertInv, Exact, A!Counted
  <2>2. row.status # "active" => A!Counted = 1
    BY DEF A!Counted
  <2>3. /\ fires' = IF row.status = "active" THEN fires + 1 ELSE 1
        /\ acked' = IF row.status = "active" THEN acked ELSE "no"
        /\ overtaken' = IF row.status = "active" THEN overtaken
                        ELSE \E u \in Threads \ {t} : eval[u].at = "escalate"
    BY DEF A!Fire
  <2>4. fires \in Nat
    BY DEF AlertInv, AlertShape
  <2>5. CASE row.status = "active"
    BY <2>1, <2>3, <2>4, <2>5
  <2>6. CASE row.status # "active"
    BY <2>2, <2>3, <2>6
  <2> QED BY <2>5, <2>6
<1>4. AlertShape'
  BY <1>1, <1>2, <1>3 DEF AlertInv, AlertShape
<1>5. Unused'
  BY <1>1, <1>2 DEF AlertInv, Unused, Folding
<1>6. Exact'
  BY <1>1, <1>2, <1>3 DEF AlertInv, Exact, Unused, Folding
<1>7. Earned'
  <2>1. row'.sev = "critical" => row.status = "active" /\ row.sev = "critical"
    BY <1>2 DEF A!Severity
  <2>2. row.status = "active" => row'.sev = row.sev
    BY <1>2 DEF A!Severity, AlertInv, AlertShape, Rows, Earned
  <2>3. A!HiddenOnPurpose'
    BY <1>2, <1>3, <2>2 DEF AlertInv, Earned, A!HiddenOnPurpose
  <2>4. CASE row.status = "active"
    <3>1. ASSUME ~overtaken', NEW u \in Threads, eval'[u].at = "escalate" PROVE eval'[u].count <= fires'
      BY <1>1, <1>3, <2>4, <3>1 DEF AlertInv, AlertShape, Earned
    <3>2. ~overtaken' /\ row'.sev = "critical" => fires' >= Threshold
      BY <1>3, <2>1, <2>4 DEF AlertInv, AlertShape, Earned, Limits
    <3> QED BY <1>2, <2>1, <2>3, <2>4, <3>1, <3>2 DEF AlertInv, Earned
  <2>5. CASE row.status # "active"
    <3>1. ASSUME ~overtaken', NEW u \in Threads, eval'[u].at = "escalate" PROVE eval'[u].count <= fires'
      <4>1. ~ \E v \in Threads \ {t} : eval[v].at = "escalate"
        BY <1>3, <2>5, <3>1
      <4>2. ASSUME u # t PROVE FALSE
        <5>1. eval'[u] = eval[u]
          BY <1>1, <4>2
        <5> QED BY <3>1, <4>1, <4>2, <5>1
      <4>3. u = t
        BY <4>2
      <4> QED BY <1>1, <1>3, <4>3
    <3> QED BY <1>2, <2>1, <2>3, <2>5, <3>1 DEF AlertInv, Earned
  <2> QED BY <2>4, <2>5
<1> QED BY <1>4, <1>5, <1>6, <1>7 DEF AlertInv

\* Only enough fires escalate, those of this occurrence unless it was overtaken; and what escalates
\* is shown again.
LEMMA EscalateKeeps == ASSUME Limits, AlertInv, NEW t \in Threads, A!Escalate(t) PROVE AlertInv'
<1>1. /\ UNCHANGED <<now, archive, events, fires, closed, overtaken>>
      /\ eval[t].at = "escalate" /\ eval'[t].at = "idle" /\ \A u \in Threads \ {t} : eval'[u] = eval[u]
      /\ eval' \in [Threads -> [at : {"idle", "pending", "fire", "escalate"}, ts : Nat \X Nat, count : Nat]]
      /\ acked' = IF row'.sev # row.sev THEN "no" ELSE acked
  BY DEF A!Escalate, AlertInv, AlertShape
<1>2. /\ row' \in Rows /\ row'.status = row.status /\ row'.first = row.first /\ row'.count = row.count
      /\ \/ row' = row
         \/ row'.sev = "critical" /\ row'.rule /\ ~row'.ack /\ eval[t].count >= Threshold
  BY DEF A!Escalate, A!Escalated, A!Storm, AlertInv, AlertShape, Rows
<1>3. AlertShape'
  BY <1>1, <1>2 DEF AlertInv, AlertShape
<1>4. Unused' /\ Exact'
  BY <1>1, <1>2 DEF AlertInv, Unused, Folding, Exact
<1>5. Earned'
  <2>1. CASE row' = row
    BY <1>1, <2>1 DEF AlertInv, Earned, A!HiddenOnPurpose
  <2>2. CASE row'.sev = "critical" /\ row'.rule /\ ~row'.ack /\ eval[t].count >= Threshold
    <3>1. row.status = "active" /\ ~overtaken => fires >= Threshold
      BY <1>1, <2>2 DEF AlertInv, AlertShape, Earned, Limits
    <3> QED BY <1>1, <1>2, <2>2, <3>1 DEF AlertInv, Earned, A!HiddenOnPurpose
  <2> QED BY <1>2, <2>1, <2>2
<1> QED BY <1>3, <1>4, <1>5 DEF AlertInv

\* Closing, however it comes about, archives the present occurrence with all its fires.
LEMMA ClosedKeeps ==
    ASSUME AlertInv, row.status = "active", NEW r \in Rows, r.first = row.first, r.count = row.count,
           r.sev = row.sev, r.rule = row.rule,
           A!Closed(r), UNCHANGED <<now, eval, events, fires, overtaken>>
    PROVE  AlertInv'
<1> DEFINE over == [r EXCEPT !.status = "resolved"]
<1>1. over \in Rows /\ over.first = row.first /\ over.count = fires /\ over.status = "resolved"
      /\ over.sev = row.sev /\ over.rule = row.rule
  BY DEF AlertInv, Exact, Rows
<1>2. archive' = archive \cup {over} /\ row' = over /\ closed' = closed \cup {<<row.first, fires>>}
  BY DEF A!Closed, AlertInv, Exact
<1> HIDE DEF over
<1>3. AlertShape'
  BY <1>1, <1>2 DEF AlertInv, AlertShape
<1>4. Unused'
  BY <1>1, <1>2 DEF AlertInv, Unused
<1>5. Exact'
  <2>1. {<<e.first, e.count>> : e \in archive'} = {<<e.first, e.count>> : e \in archive} \cup {<<over.first, over.count>>}
    BY <1>2
  <2>2. \A e, f \in archive' : e.first[1] = f.first[1] => e = f
    BY <1>1, <1>2 DEF AlertInv, Exact
  <2>3. \A e \in archive' : e.first[1] <= events'
    BY <1>1, <1>2 DEF AlertInv, Exact
  <2> QED BY <1>1, <1>2, <2>1, <2>2, <2>3 DEF AlertInv, Exact
<1>6. Earned'
  BY <1>1, <1>2 DEF AlertInv, Earned, A!HiddenOnPurpose
<1> QED BY <1>3, <1>4, <1>5, <1>6 DEF AlertInv

\* Acknowledging and silencing: what is acknowledged is so at its severity, a fault is closed.
LEMMA OperatorKeeps == ASSUME AlertInv, A!Acknowledge \/ A!Silence PROVE AlertInv'
<1>1. CASE A!Acknowledge /\ kind = "fault"
  <2> DEFINE r == [row EXCEPT !.ack = TRUE]
  <2>1. r \in Rows /\ r.first = row.first /\ r.count = row.count /\ r.sev = row.sev /\ r.rule = row.rule
    BY DEF AlertInv, AlertShape, Rows
  <2>2. row.status = "active" /\ A!Closed(r) /\ UNCHANGED <<now, eval, events, fires, overtaken>>
    BY <1>1 DEF A!Acknowledge
  <2> HIDE DEF r
  <2> QED BY <2>1, <2>2, ClosedKeeps
<1>2. CASE (A!Acknowledge /\ kind # "fault") \/ A!Silence
  <2>1. /\ UNCHANGED <<now, eval, events, fires, overtaken, archive, closed>>
        /\ row' \in Rows /\ row'.status = row.status /\ row'.first = row.first /\ row'.count = row.count
        /\ row'.sev = row.sev /\ row'.rule = row.rule
        /\ acked' = row.sev \/ (acked' = acked /\ row'.ack = row.ack)
    BY <1>2 DEF A!Acknowledge, A!Silence, AlertInv, AlertShape, Rows
  <2>2. AlertShape' /\ Unused' /\ Exact'
    BY <2>1 DEF AlertInv, AlertShape, Unused, Exact
  <2>3. Earned'
    BY <2>1 DEF AlertInv, Earned, A!HiddenOnPurpose
  <2> QED BY <2>2, <2>3 DEF AlertInv
<1> QED BY <1>1, <1>2

\* Every step of the alerts keeps the invariant.
LEMMA AlertStep == Limits /\ AlertInv /\ [A!Next]_A!vars => AlertInv'
<1> SUFFICES ASSUME Limits, AlertInv, [A!Next]_A!vars PROVE AlertInv'
  OBVIOUS
<1>1. CASE A!Recovery \/ (A!Sweep /\ row.status = "active")
  <2>1. A!Closed(row) /\ UNCHANGED <<now, eval, events, fires, overtaken>> /\ row.status = "active"
    BY <1>1 DEF A!Recovery, A!Sweep
  <2> QED BY <2>1, ClosedKeeps DEF AlertInv, AlertShape
<1>2. CASE A!Look \/ A!Tick \/ UNCHANGED A!vars \/ (A!Sweep /\ row.status # "active")
  <2>1. UNCHANGED <<row, archive, eval, events, fires, closed, acked, overtaken>> /\ now' \in Nat
    BY <1>2 DEF A!Look, A!Tick, A!Sweep, A!vars, AlertInv, AlertShape
  <2> QED BY <2>1 DEF AlertInv, AlertShape, Unused, Exact, Earned, A!HiddenOnPurpose
<1> QED BY <1>1, <1>2, FaultKeeps, PendingKeeps, FireKeeps, EscalateKeeps, OperatorKeeps DEF A!Next

\* The invariant of the alerts holds in every reachable state.
LEMMA AlertInvariant == Limits /\ A!Spec => []AlertInv
<1> SUFFICES ASSUME Limits PROVE A!Spec => []AlertInv
  OBVIOUS
<1>1. AlertInv /\ [A!Next]_A!vars => AlertInv'
  BY AlertStep
<1> QED BY <1>1, AlertInit, PTL DEF A!Spec

\* For any number of threads and events, the archive has every occurrence that was closed, once and
\* with all its fires, although the row it is copied from is used again.  (record_fire, resolve,
\* resolve_expired, _archive_episode.)
THEOREM OccurrencesAreArchived == Limits /\ A!Spec => []A!EpisodesAreExact
<1>1. AlertInv => A!EpisodesAreExact
  BY DEF AlertInv, Exact, A!EpisodesAreExact
<1> QED BY <1>1, AlertInvariant, PTL

\* For any number of threads and events, an active alert is out of sight only if the operator
\* acknowledged this occurrence at the severity it has.  (acknowledge, record_fire, escalate.)
THEOREM AlertsAreHiddenOnPurpose == Limits /\ A!Spec => []A!HiddenOnPurpose
<1>1. AlertInv => A!HiddenOnPurpose
  BY DEF AlertInv, Earned
<1> QED BY <1>1, AlertInvariant, PTL

\* For any number of threads and any threshold, a storm is critical only after enough fires of its
\* own, unless it began while an older event was still being escalated.  (evaluate, escalate.)
THEOREM StormsAreEarned == Limits /\ A!Spec => []A!CriticalIsEarned
<1>1. AlertInv => A!CriticalIsEarned
  BY DEF AlertInv, Earned, A!CriticalIsEarned
<1> QED BY <1>1, AlertInvariant, PTL

-----------------------------------------------------------------------------
(***************************************************************************)
(* Levels of pressure: what is classified, published and handed on.        *)
(***************************************************************************)

\* The thresholds are scores.
Thresholds == Medium \in Nat /\ High \in Nat /\ Critical \in Nat /\ Hysteresis \in Nat

\* What was published is in the history, and nothing of that is above the peak.
PeakKnown ==
    /\ DOMAIN level = P!Channels /\ DOMAIN peak = P!Channels /\ DOMAIN held = P!Channels
    /\ \A c \in P!Channels : level[c] \in held[c]
    /\ P!NoPeakIsMissed

\* A channel that was classified has a score, and its level fits.
Fits(s, l) ==
    /\ l \in P!Levels \cup {P!None} /\ s \in P!Scores \cup {P!NoScore}
    /\ l # P!None =>
         /\ s \in P!Scores
         /\ P!Rank(P!Plain(s)) <= P!Rank(l) /\ P!Entry(l) <= s + Hysteresis
         /\ l = "critical" <=> s = Critical

Classified ==
    /\ score \in [P!Channels -> P!Scores \cup {P!NoScore}]
    /\ sticky \in [P!Channels -> P!Levels \cup {P!None}]
    /\ \A c \in P!Channels : Fits(score[c], sticky[c])

\* One classification: whatever the level was, the new one fits the new score.
LEMMA StickyFits ==
    ASSUME Thresholds, NEW s \in P!Scores, NEW old \in P!Levels \cup {P!None}
    PROVE  Fits(s, P!Sticky(s, old)) /\ P!Sticky(s, old) # P!None
<1> USE DEF Thresholds, P!Scores, P!Levels, P!None
<1>1. s \in Nat /\ s <= Critical /\ P!Plain(s) \in P!Levels /\ P!Entry(P!Plain(s)) <= s
      /\ (P!Plain(s) = "critical" <=> s = Critical)
  BY DEF P!Plain, P!Entry
<1>2. CASE P!Sticky(s, old) = P!Plain(s)
  <2>1. P!Rank(P!Plain(s)) \in Nat
    BY DEF P!Rank
  <2>2. P!Entry(P!Plain(s)) \in Nat
    BY DEF P!Entry
  <2> QED BY <1>1, <1>2, <2>1, <2>2 DEF Fits
<1>3. CASE P!Sticky(s, old) # P!Plain(s)
  <2>1. /\ P!Sticky(s, old) = old /\ old # P!None /\ old # "critical"
        /\ ~(P!Rank(P!Plain(s)) >= P!Rank(old)) /\ ~(s + Hysteresis < P!Entry(old))
    BY <1>3 DEF P!Sticky
  <2>2. P!Rank(P!Plain(s)) \in Nat /\ P!Rank(old) \in Nat /\ P!Entry(old) \in Nat /\ P!Rank(old) <= 3
    BY <2>1 DEF P!Rank, P!Entry
  <2>3. P!Plain(s) # "critical"
    BY <2>1, <2>2 DEF P!Rank
  <2> QED BY <1>1, <2>1, <2>2, <2>3 DEF Fits
<1> QED BY <1>2, <1>3

\* Publishing levels raises the peaks to them.
LEMMA PublishKeeps ==
    ASSUME PeakKnown, NEW l, DOMAIN l = P!Channels, P!Publish(l)
    PROVE  PeakKnown'
<1> HIDE DEF P!Channels
<1>1. \A x : P!Rank(x) \in Nat
  BY DEF P!Rank
<1>2. /\ level' = l
      /\ peak' = [c \in P!Channels |-> IF P!Rank(l[c]) > P!Rank(peak[c]) THEN l[c] ELSE peak[c]]
      /\ held' = [c \in P!Channels |-> held[c] \cup {l[c]}]
  BY DEF P!Publish
<1>3. ASSUME NEW c \in P!Channels, NEW x \in held'[c] PROVE P!Rank(x) <= P!Rank(peak'[c])
  <2>1. x = l[c] \/ (x \in held[c] /\ P!Rank(x) <= P!Rank(peak[c]))
    BY <1>2, <1>3 DEF PeakKnown, P!NoPeakIsMissed
  <2>2. peak'[c] = IF P!Rank(l[c]) > P!Rank(peak[c]) THEN l[c] ELSE peak[c]
    BY <1>2
  <2> HIDE DEF P!Rank
  <2>3. P!Rank(l[c]) \in Nat /\ P!Rank(peak[c]) \in Nat /\ P!Rank(x) \in Nat
    BY <1>1
  <2> QED BY <2>1, <2>2, <2>3
<1> QED BY <1>2, <1>3 DEF PeakKnown, P!NoPeakIsMissed

\* Every step of the levels keeps what is known of peaks and of levels.
LEMMA PressureStep ==
    Thresholds /\ PeakKnown /\ Classified /\ [P!Next]_P!vars => PeakKnown' /\ Classified'
<1> SUFFICES ASSUME Thresholds, PeakKnown, Classified, [P!Next]_P!vars PROVE PeakKnown' /\ Classified'
  OBVIOUS
<1>1. CASE P!Refresh
  <2>1. /\ score' \in [P!Channels -> P!Scores] /\ P!Publish(sticky')
        /\ sticky' = [c \in P!Channels |-> P!Sticky(score'[c], sticky[c])]
    BY <1>1 DEF P!Refresh
  <2>2. PeakKnown'
    BY <2>1, PublishKeeps
  <2>3. \A c \in P!Channels : Fits(score'[c], sticky'[c])
    BY <2>1, StickyFits DEF Classified
  <2>4. \A c \in P!Channels : sticky'[c] \in P!Levels \cup {P!None}
    BY <2>3 DEF Fits
  <2> QED BY <2>1, <2>2, <2>3, <2>4 DEF Classified
<1>2. CASE P!Failed
  <2>1. PeakKnown'
    BY <1>2, PublishKeeps DEF P!Failed
  <2>2. CASE UNCHANGED <<score, sticky>>
    BY <2>1, <2>2 DEF Classified, Fits
  <2>3. CASE ~UNCHANGED <<score, sticky>>
    <3>1. PICK s \in P!Scores : /\ score' = [score EXCEPT !["disk"] = s]
                                /\ sticky' = [sticky EXCEPT !["disk"] = P!Sticky(s, sticky["disk"])]
      BY <1>2, <2>3 DEF P!Failed
    <3>2. sticky["disk"] \in P!Levels \cup {P!None}
      BY DEF Classified, P!Channels
    <3>3. Fits(s, P!Sticky(s, sticky["disk"])) /\ P!Sticky(s, sticky["disk"]) \in P!Levels \cup {P!None}
      BY <3>2, StickyFits DEF Fits
    <3>4. \A c \in P!Channels : Fits(score'[c], sticky'[c])
      BY <3>1, <3>3 DEF Classified
    <3> QED BY <2>1, <3>1, <3>3, <3>4 DEF Classified
  <2> QED BY <2>2, <2>3
<1>3. CASE P!Consume
  <2>1. PeakKnown'
    <3>1. \A x : P!Rank(x) \in Nat
      BY DEF P!Rank
    <3>2. /\ level' = level /\ peak' = level /\ held' = [c \in P!Channels |-> {level[c]}]
      BY <1>3 DEF P!Consume, P!Restarted
    <3> HIDE DEF P!Rank
    <3> QED BY <3>1, <3>2 DEF PeakKnown, P!NoPeakIsMissed
  <2> QED BY <1>3, <2>1 DEF P!Consume, Classified, Fits
<1>4. CASE P!TellCritical \/ P!TellLevels \/ UNCHANGED P!vars
  BY <1>4 DEF P!TellCritical, P!TellLevels, P!vars, PeakKnown, P!NoPeakIsMissed, Classified, Fits
<1> QED BY <1>1, <1>2, <1>3, <1>4 DEF P!Next

\* Peaks and levels are right in every reachable state.
LEMMA PressureInvariant == Thresholds /\ P!Spec => [](PeakKnown /\ Classified)
<1> SUFFICES ASSUME Thresholds PROVE P!Spec => [](PeakKnown /\ Classified)
  OBVIOUS
<1>1. P!Init => PeakKnown
  BY DEF P!Init, PeakKnown, P!NoPeakIsMissed, P!Channels, P!Rank
<1>2. P!Init => Classified
  BY DEF P!Init, Classified, Fits, P!Channels, P!NoScore, P!None
<1>3. PeakKnown /\ Classified /\ [P!Next]_P!vars => (PeakKnown /\ Classified)'
  BY PressureStep
<1> QED BY <1>1, <1>2, <1>3, PTL DEF P!Spec

\* For any thresholds and any sequence of scores, failed refreshes and questions, the balancer is
\* answered with a level at least as high as any since it last asked.  (consume_peak_levels.)
THEOREM PeaksReachTheBalancer == Thresholds /\ P!Spec => []P!NoPeakIsMissed
<1>1. PeakKnown => P!NoPeakIsMissed
  BY DEF PeakKnown
<1> QED BY <1>1, PressureInvariant, PTL

\* For any thresholds and any sequence of scores, a level is the one of its smoothed score or one
\* that the score has left by no more than the hysteresis.  (_classify_with_hysteresis.)
THEOREM LevelsFollowScores == Thresholds /\ P!Spec => []P!LevelFitsScore
<1>1. Classified => P!LevelFitsScore
  BY DEF Classified, Fits, P!LevelFitsScore
<1> QED BY <1>1, PressureInvariant, PTL

-----------------------------------------------------------------------------
(***************************************************************************)
(* Statistics of the applications: the refresher that parks and the        *)
(* requests that wake it.                                                  *)
(***************************************************************************)

Periods == Refresh \in Nat /\ Timeout \in Nat

\* The refresher that is about to park, or has, is still to be woken by what came after its last look.
Heard == asked /\ ref.pc \in {"drop", "wait"} => event \/ \E c \in Clients : req[c].pc = "noted"

\* The refresher has sampled within its period, what is left of its sleep included; a parked one has
\* dropped what it had.
Young ==
    /\ stats \in 0 .. S!None
    /\ ref \in [pc : {"look", "drop", "wait", "clear", "sample", "sleep"}, left : 0 .. Refresh]
    /\ ref.left > 0 => ref.pc = "sleep"
    /\ ~failing /\ ~stranded =>
         /\ stats = S!None \/ stats + ref.left <= Refresh
         /\ ref.pc = "wait" /\ ~event => stats = S!None

Requests == req \in [Clients -> [pc : {"idle", "asked", "noted", "sample", "answered"}, age : 0 .. S!None]]
StatsInv == Heard /\ Young /\ Requests

\* Every step of the refresher, the clients and quiet mode keeps the invariant.
LEMMA StatsStep == Periods /\ StatsInv /\ [S!Next]_S!vars => StatsInv'
<1> SUFFICES ASSUME Periods, StatsInv, [S!Next]_S!vars PROVE StatsInv'
  OBVIOUS
<1> USE DEF Periods, StatsInv, Heard, Young, Requests, S!None, S!Cap
<1>1. CASE S!Look \/ S!Drop \/ S!Wake \/ S!Clear \/ S!Awake
  <2>1. Heard' /\ Requests'
    BY <1>1 DEF S!Look, S!Drop, S!Wake, S!Clear, S!Awake, S!Ref, S!Shared
  <2>2. Young'
    BY <1>1 DEF S!Look, S!Drop, S!Wake, S!Clear, S!Awake, S!Ref, S!Shared
  <2> QED BY <2>1, <2>2
<1>2. ASSUME NEW ok \in BOOLEAN, S!Sample(ok) PROVE StatsInv'
  <2>1. Heard' /\ Requests'
    BY <1>2 DEF S!Sample, S!Shared
  <2>2. ref' = [pc |-> "sleep", left |-> Refresh] /\ (stats' = 0 \/ (stats' = stats /\ failing'))
    BY <1>2 DEF S!Sample
  <2>3. Young'
    BY <2>2
  <2> QED BY <2>1, <2>3
<1>3. ASSUME NEW c \in Clients, S!Ask(c) \/ S!Note(c) \/ S!Signal(c) PROVE StatsInv'
  <2>1. CASE S!Ask(c)
    BY <2>1 DEF S!Ask, S!Become, S!Free
  <2>2. CASE S!Note(c)
    BY <2>2 DEF S!Note, S!Become
  <2>3. CASE S!Signal(c)
    BY <2>3 DEF S!Signal, S!Become
  <2> QED BY <1>3, <2>1, <2>2, <2>3
<1>4. ASSUME NEW c \in Clients, NEW ok \in BOOLEAN, S!Fill(c, ok) PROVE StatsInv'
  <2>1. /\ req[c].pc = "sample" /\ UNCHANGED <<quiet, idle, event, ref, asked, failing>>
        /\ stats' = IF ok /\ stats = S!None THEN 0 ELSE stats
        /\ req' = IF ok THEN [req EXCEPT ![c] = [pc |-> "answered", age |-> 0]]
                        ELSE [req EXCEPT ![c] = [pc |-> "idle", age |-> 0]]
    BY <1>4 DEF S!Fill, S!Become
  <2>2. ~stranded' => ~stranded /\ (stats' = stats \/ ref.pc # "wait" \/ event)
    BY <1>4 DEF S!Fill
  <2>3. Requests'
    BY <2>1
  <2>4. Heard'
    <3>1. \A d \in Clients : req[d].pc = "noted" => req'[d] = req[d]
      BY <2>1
    <3> QED BY <2>1, <3>1
  <2>5. Young'
    <3>1. CASE stats' = stats
      BY <2>1, <2>2, <3>1
    <3>2. CASE stats' = 0 /\ stats # 0
      BY <2>1, <2>2, <3>2
    <3> QED BY <2>1, <3>1, <3>2
  <2> QED BY <2>3, <2>4, <2>5
<1>5. CASE S!Quiet \/ UNCHANGED S!vars
  BY <1>5 DEF S!Quiet, S!vars
<1>6. CASE S!Tick
  <2>1. Requests'
    BY <1>6 DEF S!Tick, S!Idle
  <2>2. Young'
    BY <1>6 DEF S!Tick
  <2>3. Heard'
    BY <1>6 DEF S!Tick, S!Free
  <2> QED BY <2>1, <2>2, <2>3
<1> QED BY <1>1, <1>2, <1>3, <1>4, <1>5, <1>6 DEF S!Next

\* The invariant of the statistics holds in every reachable state.
LEMMA StatsInvariant == Periods /\ S!Spec => []StatsInv
<1> SUFFICES ASSUME Periods PROVE S!Spec => []StatsInv
  OBVIOUS
<1>1. S!Init => StatsInv
  BY DEF Periods, StatsInv, Heard, Young, Requests, S!None, S!Cap, S!Init, S!Idle
<1>2. StatsInv /\ [S!Next]_S!vars => StatsInv'
  BY StatsStep
<1> QED BY <1>1, <1>2, PTL DEF S!Spec

\* For any number of clients, the refresher never waits while a request that came after its last
\* look wants it.  (refresh_loop, _app_stats_request_event.)
THEOREM RequestsAreHeard == Periods /\ S!Spec => []S!NoRequestIsMissed
<1>1. StatsInv => S!NoRequestIsMissed
  BY DEF StatsInv, Heard, S!NoRequestIsMissed
<1> QED BY <1>1, StatsInvariant, PTL

\* For any number of clients and any periods, a request is answered with what was sampled within the
\* refresher's period, or samples itself.  (refresh_loop, get_app_resource_stats.)
THEOREM StatisticsAreFresh == Periods /\ S!Spec => [][S!StatsFresh]_S!vars
<1> SUFFICES ASSUME Periods PROVE S!Spec => [][S!StatsFresh]_S!vars
  OBVIOUS
<1>1. ASSUME StatsInv, [S!Next]_S!vars PROVE S!StatsFresh
  <2> SUFFICES ASSUME NEW c \in Clients, req[c].pc = "asked", req'[c].pc = "noted", ~failing, ~stranded
               PROVE  req'[c].age \in 0 .. Refresh \cup {S!None}
    BY DEF S!StatsFresh
  <2>1. S!Note(c)
    BY <1>1 DEF StatsInv, Requests, S!Next, S!vars, S!Look, S!Drop, S!Wake, S!Clear, S!Awake, S!Sample, S!Shared,
      S!Ask, S!Note, S!Signal, S!Fill, S!Become, S!Quiet, S!Tick, S!Idle
  <2>2. req'[c].age = stats
    BY <1>1, <2>1 DEF S!Note, S!Become, StatsInv, Requests
  <2> QED BY <1>1, <2>2 DEF StatsInv, Young, S!None, S!Cap, Periods
<1> QED BY <1>1, StatsInvariant, PTL DEF S!Spec

-----------------------------------------------------------------------------
(***************************************************************************)
(* Samples of stalls: readings of a file that threads share, and the       *)
(* window.                                                                 *)
(***************************************************************************)

\* PsiSampling's cardinality is the one the theorems on finite sets are about.
LEMMA StallsAreCounted == \A s : Q!Cardinality(s) = Cardinality(s)
BY DEF Q!Cardinality, Cardinality

Stalls(from, to) == stalled \cap ((from + 1) .. to)
\* a sample's amount is right
Right(s) == s.amount = Cardinality(Stalls(s.from, s.to))

Times ==
    /\ now \in Nat /\ stalled \subseteq 1 .. now
    /\ reader \in [Readers -> [at : {"idle", "read", "store"}, ts : Nat, total : Nat, odd : BOOLEAN]]
    /\ last \in [known : BOOLEAN, ts : 0 .. now, total : Nat, odd : BOOLEAN]
    /\ window \subseteq [from : Nat, to : 0 .. now, amount : Nat, odd : BOOLEAN]

\* A reading takes no time, and one that nobody overlaps has read everything; the last one, if nobody
\* did, and the samples are right.
Readings ==
    /\ \A r \in Readers : reader[r].at # "idle" =>
         /\ reader[r].ts = now
         /\ ~reader[r].odd =>
              /\ \A u \in Readers \ {r} : reader[u].at = "idle"
              /\ reader[r].at = "read" => pos = "start"
              /\ reader[r].at = "store" => reader[r].total = Cardinality(stalled)
    /\ last.known /\ ~last.odd => last.total = Cardinality(Stalls(0, last.ts))
    /\ \A s \in window : s.odd \/ Right(s)

PsiInv == Times /\ Readings

\* What was stalled up to a second and after it is all that was stalled.
LEMMA StallsAddUp ==
    ASSUME now \in Nat, stalled \subseteq 1 .. now, NEW t \in 0 .. now
    PROVE  /\ Cardinality(stalled) \in Nat /\ Cardinality(Stalls(0, t)) \in Nat
           /\ Cardinality(stalled) = Cardinality(Stalls(0, t)) + Cardinality(Stalls(t, now))
           /\ Cardinality(Stalls(t, now)) \in 0 .. (now - t)
<1>1. IsFiniteSet(stalled) /\ IsFiniteSet(Stalls(0, t)) /\ IsFiniteSet(Stalls(t, now))
  <2>1. IsFiniteSet(1 .. now)
    BY FS_Interval
  <2>2. IsFiniteSet(stalled)
    BY <2>1, FS_Subset
  <2>3. Stalls(0, t) \subseteq stalled /\ Stalls(t, now) \subseteq stalled
    BY DEF Stalls
  <2> QED BY <2>2, <2>3, FS_Subset
<1>2. stalled = Stalls(0, t) \cup Stalls(t, now) /\ Stalls(0, t) \cap Stalls(t, now) = {}
  <2>1. ASSUME NEW x PROVE x \in stalled <=> x \in Stalls(0, t) \/ x \in Stalls(t, now)
    <3>1. x \in stalled => x \in 1 .. now
      OBVIOUS
    <3>2. x \in 1 .. now => x \in 1 .. t \/ x \in (t + 1) .. now
      OBVIOUS
    <3> QED BY <3>1, <3>2 DEF Stalls
  <2>2. ASSUME NEW x \in Stalls(0, t) \cap Stalls(t, now) PROVE FALSE
    BY <2>2 DEF Stalls
  <2> QED BY <2>1, <2>2
<1>3. Cardinality(stalled) = Cardinality(Stalls(0, t)) + Cardinality(Stalls(t, now)) - Cardinality({})
  BY <1>1, <1>2, FS_Union
<1>4. Cardinality({}) = 0
  BY FS_EmptySet
<1>5. Cardinality((t + 1) .. now) = now - t /\ IsFiniteSet((t + 1) .. now)
  <2>1. t + 1 \in Int /\ now \in Int
    OBVIOUS
  <2>2. IsFiniteSet((t + 1) .. now) /\ Cardinality((t + 1) .. now) = IF t + 1 > now THEN 0 ELSE now - (t + 1) + 1
    BY <2>1, FS_Interval
  <2> QED BY <2>2
<1>6. Cardinality(Stalls(t, now)) <= now - t
  BY <1>5, FS_Subset, Stalls(t, now) \subseteq (t + 1) .. now DEF Stalls
<1>7. Cardinality(stalled) \in Nat /\ Cardinality(Stalls(0, t)) \in Nat /\ Cardinality(Stalls(t, now)) \in Nat
  BY <1>1, FS_CardinalityType
<1> QED BY <1>3, <1>4, <1>6, <1>7

\* A reading that begins is odd exactly if another is under way, which it makes odd too.
LEMMA RewindKeeps == ASSUME PsiInv, NEW r \in Readers, Q!Rewind(r) PROVE PsiInv'
<1>1. /\ pos' = "start" /\ UNCHANGED <<now, stalled, last, window>> /\ reader[r].at = "idle"
      /\ DOMAIN reader' = Readers
      /\ reader'[r].at = "read" /\ reader'[r].ts = now /\ (~reader'[r].odd => ~Q!Others(r))
      /\ reader'[r] \in [at : {"idle", "read", "store"}, ts : Nat, total : Nat, odd : BOOLEAN]
  BY DEF Q!Rewind, Q!NoReading, Q!Others, PsiInv, Times
<1>2. ASSUME NEW u \in Readers \ {r}
      PROVE  /\ reader'[u].at = reader[u].at /\ reader'[u].ts = reader[u].ts /\ reader'[u].total = reader[u].total
             /\ reader'[u].at # "idle" => reader'[u].odd
             /\ reader'[u] \in [at : {"idle", "read", "store"}, ts : Nat, total : Nat, odd : BOOLEAN]
  BY <1>2 DEF Q!Rewind, PsiInv, Times
<1>3. Times'
  <2>1. reader' = [u \in Readers |-> reader'[u]]
    BY DEF Q!Rewind
  <2>2. \A u \in Readers : reader'[u] \in [at : {"idle", "read", "store"}, ts : Nat, total : Nat, odd : BOOLEAN]
    BY <1>1, <1>2
  <2> QED BY <1>1, <2>1, <2>2 DEF PsiInv, Times
<1>4. Readings'
  <2>1. \A u \in Readers : reader'[u].at # "idle" => reader'[u].ts = now
    BY <1>1, <1>2 DEF PsiInv, Readings
  <2>2. ASSUME NEW u \in Readers, reader'[u].at # "idle", ~reader'[u].odd
        PROVE  u = r /\ \A v \in Readers \ {r} : reader'[v].at = "idle"
    BY <1>1, <1>2, <2>2 DEF Q!Others
  <2>3. \A s \in window' : s.odd' \/ Right(s)'
    BY <1>1 DEF PsiInv, Readings, Right, Stalls
  <2>4. (last.known /\ ~last.odd => last.total = Cardinality(Stalls(0, last.ts)))'
    BY <1>1 DEF PsiInv, Readings, Stalls
  <2> QED BY <1>1, <2>1, <2>2, <2>3, <2>4 DEF Readings
<1> QED BY <1>3, <1>4 DEF PsiInv

\* A reading that nobody overlaps finds the file at its start and reads all of it.
LEMMA ReadKeeps == ASSUME PsiInv, NEW r \in Readers, Q!Read(r) PROVE PsiInv'
<1>1. Cardinality(stalled) \in Nat
  BY StallsAddUp, 0 \in 0 .. now DEF PsiInv, Times
<1>2. /\ pos' = "end" /\ UNCHANGED <<now, stalled, last, window>> /\ reader[r].at = "read"
      /\ reader' = [reader EXCEPT ![r].at = "store", ![r].total = IF pos = "start" THEN Cardinality(stalled) ELSE 0]
  BY StallsAreCounted DEF Q!Read, Q!Total
<1> DEFINE p == [reader[r] EXCEPT !.at = "store", !.total = IF pos = "start" THEN Cardinality(stalled) ELSE 0]
<1>3. /\ reader' = [reader EXCEPT ![r] = p] /\ p.at = "store" /\ p.ts = reader[r].ts /\ p.odd = reader[r].odd
      /\ p.total = IF pos = "start" THEN Cardinality(stalled) ELSE 0
      /\ p \in [at : {"idle", "read", "store"}, ts : Nat, total : Nat, odd : BOOLEAN]
  BY <1>1, <1>2 DEF PsiInv, Times
<1> HIDE DEF p
<1>4. Times'
  BY <1>2, <1>3 DEF PsiInv, Times
<1>5. Readings'
  <2>1. reader'[r] = p /\ \A u \in Readers \ {r} : reader'[u] = reader[u]
    BY <1>3 DEF PsiInv, Times
  <2>2. ASSUME NEW u \in Readers, reader'[u].at # "idle"
        PROVE  /\ reader'[u].ts = now
               /\ ~reader'[u].odd => /\ u = r /\ \A v \in Readers \ {u} : reader'[v].at = "idle"
                                     /\ reader'[u].total = Cardinality(stalled)
    <3>1. CASE u = r
      <4>1. reader[r].at # "idle" /\ (~p.odd => \A v \in Readers \ {r} : reader[v].at = "idle") /\ (~p.odd => pos = "start")
            /\ p.ts = now
        BY <1>2, <1>3 DEF PsiInv, Readings
      <4> QED BY <1>3, <2>1, <3>1, <4>1
    <3>2. CASE u # r
      <4>1. reader'[u] = reader[u]
        BY <2>1, <3>2
      <4>2. reader[u].ts = now /\ (~reader[u].odd => reader[r].at = "idle")
        BY <2>2, <3>2, <4>1 DEF PsiInv, Readings
      <4> QED BY <1>2, <4>1, <4>2
    <3> QED BY <3>1, <3>2
  <2>3. \A s \in window' : s.odd' \/ Right(s)'
    BY <1>2 DEF PsiInv, Readings, Right, Stalls
  <2>4. (last.known /\ ~last.odd => last.total = Cardinality(Stalls(0, last.ts)))'
    BY <1>2 DEF PsiInv, Readings, Stalls
  <2> QED BY <1>2, <1>3, <2>1, <2>2, <2>3, <2>4 DEF Readings
<1> QED BY <1>4, <1>5 DEF PsiInv

\* A sample between two readings that nobody overlapped is the stalled part of the time between.
LEMMA StoreKeeps == ASSUME PsiInv, NEW r \in Readers, Q!Store(r) PROVE PsiInv'
<1> DEFINE sample == [from |-> Q!Min(last.ts, reader[r].ts), to |-> reader[r].ts,
                      amount |-> Q!Amount(reader[r].ts, reader[r].total), odd |-> last.odd \/ reader[r].odd]
<1>1. /\ UNCHANGED <<now, stalled, pos>> /\ reader[r].at = "store" /\ reader[r].ts = now
      /\ last' = [known |-> TRUE, ts |-> now, total |-> reader[r].total, odd |-> reader[r].odd]
      /\ window' = IF last.known THEN {s \in window \cup {sample} : s.to + Window >= now} ELSE window
      /\ reader' = [reader EXCEPT ![r] = Q!NoReading]
  BY DEF Q!Store, Q!Remembered, PsiInv, Readings
<1>2. /\ now \in Nat /\ last.ts \in 0 .. now /\ last.total \in Nat /\ reader[r].total \in Nat
      /\ reader[r].odd \in BOOLEAN /\ last.odd \in BOOLEAN
  BY DEF PsiInv, Times
<1>3. /\ sample.from = last.ts /\ sample.to = now /\ sample.odd = (last.odd \/ reader[r].odd)
      /\ sample.amount = Q!Amount(now, reader[r].total)
  BY <1>1, <1>2 DEF Q!Min
<1>4. /\ Q!Amount(now, reader[r].total) \in Nat
      /\ Q!Amount(now, reader[r].total) = IF now <= last.ts \/ reader[r].total <= last.total THEN 0
            ELSE IF reader[r].total - last.total < now - last.ts THEN reader[r].total - last.total ELSE now - last.ts
  BY <1>2 DEF Q!Amount, Q!Min
<1>5. sample \in [from : Nat, to : 0 .. now, amount : Nat, odd : BOOLEAN]
  BY <1>1, <1>2, <1>4 DEF Q!Min
<1>6. ~reader[r].odd => reader[r].total = Cardinality(stalled)
  BY <1>1 DEF PsiInv, Readings
<1>7. last.known => sample.odd \/ Right(sample)
  <2> SUFFICES ASSUME last.known, ~last.odd, ~reader[r].odd PROVE Right(sample)
    BY <1>2, <1>3
  <2>1. reader[r].total = Cardinality(stalled) /\ last.total = Cardinality(Stalls(0, last.ts))
    BY <1>6 DEF PsiInv, Readings
  <2>2. /\ Cardinality(stalled) = Cardinality(Stalls(0, last.ts)) + Cardinality(Stalls(last.ts, now))
        /\ Cardinality(Stalls(last.ts, now)) \in 0 .. (now - last.ts)
    BY <1>2, StallsAddUp DEF PsiInv, Times
  <2>3. Q!Amount(now, reader[r].total) = Cardinality(Stalls(last.ts, now))
    BY <1>2, <1>4, <2>1, <2>2
  <2> QED BY <1>3, <2>3 DEF Right
<1> HIDE DEF sample
<1>8. Times'
  <2>1. Q!NoReading \in [at : {"idle", "read", "store"}, ts : Nat, total : Nat, odd : BOOLEAN]
    BY DEF Q!NoReading
  <2>2. window' \subseteq [from : Nat, to : 0 .. now, amount : Nat, odd : BOOLEAN]
    BY <1>1, <1>5 DEF PsiInv, Times
  <2>3. last' \in [known : BOOLEAN, ts : 0 .. now, total : Nat, odd : BOOLEAN]
    BY <1>1, <1>2
  <2> QED BY <1>1, <2>1, <2>2, <2>3 DEF PsiInv, Times
<1>9. Readings'
  <2>1. \A s \in window' : s.odd \/ Right(s)
    BY <1>1, <1>7 DEF PsiInv, Readings
  <2>2. \A s : Right(s)' <=> Right(s)
    BY <1>1 DEF Right, Stalls
  <2>3. Stalls(0, now) = stalled
    <3>1. stalled \subseteq 1 .. now /\ 0 + 1 = 1
      BY DEF PsiInv, Times
    <3> QED BY <3>1 DEF Stalls
  <2>4. (last.known /\ ~last.odd => last.total = Cardinality(Stalls(0, last.ts)))'
    BY <1>1, <1>6, <2>3 DEF Stalls
  <2>5. reader'[r].at = "idle" /\ \A u \in Readers \ {r} : reader'[u] = reader[u]
    BY <1>1 DEF PsiInv, Times, Q!NoReading
  <2>6. ASSUME NEW u \in Readers, reader'[u].at # "idle"
        PROVE  reader'[u].ts = now /\ reader'[u].odd
    BY <1>1, <2>5, <2>6 DEF PsiInv, Readings, Times
  <2> QED BY <1>1, <2>1, <2>2, <2>4, <2>6 DEF Readings
<1> QED BY <1>8, <1>9 DEF PsiInv

\* Time adds a second that may be stalled, after those that any reading is about.
LEMMA TickKeeps == ASSUME PsiInv, Q!Tick PROVE PsiInv'
<1>1. /\ now' = now + 1 /\ stalled' \in {stalled, stalled \cup {now + 1}} /\ UNCHANGED <<pos, reader, last, window>>
      /\ \A r \in Readers : reader[r].at = "idle"
  BY DEF Q!Tick
<1>2. \A from \in Nat, to \in 0 .. now : Stalls(from, to)' = Stalls(from, to)
  BY <1>1 DEF PsiInv, Times, Stalls
<1>3. Times'
  <2>1. 0 .. now \subseteq 0 .. (now + 1) /\ now + 1 \in Nat
    BY DEF PsiInv, Times
  <2>2. stalled' \subseteq 1 .. (now + 1)
    BY <1>1 DEF PsiInv, Times
  <2>3. last \in [known : BOOLEAN, ts : 0 .. (now + 1), total : Nat, odd : BOOLEAN]
    BY <2>1 DEF PsiInv, Times
  <2>4. window \subseteq [from : Nat, to : 0 .. (now + 1), amount : Nat, odd : BOOLEAN]
    BY <2>1 DEF PsiInv, Times
  <2> QED BY <1>1, <2>1, <2>2, <2>3, <2>4 DEF PsiInv, Times
<1>4. Readings'
  <2>1. \A s \in window : s.from \in Nat /\ s.to \in 0 .. now
    BY DEF PsiInv, Times
  <2>2. \A s \in window' : s.odd \/ Right(s)'
    BY <1>1, <1>2, <2>1 DEF PsiInv, Readings, Right
  <2>3. last.ts \in 0 .. now /\ 0 \in Nat
    BY DEF PsiInv, Times
  <2>4. (last.known /\ ~last.odd => last.total = Cardinality(Stalls(0, last.ts)))'
    BY <1>1, <1>2, <2>3 DEF PsiInv, Readings
  <2> QED BY <1>1, <2>2, <2>4 DEF Readings
<1> QED BY <1>3, <1>4 DEF PsiInv

\* For any number of threads, readings that overlap may store wrong samples, but every sample between
\* two that do not is true, whatever was read before.  (PSI.get_pressure.)
THEOREM BadSamplesPass == Q!Spec => []Q!OverlapsAreForgotten
<1>1. Q!Init => PsiInv
  <2> SUFFICES ASSUME Q!Init PROVE PsiInv
    OBVIOUS
  <2>1. Times
    BY DEF Q!Init, Q!NoReading, Times
  <2> QED BY <2>1 DEF Q!Init, Q!NoReading, PsiInv, Readings
<1>2. PsiInv /\ [Q!Next]_Q!vars => PsiInv'
  <2>1. ASSUME PsiInv, UNCHANGED Q!vars PROVE PsiInv'
    BY <2>1 DEF Q!vars, PsiInv, Times, Readings, Right, Stalls
  <2> QED BY <2>1, RewindKeeps, ReadKeeps, StoreKeeps, TickKeeps DEF Q!Next
<1>3. PsiInv => Q!OverlapsAreForgotten
  BY StallsAreCounted DEF PsiInv, Readings, Right, Stalls, Q!OverlapsAreForgotten, Q!True
<1> QED BY <1>1, <1>2, <1>3, PTL DEF Q!Spec

-----------------------------------------------------------------------------
(***************************************************************************)
(* Revisions of the inventory: the checks, and what each of them changes.  *)
(***************************************************************************)

\* A field's status, and the stored checks in succession that have missed it.
Agrees(s, m) ==
    /\ s.state = "present" => s.streak = 0 /\ m = 0
    /\ s.state = "unknown" => s.streak = 1 /\ m = 1
    /\ s.state = "removed" => m = 2 /\ s.value = Absent
    /\ s.state = "unavailable" => s.value = Absent

Revision == [status : [Fields -> R!Status], changed : SUBSET Fields, read : [Fields -> R!Readings]]

\* The last revision up to the n-th that gave the field a value.
Source(revs, f, n, i) ==
    /\ i \in 1 .. n /\ (i = 1 \/ f \in revs[i].changed)
    /\ \A j \in 1 .. n : j > i => f \notin revs[j].changed

InventoryInv ==
    /\ revisions \in Seq(Revision) /\ misses \in [Fields -> 0 .. 2]
    /\ check \in [at : {"none", "write", "report"}, read : [Fields -> R!Readings], todo : SUBSET Fields]
    /\ \A f \in Fields : Agrees(R!Known[f], misses[f])
    /\ revisions # << >> => \A f \in Fields : \E i \in 1 .. Len(revisions) :
         Source(revisions, f, Len(revisions), i) /\ revisions[i].read[f] = R!Known[f].value

\* The newest revision has a status of each field.
LEMMA KnownIsStatus == InventoryInv => R!Known \in [Fields -> R!Status]
<1> SUFFICES ASSUME InventoryInv PROVE R!Known \in [Fields -> R!Status]
  OBVIOUS
<1>1. R!NoStatus \in R!Status
  BY DEF R!NoStatus, R!Status, R!Readings, R!RemovedAfterMisses
<1>2. CASE revisions = << >>
  BY <1>1, <1>2 DEF R!Known
<1>3. CASE revisions # << >>
  <2>1. Len(revisions) \in 1 .. Len(revisions) /\ revisions \in Seq(Revision)
    BY <1>3 DEF InventoryInv
  <2>2. revisions[Len(revisions)] \in Revision
    BY <2>1
  <2> QED BY <1>3, <2>2 DEF R!Known, Revision
<1> QED BY <1>2, <1>3

\* One field, one check: the status and the number of misses stay in step, and the value changes only
\* when the change is noted, to what was read.
LEMMA FieldStep ==
    ASSUME NEW s \in R!Status, NEW m \in 0 .. 2, NEW v \in R!Readings, Agrees(s, m),
           NEW n, n = (IF v # Absent THEN 0 ELSE IF m = R!RemovedAfterMisses THEN m ELSE m + 1)
    PROVE  /\ R!Classified(s, v) \in R!Status /\ n \in 0 .. 2
           /\ Agrees(R!Classified(s, v), n)
           /\ R!Classified(s, v).value = IF R!Changed(s, v) THEN v ELSE s.value
<1> USE DEF R!Status, R!Readings, R!RemovedAfterMisses, Agrees
<1>1. CASE v # Absent
  BY <1>1 DEF R!Classified, R!Changed
<1>2. CASE v = Absent /\ s.state \notin {"present", "unknown"}
  BY <1>2 DEF R!Classified, R!Changed, R!Missed, R!Removal
<1>3. CASE v = Absent /\ s.state = "present"
  <2> DEFINE t == [s EXCEPT !.state = "unknown", !.streak = s.streak + 1]
  <2>1. s.streak + 1 = 1 /\ ~(1 >= 2)
    BY <1>3
  <2>2. R!Missed(s) = t
    BY <1>3, <2>1 DEF R!Missed
  <2>5. t \in R!Status /\ t.state = "unknown" /\ t.streak = 1 /\ t.value = s.value
    <3>1. s.streak + 1 \in 0 .. R!RemovedAfterMisses
      BY <2>1
    <3> HIDE DEF R!Readings
    <3>2. t.state = "unknown" /\ t.streak = s.streak + 1 /\ t.value = s.value
      OBVIOUS
    <3> QED BY <2>1, <3>1, <3>2
  <2>3. R!Classified(s, v) = t /\ ~R!Changed(s, v)
    BY <1>3, <2>2, <2>5 DEF R!Classified, R!Changed, R!Removal
  <2>4. m = 0 /\ n = 1
    BY <1>3
  <2> HIDE DEF t
  <2> QED BY <1>3, <2>3, <2>4, <2>5
<1>4. CASE v = Absent /\ s.state = "unknown"
  BY <1>4 DEF R!Classified, R!Changed, R!Missed, R!Removal
<1> QED BY <1>1, <1>2, <1>3, <1>4

\* A check that is stored, field by field.
LEMMA CheckedStep ==
    ASSUME InventoryInv
    PROVE  /\ R!Reclassified \in [Fields -> R!Status] /\ R!Counted \in [Fields -> 0 .. 2]
           /\ \A f \in Fields : Agrees(R!Reclassified[f], R!Counted[f])
           /\ \A f \in Fields : R!Reclassified[f].value = IF f \in R!Changes THEN check.read[f] ELSE R!Known[f].value
<1>1. ASSUME NEW f \in Fields
      PROVE  /\ R!Reclassified[f] \in R!Status /\ R!Counted[f] \in 0 .. 2 /\ Agrees(R!Reclassified[f], R!Counted[f])
             /\ R!Reclassified[f].value = IF f \in R!Changes THEN check.read[f] ELSE R!Known[f].value
  <2> DEFINE n == IF check.read[f] # Absent THEN 0
                  ELSE IF misses[f] = R!RemovedAfterMisses THEN misses[f] ELSE misses[f] + 1
  <2>1. R!Known[f] \in R!Status /\ misses[f] \in 0 .. 2 /\ check.read[f] \in R!Readings /\ Agrees(R!Known[f], misses[f])
    BY KnownIsStatus DEF InventoryInv
  <2>2. R!Reclassified[f] = R!Classified(R!Known[f], check.read[f]) /\ R!Counted[f] = n
        /\ (f \in R!Changes <=> R!Changed(R!Known[f], check.read[f]))
    BY DEF R!Reclassified, R!Counted, R!Changes
  <2> HIDE DEF n
  <2>3. n = IF check.read[f] # Absent THEN 0
            ELSE IF misses[f] = R!RemovedAfterMisses THEN misses[f] ELSE misses[f] + 1
    BY DEF n
  <2> QED BY <2>1, <2>2, <2>3, FieldStep
<1> QED BY <1>1 DEF R!Reclassified, R!Counted

\* A check that is stored, by what becomes of the newest revision.
LEMMA StoredKeeps ==
    ASSUME InventoryInv, revisions' \in Seq(Revision), revisions' # << >>, R!Known' = R!Reclassified,
           misses' = R!Counted,
           check' \in [at : {"none", "write", "report"}, read : [Fields -> R!Readings], todo : SUBSET Fields],
           NEW n, n = Len(revisions'),
           \A f \in Fields : \E i \in 1 .. n :
             Source(revisions', f, n, i) /\ revisions'[i].read[f] = R!Reclassified[f].value
    PROVE  InventoryInv'
<1>1. misses' \in [Fields -> 0 .. 2] /\ \A f \in Fields : Agrees(R!Known'[f], misses'[f])
  BY CheckedStep
<1>2. \A f \in Fields : \E i \in 1 .. Len(revisions') :
        Source(revisions', f, Len(revisions'), i) /\ revisions'[i].read[f] = R!Known'[f].value
  OBVIOUS
<1> QED BY <1>1, <1>2 DEF InventoryInv

\* The first revision is what was read.
LEMMA BaselineKeeps == ASSUME InventoryInv, R!Baseline PROVE InventoryInv'
<1> DEFINE r == [status |-> R!Reclassified, changed |-> {}, read |-> check.read]
<1>1. revisions = << >> /\ revisions' = <<r>> /\ misses' = R!Counted /\ check' = [at |-> "none", read |-> R!Nothing, todo |-> {}]
  BY DEF R!Baseline
<1>2. r \in Revision /\ r.status = R!Reclassified /\ r.read = check.read
  BY CheckedStep DEF Revision, InventoryInv
<1> HIDE DEF r
<1>3. R!Known' = R!Reclassified /\ Len(revisions') = 1 /\ revisions'[1] = r /\ revisions' \in Seq(Revision)
  BY <1>1, <1>2 DEF R!Known
<1>4. R!Nothing \in [Fields -> R!Readings]
  BY DEF R!Nothing, R!Readings
<1>5. \A f \in Fields : R!Reclassified[f].value = check.read[f]
  <2>1. \A f \in Fields : R!Known[f] = R!NoStatus
    BY <1>1 DEF R!Known
  <2> QED BY <2>1 DEF R!Reclassified, R!Classified, R!Missed, R!NoStatus
<1>6. \A f \in Fields : Source(revisions', f, 1, 1)
  BY DEF Source
<1>7. \A f \in Fields : \E i \in 1 .. 1 :
        Source(revisions', f, 1, i) /\ revisions'[i].read[f] = R!Reclassified[f].value
  BY <1>2, <1>3, <1>5, <1>6
<1>8. revisions' # << >> /\ check' \in [at : {"none", "write", "report"}, read : [Fields -> R!Readings], todo : SUBSET Fields]
  BY <1>1, <1>4
<1> QED BY <1>1, <1>3, <1>7, <1>8, StoredKeeps

\* A check without changes touches the newest revision's status only.
LEMMA UnchangedKeeps == ASSUME InventoryInv, R!Unchanged PROVE InventoryInv'
<1> DEFINE n == Len(revisions)
<1>1. revisions # << >> /\ R!Changes = {} /\ misses' = R!Counted /\ check' = [at |-> "none", read |-> R!Nothing, todo |-> {}]
      /\ revisions' = [revisions EXCEPT ![n].status = R!Reclassified]
  BY DEF R!Unchanged, R!Touch
<1>2. n \in Nat /\ n >= 1 /\ Len(revisions') = n /\ revisions' \in Seq(Revision)
      /\ revisions'[n].status = R!Reclassified
      /\ \A i \in 1 .. n : revisions'[i].read = revisions[i].read /\ revisions'[i].changed = revisions[i].changed
  <2>1. revisions \in Seq(Revision) /\ n \in Nat /\ n >= 1 /\ n \in 1 .. n
    BY <1>1 DEF InventoryInv
  <2>2. revisions[n] \in Revision
    BY <2>1
  <2> DEFINE r == [revisions[n] EXCEPT !.status = R!Reclassified]
  <2>3. r \in Revision /\ r.status = R!Reclassified /\ r.read = revisions[n].read /\ r.changed = revisions[n].changed
    BY <2>2, CheckedStep DEF Revision
  <2>4. revisions' = [revisions EXCEPT ![n] = r]
    BY <1>1
  <2> HIDE DEF r, n
  <2>5. Len(revisions) = n
    BY DEF n
  <2>6. revisions' \in Seq(Revision) /\ Len(revisions') = n /\ revisions'[n] = r
        /\ \A i \in 1 .. n : i # n => revisions'[i] = revisions[i]
    BY <2>1, <2>3, <2>4, <2>5
  <2> QED BY <2>1, <2>3, <2>6
<1>3. R!Nothing \in [Fields -> R!Readings]
  BY DEF R!Nothing, R!Readings
<1> HIDE DEF n
<1>4. R!Known' = R!Reclassified /\ revisions' # << >>
  BY <1>2 DEF R!Known
<1>5. ASSUME NEW f \in Fields PROVE \E i \in 1 .. n : Source(revisions', f, n, i) /\ revisions'[i].read[f] = R!Reclassified[f].value
  <2>1. PICK i \in 1 .. n : Source(revisions, f, n, i) /\ revisions[i].read[f] = R!Known[f].value
    BY <1>1 DEF InventoryInv, n
  <2>2. Source(revisions', f, n, i)
    BY <1>2, <2>1 DEF Source, n
  <2> QED BY <1>1, <1>2, <2>1, <2>2, CheckedStep
<1>6. check' \in [at : {"none", "write", "report"}, read : [Fields -> R!Readings], todo : SUBSET Fields]
  BY <1>1, <1>3
<1> QED BY <1>1, <1>2, <1>4, <1>5, <1>6, StoredKeeps

\* A revision notes each change, with the value that was read.
LEMMA ReviseKeeps == ASSUME InventoryInv, R!Revise PROVE InventoryInv'
<1> DEFINE n == Len(revisions)
           r == [status |-> R!Reclassified, changed |-> R!Changes, read |-> check.read]
<1>1. revisions # << >> /\ misses' = R!Counted /\ revisions' = Append(revisions, r)
  BY DEF R!Revise
<1>0. check' = [check EXCEPT !.at = "report", !.todo = R!Changes] /\ R!Changes \subseteq Fields
  BY DEF R!Revise, R!Changes
<1>9. check' \in [at : {"none", "write", "report"}, read : [Fields -> R!Readings], todo : SUBSET Fields]
  BY <1>0 DEF InventoryInv
<1>2. r \in Revision /\ r.status = R!Reclassified /\ r.read = check.read /\ r.changed = R!Changes
  BY CheckedStep DEF Revision, InventoryInv, R!Changes
<1> HIDE DEF r
<1>3. n \in Nat /\ n >= 1 /\ Len(revisions') = n + 1 /\ revisions' \in Seq(Revision) /\ revisions'[n + 1] = r
      /\ \A i \in 1 .. n : revisions'[i] = revisions[i]
  BY <1>1, <1>2 DEF InventoryInv
<1>4. R!Known' = R!Reclassified /\ revisions' # << >>
  BY <1>2, <1>3 DEF R!Known
<1> HIDE DEF n
<1>5. ASSUME NEW f \in Fields
      PROVE  \E i \in 1 .. (n + 1) : Source(revisions', f, n + 1, i) /\ revisions'[i].read[f] = R!Reclassified[f].value
  <2>1. CASE f \in R!Changes
    <3>1. Source(revisions', f, n + 1, n + 1)
      BY <1>2, <1>3, <2>1 DEF Source
    <3> QED BY <1>2, <1>3, <2>1, <3>1, CheckedStep
  <2>2. CASE f \notin R!Changes
    <3>1. PICK i \in 1 .. n : Source(revisions, f, n, i) /\ revisions[i].read[f] = R!Known[f].value
      BY <1>1 DEF InventoryInv, n
    <3>2. Source(revisions', f, n + 1, i)
      BY <1>2, <1>3, <2>2, <3>1 DEF Source
    <3> QED BY <1>3, <2>2, <3>1, <3>2, CheckedStep
  <2> QED BY <2>1, <2>2
<1> QED BY <1>1, <1>3, <1>4, <1>5, <1>9, StoredKeeps

\* Every step of a check, or its end half way, keeps the invariant.
LEMMA InventoryStep == InventoryInv /\ [R!Next]_R!vars => InventoryInv'
<1> SUFFICES ASSUME InventoryInv, [R!Next]_R!vars PROVE InventoryInv'
  OBVIOUS
<1>1. CASE R!Begin \/ R!CutOff \/ R!Report \/ UNCHANGED R!vars
  <2>1. UNCHANGED <<revisions, misses>>
    BY <1>1 DEF R!Begin, R!CutOff, R!Report, R!vars
  <2>2. R!Nothing \in [Fields -> R!Readings]
    BY DEF R!Nothing, R!Readings
  <2>3. check' \in [at : {"none", "write", "report"}, read : [Fields -> R!Readings], todo : SUBSET Fields]
    <3>1. CASE R!Begin \/ R!CutOff \/ UNCHANGED R!vars
      BY <2>2, <3>1 DEF R!Begin, R!CutOff, R!vars, InventoryInv
    <3>2. CASE R!Report
      <4>1. PICK f \in check.todo : check' = IF check.todo = {f} THEN [at |-> "none", read |-> R!Nothing, todo |-> {}]
                                             ELSE [check EXCEPT !.todo = check.todo \ {f}]
        BY <3>2 DEF R!Report
      <4> QED BY <2>2, <4>1 DEF InventoryInv
    <3> QED BY <1>1, <3>1, <3>2
  <2> QED BY <2>1, <2>3 DEF InventoryInv, R!Known
<1> QED BY <1>1, BaselineKeeps, UnchangedKeeps, ReviseKeeps DEF R!Next

\* The invariant of the inventory holds in every reachable state.
LEMMA InventoryInvariant == R!Spec => []InventoryInv
<1>1. R!Init => InventoryInv
  BY DEF R!Init, InventoryInv, R!Known, R!NoStatus, R!Nothing, R!Readings, Agrees
<1> QED BY <1>1, InventoryStep, PTL DEF R!Spec

\* For any fields and values, whoever follows the changes from the baseline on arrives at the values
\* of the newest revision, whatever checks failed or were cut off.  (_classify_and_diff, check_once.)
THEOREM ChangesAddUp == R!Spec => []R!HistoryAddsUp
<1>1. ASSUME InventoryInv PROVE R!HistoryAddsUp
  <2> SUFFICES ASSUME revisions # << >>, NEW f \in Fields PROVE R!Replayed(f, Len(revisions)) = R!Known[f].value
    BY DEF R!HistoryAddsUp
  <2> DEFINE n == Len(revisions)
             noted == {i \in 1 .. n : i = 1 \/ f \in revisions[i].changed}
             first == CHOOSE i \in noted : \A j \in noted : j <= i
  <2>1. PICK i \in 1 .. n : Source(revisions, f, n, i) /\ revisions[i].read[f] = R!Known[f].value
    BY <1>1 DEF InventoryInv
  <2>2. i \in noted /\ \A j \in noted : j <= i
    BY <2>1 DEF Source
  <2>3. first \in noted /\ \A j \in noted : j <= first
    BY <2>2
  <2>4. first = i
    BY <2>2, <2>3
  <2> QED BY <2>1, <2>4 DEF R!Replayed
<1> QED BY <1>1, InventoryInvariant, PTL

\* For any fields and values, a field is gone exactly if the last two stored checks have missed it and
\* it had a value before.  (_classify_and_diff.)
THEOREM RemovalsAreConfirmed == R!Spec => []R!RemovalIsConfirmed
<1>1. ASSUME InventoryInv PROVE R!RemovalIsConfirmed
  <2> SUFFICES ASSUME NEW f \in Fields
               PROVE  /\ R!Known[f].state = "removed" => misses[f] = R!RemovedAfterMisses
                      /\ misses[f] = R!RemovedAfterMisses => R!Known[f].value = Absent
    BY DEF R!RemovalIsConfirmed
  <2>1. R!Known[f] \in R!Status /\ Agrees(R!Known[f], misses[f])
    BY <1>1, KnownIsStatus DEF InventoryInv
  <2> QED BY <2>1 DEF Agrees, R!Status, R!RemovedAfterMisses
<1> QED BY <1>1, InventoryInvariant, PTL

-----------------------------------------------------------------------------
(***************************************************************************)
(* Changes of the level: the readings of the tracker, and when one is      *)
(* a change.                                                               *)
(***************************************************************************)

Dwells == Trigger \in Nat /\ Clear \in Nat

Read == [band : T!Bands, ts : Nat]
Change == [from : T!Bands, to : T!Bands, at : Nat]

\* read and changes as parameters, for the states before and after a step
SustainedIn(rs, i, n, base) ==
    LET side == T!Side(rs[n].band, base)
    IN /\ side # "settled"
       /\ rs[n].ts - rs[i].ts >= T!Dwell(side)
       /\ \A j \in i .. n : T!Side(rs[j].band, base) = side
LastIn(cs) == IF cs = << >> THEN 0 ELSE cs[Len(cs)].at
EarnedIn(rs, cs, c) ==
    /\ cs[c].at \in 1 .. Len(rs)
    /\ LET before == IF c = 1 THEN 1 ELSE cs[c - 1].at
       IN /\ \E i \in before .. cs[c].at : SustainedIn(rs, i, cs[c].at, cs[c].from)
          /\ cs[c].from = (IF c = 1 THEN 0 ELSE cs[c - 1].to)

\* The readings have been on this side since the k-th, which is after the last change and the
\* first of them on it, and not for long enough.
Pending(rs, cs, side, from, base, k) ==
    /\ k \in (LastIn(cs) + 1) .. Len(rs) /\ rs[k].ts = from
    /\ \A j \in k .. Len(rs) : T!Side(rs[j].band, base) = side
    /\ k = LastIn(cs) + 1 \/ T!Side(rs[k - 1].band, base) # side
    /\ rs[Len(rs)].ts - from < T!Dwell(side)

TrackShape ==
    /\ now \in Nat /\ snapshot \in Read /\ snapshot.ts <= now /\ confirmed \in T!Bands /\ since \in Nat
    /\ read \in Seq(Read) /\ changes \in Seq(Change) /\ LastIn(changes) \in 0 .. Len(read)
    /\ dir \in {"settled", "up", "down"}

Tracked ==
    /\ \A i, j \in 1 .. Len(read) : i <= j => read[i].ts <= read[j].ts
    /\ \A i \in 1 .. Len(read) : read[i].ts <= snapshot.ts
    /\ dir = IF read = << >> THEN "settled" ELSE T!Side(read[Len(read)].band, confirmed)
    /\ confirmed = IF changes = << >> THEN 0 ELSE changes[Len(changes)].to
    /\ \A c \in 1 .. Len(changes) : EarnedIn(read, changes, c)
    /\ dir # "settled" => \E k \in 1 .. Len(read) : Pending(read, changes, dir, since, confirmed, k)

LevelInv == TrackShape /\ Tracked

\* The parameters of SustainedIn stand for the present readings.
LEMMA SustainedAt == \A i, n, base : T!Sustained(i, n, base) <=> SustainedIn(read, i, n, base)
BY DEF T!Sustained, SustainedIn

\* The scan adds at most one reading, the snapshot, which is then the last.
LEMMA ReadGrows ==
    ASSUME LevelInv, T!Scan
    PROVE  /\ read' \in Seq(Read) /\ Len(read') \in {Len(read), Len(read) + 1} /\ Len(read') >= 1
           /\ read'[Len(read')] = snapshot
           /\ \A i \in 1 .. Len(read) : read'[i] = read[i]
           /\ Len(read') = Len(read) => read' = read
           /\ \A i, j \in 1 .. Len(read') : i <= j => read'[i].ts <= read'[j].ts
           /\ \A i \in 1 .. Len(read') : read'[i].ts <= snapshot.ts
<1>1. read \in Seq(Read) /\ snapshot \in Read /\ Len(read) \in Nat
  BY DEF LevelInv, TrackShape
<1>2. CASE read # << >> /\ read[Len(read)] = snapshot
  <2>1. read' = read
    BY <1>2 DEF T!Scan
  <2> QED BY <1>1, <1>2, <2>1 DEF LevelInv, Tracked
<1>3. CASE ~(read # << >> /\ read[Len(read)] = snapshot)
  <2>1. read' = Append(read, snapshot)
    BY <1>3 DEF T!Scan
  <2>2. read' \in Seq(Read) /\ Len(read') = Len(read) + 1 /\ read'[Len(read) + 1] = snapshot
        /\ \A i \in 1 .. Len(read) : read'[i] = read[i]
    BY <1>1, <2>1
  <2>3. \A i \in 1 .. Len(read') : i \in 1 .. Len(read) \/ i = Len(read) + 1
    BY <1>1, <2>2
  <2>4. ASSUME NEW i \in 1 .. Len(read') PROVE read'[i].ts <= snapshot.ts
    <3>1. CASE i \in 1 .. Len(read)
      BY <2>2, <3>1 DEF LevelInv, Tracked
    <3>2. CASE i = Len(read) + 1
      <4>1. read'[i] = snapshot /\ snapshot.ts \in Nat
        BY <1>1, <2>2, <3>2 DEF Read
      <4> QED BY <4>1
    <3> QED BY <2>3, <3>1, <3>2
  <2>5. ASSUME NEW i \in 1 .. Len(read'), NEW j \in 1 .. Len(read'), i <= j PROVE read'[i].ts <= read'[j].ts
    <3>1. CASE j = Len(read) + 1
      BY <2>2, <2>4, <3>1
    <3>2. CASE j \in 1 .. Len(read)
      <4>1. i \in 1 .. Len(read)
        BY <1>1, <2>3, <2>5, <3>2
      <4> QED BY <2>2, <2>5, <3>2, <4>1 DEF LevelInv, Tracked
    <3> QED BY <2>3, <3>1, <3>2
  <2> QED BY <1>1, <2>2, <2>4, <2>5
<1> QED BY <1>2, <1>3

\* What a change was earned by stays when readings are added.
LEMMA EarnedStays ==
    ASSUME NEW rs \in Seq(Read), NEW more \in Seq(Read), Len(more) >= Len(rs), \A i \in 1 .. Len(rs) : more[i] = rs[i],
           NEW cs \in Seq(Change), NEW c \in 1 .. Len(cs), EarnedIn(rs, cs, c),
           c > 1 => EarnedIn(rs, cs, c - 1)
    PROVE  EarnedIn(more, cs, c)
<1> DEFINE before == IF c = 1 THEN 1 ELSE cs[c - 1].at
<1>1. cs[c].at \in 1 .. Len(rs) /\ before \in 1 .. Len(rs) /\ Len(rs) \in Nat /\ Len(more) \in Nat
  BY DEF EarnedIn
<1>2. PICK i \in before .. cs[c].at : SustainedIn(rs, i, cs[c].at, cs[c].from)
  BY DEF EarnedIn
<1>3. /\ i \in 1 .. Len(rs) /\ \A j \in i .. cs[c].at : more[j] = rs[j]
      /\ more[cs[c].at] = rs[cs[c].at] /\ more[i] = rs[i]
  <2> DEFINE k == cs[c].at
             b == before
  <2> HIDE DEF k, b
  <2>1. k \in 1 .. Len(rs) /\ b \in 1 .. Len(rs) /\ i \in b .. k
    BY <1>1, <1>2 DEF k, b
  <2>2. i \in 1 .. Len(rs) /\ \A j \in i .. k : j \in 1 .. Len(rs)
    BY <2>1, <1>1
  <2>3. \A j \in 1 .. Len(rs) : more[j] = rs[j]
    OBVIOUS
  <2>4. (\A j \in i .. k : more[j] = rs[j]) /\ more[k] = rs[k] /\ more[i] = rs[i]
    BY <2>1, <2>2, <2>3
  <2> QED BY <2>2, <2>4 DEF k
<1>4. SustainedIn(more, i, cs[c].at, cs[c].from)
  BY <1>2, <1>3 DEF SustainedIn
<1> QED BY <1>1, <1>2, <1>4 DEF EarnedIn

\* A reading is above, below or in the band.
LEMMA SideType == \A x, y : T!Side(x, y) \in {"settled", "up", "down"}
BY DEF T!Side

\* The side's first reading after the scan: the one before, or the new one.
LEMMA SideBegins ==
    ASSUME Dwells, LevelInv, T!Scan, NEW side, side = T!Side(snapshot.band, confirmed), side # "settled"
    PROVE  \E k \in (LastIn(changes) + 1) .. Len(read') :
             /\ read'[k].ts = T!Since(side)
             /\ \A j \in k .. Len(read') : T!Side(read'[j].band, confirmed) = side
             /\ k = LastIn(changes) + 1 \/ T!Side(read'[k - 1].band, confirmed) # side
<1> DEFINE n == Len(read)
           m == Len(read')
<1>1. /\ n \in Nat /\ m \in {n, n + 1} /\ m >= 1 /\ read'[m] = snapshot /\ \A i \in 1 .. n : read'[i] = read[i]
      /\ m = n => read' = read
  BY ReadGrows DEF LevelInv, TrackShape
<1>2. LastIn(changes) \in 0 .. n
  BY DEF LevelInv, TrackShape
<1>3. CASE dir = side
  <2>1. PICK k \in 1 .. n : Pending(read, changes, dir, since, confirmed, k)
    BY <1>3 DEF LevelInv, Tracked
  <2>2. /\ k \in (LastIn(changes) + 1) .. n /\ read[k].ts = since /\ \A j \in k .. n : T!Side(read[j].band, confirmed) = side
        /\ k = LastIn(changes) + 1 \/ T!Side(read[k - 1].band, confirmed) # side
    BY <1>3, <2>1 DEF Pending
  <2>3. T!Since(side) = since
    BY <1>3 DEF T!Since
  <2>4. \A j \in k .. m : j \in k .. n \/ j = m
    BY <1>1, <1>2, <2>2
  <2>5. \A j \in k .. m : T!Side(read'[j].band, confirmed) = side
    BY <1>1, <1>2, <2>2, <2>4
  <2>6. k # LastIn(changes) + 1 => k - 1 \in 1 .. n
    BY <1>1, <1>2, <2>2
  <2>7. k \in (LastIn(changes) + 1) .. m /\ read'[k] = read[k]
    BY <1>1, <1>2, <2>2
  <2> QED BY <1>1, <2>2, <2>3, <2>5, <2>6, <2>7
<1>4. CASE dir # side
  <2>1. T!Since(side) = snapshot.ts
    BY <1>4 DEF T!Since
  <2>2. m = n + 1
    <3>1. ASSUME m = n PROVE FALSE
      <4>1. read # << >> /\ read[Len(read)] = snapshot
        BY <1>1, <3>1
      <4>2. dir = T!Side(snapshot.band, confirmed)
        BY <4>1 DEF LevelInv, Tracked
      <4> QED BY <1>4, <4>2
    <3> QED BY <1>1, <3>1
  <2>3. n > LastIn(changes) => T!Side(read'[n].band, confirmed) # side
    <3> SUFFICES ASSUME n > LastIn(changes) PROVE T!Side(read'[n].band, confirmed) # side
      OBVIOUS
    <3>1. n \in 1 .. n /\ read # << >>
      BY <1>1, <1>2 DEF LevelInv, TrackShape
    <3>2. dir = T!Side(read[n].band, confirmed)
      BY <3>1 DEF LevelInv, Tracked
    <3> QED BY <1>1, <1>4, <3>1, <3>2
  <2>4. m \in (LastIn(changes) + 1) .. m /\ m - 1 = n /\ (n > LastIn(changes) \/ m = LastIn(changes) + 1)
    BY <1>1, <1>2, <2>2
  <2>5. \A j \in m .. m : j = m
    BY <1>1
  <2> QED BY <1>1, <2>1, <2>2, <2>3, <2>4, <2>5
<1> QED BY <1>3, <1>4

\* Which of its three outcomes an observation has, by the side and the time on it.
LEMMA Observed ==
    ASSUME T!Observe, NEW side, side = T!Side(snapshot.band, confirmed),
           snapshot.ts - T!Since(side) \in Int, T!Dwell(side) \in Int
    PROVE  /\ side = "settled" =>
                dir' = "settled" /\ since' = 0 /\ UNCHANGED <<confirmed, changes>>
           /\ side # "settled" /\ snapshot.ts - T!Since(side) < T!Dwell(side) =>
                dir' = side /\ since' = T!Since(side) /\ UNCHANGED <<confirmed, changes>>
           /\ side # "settled" /\ snapshot.ts - T!Since(side) >= T!Dwell(side) =>
                /\ confirmed' = snapshot.band /\ dir' = "settled" /\ since' = 0
                /\ changes' = Append(changes, [from |-> confirmed, to |-> snapshot.band, at |-> Len(read')])
<1> DEFINE passed == snapshot.ts - T!Since(side)
           needed == T!Dwell(side)
<1>1. \/ /\ side = "settled"
         /\ dir' = "settled" /\ since' = 0 /\ UNCHANGED <<confirmed, changes>>
      \/ /\ side # "settled" /\ passed < needed
         /\ dir' = side /\ since' = T!Since(side) /\ UNCHANGED <<confirmed, changes>>
      \/ /\ side # "settled" /\ passed >= needed
         /\ confirmed' = snapshot.band /\ dir' = "settled" /\ since' = 0
         /\ changes' = Append(changes, [from |-> confirmed, to |-> snapshot.band, at |-> Len(read')])
  BY DEF T!Observe, T!EndedWhenSettled
<1>2. passed \in Int /\ needed \in Int
  OBVIOUS
<1> HIDE DEF passed, needed
<1>3. ~(passed < needed /\ passed >= needed)
  BY <1>2
<1> QED BY <1>1, <1>3 DEF passed, needed

\* A scan keeps the invariant, whichever outcome it has.
LEMMA ScanKeeps == ASSUME Dwells, LevelInv, T!Scan PROVE LevelInv'
<1> DEFINE n == Len(read)
           m == Len(read')
           side == T!Side(snapshot.band, confirmed)
<1>1. /\ n \in Nat /\ m \in Nat /\ m \in {n, n + 1} /\ m >= 1 /\ read'[m] = snapshot /\ \A i \in 1 .. n : read'[i] = read[i]
      /\ read' \in Seq(Read) /\ read' # << >> /\ read \in Seq(Read) /\ m >= n
      /\ \A i, j \in 1 .. m : i <= j => read'[i].ts <= read'[j].ts
      /\ \A i \in 1 .. m : read'[i].ts <= snapshot.ts
  BY ReadGrows DEF LevelInv, TrackShape
<1>2. /\ now' = now /\ snapshot' = snapshot /\ snapshot \in Read /\ confirmed \in T!Bands /\ changes \in Seq(Change)
      /\ LastIn(changes) \in 0 .. n /\ now \in Nat /\ snapshot.ts \in Nat /\ snapshot.band \in T!Bands
      /\ snapshot.ts <= now /\ since \in Nat
  BY DEF LevelInv, TrackShape, T!Scan, Read
<1>3. \A c \in 1 .. Len(changes) : EarnedIn(read', changes, c)
  <2> TAKE c \in 1 .. Len(changes)
  <2>1. EarnedIn(read, changes, c) /\ (c > 1 => EarnedIn(read, changes, c - 1))
    BY <1>2 DEF LevelInv, Tracked
  <2> QED BY <1>1, <1>2, <2>1, EarnedStays
<1>4. side \in {"settled", "up", "down"}
  BY SideType
<1>8. T!Observe /\ snapshot.ts - T!Since(side) \in Int /\ T!Dwell(side) \in Int
  BY <1>2 DEF T!Scan, T!Since, T!Dwell, Dwells
<1>5. CASE side = "settled"
  <2>1. dir' = "settled" /\ since' = 0 /\ UNCHANGED <<confirmed, changes>>
    BY <1>5, <1>8, Observed
  <2>2. TrackShape'
    BY <1>1, <1>2, <2>1 DEF LevelInv, TrackShape, LastIn
  <2>3. dir' = IF read' = << >> THEN "settled" ELSE T!Side(read'[m].band, confirmed')
    BY <1>1, <1>5, <2>1
  <2>4. Tracked'
    BY <1>1, <1>2, <1>3, <2>1, <2>3 DEF LevelInv, Tracked
  <2> QED BY <2>2, <2>4 DEF LevelInv
<1>6. CASE side # "settled" /\ snapshot.ts - T!Since(side) < T!Dwell(side)
  <2>1. dir' = side /\ since' = T!Since(side) /\ UNCHANGED <<confirmed, changes>>
    BY <1>6, <1>8, Observed
  <2>2. PICK k \in (LastIn(changes) + 1) .. m :
             /\ read'[k].ts = T!Since(side)
             /\ \A j \in k .. m : T!Side(read'[j].band, confirmed) = side
             /\ k = LastIn(changes) + 1 \/ T!Side(read'[k - 1].band, confirmed) # side
    BY <1>6, SideBegins
  <2>3. k \in 1 .. m /\ Pending(read', changes, side, since', confirmed, k)
    BY <1>1, <1>2, <1>6, <2>1, <2>2 DEF Pending
  <2>4. since' \in Nat
    BY <1>2, <2>1 DEF T!Since
  <2>5. TrackShape'
    BY <1>1, <1>2, <1>4, <2>1, <2>4 DEF LevelInv, TrackShape, LastIn
  <2>6. dir' = IF read' = << >> THEN "settled" ELSE T!Side(read'[m].band, confirmed')
    BY <1>1, <2>1
  <2>7. Tracked'
    BY <1>1, <1>2, <1>3, <2>1, <2>3, <2>6 DEF LevelInv, Tracked
  <2> QED BY <2>5, <2>7 DEF LevelInv
<1>7. CASE side # "settled" /\ snapshot.ts - T!Since(side) >= T!Dwell(side)
  <2> DEFINE change == [from |-> confirmed, to |-> snapshot.band, at |-> m]
             l == Len(changes)
  <2>1. /\ dir' = "settled" /\ since' = 0 /\ confirmed' = snapshot.band /\ changes' = Append(changes, change)
    BY <1>7, <1>8, Observed
  <2>2. change \in Change /\ change.at = m /\ change.from = confirmed /\ change.to = snapshot.band
    BY <1>1, <1>2 DEF Change
  <2> HIDE DEF change
  <2>3. /\ l \in Nat /\ changes' \in Seq(Change) /\ Len(changes') = l + 1 /\ changes'[l + 1] = change /\ changes' # << >>
        /\ \A c \in 1 .. l : changes'[c] = changes[c]
    BY <1>2, <2>1, <2>2
  <2>4. LastIn(changes') = m
    BY <2>2, <2>3 DEF LastIn
  <2>5. TrackShape'
    BY <1>1, <1>2, <2>1, <2>3, <2>4 DEF LevelInv, TrackShape
  <2>6. T!Side(snapshot.band, snapshot.band) = "settled"
    BY <1>2 DEF T!Side, T!Bands
  <2>7. ASSUME NEW c \in 1 .. l PROVE EarnedIn(read', changes', c)
    <3>1. EarnedIn(read', changes, c) /\ changes'[c] = changes[c] /\ (c # 1 => changes'[c - 1] = changes[c - 1])
      BY <1>3, <2>3
    <3> QED BY <3>1 DEF EarnedIn
  <2>8. EarnedIn(read', changes', l + 1)
    <3>1. PICK k \in (LastIn(changes) + 1) .. m :
             /\ read'[k].ts = T!Since(side)
             /\ \A j \in k .. m : T!Side(read'[j].band, confirmed) = side
      BY <1>7, SideBegins
    <3>2. SustainedIn(read', k, m, confirmed)
      BY <1>1, <1>7, <3>1 DEF SustainedIn
    <3>3. CASE l = 0
      <4>1. confirmed = 0 /\ k \in 1 .. m
        BY <1>2, <2>3, <3>1, <3>3 DEF LevelInv, Tracked
      <4> QED BY <1>1, <2>2, <2>3, <3>2, <3>3, <4>1 DEF EarnedIn
    <3>4. CASE l > 0
      <4>1. changes # << >> /\ l \in 1 .. l
        BY <1>2, <2>3, <3>4
      <4>2. confirmed = changes[l].to /\ LastIn(changes) = changes[l].at
        BY <4>1 DEF LevelInv, Tracked, LastIn
      <4>3. k \in changes[l].at .. m
        BY <1>1, <1>2, <3>1, <4>2
      <4>4. l + 1 # 1 /\ changes'[l + 1 - 1] = changes[l]
        BY <2>3, <3>4, <4>1
      <4> QED BY <1>1, <2>2, <2>3, <3>2, <4>2, <4>3, <4>4 DEF EarnedIn
    <3> QED BY <2>3, <3>3, <3>4
  <2>9. \A c \in 1 .. Len(changes') : EarnedIn(read', changes', c)
    <3>1. \A c \in 1 .. (l + 1) : c \in 1 .. l \/ c = l + 1
      BY <2>3
    <3> QED BY <2>3, <2>7, <2>8, <3>1
  <2>10. /\ dir' = IF read' = << >> THEN "settled" ELSE T!Side(read'[m].band, confirmed')
         /\ confirmed' = IF changes' = << >> THEN 0 ELSE changes'[Len(changes')].to
    BY <1>1, <2>1, <2>2, <2>3, <2>6
  <2>11. Tracked'
    BY <1>1, <1>2, <2>1, <2>9, <2>10 DEF Tracked
  <2> QED BY <2>5, <2>11 DEF LevelInv
<1> QED
  <2>1. snapshot.ts - T!Since(side) < T!Dwell(side) \/ snapshot.ts - T!Since(side) >= T!Dwell(side)
    BY <1>8
  <2> QED BY <1>5, <1>6, <1>7, <2>1

\* The invariant of the tracker holds in every reachable state.
LEMMA LevelInvariant == Dwells /\ T!Spec => []LevelInv
<1> SUFFICES ASSUME Dwells PROVE T!Spec => []LevelInv
  OBVIOUS
<1>1. T!Init => LevelInv
  BY DEF T!Init, T!Bands, LevelInv, TrackShape, Tracked, Read, LastIn
<1>2. LevelInv /\ [T!Next]_T!vars => LevelInv'
  <2> SUFFICES ASSUME LevelInv, [T!Next]_T!vars PROVE LevelInv'
    OBVIOUS
  <2>1. CASE T!Store \/ T!Tick \/ UNCHANGED T!vars
    <3>1. /\ UNCHANGED <<confirmed, dir, since, read, changes>> /\ now' \in Nat /\ snapshot' \in Read
          /\ snapshot'.ts <= now' /\ snapshot.ts <= snapshot'.ts
      BY <2>1 DEF T!Store, T!Tick, T!vars, LevelInv, TrackShape, Read
    <3>2. TrackShape'
      BY <3>1 DEF LevelInv, TrackShape, LastIn
    <3>3. \A i \in 1 .. Len(read) : read[i].ts \in Nat
      <4>1. \A i \in 1 .. Len(read) : read[i] \in Read
        BY DEF LevelInv, TrackShape
      <4> QED BY <4>1 DEF Read
    <3>4. snapshot.ts \in Nat /\ snapshot'.ts \in Nat
      BY <3>1 DEF LevelInv, TrackShape, Read
    <3>5. \A i \in 1 .. Len(read) : read[i].ts <= snapshot'.ts
      BY <3>1, <3>3, <3>4 DEF LevelInv, Tracked
    <3>6. Tracked'
      BY <3>1, <3>5 DEF LevelInv, Tracked
    <3> QED BY <3>2, <3>6 DEF LevelInv
  <2> QED BY <2>1, ScanKeeps DEF T!Next
<1> QED BY <1>1, <1>2, PTL DEF T!Spec

\* For any dwells and any sequence of snapshots, scanned or missed, a change is recorded exactly when
\* it has been sustained: the readings since were on one side of the last band, in whatever bands they
\* were, for as long as that side needs.  (observe, run_once.)
THEOREM OnlySustainedChanges == Dwells /\ T!Spec => []T!ChangesAreSustained
<1> SUFFICES ASSUME Dwells PROVE T!Spec => []T!ChangesAreSustained
  OBVIOUS
<1>1. ASSUME LevelInv PROVE T!ChangesAreSustained
  <2> DEFINE n == Len(read)
  <2>1. T!LastChange = LastIn(changes)
    BY DEF T!LastChange, LastIn
  <2>2. ASSUME NEW i \in (LastIn(changes) + 1) .. n, T!Sustained(i, n, confirmed) PROVE FALSE
    <3>1. n \in Nat /\ LastIn(changes) \in 0 .. n /\ read \in Seq(Read) /\ read # << >> /\ i \in 1 .. n
      BY <1>1, <2>2 DEF LevelInv, TrackShape
    <3>2. dir = T!Side(read[n].band, confirmed)
      BY <1>1, <3>1 DEF LevelInv, Tracked
    <3>3. /\ dir # "settled" /\ read[n].ts - read[i].ts >= T!Dwell(dir)
          /\ \A j \in i .. n : T!Side(read[j].band, confirmed) = dir
      BY <2>2, <3>2, SustainedAt DEF SustainedIn
    <3>4. PICK k \in 1 .. n : Pending(read, changes, dir, since, confirmed, k)
      BY <1>1, <3>3 DEF LevelInv, Tracked
    <3>5. CASE i >= k
      <4>1. read[k].ts <= read[i].ts /\ read[k].ts = since /\ read[n].ts - since < T!Dwell(dir)
        BY <1>1, <3>1, <3>4, <3>5 DEF LevelInv, Tracked, Pending
      <4>2. read[k].ts \in Nat /\ read[i].ts \in Nat /\ read[n].ts \in Nat /\ T!Dwell(dir) \in Nat
        <5>1. read[k] \in Read /\ read[i] \in Read /\ read[n] \in Read
          <6>1. n \in 1 .. n
            BY <3>1
          <6> QED BY <3>1, <3>4, <6>1
        <5>2. T!Dwell(dir) \in Nat
          BY DEF T!Dwell, Dwells
        <5> QED BY <5>1, <5>2 DEF Read
      <4> QED BY <3>3, <4>1, <4>2
    <3>6. CASE i < k
      <4>1. k - 1 \in i .. n /\ k # LastIn(changes) + 1
        BY <3>1, <3>6
      <4>2. T!Side(read[k - 1].band, confirmed) # dir
        BY <3>4, <4>1 DEF Pending
      <4> QED BY <3>3, <4>1, <4>2
    <3> QED BY <3>1, <3>5, <3>6
  <2>3. ASSUME NEW c \in 1 .. Len(changes)
        PROVE  LET before == IF c = 1 THEN 1 ELSE changes[c - 1].at
               IN /\ \E i \in before .. changes[c].at : T!Sustained(i, changes[c].at, changes[c].from)
                  /\ changes[c].from = (IF c = 1 THEN 0 ELSE changes[c - 1].to)
    <3>1. EarnedIn(read, changes, c)
      BY <1>1 DEF LevelInv, Tracked
    <3> QED BY <3>1, SustainedAt DEF EarnedIn
  <2> QED BY <2>1, <2>2, <2>3 DEF T!ChangesAreSustained
<1> QED BY <1>1, LevelInvariant, PTL

-----------------------------------------------------------------------------
(***************************************************************************)
(* Scans of the log: the lines that a cursor passes.                       *)
(***************************************************************************)

\* A second has time stamps; what bounds the model is a number.
Scans ==
    /\ PerSecond \in Nat \ {0} /\ Late \in Nat /\ Backfill \in Nat /\ SeenMax \in Nat
    /\ MaxTime \in Nat /\ MaxLines \in Nat /\ MaxBoots \in Nat \ {0}

Stamped == [id : 1 .. MaxLines, ts : Nat, kernel : BOOLEAN]

\* No two lines have one identity, and nothing is ahead of the clock.
LogShape ==
    /\ src \in {"smartune", "journal"} /\ now \in Nat
    /\ log \subseteq Stamped /\ IsFiniteSet(log)
    /\ \A l \in log : l.id <= Cardinality(log) /\ l.ts <= now
    /\ \A l, m \in log : l.id = m.id => l = m
    /\ cursor \in 0 .. now /\ saved \in 0 .. now /\ boot \in 1 .. MaxBoots
    /\ seen \in Seq(1 .. MaxLines) /\ \A i \in 1 .. Len(seen) : seen[i] <= Cardinality(log)
    /\ scan \in [on : BOOLEAN, todo : SUBSET log, since : 0 .. now, high : 0 .. now]
    /\ scan.on => up /\ scan.since = cursor
    /\ ~scan.on => scan.todo = {} /\ scan.high = 0
    /\ ~up => cursor = 0
    /\ reports \in [1 .. MaxLines -> [1 .. MaxBoots -> {0, 1}]]

Good(l) == L!Reported(l) \/ l \in excused

\* What a cursor has passed is good, and what the scan's last cursor will have passed is, or is still
\* to be processed.
Told ==
    \A l \in log : L!Matches(l) =>
        /\ L!Passed(l, cursor) \/ L!Passed(l, saved) \/ L!Known(l) => Good(l)
        /\ L!Passed(l, L!Reach) => Good(l) \/ l \in scan.todo

LogInv == LogShape /\ Told

\* Division by one number keeps the order.
LEMMA DivisionIsOrdered ==
    ASSUME NEW p \in Nat, p > 0, NEW a \in Nat, NEW b \in Nat
    PROVE  /\ a \div p \in Nat /\ (a <= b => a \div p <= b \div p)
           /\ ((b \div p) * p < a => b \div p <= a \div p)
<1> DEFINE x == a \div p
           y == b \div p
           c == a % p
           e == b % p
<1>1. /\ a = p * x + c /\ c \in 0 .. (p - 1) /\ x \in Nat
      /\ b = p * y + e /\ e \in 0 .. (p - 1) /\ y \in Nat
  OBVIOUS
<1> HIDE DEF x, y, c, e
<1>2. ASSUME NEW u \in Nat, NEW v \in Nat, u >= v + 1 PROVE p * u >= p * v + p
  <2>1. PICK k \in Nat : u = v + 1 + k
    <3>1. u - (v + 1) \in Nat
      BY <1>2
    <3> QED BY <3>1
  <2>2. p * u = p * v + p + p * k /\ p * k \in Nat /\ p * v \in Nat
    BY <2>1
  <2> QED BY <2>2
<1>3. p * x \in Nat /\ p * y \in Nat
  BY <1>1
<1>4. a <= b => x <= y
  <2> SUFFICES ASSUME a <= b, x >= y + 1 PROVE FALSE
    BY <1>1
  <2>1. p * x >= p * y + p
    BY <1>1, <1>2
  <2> QED BY <1>1, <1>3, <2>1
<1>5. y * p < a => y <= x
  <2> SUFFICES ASSUME y * p < a, y >= x + 1 PROVE FALSE
    BY <1>1
  <2>1. p * y >= p * x + p /\ y * p = p * y
    BY <1>1, <1>2
  <2> QED BY <1>1, <1>3, <2>1
<1>6. x \in Nat
  BY <1>1
<1> QED BY <1>4, <1>5, <1>6 DEF x, y

\* Seconds are in the order of their time stamps.
LEMMA SecondsAreOrdered ==
    ASSUME Scans, NEW a \in Nat, NEW b \in Nat
    PROVE  /\ L!Second(a) \in Nat /\ (a <= b => L!Second(a) <= L!Second(b))
           /\ (L!Second(b) * PerSecond < a => L!Second(b) <= L!Second(a))
BY DivisionIsOrdered DEF Scans, L!Second

\* What a cursor has passed, a later one has, too; a cursor at 0 has passed nothing.
LEMMA PassedIsKept ==
    ASSUME Scans, NEW l \in Stamped, NEW c \in Nat, NEW d \in Nat
    PROVE  /\ (c <= d /\ L!Passed(l, c) => L!Passed(l, d))
           /\ (L!Passed(l, c) => l.ts < c)
           /\ ~L!Passed(l, 0)
<1>1. l.ts \in Nat
  BY DEF Stamped
<1>2. L!Passed(l, c) => l.ts < c
  BY <1>1, SecondsAreOrdered DEF L!Passed
<1>3. c <= d /\ L!Passed(l, c) => L!Passed(l, d)
  BY <1>1, SecondsAreOrdered DEF L!Passed
<1>4. L!Passed(l, 0) => l.ts < 0
  <2>1. L!Second(0) <= L!Second(l.ts) /\ L!Second(0) \in Nat /\ L!Second(l.ts) \in Nat
    BY <1>1, SecondsAreOrdered
  <2> QED BY <1>1, <2>1 DEF L!Passed
<1> QED BY <1>1, <1>2, <1>3, <1>4

\* A set of numbers that is bounded has a latest one.
LatestOf(all) == CHOOSE t \in all : \A u \in all : u <= t

\* A set of numbers that is not empty and bounded has a latest one.
LEMMA LastIsLatest ==
    ASSUME NEW n \in Nat, NEW s \in SUBSET (0 .. n), s # {}
    PROVE  LatestOf(s) \in s /\ \A u \in s : u <= LatestOf(s)
<1> DEFINE d == {n - t : t \in s}
<1>1. d \subseteq Nat /\ d # {}
  <2>1. \A t \in s : n - t \in Nat /\ n - t \in d
    OBVIOUS
  <2> QED BY <2>1
<1>2. PICK k \in d : \A j \in d : <<j, k>> \notin OpToRel(<, Nat)
  <2> HIDE DEF d
  <2> QED BY <1>1, NatLessThanWellFounded, WFMin
<1>3. PICK t \in s : k = n - t
  BY <1>2
<1>4. ASSUME NEW u \in s PROVE u <= t
  <2>1. n - u \in Nat /\ n - t \in Nat /\ n - u \in d
    BY <1>1
  <2>2. n - u < n - t => <<n - u, n - t>> \in OpToRel(<, Nat)
    BY <2>1 DEF OpToRel
  <2>3. ~(n - u < n - t)
    <3> HIDE DEF d
    <3> QED BY <1>2, <1>3, <2>1, <2>2
  <2>4. u \in Nat /\ t \in Nat
    OBVIOUS
  <2> QED BY <2>3, <2>4
<1> QED BY <1>3, <1>4 DEF LatestOf

\* The scan's last cursor is one of those it can leave, and the latest.
Reached ==
    /\ L!Reach \in Nat /\ scan.high <= L!Reach /\ cursor <= L!Reach /\ saved <= L!Reach
    /\ \A l \in scan.todo : l.ts <= L!Reach
    /\ L!Reach \in {scan.high, cursor, saved} \/ \E l \in scan.todo : L!Reach = l.ts

\* The scan's last cursor is the latest of those that it can leave.
LEMMA ReachIsLatest == LogShape => Reached
<1> SUFFICES ASSUME LogShape PROVE Reached
  OBVIOUS
<1> DEFINE ends == {l.ts : l \in scan.todo}
           all == ends \cup {scan.high, cursor, saved}
<1>1. now \in Nat /\ all \in SUBSET (0 .. now) /\ all # {}
  <2>1. \A l \in scan.todo : l.ts \in 0 .. now
    BY DEF LogShape, Stamped
  <2> QED BY <2>1 DEF LogShape
<1>2. L!Reach = LatestOf(all)
  BY DEF L!Reach, LatestOf
<1>3. L!Reach \in all /\ \A u \in all : u <= L!Reach
  <2> HIDE DEF all
  <2> QED BY <1>1, <1>2, LastIsLatest
<1>4. L!Reach \in Nat
  BY <1>1, <1>3
<1>5. scan.high \in all /\ cursor \in all /\ saved \in all /\ \A l \in scan.todo : l.ts \in all
  OBVIOUS
<1>6. scan.high <= L!Reach /\ cursor <= L!Reach /\ saved <= L!Reach /\ \A l \in scan.todo : l.ts <= L!Reach
  BY <1>3, <1>5
<1>7. L!Reach \in {scan.high, cursor, saved} \/ L!Reach \in ends
  BY <1>3
<1>8. L!Reach \in {scan.high, cursor, saved} \/ \E l \in scan.todo : L!Reach = l.ts
  BY <1>7
<1> QED BY <1>4, <1>6, <1>8 DEF Reached

\* And so it is after a step.
LEMMA ReachIsLatestNext == LogShape' => Reached'
BY ReachIsLatest, PTL

\* Nothing comes within reach by a step after which the reach is no later.
LEMMA ReachFalls ==
    ASSUME Scans, LogShape, LogShape', src' = src, scan'.todo \subseteq scan.todo,
           scan'.high <= L!Reach, cursor' <= L!Reach, saved' <= L!Reach
    PROVE  /\ L!Reach' \in Nat /\ L!Reach \in Nat /\ L!Reach' <= L!Reach
           /\ \A l \in log : L!Passed(l, L!Reach)' => L!Passed(l, L!Reach)
<1>1. L!Reach \in Nat /\ \A l \in scan.todo : l.ts <= L!Reach
  BY ReachIsLatest DEF Reached
<1>2. /\ L!Reach' \in Nat
      /\ L!Reach' \in {scan'.high, cursor', saved'} \/ \E l \in scan'.todo : L!Reach' = l.ts
  BY ReachIsLatestNext DEF Reached
<1>3. L!Reach' <= L!Reach
  BY <1>1, <1>2
<1>4. ASSUME NEW l \in log, L!Passed(l, L!Reach)' PROVE L!Passed(l, L!Reach)
  <2>1. l \in Stamped /\ L!Passed(l, L!Reach')
    BY <1>4 DEF LogShape, L!Passed, L!Second
  <2> QED BY <1>1, <1>2, <1>3, <2>1, PassedIsKept
<1> QED BY <1>1, <1>2, <1>3, <1>4

\* What a step that writes no line and takes up none has to show: what it takes off the scan is good,
\* and what it remembers is; a cursor is moved only when nothing is left to process.
LEMMA ToldKept ==
    ASSUME Scans, LogInv, LogShape', src' = src, log' = log, scan'.todo \subseteq scan.todo,
           scan'.high <= L!Reach, cursor' <= L!Reach, saved' <= L!Reach,
           \A c \in {cursor', saved'} : c \in {cursor, saved, 0} \/ scan.todo = {},
           \A l \in log : L!Matches(l) => /\ (Good(l) => Good(l)')
                                          /\ (l \in scan.todo \ scan'.todo => Good(l)')
                                          /\ (L!Known(l)' => Good(l)')
    PROVE  LogInv'
<1>1. ASSUME NEW l \in log', L!Matches(l)', L!Passed(l, cursor') \/ L!Passed(l, saved') PROVE Good(l)'
  <2>1. PICK c \in {cursor', saved'} : L!Passed(l, c)
    BY <1>1
  <2>2. /\ l \in log /\ L!Matches(l) /\ l \in Stamped /\ c \in Nat
        /\ cursor \in Nat /\ saved \in Nat
    <3>1. l \in log /\ L!Matches(l)
      BY <1>1 DEF L!Matches
    <3> QED BY <3>1 DEF LogInv, LogShape
  <2>5. L!Reach \in Nat /\ c <= L!Reach
    BY ReachIsLatest DEF LogInv, Reached
  <2>3. CASE c \in {cursor, saved, 0}
    BY <2>1, <2>2, <2>3, PassedIsKept DEF LogInv, Told
  <2>4. CASE scan.todo = {}
    BY <2>1, <2>2, <2>4, <2>5, PassedIsKept DEF LogInv, Told
  <2> QED BY <2>3, <2>4
<1>2. ASSUME NEW l \in log', L!Matches(l)', L!Passed(l, L!Reach)' PROVE Good(l)' \/ l \in scan'.todo
  <2>1. l \in log /\ L!Matches(l) /\ L!Passed(l, L!Reach)
    BY <1>2, ReachFalls DEF LogInv, L!Matches
  <2> QED BY <2>1 DEF LogInv, Told
<1>3. ASSUME NEW l \in log', L!Matches(l)', L!Known(l)' PROVE Good(l)'
  BY <1>3 DEF L!Matches
<1>4. \A l \in log', c \in {cursor', saved'} : L!Passed(l, c)' <=> L!Passed(l, c)
  BY DEF L!Passed, L!Second
<1> QED BY <1>1, <1>2, <1>3 DEF LogInv, Told, L!Passed, L!Second

\* A new line is excused if the cursor has overtaken it.
LEMMA WriteKeeps == ASSUME Scans, LogInv, L!Write PROVE LogInv'
<1>0. PICK n \in Nat : n = Cardinality(log)
  BY FS_CardinalityType DEF LogInv, LogShape
<1>1. PICK at \in 1 .. now, kernel \in BOOLEAN :
        LET line == [id |-> n + 1, ts |-> at, kernel |-> kernel]
        IN /\ log' = log \cup {line}
           /\ excused' = IF L!Passed(line, L!Reach) THEN excused \cup {line} ELSE excused
  BY <1>0 DEF L!Write, L!Cardinality, Cardinality
<1>2. /\ n < MaxLines /\ now \in Nat
      /\ UNCHANGED <<src, now, up, cursor, saved, seen, scan, boot, reports>>
  BY <1>0 DEF L!Write, L!Cardinality, Cardinality, LogInv, LogShape
<1>3. PICK line \in Stamped :
        /\ line.id = n + 1 /\ line.ts <= now
        /\ log' = log \cup {line}
        /\ excused' = IF L!Passed(line, L!Reach) THEN excused \cup {line} ELSE excused
  <2> DEFINE line == [id |-> n + 1, ts |-> at, kernel |-> kernel]
  <2>1. n + 1 \in 1 .. MaxLines /\ at \in Nat /\ at <= now
    BY <1>2 DEF Scans
  <2>2. line \in Stamped /\ line.id = n + 1 /\ line.ts <= now
    BY <2>1 DEF Stamped
  <2> QED BY <1>1, <2>2
<1>4. line \notin log /\ IsFiniteSet(log') /\ Cardinality(log') = n + 1
  <2>1. line \notin log
    BY <1>0, <1>3 DEF LogInv, LogShape
  <2>2. IsFiniteSet(log)
    BY DEF LogInv, LogShape
  <2> QED BY <1>0, <1>3, <2>1, <2>2, FS_AddElement
<1>5. LogShape'
  <2>1. \A l \in log : l.id <= n /\ l.id \in Nat /\ l.id # line.id
    BY <1>0, <1>3 DEF LogInv, LogShape, Stamped
  <2>2. \A l \in log' : l.id <= n + 1 /\ l.ts <= now
    BY <1>2, <1>3, <2>1 DEF LogInv, LogShape
  <2>3. \A l, m \in log' : l.id = m.id => l = m
    BY <1>3, <2>1 DEF LogInv, LogShape
  <2>4. \A i \in 1 .. Len(seen) : seen[i] <= n + 1
    <3> TAKE i \in 1 .. Len(seen)
    <3>1. seen \in Seq(1 .. MaxLines) /\ seen[i] <= n
      BY <1>0 DEF LogInv, LogShape
    <3>2. seen[i] \in 1 .. MaxLines
      BY <3>1, ElementOfSeq
    <3> QED BY <1>3, <3>1, <3>2
  <2>5. log' \subseteq Stamped /\ scan' \in [on : BOOLEAN, todo : SUBSET log', since : 0 .. now', high : 0 .. now']
    BY <1>2, <1>3 DEF LogInv, LogShape
  <2>6. \A i \in 1 .. Len(seen') : seen'[i] <= Cardinality(log')
    BY <1>2, <1>4, <2>4
  <2>7. \A l \in log' : l.id <= Cardinality(log') /\ l.ts <= now'
    BY <1>2, <1>4, <2>2
  <2> QED BY <1>2, <1>4, <2>3, <2>5, <2>6, <2>7 DEF LogInv, LogShape
<1>6. L!Reach' = L!Reach
  BY <1>2 DEF L!Reach
<1>7. \A l, c : (L!Passed(l, c)' <=> L!Passed(l, c)) /\ (L!Matches(l)' <=> L!Matches(l)) /\ (L!Known(l)' <=> L!Known(l))
  BY <1>2 DEF L!Passed, L!Second, L!Matches, L!Known
<1>8. \A l \in log : Good(l) => Good(l)'
  <2>1. excused \subseteq excused'
    BY <1>3
  <2>2. L!Passed(line, L!Reach) => line \in excused'
    BY <1>3
  <2> QED BY <1>2, <2>1 DEF Good, L!Reported
<1>9. ~L!Known(line)
  BY <1>0, <1>3 DEF L!Known, LogInv, LogShape
<1>10. cursor \in Nat /\ saved \in Nat /\ L!Reach \in Nat /\ cursor <= L!Reach /\ saved <= L!Reach
  BY ReachIsLatest DEF LogInv, LogShape, Reached
<1>11. L!Passed(line, cursor) \/ L!Passed(line, saved) \/ L!Passed(line, L!Reach) => Good(line)'
  <2>1. L!Passed(line, cursor) \/ L!Passed(line, saved) => L!Passed(line, L!Reach)
    BY <1>3, <1>10, PassedIsKept
  <2>2. L!Passed(line, L!Reach) => line \in excused'
    BY <1>3
  <2> QED BY <2>1, <2>2 DEF Good
<1>12. Told'
  <2> SUFFICES ASSUME NEW l \in log', L!Matches(l)'
               PROVE  /\ L!Passed(l, cursor)' \/ L!Passed(l, saved)' \/ L!Known(l)' => Good(l)'
                      /\ L!Passed(l, L!Reach)' => Good(l)' \/ (l \in scan.todo)'
    BY DEF Told
  <2>1. /\ L!Passed(l, cursor)' <=> L!Passed(l, cursor)
        /\ L!Passed(l, saved)' <=> L!Passed(l, saved)
        /\ L!Passed(l, L!Reach)' <=> L!Passed(l, L!Reach)
    BY <1>2, <1>6 DEF L!Passed, L!Second
  <2>2. CASE l = line
    <3>1. ~L!Known(l)' /\ (L!Passed(l, cursor) \/ L!Passed(l, saved) \/ L!Passed(l, L!Reach) => Good(l)')
      BY <1>7, <1>9, <1>11, <2>2 DEF Good, L!Reported
    <3> QED BY <2>1, <3>1
  <2>3. CASE l \in log
    BY <1>2, <1>7, <1>8, <2>1, <2>3 DEF LogInv, Told
  <2> QED BY <1>3, <2>2, <2>3
<1> QED BY <1>5, <1>12 DEF LogInv

\* The first state: nothing is written.
LEMMA InitLog == Scans /\ L!Init => LogInv
<1> SUFFICES ASSUME Scans, L!Init PROVE LogInv
  OBVIOUS
<1>1. IsFiniteSet(log) /\ seen \in Seq(1 .. MaxLines) /\ Len(seen) = 0
  BY FS_EmptySet, EmptySeq DEF L!Init
<1>2. reports \in [1 .. MaxLines -> [1 .. MaxBoots -> {0, 1}]]
  BY DEF L!Init
<1>3. scan \in [on : BOOLEAN, todo : SUBSET log, since : 0 .. now, high : 0 .. now]
  BY DEF L!Init, L!Idle
<1> QED BY <1>1, <1>2, <1>3 DEF Scans, L!Init, L!Idle, LogInv, LogShape, Told

\* Time adds nothing to what was passed.
LEMMA LogTickKeeps == ASSUME Scans, LogInv, L!Tick PROVE LogInv'
<1>1. now \in Nat /\ now' = now + 1 /\ UNCHANGED <<src, log, up, cursor, saved, seen, scan, boot, reports, excused>>
  BY DEF L!Tick, LogInv, LogShape
<1>2. LogShape'
  <2>1. \A l \in log : l.id <= Cardinality(log) /\ l.ts <= now + 1
    <3>1. \A l \in log : l.ts \in Nat /\ l.ts <= now
      BY DEF LogInv, LogShape, Stamped
    <3> QED BY <1>1, <3>1 DEF LogInv, LogShape
  <2>2. Cardinality(log') = Cardinality(log) /\ 0 .. now \subseteq 0 .. now'
    BY <1>1
  <2>3. scan' \in [on : BOOLEAN, todo : SUBSET log', since : 0 .. now', high : 0 .. now']
    BY <1>1, <2>2 DEF LogInv, LogShape
  <2> QED BY <1>1, <2>1, <2>2, <2>3 DEF LogInv, LogShape
<1>3. L!Reach' = L!Reach
  BY <1>1 DEF L!Reach
<1>4. Told'
  BY <1>1, <1>3 DEF LogInv, Told, Good, L!Passed, L!Second, L!Matches, L!Known, L!Reported
<1> QED BY <1>2, <1>4 DEF LogInv

\* A first scan's cursor passes only lines that are out of its reach.
LEMMA StartKeeps == ASSUME Scans, LogInv, L!Start PROVE LogInv'
<1> DEFINE fallback == IF now < Backfill THEN 0 ELSE now - Backfill
<1>1. /\ ~up /\ up' = TRUE /\ cursor' = IF saved # 0 THEN saved ELSE fallback
      /\ excused' = IF saved # 0 THEN excused ELSE excused \cup {l \in log : l.ts < fallback}
      /\ UNCHANGED <<src, now, log, saved, seen, scan, boot, reports>>
  BY DEF L!Start
<1>2. /\ cursor = 0 /\ now \in Nat /\ fallback \in 0 .. now /\ saved \in 0 .. now
      /\ ~scan.on /\ scan.todo = {} /\ scan.high = 0
  BY <1>1 DEF Scans, LogInv, LogShape
<1> HIDE DEF fallback
<1>3. LogShape'
  BY <1>1, <1>2 DEF LogInv, LogShape
<1>4. L!Reach' \in {cursor', saved, 0} /\ L!Reach \in Nat /\ saved <= L!Reach
  BY <1>1, <1>2, <1>3, ReachIsLatest, ReachIsLatestNext DEF LogInv, Reached
<1>5. \A l \in log : Good(l) => Good(l)'
  <2>1. excused \subseteq excused'
    BY <1>1
  <2> QED BY <1>1, <2>1 DEF Good, L!Reported
<1>6. ASSUME NEW l \in log, L!Matches(l), NEW c \in {cursor', saved, 0}, L!Passed(l, c) PROVE Good(l)'
  <2>1. l \in Stamped
    BY DEF LogInv, LogShape
  <2>2. CASE c = saved
    BY <1>5, <1>6, <2>2 DEF LogInv, Told
  <2>3. CASE c = 0
    BY <1>6, <2>1, <2>3, PassedIsKept
  <2>4. CASE c = fallback /\ saved = 0
    <3>1. l.ts < fallback
      BY <1>2, <1>6, <2>1, <2>4, PassedIsKept
    <3>2. l \in excused'
      BY <1>1, <2>4, <3>1
    <3> QED BY <3>2 DEF Good
  <2> QED BY <1>1, <1>6, <2>2, <2>3, <2>4
<1>7. ASSUME NEW l \in log, L!Matches(l), L!Known(l) PROVE Good(l)'
  BY <1>5, <1>7 DEF LogInv, Told
<1>8. Told'
  <2>1. \A l, c : (L!Passed(l, c)' <=> L!Passed(l, c)) /\ (L!Matches(l)' <=> L!Matches(l)) /\ (L!Known(l)' <=> L!Known(l))
    BY <1>1 DEF L!Passed, L!Second, L!Matches, L!Known
  <2>2. \A l : /\ L!Passed(l, cursor)' <=> L!Passed(l, cursor')
               /\ L!Passed(l, saved)' <=> L!Passed(l, saved)
               /\ L!Passed(l, L!Reach)' <=> L!Passed(l, L!Reach')
    BY <1>1 DEF L!Passed, L!Second
  <2> SUFFICES ASSUME NEW l \in log, L!Matches(l)
               PROVE  L!Passed(l, cursor)' \/ L!Passed(l, saved)' \/ L!Known(l)' \/ L!Passed(l, L!Reach)' => Good(l)'
    BY <1>1, <2>1 DEF Told
  <2> QED BY <1>4, <1>6, <1>7, <2>1, <2>2
<1> QED BY <1>3, <1>8 DEF LogInv

\* After a crash the saved cursor has passed no more than before.
LEMMA CrashKeeps == ASSUME Scans, LogInv, L!Crash PROVE LogInv'
<1>1. /\ up' = FALSE /\ scan' = [on |-> FALSE, todo |-> {}, since |-> 0, high |-> 0] /\ seen' = << >> /\ cursor' = 0
      /\ boot' \in 1 .. MaxBoots /\ UNCHANGED <<src, now, log, saved, reports, excused>>
  BY DEF L!Crash, L!Idle
<1>2. seen' \in Seq(1 .. MaxLines) /\ Len(seen') = 0
  BY <1>1, EmptySeq
<1>3. LogShape'
  BY <1>1, <1>2 DEF LogInv, LogShape
<1>4. L!Reach \in Nat /\ saved <= L!Reach
  BY ReachIsLatest DEF LogInv, Reached
<1>5. L!Reach' \in {saved, 0}
  BY <1>1, <1>3, ReachIsLatestNext DEF Reached
<1>6. ASSUME NEW l \in log, L!Matches(l), NEW c \in {saved, 0}, L!Passed(l, c) PROVE Good(l)'
  <2>1. l \in Stamped
    BY DEF LogInv, LogShape
  <2>2. Good(l)
    BY <1>6, <2>1, PassedIsKept DEF LogInv, Told
  <2> QED BY <1>1, <2>2 DEF Good, L!Reported
<1>7. \A l : /\ L!Matches(l)' <=> L!Matches(l)
             /\ L!Passed(l, cursor)' <=> L!Passed(l, 0)
             /\ L!Passed(l, saved)' <=> L!Passed(l, saved)
             /\ L!Passed(l, L!Reach)' <=> L!Passed(l, L!Reach')
             /\ ~L!Known(l)'
  BY <1>1, <1>2 DEF L!Passed, L!Second, L!Matches, L!Known
<1>8. Told'
  <2> SUFFICES ASSUME NEW l \in log, L!Matches(l)
               PROVE  L!Passed(l, cursor)' \/ L!Passed(l, saved)' \/ L!Known(l)' \/ L!Passed(l, L!Reach)' => Good(l)'
    BY <1>1, <1>7 DEF Told
  <2> QED BY <1>5, <1>6, <1>7
<1> QED BY <1>3, <1>8 DEF LogInv

\* The cursor moves when nothing is left to process.
LEMMA FinishKeeps == ASSUME Scans, LogInv, L!Finish PROVE LogInv'
<1>1. /\ scan.on /\ scan.todo = {} /\ scan' = [on |-> FALSE, todo |-> {}, since |-> 0, high |-> 0]
      /\ cursor' \in {cursor, scan.high} /\ saved' \in {saved, cursor'}
      /\ UNCHANGED <<src, now, log, up, seen, boot, reports, excused>>
  BY DEF L!Finish, L!Idle, L!Latest
<1>2. up /\ now \in Nat /\ cursor' \in 0 .. now /\ saved' \in 0 .. now
  BY <1>1 DEF LogInv, LogShape
<1>3. LogShape'
  BY <1>1, <1>2 DEF LogInv, LogShape
<1>4. /\ L!Reach \in Nat /\ scan.high <= L!Reach /\ cursor <= L!Reach /\ saved <= L!Reach
  BY ReachIsLatest DEF LogInv, Reached
<1>5. scan'.high <= L!Reach /\ cursor' <= L!Reach /\ saved' <= L!Reach
  BY <1>1, <1>4
<1>6. \A l \in log : L!Matches(l) => /\ (Good(l) => Good(l)')
                                    /\ (l \in scan.todo \ scan'.todo => Good(l)')
                                    /\ (L!Known(l)' => Good(l)')
  <2>1. \A l : (Good(l)' <=> Good(l)) /\ (L!Known(l)' <=> L!Known(l))
    BY <1>1 DEF Good, L!Reported, L!Known
  <2> QED BY <1>1, <2>1 DEF LogInv, Told
<1> QED BY <1>1, <1>3, <1>5, <1>6, ToldKept

\* A query returns every matching line that it lets the cursor come to pass, but for those beyond
\* its limit.
LEMMA QueryKeeps == ASSUME Scans, LogInv, L!Query PROVE LogInv'
<1>1. /\ up /\ scan' = [on |-> TRUE, todo |-> L!Answered, since |-> cursor, high |-> cursor]
      /\ excused' = excused \cup L!Beyond
      /\ UNCHANGED <<src, now, log, up, cursor, saved, seen, boot, reports>>
  BY DEF L!Query
<1>2. L!Answered \subseteq log
  BY DEF L!Answered, L!Newest, L!Kernel, L!Window
<1>3. now \in Nat /\ cursor \in 0 .. now /\ saved \in 0 .. now
  BY DEF LogInv, LogShape
<1>4. LogShape'
  BY <1>1, <1>2, <1>3 DEF LogInv, LogShape
<1>5. L!Reach' \in 0 .. now
  <2>1. \A l \in log : l.ts \in 0 .. now
    BY DEF LogInv, LogShape, Stamped
  <2> QED BY <1>1, <1>2, <1>3, <1>4, <2>1, ReachIsLatestNext DEF Reached
<1>6. \A l : /\ (Good(l) => Good(l)') /\ (L!Known(l)' <=> L!Known(l)) /\ (L!Matches(l)' <=> L!Matches(l))
             /\ (L!Passed(l, cursor)' <=> L!Passed(l, cursor)) /\ (L!Passed(l, saved)' <=> L!Passed(l, saved))
             /\ (L!Passed(l, L!Reach)' <=> L!Passed(l, L!Reach'))
  <2>1. excused \subseteq excused'
    BY <1>1
  <2> QED BY <1>1, <2>1 DEF Good, L!Reported, L!Known, L!Matches, L!Passed, L!Second
<1>7. ASSUME NEW l \in log, L!Matches(l), ~L!Passed(l, cursor), L!Passed(l, L!Reach')
      PROVE  Good(l)' \/ l \in scan'.todo
  <2>1. l.ts \in Nat /\ cursor \in Nat /\ src \in {"smartune", "journal"}
    BY <1>3 DEF LogInv, LogShape, Stamped
  <2>2. L!Second(l.ts) >= L!Second(cursor)
    BY <1>7, <2>1, SecondsAreOrdered DEF L!Passed
  <2>3. src = "journal" => l.ts <= L!Second(now) * PerSecond
    <3> SUFFICES ASSUME src = "journal", ~(l.ts <= L!Second(now) * PerSecond) PROVE FALSE
      OBVIOUS
    <3>1. L!Second(now) \in Nat /\ PerSecond \in Nat /\ L!Second(now) * PerSecond \in Nat
      BY <1>3, SecondsAreOrdered DEF Scans
    <3>2. L!Second(now) <= L!Second(l.ts) /\ L!Second(l.ts) \in Nat
      BY <1>3, <2>1, <3>1, SecondsAreOrdered
    <3>3. L!Second(L!Reach') <= L!Second(now) /\ L!Second(L!Reach') \in Nat
      BY <1>3, <1>5, SecondsAreOrdered
    <3>4. L!Second(l.ts) < L!Second(L!Reach')
      BY <1>7 DEF L!Passed
    <3> QED BY <3>1, <3>2, <3>3, <3>4
  <2>4. l \in L!Window
    BY <2>2, <2>3 DEF L!Window
  <2>5. src = "journal" => l \in L!Kernel
    BY <1>7, <2>4 DEF L!Kernel, L!Matches
  <2>6. l \in L!Answered \/ l \in L!Beyond
    BY <2>4, <2>5 DEF L!Answered, L!Beyond
  <2>7. l \in L!Beyond => l \in excused'
    BY <1>1
  <2> QED BY <1>1, <2>6, <2>7 DEF Good
<1>8. Told'
  <2> SUFFICES ASSUME NEW l \in log, L!Matches(l)
               PROVE  /\ L!Passed(l, cursor)' \/ L!Passed(l, saved)' \/ L!Known(l)' => Good(l)'
                      /\ L!Passed(l, L!Reach)' => Good(l)' \/ l \in scan'.todo
    BY <1>1, <1>6 DEF Told
  <2> QED BY <1>6, <1>7 DEF LogInv, Told
<1> QED BY <1>4, <1>8 DEF LogInv

\* The memory gains at most the line that is remembered.
LEMMA RememberedIsThis ==
    ASSUME Scans, seen \in Seq(1 .. MaxLines), NEW l \in Stamped
    PROVE  /\ L!Remember(l) \in Seq(1 .. MaxLines)
           /\ \A i \in 1 .. Len(L!Remember(l)) :
                 L!Remember(l)[i] = l.id \/ \E j \in 1 .. Len(seen) : L!Remember(l)[i] = seen[j]
<1> DEFINE all == Append(seen, l.id)
<1>1. /\ all \in Seq(1 .. MaxLines) /\ Len(all) = Len(seen) + 1 /\ Len(seen) \in Nat
      /\ \A i \in 1 .. Len(seen) : all[i] = seen[i]
      /\ all[Len(seen) + 1] = l.id
  BY AppendProperties, LenProperties DEF Stamped
<1>2. \A i \in 1 .. Len(all) : all[i] = l.id \/ \E j \in 1 .. Len(seen) : all[i] = seen[j]
  <2> HIDE DEF all
  <2> TAKE i \in 1 .. Len(all)
  <2>1. i \in 1 .. Len(seen) \/ i = Len(seen) + 1
    BY <1>1
  <2> QED BY <1>1, <2>1
<1>3. /\ Tail(all) \in Seq(1 .. MaxLines) /\ Len(Tail(all)) = Len(all) - 1
      /\ \A i \in 1 .. Len(Tail(all)) : Tail(all)[i] = all[i + 1] /\ i + 1 \in 1 .. Len(all)
  <2>1. all # << >>
    BY <1>1, EmptySeq
  <2> HIDE DEF all
  <2> QED BY <1>1, <2>1, HeadTailProperties
<1>4. \A i \in 1 .. Len(Tail(all)) : Tail(all)[i] = l.id \/ \E j \in 1 .. Len(seen) : Tail(all)[i] = seen[j]
  <2> HIDE DEF all
  <2> QED BY <1>2, <1>3
<1>5. L!Remember(l) = all \/ L!Remember(l) = Tail(all)
  BY DEF L!Remember
<1> HIDE DEF all
<1>6. CASE L!Remember(l) = all
  BY <1>1, <1>2, <1>6
<1>7. CASE L!Remember(l) = Tail(all)
  BY <1>3, <1>4, <1>7
<1> QED BY <1>5, <1>6, <1>7

\* A line that is skipped is good already.
LEMMA SkipKeeps ==
    ASSUME Scans, LogInv, NEW l \in scan.todo, scan.on, L!Behind(l) \/ L!Known(l), NEW h \in {scan.high, l.ts},
           scan' = [scan EXCEPT !.todo = @ \ {l}, !.high = h],
           UNCHANGED <<src, now, log, up, cursor, saved, seen, boot, reports, excused>>
    PROVE  LogInv'
<1>1. l \in log /\ l \in Stamped /\ l.ts \in 0 .. now /\ now \in Nat /\ h \in 0 .. now
  BY DEF LogInv, LogShape, Stamped
<1>2. scan' \in [on : BOOLEAN, todo : SUBSET log', since : 0 .. now', high : 0 .. now']
      /\ scan'.on = scan.on /\ scan'.since = scan.since /\ scan'.todo = scan.todo \ {l} /\ scan'.high = h
  BY <1>1 DEF LogInv, LogShape
<1>3. LogShape'
  BY <1>2 DEF LogInv, LogShape
<1>4. /\ L!Reach \in Nat /\ scan.high <= L!Reach /\ cursor <= L!Reach /\ saved <= L!Reach /\ l.ts <= L!Reach
  BY ReachIsLatest DEF LogInv, Reached
<1>5. L!Matches(l) => Good(l)
  <2>1. L!Behind(l) => L!Passed(l, cursor)
    BY DEF L!Behind, L!Passed, LogInv, LogShape
  <2> QED BY <1>1, <2>1 DEF LogInv, Told
<1>6. \A m \in log : L!Matches(m) => /\ (Good(m) => Good(m)')
                                    /\ (m \in scan.todo \ scan'.todo => Good(m)')
                                    /\ (L!Known(m)' => Good(m)')
  <2>1. \A m : (Good(m)' <=> Good(m)) /\ (L!Known(m)' <=> L!Known(m))
    BY DEF Good, L!Reported, L!Known
  <2> QED BY <1>2, <1>5, <2>1 DEF LogInv, Told
<1>7. scan'.high <= L!Reach /\ cursor' <= L!Reach /\ saved' <= L!Reach /\ scan'.todo \subseteq scan.todo
  BY <1>2, <1>4
<1> QED BY <1>3, <1>6, <1>7, ToldKept

\* A line that is taken up is remembered, and reported, excused or of no interest.
LEMMA TakeKeeps ==
    ASSUME Scans, LogInv, NEW l \in scan.todo, scan.on, NEW h \in {scan.high, l.ts},
           scan' = [scan EXCEPT !.todo = @ \ {l}, !.high = h], seen' = L!Remember(l),
           UNCHANGED <<src, now, log, up, cursor, saved, boot>>,
           \/ ~L!Matches(l) /\ UNCHANGED <<reports, excused>>
           \/ L!Matches(l) /\ reports' = L!Insert(l) /\ UNCHANGED excused
           \/ L!Matches(l) /\ reports' = reports /\ excused' = excused \cup {l}
    PROVE  LogInv'
<1>1. /\ l \in log /\ l \in Stamped /\ l.ts \in 0 .. now /\ now \in Nat /\ h \in 0 .. now
      /\ l.id \in 1 .. MaxLines /\ boot \in 1 .. MaxBoots /\ l.id <= Cardinality(log)
  BY DEF LogInv, LogShape, Stamped
<1>2. scan' \in [on : BOOLEAN, todo : SUBSET log', since : 0 .. now', high : 0 .. now']
      /\ scan'.on = scan.on /\ scan'.since = scan.since /\ scan'.todo = scan.todo \ {l} /\ scan'.high = h
  BY <1>1 DEF LogInv, LogShape
<1>3. /\ seen' \in Seq(1 .. MaxLines)
      /\ \A i \in 1 .. Len(seen') : seen'[i] = l.id \/ \E j \in 1 .. Len(seen) : seen'[i] = seen[j]
  BY RememberedIsThis DEF LogInv, LogShape
<1>4. /\ reports' \in [1 .. MaxLines -> [1 .. MaxBoots -> {0, 1}]]
      /\ \A i \in 1 .. MaxLines, b \in 1 .. MaxBoots : reports[i][b] > 0 => reports'[i][b] > 0
      /\ excused \subseteq excused'
      /\ L!Matches(l) => l \in excused' \/ reports'[l.id][boot] > 0
  <2>1. /\ reports \in [1 .. MaxLines -> [1 .. MaxBoots -> {0, 1}]]
        /\ reports[l.id] \in [1 .. MaxBoots -> {0, 1}] /\ reports[l.id][boot] \in {0, 1}
    <3>1. reports \in [1 .. MaxLines -> [1 .. MaxBoots -> {0, 1}]]
      BY DEF LogInv, LogShape
    <3>2. reports[l.id] \in [1 .. MaxBoots -> {0, 1}]
      BY <1>1, <3>1
    <3> QED BY <1>1, <3>1, <3>2
  <2>2. CASE reports' = [reports EXCEPT ![l.id][boot] = 1] /\ UNCHANGED excused
    <3>1. reports' = [reports EXCEPT ![l.id] = [reports[l.id] EXCEPT ![boot] = 1]]
      BY <2>2
    <3>2. [reports[l.id] EXCEPT ![boot] = 1] \in [1 .. MaxBoots -> {0, 1}]
      BY <1>1, <2>1
    <3>3. \A i \in 1 .. MaxLines :
            reports'[i] = IF i = l.id THEN [reports[l.id] EXCEPT ![boot] = 1] ELSE reports[i]
      BY <1>1, <2>1, <3>1
    <3>4. \A i \in 1 .. MaxLines, b \in 1 .. MaxBoots :
            reports'[i][b] = IF i = l.id /\ b = boot THEN 1 ELSE reports[i][b]
      <4> SUFFICES ASSUME NEW i \in 1 .. MaxLines, NEW b \in 1 .. MaxBoots
                   PROVE  reports'[i][b] = IF i = l.id /\ b = boot THEN 1 ELSE reports[i][b]
        OBVIOUS
      <4>1. CASE i = l.id
        BY <2>1, <3>3, <4>1
      <4>2. CASE i # l.id
        BY <3>3, <4>2
      <4> QED BY <4>1, <4>2
    <3> QED BY <1>1, <2>1, <2>2, <3>1, <3>2, <3>4
  <2>3. CASE reports' = reports /\ UNCHANGED excused /\ (L!Matches(l) => reports[l.id][boot] = 1)
    BY <1>1, <2>1, <2>3
  <2>4. CASE reports' = reports /\ excused' = excused \cup {l}
    BY <2>1, <2>4
  <2> QED BY <2>1, <2>2, <2>3, <2>4 DEF L!Insert
<1>5. LogShape'
  <2>1. \A i \in 1 .. Len(seen') : seen'[i] <= Cardinality(log')
    BY <1>1, <1>3 DEF LogInv, LogShape
  <2> QED BY <1>1, <1>2, <1>3, <1>4, <2>1 DEF LogInv, LogShape
<1>6. /\ L!Reach \in Nat /\ scan.high <= L!Reach /\ cursor <= L!Reach /\ saved <= L!Reach /\ l.ts <= L!Reach
  BY ReachIsLatest DEF LogInv, Reached
<1>7. \A m \in log : m.id \in 1 .. MaxLines /\ (Good(m) => Good(m)')
  <2>1. \A m \in log : m.id \in 1 .. MaxLines
    BY DEF LogInv, LogShape, Stamped
  <2> QED BY <1>4, <2>1 DEF Good, L!Reported
<1>8. L!Matches(l) => Good(l)'
  BY <1>1, <1>4 DEF Good, L!Reported
<1>9. ASSUME NEW m \in log, L!Matches(m), L!Known(m)' PROVE Good(m)'
  <2>1. PICK i \in 1 .. Len(seen') : seen'[i] = m.id
    BY <1>9 DEF L!Known
  <2>2. CASE m.id = l.id
    <3>1. m = l
      BY <1>1, <2>2 DEF LogInv, LogShape
    <3> QED BY <1>8, <1>9, <3>1
  <2>3. CASE \E j \in 1 .. Len(seen) : seen[j] = m.id
    <3>1. Good(m)
      BY <1>9, <2>3 DEF L!Known, LogInv, Told
    <3> QED BY <1>7, <3>1
  <2> QED BY <1>3, <2>1, <2>2, <2>3
<1>10. \A m \in log : L!Matches(m) => /\ (Good(m) => Good(m)')
                                     /\ (m \in scan.todo \ scan'.todo => Good(m)')
                                     /\ (L!Known(m)' => Good(m)')
  <2>1. \A m \in scan.todo \ scan'.todo : m = l
    BY <1>2
  <2> QED BY <1>7, <1>8, <1>9, <2>1
<1>11. scan'.high <= L!Reach /\ cursor' <= L!Reach /\ saved' <= L!Reach /\ scan'.todo \subseteq scan.todo
  BY <1>2, <1>6
<1> QED BY <1>5, <1>10, <1>11, ToldKept

\* Processing a line, either way.
LEMMA ProcessKeeps == ASSUME Scans, LogInv, L!Process PROVE LogInv'
<1>1. PICK l \in scan.todo :
        IF L!Behind(l) \/ L!Known(l)
        THEN /\ scan' = [scan EXCEPT !.todo = @ \ {l}, !.high = IF src = "journal" THEN L!Latest(@, l.ts) ELSE @]
             /\ UNCHANGED <<seen, reports, excused>>
        ELSE /\ scan' = [scan EXCEPT !.todo = @ \ {l}, !.high = L!Latest(@, l.ts)]
             /\ seen' = L!Remember(l)
             /\ \/ ~L!Matches(l) /\ UNCHANGED <<reports, excused>>
                \/ L!Matches(l) /\ reports' = L!Insert(l) /\ UNCHANGED excused
                \/ L!Matches(l) /\ reports' = reports /\ excused' = excused \cup {l}
  BY DEF L!Process
<1>2. scan.on /\ UNCHANGED <<src, now, log, up, cursor, saved, boot>>
  BY DEF L!Process
<1> DEFINE later == L!Latest(scan.high, l.ts)
<1>3. later \in {scan.high, l.ts}
  BY DEF L!Latest
<1>4. CASE L!Behind(l) \/ L!Known(l)
  <2>1. PICK h \in {scan.high, l.ts} : scan' = [scan EXCEPT !.todo = @ \ {l}, !.high = h]
    BY <1>1, <1>3, <1>4
  <2> QED BY <1>1, <1>2, <1>4, <2>1, SkipKeeps
<1>5. CASE ~(L!Behind(l) \/ L!Known(l))
  <2>1. PICK h \in {scan.high, l.ts} : scan' = [scan EXCEPT !.todo = @ \ {l}, !.high = h]
    BY <1>1, <1>3, <1>5
  <2> QED BY <1>1, <1>2, <1>5, <2>1, TakeKeeps
<1> QED BY <1>4, <1>5

\* Every step of the log, of the scan and of the machine keeps the invariant.
LEMMA LogInductive == Scans /\ LogInv /\ [L!Next]_L!vars => LogInv'
<1> SUFFICES ASSUME Scans, LogInv, [L!Next]_L!vars PROVE LogInv'
  OBVIOUS
<1>1. CASE UNCHANGED L!vars
  <2>1. L!Reach' = L!Reach
    BY <1>1 DEF L!vars, L!Reach
  <2> QED BY <1>1, <2>1 DEF L!vars, LogInv, LogShape, Told, Good, L!Reported, L!Passed, L!Second, L!Matches, L!Known
<1> QED BY <1>1, WriteKeeps, StartKeeps, QueryKeeps, ProcessKeeps, FinishKeeps, CrashKeeps, LogTickKeeps DEF L!Next

\* For any limits, memory and delays, a matching line that the saved cursor has passed, or that the
\* scan has taken for known, is in the event table, rightly missed or refused by the database, whatever
\* crashed in between.  (run_once, initialize_cursors.)
THEOREM LinesAreNotMissed == Scans /\ L!Spec => []L!LinesAreReported
<1> SUFFICES ASSUME Scans PROVE L!Spec => []L!LinesAreReported
  OBVIOUS
<1>1. LogInv => L!LinesAreReported
  BY DEF LogInv, Told, Good, L!LinesAreReported
<1>2. L!Init => LogInv
  BY InitLog
<1>3. LogInv /\ [L!Next]_L!vars => LogInv'
  BY LogInductive
<1> QED BY <1>1, <1>2, <1>3, PTL DEF L!Spec

\* For any limits and memory, no line is twice in the event table for one boot.  (record_event.)
THEOREM LinesAreReportedOnce == Scans /\ L!Spec => []L!ReportedOnce
<1> SUFFICES ASSUME Scans PROVE L!Spec => []L!ReportedOnce
  OBVIOUS
<1>1. LogInv => L!ReportedOnce
  <2> SUFFICES ASSUME LogInv, NEW i \in 1 .. MaxLines, NEW b \in 1 .. MaxBoots PROVE reports[i][b] <= 1
    BY DEF L!ReportedOnce
  <2>1. reports \in [1 .. MaxLines -> [1 .. MaxBoots -> {0, 1}]]
    BY DEF LogInv, LogShape
  <2>2. reports[i][b] \in {0, 1}
    BY <2>1
  <2> QED BY <2>2
<1>2. L!Init => LogInv
  BY InitLog
<1>3. LogInv /\ [L!Next]_L!vars => LogInv'
  BY LogInductive
<1> QED BY <1>1, <1>2, <1>3, PTL DEF L!Spec

-----------------------------------------------------------------------------
(***************************************************************************)
(* Pressure on the network: what every sample of a NIC's history tells of  *)
(* the time since it.                                                      *)
(***************************************************************************)

\* A sample is in the window when it is made; a burst of loss opens the activity gate over any gap
\* within it, and is above the half point among all the packets that fit in it.
Windows == Window \in 1 .. 5

Counters == [packets : Nat, ring : Nat, drops : Nat]
Sample == [at : Nat, c : Counters]
Score == 0 .. 100
NicMonitor == [history : Seq(Sample), distress : Score, rx : Score, tx : {0, 95}, exhausted : BOOLEAN]

\* What is published is what the monitors say; a fast second has traffic, a burst is a loss of this second.
NetShape ==
    /\ now \in Nat /\ present \subseteq Nics /\ util \subseteq present
    /\ counters \in [Nics -> Counters]
    /\ trouble \in [Nics -> [ring : 0 .. now, any : 0 .. now, traffic : 0 .. now, reset : 0 .. now, burst : BOOLEAN, last : N!Seconds, turns : Nat]]
    /\ \A n \in util : trouble[n].any = now /\ trouble[n].traffic = now
    /\ \A n \in Nics : /\ trouble[n].burst => trouble[n].ring = now
                       /\ trouble[n].ring <= trouble[n].any
    /\ DOMAIN monitor \subseteq Nics /\ \A n \in DOMAIN monitor : monitor[n] \in NicMonitor
    /\ snapshot = [n \in DOMAIN monitor |-> [rx |-> monitor[n].rx, tx |-> monitor[n].tx,
                                             exhausted |-> monitor[n].exhausted]]

\* What has happened to the NIC since the sample e, by the counters.
SinceSample(n, e) ==
    /\ e.at <= now
    /\ counters[n].ring > e.c.ring => trouble[n].ring > e.at
    /\ counters[n].drops > e.c.drops => trouble[n].any > e.at
    /\ counters[n].packets <= e.c.packets + 100 * (now - e.at)
    /\ trouble[n].traffic <= e.at => counters[n].packets <= e.c.packets + (now - e.at)
    /\ trouble[n].reset < e.at =>
         /\ n \in present /\ counters[n].packets >= e.c.packets /\ counters[n].ring >= e.c.ring
         /\ trouble[n].burst /\ e.at < now =>
              counters[n].packets >= e.c.packets + 100 /\ counters[n].ring >= e.c.ring + 12

\* A monitor's samples are in order, and much distress has a cause within the window before the
\* next second.
Remembers(n, h, distress) ==
    /\ Len(h) > 0
    /\ \A i \in 1 .. Len(h) : SinceSample(n, h[i])
    /\ \A i, j \in 1 .. Len(h) : i < j => h[i].at < h[j].at
    /\ distress >= 72 => /\ h[Len(h)].at + 1 <= trouble[n].any + Window
                         /\ h[Len(h)].at + 1 <= trouble[n].traffic + Window

\* What the sample of this second says.
Judged(n, m) ==
    m.history[Len(m.history)].at = now =>
        /\ m.exhausted => now <= trouble[n].ring + Window
        /\ m.rx >= 50 => now <= trouble[n].any + Window /\ now <= trouble[n].traffic + Window + 1
        /\ Len(m.history) > 1 /\ trouble[n].burst /\ trouble[n].reset < m.history[1].at =>
             m.rx >= 90 /\ m.exhausted

NetInv ==
    NetShape /\ \A n \in DOMAIN monitor : /\ Remembers(n, monitor[n].history, monitor[n].distress)
                                          /\ Judged(n, monitor[n])

-----------------------------------------------------------------------------
\* The lesser and the greater of two numbers.
LEMMA LesserAndGreater ==
    ASSUME NEW a \in Int, NEW b \in Int
    PROVE  /\ N!Max({a, b}) \in {a, b} /\ N!Max({a, b}) >= a /\ N!Max({a, b}) >= b
           /\ N!Min({a, b}) \in {a, b} /\ N!Min({a, b}) <= a /\ N!Min({a, b}) <= b
<1>1. \E x \in {a, b} : \A y \in {a, b} : x >= y
  <2>1. CASE a >= b
    BY <2>1
  <2>2. CASE b >= a
    BY <2>2
  <2> QED BY <2>1, <2>2
<1>2. \E x \in {a, b} : \A y \in {a, b} : x =< y
  <2>1. CASE a >= b
    BY <2>1
  <2>2. CASE b >= a
    BY <2>2
  <2> QED BY <2>1, <2>2
<1> QED BY <1>1, <1>2 DEF N!Max, N!Min

\* Scores are numbers.
LEMMA ScoresAreNumbers == \A x \in Score : x \in Int
BY DEF Score

\* What fusing two scores gives.
LEMMA FusedScore ==
    ASSUME NEW a \in Score, NEW b \in Score
    PROVE  /\ N!NoisyOr(a, b) \in Score
           /\ a = 0 => N!NoisyOr(a, b) = b
           /\ a = 100 => N!NoisyOr(a, b) = 100
           /\ b >= 90 => N!NoisyOr(a, b) >= 90
           /\ a <= 3 /\ b <= 10 => N!NoisyOr(a, b) < 50
<1> DEFINE u == 100 - a
           v == 100 - b
<1>1. u \in Score /\ v \in Score
  BY DEF Score
<1> HIDE DEF u, v
<1>2. u * v \in 0 .. 10000
  <2>1. u * v \in Nat /\ u * v <= 100 * v
    <3>1. PICK k \in Nat : u + k = 100
      <4>1. 100 - u \in Nat
        BY <1>1 DEF Score
      <4> QED BY <1>1, <4>1 DEF Score
    <3>2. u * v + k * v = 100 * v /\ k * v \in Nat /\ u * v \in Nat
      BY <1>1, <3>1 DEF Score
    <3> QED BY <3>2, <1>1 DEF Score
  <2> QED BY <1>1, <2>1 DEF Score
<1> DEFINE p == u * v
<1>3. N!NoisyOr(a, b) = 100 - p \div 100
  BY DEF N!NoisyOr, u, v
<1>4. p \in 0 .. 10000
  BY <1>2
<1>5. /\ a = 0 => p = 100 * (100 - b)
      /\ a = 100 => p = 0
  BY DEF Score, u, v
<1>6. b >= 90 => p <= 1000
  <2> SUFFICES ASSUME b >= 90 PROVE u * v <= 1000
    OBVIOUS
  <2>1. v \in 0 .. 10
    BY DEF v, Score
  <2>2. \A x \in 0 .. 10 : u * x <= 1000
    BY <1>1 DEF Score
  <2> QED BY <2>1, <2>2
<1>7. a <= 3 /\ b <= 10 => p >= 8000
  <2> SUFFICES ASSUME a <= 3, b <= 10 PROVE u * v >= 8000
    OBVIOUS
  <2>1. u \in 97 .. 100 /\ v \in 90 .. 100
    BY DEF u, v, Score
  <2>2. \A x \in 97 .. 100 : x * v >= 8000
    BY <2>1
  <2> QED BY <2>1, <2>2
<1> HIDE DEF p
<1>8. N!NoisyOr(a, b) \in Score
  BY <1>3, <1>4 DEF Score
<1>9. a = 0 => N!NoisyOr(a, b) = b
  BY <1>3, <1>5 DEF Score
<1>10. a = 100 => N!NoisyOr(a, b) = 100
  BY <1>3, <1>5 DEF Score
<1>11. b >= 90 => N!NoisyOr(a, b) >= 90
  BY <1>3, <1>4, <1>6
<1>12. a <= 3 /\ b <= 10 => N!NoisyOr(a, b) < 50
  BY <1>3, <1>4, <1>7
<1> QED BY <1>8, <1>9, <1>10, <1>11, <1>12

\* The activity gate: open over a busy second, hardly so without traffic.
LEMMA ActivityIs ==
    ASSUME NEW pkts \in Nat, NEW dt \in Nat \ {0}
    PROVE  /\ N!Activity(pkts, dt) \in Score
           /\ pkts >= 100 /\ dt <= 5 => N!Activity(pkts, dt) = 100
           /\ pkts <= dt => N!Activity(pkts, dt) <= 10
<1> DEFINE q == (5 * pkts) \div dt
           r == (5 * pkts) % dt
<1>1. q \in Nat /\ r \in 0 .. (dt - 1) /\ 5 * pkts = dt * q + r
  OBVIOUS
<1>2. N!Activity(pkts, dt) = N!Min({100, q})
  BY DEF N!Activity
<1> HIDE DEF q, r
<1>3. N!Activity(pkts, dt) \in {100, q} /\ N!Activity(pkts, dt) <= 100 /\ N!Activity(pkts, dt) <= q
  <2>1. q \in Int /\ 100 \in Int
    BY <1>1
  <2>2. /\ N!Min({100, q}) \in {100, q} /\ N!Min({100, q}) <= 100 /\ N!Min({100, q}) <= q
    BY <2>1, LesserAndGreater
  <2> QED BY <1>2, <2>2
<1>4. pkts >= 100 /\ dt <= 5 => q >= 100
  <2> SUFFICES ASSUME pkts >= 100, dt \in 1 .. 5, q <= 99 PROVE FALSE
    BY <1>1
  <2>1. dt * q <= 5 * 99
    BY <1>1
  <2> QED BY <1>1, <2>1
<1>5. pkts <= dt => q <= 10
  <2> SUFFICES ASSUME pkts <= dt, q >= 11 PROVE FALSE
    BY <1>1
  <2>1. PICK k \in Nat : q = 11 + k
    <3>1. q - 11 \in Nat
      BY <1>1
    <3> QED BY <1>1, <3>1
  <2>2. dt * q = 11 * dt + dt * k /\ dt * k \in Nat
    BY <2>1
  <2> QED BY <1>1, <2>2
<1> QED BY <1>1, <1>3, <1>4, <1>5 DEF Score

\* Distress decays below 72 in a second, and from below 72 to below 50.
LEMMA DecayedIs ==
    ASSUME NEW d \in Score, NEW dt \in Nat \ {0}
    PROVE  /\ N!Decayed(d, dt) \in Score /\ N!Decayed(d, dt) < 72
           /\ N!Decayed(d, dt) >= 50 => dt = 1 /\ d >= 72
<1> DEFINE remains == IF dt <= 5 THEN <<70, 49, 34, 24, 17>>[dt] ELSE 12
<1>1. N!Decayed(d, dt) = (d * remains) \div 100
  BY DEF N!Decayed, N!Scaled
<1>2. remains \in 0 .. 49 \/ (dt = 1 /\ remains = 70)
  BY DEF remains
<1> HIDE DEF remains
<1>3. \A k \in 0 .. 49 : (d * k) \div 100 \in 0 .. 49
  BY DEF Score
<1>4. (d * 70) \div 100 \in 0 .. 70 /\ ((d * 70) \div 100 >= 50 => d >= 72)
  BY DEF Score
<1>5. CASE remains \in 0 .. 49
  BY <1>1, <1>3, <1>5 DEF Score
<1>6. CASE dt = 1 /\ remains = 70
  BY <1>1, <1>4, <1>6 DEF Score
<1> QED BY <1>2, <1>5, <1>6

\* The product of two scores, each of a hundred, is one; full scores and small ones.
LEMMA ScaledIs ==
    ASSUME NEW a \in Score, NEW b \in Score
    PROVE  /\ N!Scaled(a, b) \in Score
           /\ a = 100 => N!Scaled(a, b) = b
           /\ b = 0 => N!Scaled(a, b) = 0
           /\ a <= 10 => N!Scaled(a, b) <= 10
           /\ a <= 10 /\ b <= 30 => N!Scaled(a, b) <= 3
           /\ a = 30 => N!Scaled(a, b) <= 30
<1> DEFINE p == a * b
<1>1. N!Scaled(a, b) = p \div 100
  BY DEF N!Scaled
<1>2. p \in 0 .. 10000
  <2>1. a * b \in Nat /\ a * b <= 100 * b
    <3>1. PICK k \in Nat : a + k = 100
      <4>1. 100 - a \in Nat
        BY DEF Score
      <4> QED BY <4>1 DEF Score
    <3>2. a * b + k * b = 100 * b /\ k * b \in Nat /\ a * b \in Nat
      BY <3>1 DEF Score
    <3> QED BY <3>2 DEF Score
  <2> QED BY <2>1 DEF Score
<1>3. /\ a = 100 => p = 100 * b
      /\ b = 0 => p = 0
      /\ a = 30 => p = 30 * b
  BY DEF Score
<1>4. a <= 10 => p <= 10 * b
  <2>1. \A x \in 0 .. 10 : x * b <= 10 * b
    BY DEF Score
  <2> QED BY <2>1 DEF Score
<1> HIDE DEF p
<1>5. p \div 100 \in Score
  BY <1>2 DEF Score
<1>6. a = 100 => p \div 100 = b
  BY <1>2, <1>3 DEF Score
<1>7. b = 0 => p \div 100 = 0
  BY <1>2, <1>3 DEF Score
<1>8. a <= 10 => p \div 100 <= 10 /\ (b <= 30 => p \div 100 <= 3)
  BY <1>2, <1>4 DEF Score
<1>9. a = 30 => p \div 100 <= 30
  BY <1>2, <1>3 DEF Score
<1> QED BY <1>1, <1>5, <1>6, <1>7, <1>8, <1>9

\* The score of a loss, by its share of the packets.
LEMMA SatIs ==
    ASSUME NEW x \in Int
    PROVE  /\ N!Sat(x) \in Score
           /\ N!Sat(x) > 0 => x > 0
           /\ x >= 231 => N!Sat(x) >= 90
BY DEF N!Sat, Score

\* What is kept is the end of the history, from a sample within the window on.
LEMMA KeptIsTheEnd ==
    ASSUME NEW h \in Seq(Sample), Len(h) > 0, now \in Nat, Windows, h[Len(h)].at = now
    PROVE  \E k \in 1 .. Len(h) :
             /\ N!Kept(h) \in Seq(Sample) /\ Len(N!Kept(h)) = Len(h) - k + 1
             /\ \A i \in 1 .. Len(N!Kept(h)) : N!Kept(h)[i] = h[i + k - 1]
             /\ h[k].at + Window >= now
<1> DEFINE in == {i \in DOMAIN h : h[i].at + Window >= now}
<1>1. DOMAIN h = 1 .. Len(h) /\ Len(h) \in Nat
  BY LenProperties
<1>2. Len(h) \in in
  BY <1>1 DEF Windows
<1>3. in \subseteq Nat
  BY <1>1
<1>4. PICK k \in in : \A j \in in : <<j, k>> \notin OpToRel(<, Nat)
  <2> HIDE DEF in
  <2> QED BY <1>2, <1>3, NatLessThanWellFounded, WFMin
<1>5. \A j \in in : k =< j
  <2> HIDE DEF in
  <2> SUFFICES ASSUME NEW j \in in PROVE k =< j
    OBVIOUS
  <2>1. j \in Nat /\ k \in Nat
    BY <1>3, <1>4
  <2>2. j < k => <<j, k>> \in OpToRel(<, Nat)
    BY <2>1 DEF OpToRel
  <2>3. <<j, k>> \notin OpToRel(<, Nat)
    BY <1>4
  <2>4. ~(j < k)
    BY <2>2, <2>3
  <2> QED BY <2>1, <2>4
<1>6. N!Min(in) \in in
  <2> HIDE DEF in
  <2> QED BY <1>4, <1>5 DEF N!Min
<1> DEFINE m == N!Min(in)
<1>7. N!Kept(h) = SubSeq(h, m, Len(h))
  BY DEF N!Kept
<1>8. m \in 1 .. Len(h) /\ h[m].at + Window >= now
  BY <1>1, <1>6
<1> HIDE DEF m
<1>9. /\ SubSeq(h, m, Len(h)) \in Seq(Sample)
      /\ Len(SubSeq(h, m, Len(h))) = Len(h) - m + 1
      /\ \A i \in 1 .. (Len(h) - m + 1) : SubSeq(h, m, Len(h))[i] = h[m + i - 1]
  BY <1>1, <1>8, SubSeqProperties
<1> QED BY <1>1, <1>7, <1>8, <1>9

-----------------------------------------------------------------------------
\* What a sample is made of.
Entry(n) == [at |-> now, c |-> counters[n]]
Last(m) == m.history[Len(m.history)]
NewHistory(n, m) == N!Kept(Append(m.history, Entry(n)))
Passed(m) == now - Last(m).at
Arrived(n, m) == counters[n].packets - Last(m).c.packets
Active(n, m) == IF Arrived(n, m) < 0 THEN 0 ELSE N!Activity(Arrived(n, m), Passed(m))
LostIn(n, m, field) == N!Halves(NewHistory(n, m), field)
Instant(n, m) ==
    N!NoisyOr(N!Scaled(Active(n, m), N!Scaled(30, N!Sat(LostIn(n, m, "drops")))),
              N!Scaled(Active(n, m), N!Sat(LostIn(n, m, "ring"))))
Distress(n, m) == N!Max({N!Decayed(m.distress, Passed(m)), Instant(n, m)})

\* A monitor that may be sampled now.
Due(n, m) ==
    /\ Windows /\ NetShape /\ n \in present /\ m \in NicMonitor
    /\ Remembers(n, m.history, m.distress) /\ Last(m).at < now

\* A sample, by its parts.
LEMMA SampledIs ==
    ASSUME NEW n, NEW m, NEW busy, NEW tx, m.history # <<>>
    PROVE  N!Sampled(n, m, n \in busy, tx)
             = [history |-> NewHistory(n, m), distress |-> Distress(n, m),
                rx |-> N!NoisyOr(IF n \in busy THEN 100 ELSE 0, Distress(n, m)), tx |-> tx,
                exhausted |-> LostIn(n, m, "ring") >= 100]
BY DEF N!Sampled, N!Last, Entry, Last, NewHistory, Passed, Arrived, Active, LostIn, Instant, Distress

\* The new history is in order, within the window, and ends with the sample before and this one.
LEMMA HistoryIs ==
    ASSUME NEW n, NEW m, Due(n, m)
    PROVE  LET h == NewHistory(n, m)
           IN /\ h \in Seq(Sample) /\ Len(h) \in Nat \ {0} /\ h[Len(h)] = Entry(n)
              /\ \A i \in 1 .. Len(h) : SinceSample(n, h[i]) /\ h[i].at + Window >= now
              /\ \A i, j \in 1 .. Len(h) : i < j => h[i].at < h[j].at
              /\ Len(h) > 1 => h[Len(h) - 1] = Last(m)
<1> DEFINE s == m.history
           g == Append(s, Entry(n))
           h == NewHistory(n, m)
<1>1. /\ s \in Seq(Sample) /\ Len(s) \in Nat /\ Len(s) > 0 /\ now \in Nat /\ n \in Nics /\ Windows
      /\ counters[n] \in Counters /\ Entry(n) \in Sample
  BY LenProperties DEF Due, NicMonitor, Remembers, NetShape, Entry, Sample
<1>2. /\ g \in Seq(Sample) /\ Len(g) = Len(s) + 1 /\ g[Len(g)] = Entry(n)
      /\ \A i \in 1 .. Len(s) : g[i] = s[i]
  BY <1>1, AppendProperties
<1> HIDE DEF g
<1>3. SinceSample(n, Entry(n))
  BY <1>1 DEF SinceSample, Entry, Due, Counters
<1>4. \A i \in 1 .. Len(g) : SinceSample(n, g[i])
  <2> SUFFICES ASSUME NEW i \in 1 .. Len(g) PROVE SinceSample(n, g[i])
    OBVIOUS
  <2>1. CASE i \in 1 .. Len(s)
    BY <1>2, <2>1 DEF Due, Remembers
  <2>2. CASE i = Len(g)
    BY <1>2, <1>3, <2>2
  <2> QED BY <1>1, <1>2, <2>1, <2>2
<1>5. \A i \in 1 .. Len(s) : s[i].at \in Nat /\ s[i].at < now
  <2> SUFFICES ASSUME NEW i \in 1 .. Len(s) PROVE s[i].at \in Nat /\ s[i].at < now
    OBVIOUS
  <2>1. s[i] \in Sample /\ s[Len(s)] \in Sample
    BY <1>1, ElementOfSeq
  <2>2. s[i].at <= s[Len(s)].at
    <3>1. CASE i = Len(s)
      BY <3>1, <2>1 DEF Sample
    <3>2. CASE i < Len(s)
      <4>1. \A a, b \in 1 .. Len(s) : a < b => s[a].at < s[b].at
        BY DEF Due, Remembers
      <4>2. Len(s) \in 1 .. Len(s) /\ i \in 1 .. Len(s)
        BY <1>1
      <4>3. s[i].at < s[Len(s)].at
        BY <4>1, <4>2, <3>2
      <4> QED BY <4>3, <2>1 DEF Sample
    <3> QED BY <3>1, <3>2, <1>1
  <2> QED BY <1>1, <2>1, <2>2 DEF Sample, Due, Last
<1>6. \A i, j \in 1 .. Len(g) : i < j => g[i].at < g[j].at
  <2> SUFFICES ASSUME NEW i \in 1 .. Len(g), NEW j \in 1 .. Len(g), i < j PROVE g[i].at < g[j].at
    OBVIOUS
  <2>1. i \in 1 .. Len(s)
    BY <1>1, <1>2
  <2>2. CASE j \in 1 .. Len(s)
    BY <1>2, <2>1, <2>2 DEF Due, Remembers
  <2>3. CASE j = Len(g)
    BY <1>2, <1>5, <2>1, <2>3 DEF Entry
  <2> QED BY <1>1, <1>2, <2>2, <2>3
<1>7. g[Len(g)].at = now /\ Len(g) > 0
  BY <1>1, <1>2 DEF Entry
<1>8. PICK k \in 1 .. Len(g) :
             /\ N!Kept(g) \in Seq(Sample) /\ Len(N!Kept(g)) = Len(g) - k + 1
             /\ \A i \in 1 .. Len(N!Kept(g)) : N!Kept(g)[i] = g[i + k - 1]
             /\ g[k].at + Window >= now
  BY <1>1, <1>2, <1>7, KeptIsTheEnd
<1>9. h = N!Kept(g)
  BY DEF g, NewHistory
<1> HIDE DEF h
<1>10. h \in Seq(Sample) /\ Len(h) \in Nat \ {0} /\ Len(h) = Len(g) - k + 1
  BY <1>1, <1>2, <1>8, <1>9
<1>11. \A i \in 1 .. Len(h) : i + k - 1 \in 1 .. Len(g) /\ h[i] = g[i + k - 1]
  BY <1>1, <1>2, <1>8, <1>9, <1>10
<1>12. h[Len(h)] = Entry(n)
  <2>1. Len(h) + k - 1 = Len(g) /\ Len(h) \in 1 .. Len(h)
    BY <1>1, <1>2, <1>10
  <2> QED BY <1>2, <1>11, <2>1
<1>13. \A i \in 1 .. Len(h) : SinceSample(n, h[i]) /\ h[i].at + Window >= now
  <2> SUFFICES ASSUME NEW i \in 1 .. Len(h) PROVE SinceSample(n, h[i]) /\ h[i].at + Window >= now
    OBVIOUS
  <2>1. SinceSample(n, h[i])
    BY <1>4, <1>11
  <2>2. g[k] \in Sample /\ g[i + k - 1] \in Sample
    BY <1>2, <1>8, <1>11, ElementOfSeq
  <2>3. g[k].at <= g[i + k - 1].at
    <3>1. CASE i = 1
      BY <3>1, <2>2, <1>8 DEF Sample
    <3>2. CASE i > 1
      <4>1. k < i + k - 1 /\ i + k - 1 \in 1 .. Len(g)
        BY <3>2, <1>8, <1>11, <1>10
      <4>2. g[k].at < g[i + k - 1].at
        BY <4>1, <1>6, <1>8
      <4> QED BY <4>2, <2>2 DEF Sample
    <3> QED BY <3>1, <3>2, <1>10
  <2>4. g[i + k - 1].at + Window >= now
    <3>1. g[k].at \in Nat /\ g[i + k - 1].at \in Nat /\ Window \in Nat /\ now \in Nat
      BY <2>2, <1>1 DEF Sample, Windows
    <3>2. g[k].at + Window >= now
      BY <1>8
    <3>3. \A x, y, w, t \in Nat : x <= y /\ x + w >= t => y + w >= t
      OBVIOUS
    <3> HIDE DEF g
    <3> QED BY <3>1, <3>2, <3>3, <2>3
  <2> QED BY <2>1, <2>4, <1>11
<1>14. \A i, j \in 1 .. Len(h) : i < j => h[i].at < h[j].at
  <2> SUFFICES ASSUME NEW i \in 1 .. Len(h), NEW j \in 1 .. Len(h), i < j PROVE h[i].at < h[j].at
    OBVIOUS
  <2>1. i + k - 1 < j + k - 1
    BY <1>8, <1>10
  <2> QED BY <2>1, <1>6, <1>11
<1>15. Len(h) > 1 => h[Len(h) - 1] = Last(m)
  <2> SUFFICES ASSUME Len(h) > 1 PROVE h[Len(h) - 1] = s[Len(s)]
    BY DEF Last
  <2>1. (Len(h) - 1) + k - 1 = Len(s) /\ Len(h) - 1 \in 1 .. Len(h) /\ Len(s) \in 1 .. Len(s)
    BY <1>1, <1>2, <1>8, <1>10
  <2> QED BY <1>2, <1>11, <2>1
<1> QED BY <1>10, <1>12, <1>13, <1>14, <1>15 DEF h

\* A loss that counts in the halves of the window is one between the first sample and the last.
LEMMA LossMoves ==
    ASSUME NEW h \in Seq(Sample), Len(h) \in Nat \ {0}, NEW field \in {"ring", "drops"}
    PROVE  /\ N!Halves(h, field) \in Int
           /\ N!Halves(h, field) > 0 => Len(h) > 1 /\ h[Len(h)].c[field] > h[1].c[field]
<1> DEFINE lost == h[Len(h)].c[field] - h[1].c[field]
           packets == h[Len(h)].c.packets - h[1].c.packets
           per == N!PerHalf(field)
<1>1. N!Halves(h, field) = IF packets <= 0 \/ lost < 0 THEN 0 ELSE (per * lost) \div packets
  BY DEF N!Halves, N!Last, Head
<1>2. h[1] \in Sample /\ h[Len(h)] \in Sample
  <2>1. 1 \in 1 .. Len(h) /\ Len(h) \in 1 .. Len(h)
    OBVIOUS
  <2> QED BY <2>1, ElementOfSeq
<1>3. h[1].c[field] \in Nat /\ h[Len(h)].c[field] \in Nat
      /\ h[1].c.packets \in Nat /\ h[Len(h)].c.packets \in Nat
  BY <1>2 DEF Sample, Counters
<1>4. lost \in Int /\ packets \in Int /\ per \in Nat
  BY <1>3 DEF N!PerHalf
<1>5. Len(h) = 1 => lost = 0
  BY <1>3
<1>6. lost > 0 => h[Len(h)].c[field] > h[1].c[field]
  BY <1>3
<1> HIDE DEF lost, packets, per
<1>7. \A l, q \in Int, k \in Nat : q > 0 /\ l >= 0 => (k * l) \div q \in Int
  <2> SUFFICES ASSUME NEW l \in Int, NEW q \in Int, NEW k \in Nat, q > 0, l >= 0
               PROVE  (k * l) \div q \in Int
    OBVIOUS
  <2>1. k * l \in Int
    OBVIOUS
  <2> QED BY <2>1
<1>8. \A q \in Int : q > 0 => (per * 0) \div q = 0
  <2>1. per * 0 = 0
    BY <1>4
  <2>2. \A q \in Int : q > 0 => 0 \div q = 0
    OBVIOUS
  <2> QED BY <2>1, <2>2
<1>9. N!Halves(h, field) \in Int
  BY <1>1, <1>4, <1>7
<1>10. ASSUME N!Halves(h, field) > 0 PROVE lost > 0
  <2>1. packets > 0 /\ lost >= 0 /\ N!Halves(h, field) = (per * lost) \div packets
    BY <1>1, <1>4, <1>10
  <2>2. lost # 0
    BY <1>4, <1>8, <1>10, <2>1
  <2> QED BY <1>4, <2>1, <2>2
<1>11. Len(h) > 1 \/ Len(h) = 1
  OBVIOUS
<1> QED BY <1>4, <1>5, <1>6, <1>9, <1>10, <1>11

\* A loss that the history shows is within the window.
LEMMA LossIsRecent ==
    ASSUME NEW n, NEW m, Due(n, m), NEW field \in {"ring", "drops"}, LostIn(n, m, field) > 0
    PROVE  /\ Len(NewHistory(n, m)) > 1 /\ Passed(m) \in 1 .. Window
           /\ now + 1 <= trouble[n].any + Window
           /\ field = "ring" => now + 1 <= trouble[n].ring + Window
<1> DEFINE h == NewHistory(n, m)
<1>1. /\ h \in Seq(Sample) /\ Len(h) \in Nat \ {0} /\ h[Len(h)] = Entry(n)
      /\ \A i \in 1 .. Len(h) : SinceSample(n, h[i]) /\ h[i].at + Window >= now
      /\ Len(h) > 1 => h[Len(h) - 1] = Last(m)
  BY HistoryIs
<1>2. Len(h) > 1 /\ h[Len(h)].c[field] > h[1].c[field]
  BY <1>1, LossMoves DEF LostIn
<1> HIDE DEF h
<1>3. /\ SinceSample(n, h[1]) /\ h[1].at + Window >= now /\ h[1] \in Sample
      /\ Last(m).at + Window >= now /\ Last(m) \in Sample
  <2>1. 1 \in 1 .. Len(h) /\ Len(h) - 1 \in 1 .. Len(h)
    BY <1>1, <1>2
  <2> QED BY <1>1, <1>2, <2>1, ElementOfSeq
<1>4. counters[n][field] > h[1].c[field]
  BY <1>1, <1>2 DEF Entry
<1>5. /\ now \in Nat /\ Window \in Nat /\ trouble[n].ring \in Nat /\ trouble[n].any \in Nat
      /\ trouble[n].ring <= trouble[n].any
  BY DEF Due, NetShape, Windows
<1>6. Passed(m) \in 1 .. Window
  BY <1>3, <1>5 DEF Passed, Due, Sample
<1>7. field = "ring" => trouble[n].ring > h[1].at
  BY <1>3, <1>4 DEF SinceSample
<1>8. trouble[n].any > h[1].at
  BY <1>3, <1>4, <1>5, <1>7 DEF SinceSample, Sample
<1>9. h[1].at \in Nat
  BY <1>3 DEF Sample
<1>10. now + 1 <= trouble[n].any + Window
  BY <1>3, <1>5, <1>8, <1>9
<1>11. field = "ring" => now + 1 <= trouble[n].ring + Window
  BY <1>3, <1>5, <1>7, <1>9
<1> QED BY <1>2, <1>6, <1>10, <1>11 DEF h

\* Distress rises with a loss in the window and enough traffic, and it does not outlive them much.
LEMMA DistressIs ==
    ASSUME NEW n, NEW m, Due(n, m)
    PROVE  /\ Distress(n, m) \in Score
           /\ Distress(n, m) >= 50 => /\ now <= trouble[n].any + Window
                                      /\ now <= trouble[n].traffic + Window + 1
           /\ Distress(n, m) >= 72 => /\ now + 1 <= trouble[n].any + Window
                                      /\ now + 1 <= trouble[n].traffic + Window
<1>1. /\ now \in Nat /\ Window \in 1 .. 5 /\ trouble[n].any \in Nat /\ trouble[n].traffic \in Nat
      /\ counters[n] \in Counters /\ m.distress \in Score /\ Last(m) \in Sample
  <2>1. m.history \in Seq(Sample) /\ Len(m.history) \in 1 .. Len(m.history)
    BY LenProperties DEF Due, NicMonitor, Remembers
  <2> QED BY <2>1, ElementOfSeq DEF Due, NetShape, Windows, NicMonitor, Last
<1>2. Passed(m) \in Nat \ {0} /\ Arrived(n, m) \in Int
  BY <1>1 DEF Passed, Arrived, Due, Sample, Counters
<1>3. /\ Active(n, m) \in Score
      /\ Arrived(n, m) <= Passed(m) => Active(n, m) <= 10
  <2>1. CASE Arrived(n, m) < 0
    BY <2>1 DEF Active, Score
  <2>2. CASE ~(Arrived(n, m) < 0)
    <3>1. Arrived(n, m) \in Nat
      BY <1>2, <2>2
    <3> QED BY <1>2, <2>2, <3>1, ActivityIs DEF Active
  <2> QED BY <2>1, <2>2
<1> DEFINE d == LostIn(n, m, "drops")
           o == LostIn(n, m, "ring")
           a == N!Scaled(Active(n, m), N!Scaled(30, N!Sat(d)))
           b == N!Scaled(Active(n, m), N!Sat(o))
<1>20. d \in Int /\ o \in Int
  BY HistoryIs, LossMoves DEF LostIn
<1>21. Instant(n, m) = N!NoisyOr(a, b)
  BY DEF Instant
<1> HIDE DEF d, o
<1>22. /\ N!Sat(d) \in Score /\ N!Sat(o) \in Score
       /\ N!Sat(d) > 0 => d > 0
       /\ N!Sat(o) > 0 => o > 0
  BY <1>20, SatIs
<1>23. /\ N!Scaled(30, N!Sat(d)) \in Score /\ N!Scaled(30, N!Sat(d)) <= 30
       /\ N!Sat(d) = 0 => N!Scaled(30, N!Sat(d)) = 0
  <2>1. 30 \in Score
    BY DEF Score
  <2> QED BY <2>1, <1>22, ScaledIs
<1>4. /\ a \in Score /\ b \in Score
      /\ Active(n, m) <= 10 => a <= 3 /\ b <= 10
  BY <1>3, <1>22, <1>23, ScaledIs
<1>5. ~(d > 0) /\ ~(o > 0) => a = 0 /\ b = 0
  <2> SUFFICES ASSUME ~(d > 0), ~(o > 0) PROVE a = 0 /\ b = 0
    OBVIOUS
  <2>1. N!Sat(d) = 0 /\ N!Sat(o) = 0
    BY <1>22 DEF Score
  <2> QED BY <2>1, <1>3, <1>22, <1>23, ScaledIs
<1> HIDE DEF a, b
<1>6. /\ Instant(n, m) \in Score
      /\ Active(n, m) <= 10 => Instant(n, m) < 50
      /\ ~(d > 0) /\ ~(o > 0) => Instant(n, m) = 0
  <2>1. /\ N!NoisyOr(a, b) \in Score
        /\ a = 0 => N!NoisyOr(a, b) = b
        /\ a <= 3 /\ b <= 10 => N!NoisyOr(a, b) < 50
    BY <1>4, FusedScore
  <2> QED BY <2>1, <1>4, <1>5, <1>21
<1>7. Instant(n, m) >= 50 => /\ now + 1 <= trouble[n].any + Window
                             /\ now + 1 <= trouble[n].traffic + Window
  <2> SUFFICES ASSUME Instant(n, m) >= 50
               PROVE /\ now + 1 <= trouble[n].any + Window
                     /\ now + 1 <= trouble[n].traffic + Window
    OBVIOUS
  <2>1. PICK field \in {"ring", "drops"} : LostIn(n, m, field) > 0
    BY <1>6 DEF d, o
  <2>2. now + 1 <= trouble[n].any + Window /\ Passed(m) \in 1 .. Window
    BY <2>1, LossIsRecent
  <2>3. Arrived(n, m) > Passed(m)
    BY <1>2, <1>3, <1>6 DEF Score
  <2>4. SinceSample(n, Last(m))
    <3>1. Len(m.history) \in 1 .. Len(m.history)
      BY LenProperties DEF Due, NicMonitor, Remembers
    <3> QED BY <3>1 DEF Due, Remembers, Last
  <2>5. counters[n].packets > Last(m).c.packets + (now - Last(m).at)
    BY <2>3, <1>1 DEF Arrived, Passed, Sample, Counters
  <2>6. trouble[n].traffic > Last(m).at
    <3>1. Last(m).at \in Nat /\ Last(m).c.packets \in Nat /\ counters[n].packets \in Nat
      BY <1>1 DEF Sample, Counters
    <3>2. ~(trouble[n].traffic <= Last(m).at)
      BY <2>4, <2>5, <3>1, <1>1 DEF SinceSample
    <3> QED BY <3>1, <3>2, <1>1
  <2>7. now + 1 <= trouble[n].traffic + Window
    BY <2>2, <2>6, <1>1 DEF Passed, Sample
  <2> QED BY <2>2, <2>7
<1>8. /\ N!Decayed(m.distress, Passed(m)) \in Score /\ N!Decayed(m.distress, Passed(m)) < 72
      /\ N!Decayed(m.distress, Passed(m)) >= 50 => Passed(m) = 1 /\ m.distress >= 72
  BY <1>1, <1>2, DecayedIs
<1>9. N!Decayed(m.distress, Passed(m)) >= 50 =>
        now <= trouble[n].any + Window /\ now <= trouble[n].traffic + Window
  <2> SUFFICES ASSUME N!Decayed(m.distress, Passed(m)) >= 50
               PROVE  now <= trouble[n].any + Window /\ now <= trouble[n].traffic + Window
    OBVIOUS
  <2>1. Last(m).at + 1 = now
    BY <1>8, <1>1 DEF Passed, Sample
  <2>2. Last(m).at + 1 <= trouble[n].any + Window /\ Last(m).at + 1 <= trouble[n].traffic + Window
    BY <1>8 DEF Due, Remembers, Last
  <2> QED BY <2>1, <2>2
<1>10. /\ Distress(n, m) \in {N!Decayed(m.distress, Passed(m)), Instant(n, m)}
  <2>1. Instant(n, m) \in Int /\ N!Decayed(m.distress, Passed(m)) \in Int
    BY <1>6, <1>8 DEF Score
  <2> QED BY <2>1, LesserAndGreater DEF Distress
<1>11. CASE Distress(n, m) = Instant(n, m)
  BY <1>11, <1>6, <1>7, <1>1 DEF Score
<1>12. CASE Distress(n, m) = N!Decayed(m.distress, Passed(m))
  BY <1>12, <1>8, <1>9, <1>1 DEF Score
<1> QED BY <1>10, <1>11, <1>12

\* How bounds of a difference add up.
LEMMA BoundsAdd ==
    /\ \A c, f, g \in Int : c <= f + g /\ g <= 500 => c <= f + 500
    /\ \A c, f \in Nat : c >= f + 100 /\ c <= f + 500 => c - f \in 100 .. 500
  OBVIOUS

\* A busy link's overflow of the last second is full distress.
LEMMA LossIsDistress ==
    ASSUME NEW n, NEW m, Due(n, m), Len(NewHistory(n, m)) > 1, trouble[n].burst,
           trouble[n].reset < NewHistory(n, m)[1].at
    PROVE  Distress(n, m) >= 90 /\ LostIn(n, m, "ring") >= 100
<1> DEFINE h == NewHistory(n, m)
<1>1. /\ h \in Seq(Sample) /\ Len(h) \in Nat \ {0} /\ h[Len(h)] = Entry(n)
      /\ \A i \in 1 .. Len(h) : SinceSample(n, h[i]) /\ h[i].at + Window >= now
      /\ \A i, j \in 1 .. Len(h) : i < j => h[i].at < h[j].at
      /\ Len(h) > 1 => h[Len(h) - 1] = Last(m)
  BY HistoryIs
<1>2. Len(h) > 1 /\ trouble[n].reset < h[1].at
  OBVIOUS
<1> DEFINE lost == h[Len(h)].c.ring - h[1].c.ring
           packets == h[Len(h)].c.packets - h[1].c.packets
<1>3. LostIn(n, m, "ring")
        = IF packets <= 0 \/ lost < 0 THEN 0 ELSE (10000 * lost) \div packets
  BY DEF LostIn, N!Halves, N!PerHalf, N!Last, Head
<1> HIDE DEF h
<1>4. /\ 1 \in 1 .. Len(h) /\ Len(h) - 1 \in 1 .. Len(h) /\ Len(h) \in 1 .. Len(h)
  BY <1>1, <1>2
<1>5. h[1] \in Sample /\ Last(m) \in Sample /\ Entry(n) \in Sample
  BY <1>1, <1>2, <1>4, ElementOfSeq
<1>6. /\ now \in Nat /\ Window \in 1 .. 5 /\ trouble[n].reset \in Nat /\ counters[n] \in Counters
      /\ m.distress \in Score
  BY DEF Due, NetShape, Windows, NicMonitor
<1>7. h[1].at < now
  <2>1. h[1].at < h[Len(h)].at
    BY <1>1, <1>2, <1>4
  <2> QED BY <1>1, <2>1 DEF Entry
<1>8. h[1].at <= Last(m).at /\ SinceSample(n, Last(m)) /\ Last(m).at + Window >= now
  <2>1. SinceSample(n, h[Len(h) - 1]) /\ h[Len(h) - 1].at + Window >= now
    BY <1>1, <1>4
  <2>2. h[Len(h) - 1] = Last(m)
    BY <1>1, <1>2
  <2>3. h[1].at <= h[Len(h) - 1].at
    <3>1. CASE Len(h) - 1 = 1
      <4>1. h[1] = Last(m)
        BY <2>2, <3>1
      <4> QED BY <2>2, <4>1, <1>5 DEF Sample
    <3>2. CASE Len(h) - 1 > 1
      <4>1. h[1].at < Last(m).at
        BY <3>2, <1>1, <1>4, <2>2
      <4> QED BY <2>2, <4>1, <1>5 DEF Sample
    <3>3. Len(h) - 1 = 1 \/ Len(h) - 1 > 1
      <4>1. Len(h) \in Nat
        BY <1>1
      <4>2. Len(h) > 1
        BY <1>2
      <4>3. \A l \in Nat : l > 1 => l - 1 = 1 \/ l - 1 > 1
        OBVIOUS
      <4> QED BY <4>1, <4>2, <4>3
    <3> QED BY <3>1, <3>2, <3>3
  <2> QED BY <2>1, <2>2, <2>3
<1>9. packets \in 100 .. 500 /\ lost \in Nat /\ lost >= 12
  <2>1. /\ counters[n].packets >= h[1].c.packets + 100 /\ counters[n].ring >= h[1].c.ring + 12
        /\ counters[n].packets <= h[1].c.packets + 100 * (now - h[1].at)
    BY <1>1, <1>2, <1>4, <1>7 DEF SinceSample, Due
  <2>2. /\ counters[n].packets \in Nat /\ counters[n].ring \in Nat
        /\ h[1].c.packets \in Nat /\ h[1].c.ring \in Nat /\ h[1].at \in Nat
    BY <1>5, <1>6 DEF Sample, Counters
  <2>3. now - h[1].at \in 0 .. 5
    <3>1. h[1].at + Window >= now
      BY <1>1, <1>4
    <3>2. \A x, y, w \in Nat : x < y /\ x + w >= y /\ w <= 5 => y - x \in 0 .. 5
      OBVIOUS
    <3>3. Window \in Nat /\ Window <= 5 /\ now \in Nat /\ h[1].at \in Nat
      BY <2>2, <1>6
    <3> HIDE DEF packets, lost
    <3> QED BY <3>1, <3>2, <3>3, <1>7
  <2>4. h[Len(h)].c = counters[n]
    BY <1>1 DEF Entry
  <2> DEFINE most == 100 * (now - h[1].at)
  <2>5. most <= 500 /\ most \in Int
    <3>1. \A g \in 0 .. 5 : 100 * g <= 500 /\ 100 * g \in Int
      OBVIOUS
    <3> QED BY <3>1, <2>3
  <2>6. counters[n].packets <= h[1].c.packets + most
    BY <2>1
  <2> HIDE DEF most
  <2>7. \A c, f, g \in Int : c <= f + g /\ g <= 500 => c <= f + 500
    BY BoundsAdd
  <2>8. counters[n].packets <= h[1].c.packets + 500
    BY <2>2, <2>5, <2>6, <2>7
  <2>9. /\ packets = counters[n].packets - h[1].c.packets
        /\ lost = counters[n].ring - h[1].c.ring
    BY <2>4
  <2>10. \A c, f \in Nat : c >= f + 100 /\ c <= f + 500 => c - f \in 100 .. 500
    BY BoundsAdd
  <2>11. \A c, f \in Nat : c >= f + 12 => c - f \in Nat /\ c - f >= 12
    OBVIOUS
  <2> HIDE DEF packets, lost
  <2> QED BY <2>1, <2>2, <2>8, <2>9, <2>10, <2>11
<1>10. LostIn(n, m, "ring") \in Int /\ LostIn(n, m, "ring") >= 231
  <2> HIDE DEF lost, packets
  <2> DEFINE q == (10000 * lost) \div packets
             rest == (10000 * lost) % packets
  <2>1. LostIn(n, m, "ring") = q
    BY <1>3, <1>9
  <2>2. q \in Nat /\ rest \in 0 .. (packets - 1) /\ 10000 * lost = packets * q + rest
    BY <1>9
  <2> HIDE DEF q, rest
  <2>3. q >= 231
    <3> SUFFICES ASSUME q \in 0 .. 230 PROVE FALSE
      BY <2>2
    <3>1. \A k \in 0 .. 230 : packets * k <= 500 * 230
      BY <1>9
    <3> QED BY <3>1, <2>2, <1>9
  <2> QED BY <2>1, <2>2, <2>3
<1>11. trouble[n].reset < Last(m).at /\ Last(m).at < now
  BY <1>2, <1>5, <1>6, <1>8 DEF Sample, Due
<1>12. Arrived(n, m) \in Nat /\ Arrived(n, m) >= 100 /\ Passed(m) \in 1 .. 5
  <2>1. counters[n].packets >= Last(m).c.packets + 100
    BY <1>8, <1>11 DEF SinceSample
  <2>2. counters[n].packets \in Nat /\ Last(m).c.packets \in Nat /\ Last(m).at \in Nat
    BY <1>5, <1>6 DEF Sample, Counters
  <2>3. Arrived(n, m) \in Nat /\ Arrived(n, m) >= 100
    BY <2>1, <2>2 DEF Arrived
  <2>4. Passed(m) \in 1 .. 5
    <3>1. now - Last(m).at \in 1 .. Window
      BY <2>2, <1>6, <1>8, <1>11
    <3> QED BY <3>1, <1>6 DEF Passed
  <2> QED BY <2>3, <2>4
<1>13. Active(n, m) = 100
  BY <1>12, ActivityIs DEF Active
<1> DEFINE a == N!Scaled(Active(n, m), N!Scaled(30, N!Sat(LostIn(n, m, "drops"))))
           b == N!Scaled(Active(n, m), N!Sat(LostIn(n, m, "ring")))
<1>14. a \in Score /\ b \in Score /\ b >= 90 /\ Instant(n, m) = N!NoisyOr(a, b)
  <2>1. LostIn(n, m, "drops") \in Int
    BY HistoryIs, LossMoves DEF LostIn
  <2>2. /\ N!Sat(LostIn(n, m, "drops")) \in Score /\ N!Sat(LostIn(n, m, "ring")) \in Score
        /\ N!Sat(LostIn(n, m, "ring")) >= 90
    BY <1>10, <2>1, SatIs
  <2>3. 30 \in Score /\ 100 \in Score
    BY DEF Score
  <2>4. N!Scaled(30, N!Sat(LostIn(n, m, "drops"))) \in Score
    BY <2>2, <2>3, ScaledIs
  <2>5. b = N!Sat(LostIn(n, m, "ring"))
    BY <1>13, <2>2, <2>3, ScaledIs
  <2>6. a \in Score
    BY <1>13, <2>3, <2>4, ScaledIs
  <2> QED BY <2>2, <2>5, <2>6 DEF Instant
<1> HIDE DEF a, b
<1>15. Instant(n, m) >= 90 /\ Instant(n, m) \in Score
  BY <1>14, FusedScore
<1>16. N!Decayed(m.distress, Passed(m)) \in Score
  BY <1>6, <1>12, DecayedIs
<1>17. Distress(n, m) >= Instant(n, m) /\ Distress(n, m) \in Int
  <2>1. Instant(n, m) \in Int
    BY <1>15, ScoresAreNumbers
  <2>2. N!Decayed(m.distress, Passed(m)) \in Int
    BY <1>16, ScoresAreNumbers
  <2> QED BY <2>1, <2>2, LesserAndGreater DEF Distress
<1>18. Distress(n, m) >= 90
  <2> HIDE DEF a
  <2>1. Instant(n, m) \in Int
    BY <1>15, ScoresAreNumbers
  <2> QED BY <2>1, <1>15, <1>17
<1> QED BY <1>10, <1>18

-----------------------------------------------------------------------------
\* The first state: nothing is monitored.
LEMMA InitNet == N!Init => NetInv
<1> SUFFICES ASSUME N!Init PROVE NetInv
  OBVIOUS
<1> DEFINE t == [ring |-> 0, any |-> 0, traffic |-> 0, reset |-> 0, burst |-> FALSE,
                 last |-> "idle", turns |-> 0]
<1>1. trouble = [n \in Nics |-> t] /\ now = 0
  BY DEF N!Init
<1>2. t \in [ring : 0 .. now, any : 0 .. now, traffic : 0 .. now, reset : 0 .. now, burst : BOOLEAN, last : N!Seconds, turns : Nat]
  BY <1>1 DEF N!Seconds
<1>3. ~t.burst /\ t.ring <= t.any
  OBVIOUS
<1> HIDE DEF t
<1> QED BY <1>1, <1>2, <1>3 DEF N!Init, N!Zero, NetInv, NetShape, Counters

\* What a sample tells is still so a second later.
LEMMA SinceTick ==
    ASSUME NetShape, NEW how \in [Nics -> N!Seconds], N!Tick(how), NEW n \in Nics,
           NEW e \in Sample, SinceSample(n, e)
    PROVE  SinceSample(n, e)'
<1>1. /\ now \in Nat /\ now' = now + 1 /\ counters[n] \in Counters /\ e.at \in Nat /\ e.c \in Counters
      /\ present' = present
  BY DEF N!Tick, NetShape, Sample
<1>2. trouble[n] \in [ring : Nat, any : Nat, traffic : Nat, reset : Nat, burst : BOOLEAN, last : N!Seconds, turns : Nat]
  BY DEF NetShape
<1>3. counters'[n] = IF n \in present THEN N!Counted(counters[n], how[n]) ELSE N!Zero
  BY DEF N!Tick
<1>4. /\ trouble'[n].ring = IF n \in present /\ how[n] \in {"burst", "spill", "stray"} THEN now' ELSE trouble[n].ring
      /\ trouble'[n].traffic = IF n \in present /\ how[n] \notin {"idle", "stray"} THEN now' ELSE trouble[n].traffic
      /\ trouble'[n].any = IF n \in present /\ how[n] \notin {"idle", "busy"} THEN now' ELSE trouble[n].any
      /\ trouble'[n].burst <=> (n \in present /\ how[n] = "burst")
      /\ trouble'[n].reset = trouble[n].reset
  BY <1>2 DEF N!Tick
<1>5. /\ e.at <= now
      /\ counters[n].ring > e.c.ring => trouble[n].ring > e.at
      /\ counters[n].drops > e.c.drops => trouble[n].any > e.at
      /\ counters[n].packets <= e.c.packets + 100 * (now - e.at)
      /\ trouble[n].traffic <= e.at => counters[n].packets <= e.c.packets + (now - e.at)
      /\ trouble[n].reset < e.at =>
           /\ n \in present /\ counters[n].packets >= e.c.packets /\ counters[n].ring >= e.c.ring
  BY DEF SinceSample
<1>6. /\ e.c.packets \in Nat /\ e.c.ring \in Nat /\ e.c.drops \in Nat
      /\ counters[n].packets \in Nat /\ counters[n].ring \in Nat /\ counters[n].drops \in Nat
      /\ trouble[n].ring \in Nat /\ trouble[n].any \in Nat /\ trouble[n].traffic \in Nat
      /\ trouble[n].reset \in Nat
  BY <1>1, <1>2 DEF Counters
<1> DEFINE p == counters'[n].packets
           r == counters'[n].ring
           d == counters'[n].drops
<1>7. /\ p \in Nat /\ r \in Nat /\ d \in Nat
      /\ r > counters[n].ring => trouble'[n].ring = now'
      /\ d > counters[n].drops => trouble'[n].any = now'
      /\ p <= counters[n].packets + 100
      /\ p > counters[n].packets + 1 => trouble'[n].traffic = now'
      /\ n \in present => p >= counters[n].packets /\ r >= counters[n].ring
      /\ trouble'[n].burst => n \in present /\ p = counters[n].packets + 100 /\ r = counters[n].ring + 12
  <2>1. CASE n \notin present
    <3>1. p = 0 /\ r = 0 /\ d = 0 /\ ~trouble'[n].burst
      BY <1>3, <1>4, <2>1 DEF N!Zero
    <3> HIDE DEF p, r, d
    <3> QED BY <1>6, <2>1, <3>1
  <2>2. CASE n \in present /\ how[n] = "idle"
    <3>1. p = counters[n].packets /\ r = counters[n].ring /\ d = counters[n].drops /\ ~trouble'[n].burst
      BY <1>3, <1>4, <2>2 DEF N!Counted
    <3> HIDE DEF p, r, d
    <3> QED BY <1>6, <3>1
  <2>3. CASE n \in present /\ how[n] = "stray"
    <3>1. p = counters[n].packets + 1 /\ r = counters[n].ring + 1 /\ d = counters[n].drops
      BY <1>1, <1>3, <2>3 DEF N!Counted, Counters
    <3>2. /\ trouble'[n].burst <=> how[n] = "burst"
          /\ how[n] \in {"burst", "spill", "stray"} => trouble'[n].ring = now'
          /\ how[n] \notin {"idle", "stray"} => trouble'[n].traffic = now'
          /\ how[n] \notin {"idle", "busy"} => trouble'[n].any = now'
      BY <1>4, <2>3
    <3> HIDE DEF p, r, d
    <3> QED BY <1>6, <2>3, <3>1, <3>2
  <2>4. CASE n \in present /\ how[n] = "burst"
    <3>1. p = counters[n].packets + 100 /\ r = counters[n].ring + 12 /\ d = counters[n].drops
      BY <1>1, <1>3, <2>4 DEF N!Counted, Counters
    <3>2. /\ trouble'[n].burst <=> how[n] = "burst"
          /\ how[n] \in {"burst", "spill", "stray"} => trouble'[n].ring = now'
          /\ how[n] \notin {"idle", "stray"} => trouble'[n].traffic = now'
          /\ how[n] \notin {"idle", "busy"} => trouble'[n].any = now'
      BY <1>4, <2>4
    <3> HIDE DEF p, r, d
    <3> QED BY <1>6, <2>4, <3>1, <3>2
  <2>5. CASE n \in present /\ how[n] = "drops"
    <3>1. p = counters[n].packets + 100 /\ r = counters[n].ring /\ d = counters[n].drops + 50
      BY <1>1, <1>3, <2>5 DEF N!Counted, Counters
    <3>2. /\ trouble'[n].burst <=> how[n] = "burst"
          /\ how[n] \in {"burst", "spill", "stray"} => trouble'[n].ring = now'
          /\ how[n] \notin {"idle", "stray"} => trouble'[n].traffic = now'
          /\ how[n] \notin {"idle", "busy"} => trouble'[n].any = now'
      BY <1>4, <2>5
    <3> HIDE DEF p, r, d
    <3> QED BY <1>6, <2>5, <3>1, <3>2
  <2>6. CASE n \in present /\ how[n] \in {"busy", "line"}
    <3>1. p = counters[n].packets + 100 /\ r = counters[n].ring /\ d = counters[n].drops
      BY <1>1, <1>3, <2>6 DEF N!Counted, Counters
    <3>2. /\ trouble'[n].burst <=> how[n] = "burst"
          /\ how[n] \in {"burst", "spill", "stray"} => trouble'[n].ring = now'
          /\ how[n] \notin {"idle", "stray"} => trouble'[n].traffic = now'
          /\ how[n] \notin {"idle", "busy"} => trouble'[n].any = now'
      BY <1>4, <2>6
    <3> HIDE DEF p, r, d
    <3> QED BY <1>6, <2>6, <3>1, <3>2
  <2>8. CASE n \in present /\ how[n] = "spill"
    <3>1. p = counters[n].packets + 100 /\ r = counters[n].ring + 1 /\ d = counters[n].drops
      BY <1>1, <1>3, <2>8 DEF N!Counted, Counters
    <3>2. /\ trouble'[n].burst <=> how[n] = "burst"
          /\ how[n] \in {"burst", "spill", "stray"} => trouble'[n].ring = now'
          /\ how[n] \notin {"idle", "stray"} => trouble'[n].traffic = now'
          /\ how[n] \notin {"idle", "busy"} => trouble'[n].any = now'
      BY <1>4, <2>8
    <3> HIDE DEF p, r, d
    <3> QED BY <1>6, <2>8, <3>1, <3>2
  <2>7. how[n] \in N!Seconds
    OBVIOUS
  <2> QED BY <2>1, <2>2, <2>3, <2>4, <2>5, <2>6, <2>7, <2>8 DEF N!Seconds
<1>8. /\ trouble'[n].ring \in {trouble[n].ring, now'} /\ trouble'[n].any \in {trouble[n].any, now'}
      /\ trouble'[n].traffic \in {trouble[n].traffic, now'}
  BY <1>4
<1> HIDE DEF p, r, d
<1>9. e.at < now' /\ now' \in Nat
  BY <1>1, <1>5
<1>10. r > e.c.ring => trouble'[n].ring > e.at
  BY <1>5, <1>6, <1>7, <1>8, <1>9
<1>11. d > e.c.drops => trouble'[n].any > e.at
  BY <1>5, <1>6, <1>7, <1>8, <1>9
<1>12. trouble'[n].traffic <= e.at => p <= e.c.packets + (now' - e.at)
  <2> SUFFICES ASSUME trouble'[n].traffic <= e.at PROVE p <= e.c.packets + (now' - e.at)
    OBVIOUS
  <2>1. trouble'[n].traffic = trouble[n].traffic
    BY <1>1, <1>8, <1>9
  <2>2. p <= counters[n].packets + 1
    BY <1>1, <1>6, <1>7, <1>9
  <2> QED BY <1>1, <1>5, <1>6, <1>7, <2>1, <2>2
<1>14. p <= e.c.packets + 100 * (now' - e.at)
  <2>1. 100 * (now' - e.at) = 100 * (now - e.at) + 100
    BY <1>1, <1>9
  <2> QED BY <1>1, <1>5, <1>6, <1>7, <2>1
<1>13. trouble'[n].reset < e.at =>
         /\ n \in present /\ p >= e.c.packets /\ r >= e.c.ring
         /\ trouble'[n].burst => p >= e.c.packets + 100 /\ r >= e.c.ring + 12
  BY <1>4, <1>5, <1>6, <1>7
<1> QED BY <1>1, <1>9, <1>10, <1>11, <1>12, <1>13, <1>14 DEF SinceSample, p, r, d

\* A second of any kind on each NIC keeps the invariant.
LEMMA NetTickKeeps == ASSUME Windows, NetInv, NEW how \in [Nics -> N!Seconds], N!Tick(how) PROVE NetInv'
<1>1. /\ now \in Nat /\ now' = now + 1 /\ present' = present /\ monitor' = monitor /\ snapshot' = snapshot
      /\ present \subseteq Nics
  BY DEF NetInv, NetShape, N!Tick
<1>2. \A n \in Nics :
        /\ trouble[n] \in [ring : 0 .. now, any : 0 .. now, traffic : 0 .. now, reset : 0 .. now, burst : BOOLEAN, last : N!Seconds, turns : Nat]
        /\ trouble[n].burst => trouble[n].ring = now
        /\ trouble[n].ring <= trouble[n].any
        /\ counters[n] \in Counters
  BY DEF NetInv, NetShape
<1>3. \A n \in Nics :
        /\ trouble'[n].ring = IF n \in present /\ how[n] \in {"burst", "spill", "stray"} THEN now' ELSE trouble[n].ring
        /\ trouble'[n].traffic = IF n \in present /\ how[n] \notin {"idle", "stray"} THEN now' ELSE trouble[n].traffic
        /\ trouble'[n].any = IF n \in present /\ how[n] \notin {"idle", "busy"} THEN now' ELSE trouble[n].any
        /\ trouble'[n].burst = (n \in present /\ how[n] = "burst")
        /\ trouble'[n].reset = trouble[n].reset
  BY <1>2 DEF N!Tick
<1>4. trouble' \in [Nics -> [ring : 0 .. now', any : 0 .. now', traffic : 0 .. now', reset : 0 .. now', burst : BOOLEAN, last : N!Seconds, turns : Nat]]
  <2>1. now \in 0 .. now' /\ now' \in 0 .. now' /\ 0 .. now \subseteq 0 .. now'
    BY <1>1
  <2> DEFINE grown(n) == [trouble[n] EXCEPT
                        !.ring = IF n \in present /\ how[n] \in {"burst", "spill", "stray"} THEN now' ELSE @,
                        !.traffic = IF n \in present /\ how[n] \notin {"idle", "stray"} THEN now' ELSE @,
                        !.any = IF n \in present /\ how[n] \notin {"idle", "busy"} THEN now' ELSE @,
                        !.last = how[n], !.turns = N!Turn(n, how[n]),
                        !.burst = n \in present /\ how[n] = "burst"]
  <2>2. trouble' = [n \in Nics |-> grown(n)]
    BY DEF N!Tick
  <2>3. \A n \in Nics : grown(n) \in [ring : 0 .. now', any : 0 .. now', traffic : 0 .. now', reset : 0 .. now', burst : BOOLEAN, last : N!Seconds, turns : Nat]
    <3>1. \A n \in Nics : N!Turn(n, how[n]) \in Nat /\ how[n] \in N!Seconds
      BY <1>2 DEF N!Turn
    <3> SUFFICES ASSUME NEW n \in Nics
                 PROVE  grown(n) \in [ring : 0 .. now', any : 0 .. now', traffic : 0 .. now', reset : 0 .. now', burst : BOOLEAN, last : N!Seconds, turns : Nat]
      OBVIOUS
    <3> DEFINE r == IF n \in present /\ how[n] \in {"burst", "spill", "stray"} THEN now' ELSE trouble[n].ring
               f == IF n \in present /\ how[n] \notin {"idle", "stray"} THEN now' ELSE trouble[n].traffic
               a == IF n \in present /\ how[n] \notin {"idle", "busy"} THEN now' ELSE trouble[n].any
               b == n \in present /\ how[n] = "burst"
               u == N!Turn(n, how[n])
               e == [trouble[n] EXCEPT !.ring = r, !.traffic = f, !.any = a, !.last = how[n], !.turns = u, !.burst = b]
    <3>2. r \in 0 .. now' /\ f \in 0 .. now' /\ a \in 0 .. now' /\ b \in BOOLEAN
      BY <1>2, <2>1
    <3>3. trouble[n] \in [ring : 0 .. now, any : 0 .. now, traffic : 0 .. now, reset : 0 .. now, burst : BOOLEAN, last : N!Seconds, turns : Nat]
      BY <1>2
    <3>4. grown(n) = e
      OBVIOUS
    <3>5. u \in Nat /\ how[n] \in N!Seconds
      BY <3>1
    <3> HIDE DEF r, f, a, b, u, grown
    <3>6. e \in [ring : 0 .. now', any : 0 .. now', traffic : 0 .. now', reset : 0 .. now', burst : BOOLEAN, last : N!Seconds, turns : Nat]
      BY <2>1, <3>2, <3>3, <3>5
    <3> QED BY <3>4, <3>6
  <2> HIDE DEF grown
  <2> QED BY <2>2, <2>3
<1>5. counters' \in [Nics -> Counters]
  <2>1. \A n \in Nics : N!Counted(counters[n], how[n]) \in Counters
    <3> SUFFICES ASSUME NEW n \in Nics PROVE N!Counted(counters[n], how[n]) \in Counters
      OBVIOUS
    <3>1. counters[n] \in [packets : Nat, ring : Nat, drops : Nat]
      BY <1>2 DEF Counters
    <3>2. CASE how[n] = "idle"
      BY <3>1, <3>2 DEF N!Counted, Counters
    <3>3. CASE how[n] = "stray"
      <4>1. N!Counted(counters[n], how[n])
              = [packets |-> counters[n].packets + 1, ring |-> counters[n].ring + 1, drops |-> counters[n].drops]
        BY <3>1, <3>3 DEF N!Counted
      <4> QED BY <3>1, <4>1 DEF Counters
    <3>4. CASE how[n] = "burst"
      <4>1. N!Counted(counters[n], how[n])
              = [packets |-> counters[n].packets + 100, ring |-> counters[n].ring + 12, drops |-> counters[n].drops]
        BY <3>1, <3>4 DEF N!Counted
      <4> QED BY <3>1, <4>1 DEF Counters
    <3>5. CASE how[n] = "drops"
      <4>1. N!Counted(counters[n], how[n])
              = [packets |-> counters[n].packets + 100, ring |-> counters[n].ring, drops |-> counters[n].drops + 50]
        BY <3>1, <3>5 DEF N!Counted
      <4> QED BY <3>1, <4>1 DEF Counters
    <3>6. CASE how[n] = "spill"
      <4>1. N!Counted(counters[n], how[n])
              = [packets |-> counters[n].packets + 100, ring |-> counters[n].ring + 1, drops |-> counters[n].drops]
        BY <3>1, <3>6 DEF N!Counted
      <4> QED BY <3>1, <4>1 DEF Counters
    <3>7. CASE how[n] \notin {"idle", "stray", "burst", "spill", "drops"}
      BY <3>1, <3>7 DEF N!Counted, Counters
    <3> QED BY <3>2, <3>3, <3>4, <3>5, <3>6, <3>7
  <2>2. N!Zero \in Counters
    BY DEF N!Zero, Counters
  <2> QED BY <2>1, <2>2 DEF N!Tick
<1>6. /\ util' \subseteq present
      /\ \A n \in util' : trouble'[n].any = now' /\ trouble'[n].traffic = now'
  <2>1. util' = {n \in present : how[n] = "line"}
    BY DEF N!Tick
  <2> QED BY <1>1, <1>3, <2>1
<1>7. \A n \in Nics : /\ trouble'[n].burst => trouble'[n].ring = now'
                      /\ trouble'[n].ring <= trouble'[n].any
  <2> SUFFICES ASSUME NEW n \in Nics PROVE /\ trouble'[n].burst => trouble'[n].ring = now'
                                           /\ trouble'[n].ring <= trouble'[n].any
    OBVIOUS
  <2>1. trouble[n].ring \in 0 .. now /\ trouble[n].any \in 0 .. now /\ trouble[n].ring <= trouble[n].any
    BY <1>2
  <2>2. trouble'[n].burst => trouble'[n].ring = now'
    BY <1>3
  <2>3. CASE n \in present /\ how[n] \in {"burst", "spill", "stray"}
    BY <1>1, <1>3, <2>3
  <2>4. CASE ~(n \in present /\ how[n] \in {"burst", "spill", "stray"})
    <3>1. trouble'[n].ring = trouble[n].ring /\ trouble'[n].any \in {trouble[n].any, now'}
      BY <1>3, <2>4
    <3> QED BY <1>1, <2>1, <2>2, <3>1
  <2> QED BY <2>2, <2>3, <2>4
<1>8. NetShape'
  BY <1>1, <1>4, <1>5, <1>6, <1>7 DEF NetInv, NetShape
<1>9. ASSUME NEW n \in DOMAIN monitor
      PROVE  Remembers(n, monitor[n].history, monitor[n].distress)' /\ Judged(n, monitor[n])'
  <2>1. n \in Nics /\ monitor[n] \in NicMonitor /\ Remembers(n, monitor[n].history, monitor[n].distress)
    BY DEF NetInv, NetShape
  <2> DEFINE h == monitor[n].history
  <2>2. h \in Seq(Sample) /\ Len(h) \in Nat /\ Len(h) > 0 /\ monitor[n].distress \in Score
    BY <2>1, LenProperties DEF NicMonitor, Remembers
  <2>3. \A i \in 1 .. Len(h) : h[i] \in Sample /\ SinceSample(n, h[i])
    BY <2>1, <2>2, ElementOfSeq DEF Remembers
  <2>4. \A i \in 1 .. Len(h) : SinceSample(n, h[i])'
    <3> SUFFICES ASSUME NEW i \in 1 .. Len(h) PROVE SinceSample(n, h[i])'
      BY <1>1
    <3>1. PICK e : e = h[i]
      OBVIOUS
    <3>2. e \in Sample /\ SinceSample(n, e) /\ NetShape
      BY <2>3, <3>1 DEF NetInv
    <3>3. SinceSample(n, e)'
      BY <2>1, <3>2, SinceTick
    <3> QED BY <1>1, <3>1, <3>3 DEF SinceSample
  <2>5. (monitor[n].distress >= 72 => /\ h[Len(h)].at + 1 <= trouble[n].any + Window
                                     /\ h[Len(h)].at + 1 <= trouble[n].traffic + Window)'
    <3>1. trouble'[n].any >= trouble[n].any /\ trouble'[n].traffic >= trouble[n].traffic
      BY <1>1, <1>2, <1>3, <2>1
    <3>2. h[Len(h)].at \in Nat /\ Window \in Int
      BY <2>2, <2>3 DEF Sample, Windows
    <3>3. /\ trouble[n].any \in Int /\ trouble[n].traffic \in Int
          /\ trouble'[n].any \in Int /\ trouble'[n].traffic \in Int
      BY <1>2, <1>4, <2>1
    <3>4. monitor[n].distress >= 72 => /\ h[Len(h)].at + 1 <= trouble[n].any + Window
                                       /\ h[Len(h)].at + 1 <= trouble[n].traffic + Window
      BY <2>1 DEF Remembers
    <3>5. monitor'[n].distress = monitor[n].distress /\ h' = h
      BY <1>1
    <3> HIDE DEF h
    <3>6. monitor[n].distress >= 72 => /\ h[Len(h)].at + 1 <= trouble'[n].any + Window
                                       /\ h[Len(h)].at + 1 <= trouble'[n].traffic + Window
      <4>1. \A x, w, t, u \in Int : u >= t /\ x + 1 <= t + w => x + 1 <= u + w
        OBVIOUS
      <4>2. h[Len(h)].at \in Int
        BY <3>2
      <4> QED BY <3>1, <3>2, <3>3, <3>4, <4>1, <4>2
    <3> QED BY <3>5, <3>6 DEF h
  <2>6. Remembers(n, monitor[n].history, monitor[n].distress)'
    BY <1>1, <2>1, <2>4, <2>5 DEF Remembers
  <2>7. h[Len(h)].at < now'
    <3>1. h[Len(h)].at \in Nat /\ h[Len(h)].at <= now
      BY <2>2, <2>3 DEF Sample, SinceSample
    <3> QED BY <1>1, <3>1
  <2>8. Judged(n, monitor[n])'
    BY <1>1, <2>7 DEF Judged
  <2> QED BY <2>6, <2>8
<1> QED BY <1>1, <1>8, <1>9 DEF NetInv

\* A reset of the counters keeps it.
LEMMA NetResetKeeps == ASSUME Windows, NetInv, NEW x \in Nics, N!Reset(x) PROVE NetInv'
<1>1. /\ now \in Nat /\ now' = now /\ monitor' = monitor /\ snapshot' = snapshot /\ util' = util \ {x}
      /\ present \subseteq Nics /\ util \subseteq present
      /\ present' \in {present, present \ {x}, present \cup {x}}
      /\ counters' = [counters EXCEPT ![x] = N!Zero] /\ counters \in [Nics -> Counters]
  BY DEF NetInv, NetShape, N!Reset
<1>2. trouble \in [Nics -> [ring : 0 .. now, any : 0 .. now, traffic : 0 .. now, reset : 0 .. now, burst : BOOLEAN, last : N!Seconds, turns : Nat]]
  BY DEF NetInv, NetShape
<1>3. trouble' = [trouble EXCEPT ![x] = [@ EXCEPT !.reset = now, !.burst = FALSE, !.turns = trouble[x].turns + 1]]
  BY DEF N!Reset
<1>4. /\ trouble' \in [Nics -> [ring : 0 .. now, any : 0 .. now, traffic : 0 .. now, reset : 0 .. now, burst : BOOLEAN, last : N!Seconds, turns : Nat]]
      /\ \A n \in Nics : /\ trouble'[n].ring = trouble[n].ring /\ trouble'[n].any = trouble[n].any
                         /\ trouble'[n].traffic = trouble[n].traffic
                         /\ trouble'[n].burst => trouble[n].burst
      /\ trouble'[x].reset = now /\ ~trouble'[x].burst
      /\ \A n \in Nics \ {x} : trouble'[n] = trouble[n]
  <2>1. trouble[x] \in [ring : 0 .. now, any : 0 .. now, traffic : 0 .. now, reset : 0 .. now, burst : BOOLEAN, last : N!Seconds, turns : Nat] /\ now \in 0 .. now
    <3>1. trouble[x] \in [ring : 0 .. now, any : 0 .. now, traffic : 0 .. now, reset : 0 .. now, burst : BOOLEAN, last : N!Seconds, turns : Nat]
      BY <1>2
    <3>2. now \in 0 .. now
      BY <1>1
    <3> QED BY <3>1, <3>2
  <2> DEFINE u == trouble[x].turns + 1
             e == [trouble[x] EXCEPT !.reset = now, !.burst = FALSE, !.turns = u]
  <2>2. /\ e \in [ring : 0 .. now, any : 0 .. now, traffic : 0 .. now, reset : 0 .. now, burst : BOOLEAN, last : N!Seconds, turns : Nat]
        /\ e.ring = trouble[x].ring /\ e.any = trouble[x].any /\ e.traffic = trouble[x].traffic
        /\ e.reset = now /\ ~e.burst
    <3>1. u \in Nat
      BY <2>1
    <3> HIDE DEF u
    <3> QED BY <2>1, <3>1
  <2>3. trouble' = [trouble EXCEPT ![x] = e]
    BY <1>3
  <2> HIDE DEF e
  <2> QED BY <1>2, <2>2, <2>3
<1>5. N!Zero \in Counters /\ N!Zero = [packets |-> 0, ring |-> 0, drops |-> 0]
  BY DEF N!Zero, Counters
<1>6. /\ counters' \in [Nics -> Counters] /\ counters'[x] = N!Zero
      /\ \A n \in Nics \ {x} : counters'[n] = counters[n]
  BY <1>1, <1>5
<1>7. /\ \A n \in util' : trouble'[n].any = now /\ trouble'[n].traffic = now
      /\ util' \subseteq present' /\ present' \subseteq Nics
  <2>1. \A n \in util : trouble[n].any = now /\ trouble[n].traffic = now
    BY DEF NetInv, NetShape
  <2> QED BY <1>1, <1>4, <2>1
<1>8. \A n \in Nics : /\ trouble'[n].burst => trouble'[n].ring = now
                      /\ trouble'[n].ring <= trouble'[n].any
  BY <1>4 DEF NetInv, NetShape
<1>9. NetShape'
  BY <1>1, <1>4, <1>6, <1>7, <1>8 DEF NetInv, NetShape
<1>10. ASSUME NEW n \in DOMAIN monitor
       PROVE  Remembers(n, monitor[n].history, monitor[n].distress)' /\ Judged(n, monitor[n])'
  <2>1. /\ n \in Nics /\ monitor[n] \in NicMonitor /\ Remembers(n, monitor[n].history, monitor[n].distress)
        /\ Judged(n, monitor[n])
    BY DEF NetInv, NetShape
  <2> DEFINE h == monitor[n].history
  <2>2. h \in Seq(Sample) /\ Len(h) \in Nat /\ Len(h) > 0
    BY <2>1, LenProperties DEF NicMonitor, Remembers
  <2>3. \A i \in 1 .. Len(h) : h[i] \in Sample /\ SinceSample(n, h[i])
    BY <2>1, <2>2, ElementOfSeq DEF Remembers
  <2>4. \A i \in 1 .. Len(h) : SinceSample(n, h[i])'
    <3> SUFFICES ASSUME NEW i \in 1 .. Len(h) PROVE SinceSample(n, h[i])'
      BY <1>1
    <3>1. CASE n = x
      <4>1. /\ h[i].at \in Nat /\ h[i].at <= now /\ h[i].c.packets \in Nat /\ h[i].c.ring \in Nat
            /\ h[i].c.drops \in Nat
        BY <2>3 DEF Sample, Counters, SinceSample
      <4>2. h[i].c.packets + (now - h[i].at) >= 0 /\ h[i].c.packets + 100 * (now - h[i].at) >= 0
        <5>1. now - h[i].at \in Nat
          BY <4>1, <1>1
        <5>2. 100 * (now - h[i].at) \in Nat
          BY <5>1
        <5> HIDE DEF h
        <5> DEFINE u == now - h[i].at
                   w == 100 * (now - h[i].at)
        <5>3. u \in Nat /\ w \in Nat
          BY <5>1, <5>2
        <5> HIDE DEF u, w
        <5>4. h[i].c.packets + u >= 0 /\ h[i].c.packets + w >= 0
          BY <4>1, <5>3
        <5> QED BY <5>4 DEF u, w
      <4>3. /\ counters'[n].packets = 0 /\ counters'[n].ring = 0 /\ counters'[n].drops = 0
            /\ trouble'[n].reset = now
        BY <1>4, <1>5, <1>6, <3>1
      <4>4. h[i].at <= now /\ ~(counters'[n].ring > h[i].c.ring) /\ ~(counters'[n].drops > h[i].c.drops)
        BY <4>1, <4>3
      <4>5. /\ counters'[n].packets <= h[i].c.packets + (now - h[i].at)
            /\ counters'[n].packets <= h[i].c.packets + 100 * (now - h[i].at)
            /\ ~(trouble'[n].reset < h[i].at)
        BY <1>1, <4>1, <4>2, <4>3
      <4> HIDE DEF h
      <4>6. h' = h /\ now' = now
        BY <1>1 DEF h
      <4> QED BY <4>4, <4>5, <4>6 DEF SinceSample
    <3>2. CASE n # x
      <4>1. counters'[n] = counters[n] /\ trouble'[n] = trouble[n] /\ (n \in present' <=> n \in present)
        BY <1>1, <1>4, <1>6, <2>1, <3>2
      <4> QED BY <1>1, <2>3, <4>1 DEF SinceSample
    <3> QED BY <3>1, <3>2
  <2>5. Remembers(n, monitor[n].history, monitor[n].distress)'
    BY <1>1, <1>4, <2>1, <2>4 DEF Remembers
  <2>6. Judged(n, monitor[n])'
    <3>1. CASE n = x
      BY <1>1, <1>4, <2>1, <3>1 DEF Judged
    <3>2. CASE n # x
      BY <1>1, <1>4, <2>1, <3>2 DEF Judged
    <3> QED BY <3>1, <3>2
  <2> QED BY <2>5, <2>6
<1> QED BY <1>1, <1>9, <1>10 DEF NetInv

Sound(n, m) == m \in NicMonitor /\ Remembers(n, m.history, m.distress) /\ Judged(n, m)

\* A first sample only starts the history.
LEMMA FirstSample ==
    ASSUME NetShape, NEW n \in present, NEW m, m = [N!NoMonitor EXCEPT !.history = <<Entry(n)>>]
    PROVE  Sound(n, m)
<1>1. /\ m = [history |-> <<Entry(n)>>, distress |-> 0, rx |-> 0, tx |-> 0, exhausted |-> FALSE]
  BY DEF N!NoMonitor
<1>2. n \in Nics /\ now \in Nat /\ counters[n] \in Counters /\ Entry(n) \in Sample
  BY DEF NetShape, Entry, Sample
<1>3. /\ Len(m.history) = 1 /\ m.history[1] = Entry(n) /\ m.history \in Seq(Sample)
  BY <1>1, <1>2
<1>4. SinceSample(n, Entry(n))
  BY <1>2 DEF SinceSample, Entry, NetShape, Counters
<1>5. m \in NicMonitor
  <2> DEFINE s == <<Entry(n)>>
  <2>1. s \in Seq(Sample)
    BY <1>1, <1>3
  <2>2. m = [history |-> s, distress |-> 0, rx |-> 0, tx |-> 0, exhausted |-> FALSE]
    BY <1>1
  <2>3. 0 \in Score /\ 0 \in {0, 95} /\ FALSE \in BOOLEAN
    BY DEF Score
  <2> HIDE DEF s
  <2>4. \A d, r \in Score, t \in {0, 95}, e \in BOOLEAN :
          [history |-> s, distress |-> d, rx |-> r, tx |-> t, exhausted |-> e] \in NicMonitor
    BY <2>1 DEF NicMonitor
  <2>5. [history |-> s, distress |-> 0, rx |-> 0, tx |-> 0, exhausted |-> FALSE] \in NicMonitor
    BY <2>3, <2>4
  <2> QED BY <2>2, <2>5
<1>6. Remembers(n, m.history, m.distress)
  BY <1>1, <1>3, <1>4 DEF Remembers
<1>7. Judged(n, m)
  BY <1>1, <1>3 DEF Judged
<1> QED BY <1>5, <1>6, <1>7 DEF Sound

\* A later sample tells what has happened since the first one in the window.
LEMMA LaterSample ==
    ASSUME NEW n, NEW m, Due(n, m), NEW busy \in SUBSET util, NEW tx \in {0, 95},
           NEW r, r = N!Sampled(n, m, n \in busy, tx)
    PROVE  Sound(n, r)
<1> DEFINE h == NewHistory(n, m)
<1>1. m.history # <<>>
  BY DEF Due, Remembers
<1>2. r = [history |-> h, distress |-> Distress(n, m),
           rx |-> N!NoisyOr(IF n \in busy THEN 100 ELSE 0, Distress(n, m)), tx |-> tx,
           exhausted |-> LostIn(n, m, "ring") >= 100]
  BY <1>1, SampledIs
<1>3. /\ h \in Seq(Sample) /\ Len(h) \in Nat \ {0} /\ h[Len(h)] = Entry(n)
      /\ \A i \in 1 .. Len(h) : SinceSample(n, h[i]) /\ h[i].at + Window >= now
      /\ \A i, j \in 1 .. Len(h) : i < j => h[i].at < h[j].at
  BY HistoryIs
<1>4. /\ Distress(n, m) \in Score
      /\ Distress(n, m) >= 50 => /\ now <= trouble[n].any + Window
                                 /\ now <= trouble[n].traffic + Window + 1
      /\ Distress(n, m) >= 72 => /\ now + 1 <= trouble[n].any + Window
                                 /\ now + 1 <= trouble[n].traffic + Window
  BY DistressIs
<1>5. LostIn(n, m, "ring") >= 100 => now + 1 <= trouble[n].ring + Window
  <2>1. LostIn(n, m, "ring") \in Int
    BY <1>3, LossMoves DEF LostIn
  <2> QED BY <2>1, LossIsRecent
<1>6. Len(h) > 1 /\ trouble[n].burst /\ trouble[n].reset < h[1].at =>
        Distress(n, m) >= 90 /\ LostIn(n, m, "ring") >= 100
  BY LossIsDistress
<1> HIDE DEF h
<1> DEFINE rx == N!NoisyOr(IF n \in busy THEN 100 ELSE 0, Distress(n, m))
<1>7. /\ rx \in Score
      /\ rx >= 50 => n \in busy \/ Distress(n, m) >= 50
      /\ Distress(n, m) >= 90 => rx >= 90
  <2>1. 0 \in Score /\ 100 \in Score
    BY DEF Score
  <2>2. CASE n \in busy
    BY <2>1, <2>2, <1>4, FusedScore
  <2>3. CASE n \notin busy
    BY <2>1, <2>3, <1>4, FusedScore
  <2> QED BY <2>2, <2>3
<1> HIDE DEF rx
<1>8. /\ r.history = h /\ r.distress = Distress(n, m) /\ r.rx = rx /\ r.tx = tx
      /\ r.exhausted = (LostIn(n, m, "ring") >= 100)
      /\ r = [history |-> h, distress |-> Distress(n, m), rx |-> rx, tx |-> tx,
              exhausted |-> LostIn(n, m, "ring") >= 100]
  BY <1>2 DEF rx
<1>9. r \in NicMonitor
  <2>1. (LostIn(n, m, "ring") >= 100) \in BOOLEAN
    OBVIOUS
  <2> QED BY <1>3, <1>4, <1>7, <1>8, <2>1 DEF NicMonitor
<1>10. h[Len(h)].at = now
  BY <1>3 DEF Entry
<1>11. Remembers(n, r.history, r.distress)
  BY <1>3, <1>4, <1>8, <1>10 DEF Remembers
<1>12. /\ now \in Nat /\ Window \in Nat /\ trouble[n].ring \in Nat /\ trouble[n].any \in Nat
       /\ trouble[n].traffic \in Nat
       /\ n \in busy => trouble[n].any = now /\ trouble[n].traffic = now
  BY DEF Due, NetShape, Windows
<1>13. rx >= 50 => now <= trouble[n].any + Window /\ now <= trouble[n].traffic + Window + 1
  <2>1. CASE n \in busy
    BY <2>1, <1>12
  <2>2. CASE n \notin busy
    BY <2>2, <1>4, <1>7
  <2> QED BY <2>1, <2>2
<1>14. LostIn(n, m, "ring") >= 100 => now <= trouble[n].ring + Window
  BY <1>5, <1>12
<1>15. Judged(n, r)
  BY <1>6, <1>7, <1>8, <1>13, <1>14 DEF Judged
<1> QED BY <1>9, <1>11, <1>15 DEF Sound

\* A round of the collector keeps the invariant.
LEMMA NetCollectKeeps == ASSUME Windows, NetInv, N!Collect PROVE NetInv'
<1> DEFINE nics == IF DOMAIN monitor = {} THEN present ELSE DOMAIN monitor
           m == [n \in nics |-> IF n \in DOMAIN monitor THEN monitor[n] ELSE N!NoMonitor]
<1>1. /\ \A n \in nics : m[n].history # <<>> => m[n].history[Len(m[n].history)].at < now
      /\ \E busy \in SUBSET util, tx \in {0, 95} :
            monitor' = [n \in nics \cap present |-> N!Sampled(n, m[n], n \in busy, tx)]
      /\ snapshot' = [n \in DOMAIN monitor' |->
                         [rx |-> monitor'[n].rx, tx |-> monitor'[n].tx,
                          exhausted |-> monitor'[n].exhausted]]
      /\ UNCHANGED <<now, present, counters, util, trouble>>
  BY DEF N!Collect, N!Last
<1>2. PICK busy \in SUBSET util, tx \in {0, 95} :
         monitor' = [n \in nics \cap present |-> N!Sampled(n, m[n], n \in busy, tx)]
  BY <1>1
<1>3. NetShape /\ present \subseteq Nics
  BY DEF NetInv, NetShape
<1>4. ASSUME NEW n \in nics \cap present PROVE Sound(n, monitor'[n])
  <2>1. monitor'[n] = N!Sampled(n, m[n], n \in busy, tx)
    BY <1>2
  <2>2. CASE m[n].history = <<>>
    <3>1. n \notin DOMAIN monitor
      BY <2>2 DEF NetInv, Remembers
    <3>2. m[n] = N!NoMonitor
      BY <3>1
    <3>3. monitor'[n] = [N!NoMonitor EXCEPT !.history = <<Entry(n)>>]
      BY <2>1, <2>2, <3>2 DEF N!Sampled, Entry
    <3> QED BY <1>3, <3>3, FirstSample
  <2>3. CASE m[n].history # <<>>
    <3>1. n \in DOMAIN monitor
      BY <2>3 DEF N!NoMonitor
    <3>2. m[n] = monitor[n]
      BY <3>1
    <3>3. Due(n, m[n])
      BY <1>1, <1>3, <2>3, <3>1, <3>2 DEF Due, NetInv, NetShape, Last
    <3> HIDE DEF m
    <3> QED BY <2>1, <3>3, LaterSample
  <2> QED BY <2>2, <2>3
<1>5. DOMAIN monitor' = nics \cap present
  BY <1>2
<1> HIDE DEF nics, m
<1>6. NetShape'
  BY <1>1, <1>3, <1>4, <1>5 DEF NetShape, Sound
<1>7. ASSUME NEW n \in DOMAIN monitor'
      PROVE  Remembers(n, monitor[n].history, monitor[n].distress)' /\ Judged(n, monitor[n])'
  <2>1. Sound(n, monitor'[n])
    BY <1>4, <1>5
  <2> QED BY <1>1, <2>1 DEF Sound, Remembers, SinceSample, Judged
<1> QED BY <1>6, <1>7 DEF NetInv

\* Every step of the network and of the collector keeps the invariant.
LEMMA NetInductive == ASSUME Windows, NetInv, [N!Next]_N!vars PROVE NetInv'
<1>1. ASSUME NEW how \in [Nics -> N!Seconds], N!Tick(how) PROVE NetInv'
  BY <1>1, NetTickKeeps
<1>2. ASSUME NEW n \in Nics, N!Reset(n) PROVE NetInv'
  BY <1>2, NetResetKeeps
<1>3. CASE N!Collect
  BY <1>3, NetCollectKeeps
<1>4. CASE UNCHANGED N!vars
  BY <1>4 DEF N!vars, NetInv, NetShape, Remembers, SinceSample, Judged
<1> QED BY <1>1, <1>2, <1>3, <1>4 DEF N!Next

\* The invariant of the network's pressure holds in every reachable state.
LEMMA NetInvariant == Windows /\ N!Spec => []NetInv
<1> SUFFICES ASSUME Windows PROVE N!Spec => []NetInv
  OBVIOUS
<1>1. N!Init => NetInv
  BY InitNet
<1>2. NetInv /\ [N!Next]_N!vars => NetInv'
  BY NetInductive
<1> QED BY <1>1, <1>2, PTL DEF N!Spec

\* By the invariant, a critical level has a loss.
LEMMA CapsAreReal == NetInv => N!CriticalIsReal
<1> SUFFICES ASSUME NetInv, NEW n \in N!Fresh, N!Receiving(snapshot[n]) = "critical"
             PROVE  now <= trouble[n].ring + Window
  BY DEF N!CriticalIsReal
<1>1. n \in DOMAIN monitor /\ monitor[n].history[Len(monitor[n].history)].at = now
  BY DEF N!Fresh, N!Last
<1>2. snapshot[n].exhausted = monitor[n].exhausted
  BY <1>1 DEF NetInv, NetShape
<1>3. snapshot[n].exhausted
  BY DEF N!Receiving
<1> QED BY <1>1, <1>2, <1>3 DEF NetInv, Judged

\* By the invariant, a loss has a critical level.
LEMMA OverflowsAreSeen == NetInv => N!LossIsSeen
<1> SUFFICES ASSUME NetInv, NEW n \in N!Fresh, Len(monitor[n].history) > 1, trouble[n].burst,
                    trouble[n].reset < monitor[n].history[1].at
             PROVE  N!Receiving(snapshot[n]) = "critical"
  BY DEF N!LossIsSeen, Head
<1>1. n \in DOMAIN monitor /\ monitor[n].history[Len(monitor[n].history)].at = now
  BY DEF N!Fresh, N!Last
<1>2. snapshot[n].rx = monitor[n].rx /\ snapshot[n].exhausted = monitor[n].exhausted
  BY <1>1 DEF NetInv, NetShape
<1>3. monitor[n].rx >= 90 /\ monitor[n].exhausted
  BY <1>1 DEF NetInv, Judged
<1> QED BY <1>2, <1>3 DEF N!Receiving, N!Level

\* By the invariant, a level has trouble and traffic.
LEMMA CalmFollows == NetInv => N!PressureFades
<1> SUFFICES ASSUME NetInv, NEW n \in N!Fresh, N!Receiving(snapshot[n]) # "low"
             PROVE  now <= trouble[n].any + Window /\ now <= trouble[n].traffic + Window + 1
  BY DEF N!PressureFades
<1>1. n \in DOMAIN monitor /\ monitor[n].history[Len(monitor[n].history)].at = now
  BY DEF N!Fresh, N!Last
<1>2. snapshot[n].rx = monitor[n].rx /\ snapshot[n].exhausted = monitor[n].exhausted
      /\ monitor[n].rx \in Score
  BY <1>1 DEF NetInv, NetShape, NicMonitor
<1>3. monitor[n].rx >= 50
  BY <1>2 DEF N!Receiving, N!Level, Score
<1> QED BY <1>1, <1>3 DEF NetInv, Judged

\* A set of scores has a greatest one.
LEMMA GreatestIs ==
    ASSUME NEW Z, Z \subseteq Score, Z # {}
    PROVE  N!Max(Z) \in Z /\ \A x \in Z : x <= N!Max(Z)
<1> DEFINE d == {100 - x : x \in Z}
<1>1. d \subseteq Nat /\ d # {}
  <2>1. \A x \in Score : 100 - x \in Nat
    BY DEF Score
  <2>2. PICK x \in Z : TRUE
    OBVIOUS
  <2>3. 100 - x \in d
    OBVIOUS
  <2> QED BY <2>1, <2>3
<1>2. PICK k \in d : \A j \in d : <<j, k>> \notin OpToRel(<, Nat)
  <2> HIDE DEF d
  <2> QED BY <1>1, NatLessThanWellFounded, WFMin
<1>3. PICK top \in Z : k = 100 - top
  BY <1>2
<1>4. \A x \in Z : x <= top
  <2> SUFFICES ASSUME NEW x \in Z PROVE x <= top
    OBVIOUS
  <2>1. 100 - x \in d /\ 100 - x \in Nat /\ k \in Nat
    BY <1>1, <1>2
  <2>2. <<100 - x, k>> \notin OpToRel(<, Nat)
    BY <1>2, <2>1
  <2>3. 100 - x < k => <<100 - x, k>> \in OpToRel(<, Nat)
    BY <2>1 DEF OpToRel
  <2>4. ~(100 - x < k)
    BY <2>2, <2>3
  <2> QED BY <1>3, <2>4 DEF Score
<1> QED BY <1>4 DEF N!Max, Score

\* The level of the worst score is the worst of the levels.
LEMMA GaugeIsWorst == NetInv => N!GaugeShowsLevels
<1> SUFFICES ASSUME NetInv PROVE N!GaugeShowsLevels
  OBVIOUS
<1> DEFINE scores == {0} \cup UNION {{N!Capped(snapshot[n]), snapshot[n].tx} : n \in DOMAIN snapshot}
           ranks == {0} \cup UNION {{N!Rank(N!Receiving(snapshot[n])), N!Rank(N!Level(snapshot[n].tx))}
                                    : n \in DOMAIN snapshot}
           rank(x) == N!Rank(N!Level(x))
<1>1. \A n \in DOMAIN snapshot :
        snapshot[n].rx \in Score /\ snapshot[n].tx \in Score /\ snapshot[n].exhausted \in BOOLEAN
  BY DEF NetInv, NetShape, NicMonitor, Score
<1>2. \A n \in DOMAIN snapshot :
        /\ N!Capped(snapshot[n]) \in Score
        /\ rank(N!Capped(snapshot[n])) = N!Rank(N!Receiving(snapshot[n]))
  <2> SUFFICES ASSUME NEW n \in DOMAIN snapshot
               PROVE  /\ N!Capped(snapshot[n]) \in Score
                      /\ rank(N!Capped(snapshot[n])) = N!Rank(N!Receiving(snapshot[n]))
    OBVIOUS
  <2> DEFINE p == snapshot[n]
  <2>1. p.rx \in Score /\ p.exhausted \in BOOLEAN
    BY <1>1
  <2> HIDE DEF p
  <2>2. CASE p.exhausted
    <3>1. N!Capped(p) = p.rx
      BY <2>2 DEF N!Capped
    <3>2. N!Receiving(p) = N!Level(p.rx)
      BY <2>2 DEF N!Receiving
    <3> QED BY <2>1, <3>1, <3>2 DEF p
  <2>3. CASE ~p.exhausted
    <3>1. p.rx \in Int /\ 89 \in Int
      BY <2>1 DEF Score
    <3>2. /\ N!Min({p.rx, 89}) \in {p.rx, 89} /\ N!Min({p.rx, 89}) <= p.rx /\ N!Min({p.rx, 89}) <= 89
      BY <3>1, LesserAndGreater
    <3>3. N!Capped(p) \in {p.rx, 89} /\ N!Capped(p) <= p.rx /\ N!Capped(p) <= 89
      BY <2>3, <3>2 DEF N!Capped
    <3> DEFINE c == N!Capped(p)
    <3>4. CASE p.rx >= 90
      <4>1. c = 89
        BY <2>1, <3>3, <3>4 DEF Score
      <4> HIDE DEF c
      <4>2. N!Level(p.rx) = "critical" /\ N!Level(c) = "high"
        BY <4>1, <3>4, <2>1 DEF N!Level, Score
      <4>3. N!Receiving(p) = "high"
        BY <4>2, <2>3 DEF N!Receiving
      <4> QED BY <4>1, <4>2, <4>3 DEF c, p, Score
    <3>5. CASE ~(p.rx >= 90)
      <4>1. c = p.rx
        BY <2>1, <3>3, <3>5 DEF Score
      <4> HIDE DEF c
      <4>2. N!Level(p.rx) # "critical"
        BY <3>5 DEF N!Level
      <4>3. N!Receiving(p) = N!Level(p.rx)
        BY <4>2 DEF N!Receiving
      <4> QED BY <4>1, <4>3, <2>1 DEF c, p
    <3> QED BY <3>4, <3>5
  <2> QED BY <2>2, <2>3, <2>1 DEF p
<1>3. \A x \in Score : rank(x) \in 0 .. 3
  BY DEF N!Rank, N!Level
<1>4. \A x, y \in Score : x <= y => rank(x) <= rank(y)
  <2> SUFFICES ASSUME NEW x \in Score, NEW y \in Score, x <= y PROVE rank(x) <= rank(y)
    OBVIOUS
  <2>1. x \in Int /\ y \in Int
    BY DEF Score
  <2> QED BY <2>1 DEF N!Rank, N!Level
<1>5. rank(0) = 0
  BY DEF N!Rank, N!Level
<1>6. scores \subseteq Score /\ scores # {} /\ 0 \in scores
  BY <1>1, <1>2 DEF Score
<1>7. ranks = {rank(x) : x \in scores}
  <2>1. ASSUME NEW y \in ranks PROVE y \in {rank(x) : x \in scores}
    <3>1. CASE y = 0
      BY <1>5, <3>1
    <3>2. CASE \E n \in DOMAIN snapshot : y = N!Rank(N!Receiving(snapshot[n]))
      <4>1. PICK n \in DOMAIN snapshot : y = N!Rank(N!Receiving(snapshot[n]))
        BY <3>2
      <4>2. N!Capped(snapshot[n]) \in scores /\ y = rank(N!Capped(snapshot[n]))
        BY <1>2, <4>1
      <4> HIDE DEF scores, rank
      <4> QED BY <4>2
    <3>3. CASE \E n \in DOMAIN snapshot : y = N!Rank(N!Level(snapshot[n].tx))
      <4>1. PICK n \in DOMAIN snapshot : y = rank(snapshot[n].tx)
        BY <3>3
      <4>2. snapshot[n].tx \in scores
        OBVIOUS
      <4> HIDE DEF scores, rank
      <4> QED BY <4>1, <4>2
    <3> QED BY <2>1, <3>1, <3>2, <3>3
  <2>2. ASSUME NEW x \in scores PROVE rank(x) \in ranks
    <3>1. CASE x = 0
      BY <1>5, <3>1
    <3>2. CASE \E n \in DOMAIN snapshot : x = N!Capped(snapshot[n])
      <4>1. PICK n \in DOMAIN snapshot : x = N!Capped(snapshot[n])
        BY <3>2
      <4>2. rank(x) = N!Rank(N!Receiving(snapshot[n]))
        BY <1>2, <4>1
      <4> QED BY <4>2
    <3>3. CASE \E n \in DOMAIN snapshot : x = snapshot[n].tx
      <4>1. PICK n \in DOMAIN snapshot : x = snapshot[n].tx
        BY <3>3
      <4>2. rank(x) = N!Rank(N!Level(snapshot[n].tx))
        BY <4>1
      <4>3. N!Rank(N!Level(snapshot[n].tx)) \in ranks
        OBVIOUS
      <4> QED BY <4>2, <4>3
    <3> QED BY <2>2, <3>1, <3>2, <3>3
  <2> HIDE DEF scores, ranks, rank
  <2> QED BY <2>1, <2>2
<1> HIDE DEF scores, rank
<1>8. ranks \subseteq Score /\ ranks # {}
  BY <1>3, <1>6, <1>7 DEF Score
<1>9. N!Max(scores) \in scores /\ \A x \in scores : x <= N!Max(scores)
  BY <1>6, GreatestIs
<1>10. N!Max(ranks) \in ranks /\ \A x \in ranks : x <= N!Max(ranks)
  <2> HIDE DEF ranks
  <2> QED BY <1>8, GreatestIs
<1>11. rank(N!Max(scores)) = N!Max(ranks)
  <2> HIDE DEF ranks
  <2> DEFINE g == N!Max(scores)
             t == N!Max(ranks)
  <2>1. g \in Score /\ rank(g) \in ranks /\ rank(g) \in 0 .. 3
    BY <1>3, <1>6, <1>7, <1>9
  <2>2. PICK x \in scores : t = rank(x)
    BY <1>7, <1>10
  <2>3. t <= rank(g) /\ rank(g) <= t
    <3>1. x \in Score /\ x <= g
      BY <1>6, <1>9, <2>2
    <3> HIDE DEF g, t
    <3>2. rank(x) <= rank(g)
      BY <1>4, <2>1, <3>1
    <3>3. rank(g) <= N!Max(ranks)
      BY <1>10, <2>1
    <3> QED BY <2>2, <3>2, <3>3 DEF t
  <2>4. t \in Int
    <3>1. N!Max(ranks) \in Score
      BY <1>8, <1>10
    <3> QED BY <3>1, ScoresAreNumbers
  <2> HIDE DEF g, t
  <2>5. rank(g) = t
    BY <2>1, <2>3, <2>4
  <2> QED BY <2>5 DEF g, t
<1> QED BY <1>11 DEF N!GaugeShowsLevels, N!Gauge, scores, ranks, rank

\* For any NICs, receiving is critical, so that others' traffic is capped, only for a NIC whose ring
\* has lost packets within the window.  (NetworkMonitor._update_pressure, update_network_pressure_level.)
THEOREM CapsAnswerLoss == Windows /\ N!Spec => []N!CriticalIsReal
BY NetInvariant, CapsAreReal, PTL

\* For any NICs, a busy link's overflow is critical in the next sample, unless the window was begun
\* by this sample or the counters were reset within it.  (diff_rate, _update_pressure.)
THEOREM LossIsAnswered == Windows /\ N!Spec => []N!LossIsSeen
BY NetInvariant, OverflowsAreSeen, PTL

\* For any NICs, a level above low has had trouble within the window, and traffic.  (_update_pressure.)
THEOREM LevelsFade == Windows /\ N!Spec => []N!PressureFades
BY NetInvariant, CalmFollows, PTL

\* For any NICs, the gauge shows the worst of the levels that the controller goes by.
\* (_compute_fused_network_pressure.)
THEOREM GaugeIsTheWorst == Windows /\ N!Spec => []N!GaugeShowsLevels
BY NetInvariant, GaugeIsWorst, PTL

-----------------------------------------------------------------------------
(***************************************************************************)
(* Shared settings: forms and the stamps that they were given, and the     *)
(* two writes of a save.                                                   *)
(***************************************************************************)

\* The lock's idle mark is not a client.
NobodyIsFree == "nobody" \notin Clients

Keys == {"a", "b"}
KeyValues == [Keys -> 0 .. 2]
Wants == UNION {[ks -> 0 .. 2] : ks \in SUBSET Keys}
Todos == {<<>>} \cup {<<x>> : x \in SUBSET Keys} \cup {<<x, y>> : x \in SUBSET Keys, y \in SUBSET Keys}
SaveForms ==
    [pc : {"closed", "read", "open", "valid", "write", "persist", "assign"}, ts : Int,
     want : Wants, todo : Todos]

\* What the module's operators say, of a given section and form.
Coherent(s, v) ==
    CASE s = "thresholds" -> v.a <= v.b
      [] s = "shares" -> v.a + v.b <= 2
      [] s = "network" -> (v.a # 0 => v.b # 0)
      [] OTHER -> TRUE
CallsOf(s, u) ==
    IF s # "network" THEN <<Keys>> ELSE IF DOMAIN u = Keys THEN <<{"a"}, {"b"}>> ELSE <<DOMAIN u>>
With(f, v) == [k \in Keys |-> IF k \in DOMAIN f.want \cap Head(f.todo) THEN f.want[k] ELSE v[k]]
Busy(f) == f.pc \in {"write", "persist", "assign"}

\* No value of the part is coerced to another.
AsIs(s, y, f) ==
    \A k \in DOMAIN f.want \cap Head(f.todo) : ~(s = "thresholds" /\ k \in y.loaded /\ f.want[k] = 1)

\* The keys that a save has still to write.
Unwritten(todo, k) == \E i \in 1 .. Len(todo) : k \in todo[i]

\* The two writes of a save, and what it will have put in force at its end.
InStep(f, m, d) == (f.pc = "persist" => m = With(f, d)) /\ (f.pc = "assign" => d = With(f, m))
Fit(s, f, m) ==
    /\ Coherent(s, G!Merged(m, f.want))
    /\ \A k \in DOMAIN f.want : Unwritten(f.todo, k) \/ m[k] = f.want[k]

\* The lock is held between the two writes of a part; the sections' stamp may be ahead of the clock.
SetShape ==
    /\ memory \in KeyValues /\ disk \in KeyValues /\ snap \in KeyValues
    /\ stamp \in Nat /\ clock \in Nat /\ (section # "sections" => stamp <= clock)
    /\ form \in [Clients -> SaveForms] /\ \A c \in Clients : form[c].ts <= stamp
    /\ \A c \in Clients : holder = c <=> form[c].pc \in {"persist", "assign"}
    /\ holder \in Clients \cup {"nobody"}
    /\ fresh \subseteq Clients /\ raced \subseteq Clients /\ moved \subseteq Clients
    /\ \A c \in Clients :
         /\ form[c].pc \in {"persist", "assign"} => section # "retention" /\ form[c].todo # <<>>
         /\ form[c].pc = "assign" => section # "thresholds"
         /\ form[c].pc = "valid" \/ Busy(form[c]) =>
              Len(form[c].todo) <= Len(CallsOf(section, form[c].want))

\* The two writes agree but for the part under the lock.
WritesAgree ==
    /\ holder = "nobody" => memory = disk
    /\ \A c \in Clients : /\ InStep(form[c], memory, disk)
                          /\ form[c].pc = "persist" => AsIs(section, yaml, form[c])

\* A save that nobody has overtaken has validated what will be in force at its end, and what is not
\* consistent is between two writes of such a save.
SavesFit ==
    /\ \A c \in Clients : (form[c].pc = "valid" \/ Busy(form[c])) /\ c \notin moved => Fit(section, form[c], memory)
    /\ ~Coherent(section, memory) => \E c \in Clients : Busy(form[c]) /\ c \notin moved

\* A form that does not show the values in force has an older stamp, or the save that will move the
\* stamp on is still under way.
FormsAreJudged ==
    \A c \in Clients :
        /\ form[c].pc = "read" => c \in fresh \cup raced
        /\ form[c].pc \in {"open", "valid"} /\ c \notin fresh \cup raced =>
             form[c].ts < stamp \/ \E d \in Clients \ {c} : Busy(form[d])
        /\ form[c].pc = "write" /\ Len(form[c].todo) = Len(CallsOf(section, form[c].want)) =>
             c \in fresh \cup raced

SetInv == SetShape /\ FormsAreJudged /\ (~spoiled => WritesAgree /\ SavesFit)

-----------------------------------------------------------------------------
\* The calls of a save write all of its keys.
LEMMA CallsAreTodo ==
    ASSUME NEW s, NEW u \in Wants
    PROVE  /\ CallsOf(s, u) \in Todos
           /\ \A k \in DOMAIN u : k \in Keys /\ Unwritten(CallsOf(s, u), k)
<1>1. DOMAIN u \subseteq Keys
  BY DEF Wants
<1>2. \A x \in SUBSET Keys : <<x>> \in Todos /\ \A k \in x : Unwritten(<<x>>, k)
  BY DEF Todos, Unwritten
<1>3. <<{"a"}, {"b"}>> \in Todos /\ \A k \in Keys : Unwritten(<<{"a"}, {"b"}>>, k)
  <2>1. {"a"} \in SUBSET Keys /\ {"b"} \in SUBSET Keys
    BY DEF Keys
  <2>2. Unwritten(<<{"a"}, {"b"}>>, "a") /\ Unwritten(<<{"a"}, {"b"}>>, "b")
    BY DEF Unwritten
  <2> QED BY <2>1, <2>2 DEF Todos, Keys
<1>4. CASE s # "network"
  BY <1>1, <1>2, <1>4 DEF CallsOf
<1>5. CASE s = "network" /\ DOMAIN u = Keys
  BY <1>3, <1>5 DEF CallsOf
<1>6. CASE s = "network" /\ DOMAIN u # Keys
  BY <1>1, <1>2, <1>6 DEF CallsOf
<1> QED BY <1>4, <1>5, <1>6

\* What is left of them after the next.
LEMMA TodoIs ==
    ASSUME NEW todo \in Todos
    PROVE  /\ Len(todo) \in Nat /\ (Len(todo) = 0 <=> todo = <<>>)
           /\ \A k \in Keys : ~Unwritten(<<>>, k)
           /\ todo # <<>> => /\ Tail(todo) \in Todos /\ Len(Tail(todo)) = Len(todo) - 1
                             /\ \A k \in Keys :
                                   Unwritten(todo, k) <=> k \in Head(todo) \/ Unwritten(Tail(todo), k)
<1>1. \A k \in Keys : ~Unwritten(<<>>, k)
  BY DEF Unwritten
<1>2. ASSUME NEW x \in SUBSET Keys, todo = <<x>>
      PROVE  /\ Tail(todo) = <<>> /\ Head(todo) = x /\ Len(todo) = 1 /\ Len(Tail(todo)) = 0
             /\ \A k \in Keys : Unwritten(todo, k) <=> k \in x
  BY <1>2 DEF Unwritten
<1>3. ASSUME NEW x \in SUBSET Keys, NEW y \in SUBSET Keys, todo = <<x, y>>
      PROVE  /\ Tail(todo) = <<y>> /\ Head(todo) = x /\ Len(todo) = 2 /\ Len(Tail(todo)) = 1
             /\ \A k \in Keys : Unwritten(todo, k) <=> k \in x \/ Unwritten(<<y>>, k)
  <2>1. Tail(todo) = <<y>> /\ Head(todo) = x /\ Len(todo) = 2 /\ Len(Tail(todo)) = 1
    BY <1>3
  <2>2. \A k \in Keys : Unwritten(todo, k) <=> k \in x \/ k \in y
    BY <1>3 DEF Unwritten
  <2>3. \A k \in Keys : Unwritten(<<y>>, k) <=> k \in y
    BY DEF Unwritten
  <2> QED BY <2>1, <2>2, <2>3
<1>4. CASE todo = <<>>
  BY <1>1, <1>4
<1>5. CASE \E x \in SUBSET Keys : todo = <<x>>
  <2>1. PICK x \in SUBSET Keys : todo = <<x>>
    BY <1>5
  <2>2. <<>> \in Todos /\ todo # <<>>
    BY <2>1 DEF Todos
  <2> QED BY <1>1, <1>2, <2>1, <2>2
<1>6. CASE \E x \in SUBSET Keys, y \in SUBSET Keys : todo = <<x, y>>
  <2>1. PICK x \in SUBSET Keys, y \in SUBSET Keys : todo = <<x, y>>
    BY <1>6
  <2>2. <<y>> \in Todos /\ todo # <<>>
    BY <2>1 DEF Todos
  <2> QED BY <1>1, <1>3, <2>1, <2>2
<1> QED BY <1>4, <1>5, <1>6 DEF Todos

\* The part under way narrowed to other keys.
LEMMA Narrowed ==
    ASSUME NEW todo \in Todos, todo # <<>>, NEW x \in SUBSET Keys
    PROVE  LET l == <<x>> \o Tail(todo)
           IN l \in Todos /\ l # <<>> /\ Head(l) = x /\ Tail(l) = Tail(todo) /\ Len(l) = Len(todo)
<1>1. CASE \E y \in SUBSET Keys : todo = <<y>>
  <2>1. PICK y \in SUBSET Keys : todo = <<y>>
    BY <1>1
  <2>2. Tail(todo) = <<>> /\ Len(todo) = 1
    BY <2>1
  <2>3. <<x>> \o Tail(todo) = <<x>>
    <3>1. <<x>> \in Seq(SUBSET Keys)
      OBVIOUS
    <3>2. <<x>> \o <<>> = <<x>>
      BY <3>1, ConcatEmptySeq, Zenon
    <3> QED BY <2>2, <3>2, Zenon
  <2>4. <<x>> \in Todos /\ <<x>> # <<>> /\ Head(<<x>>) = x /\ Tail(<<x>>) = <<>> /\ Len(<<x>>) = 1
    BY DEF Todos
  <2> QED BY <2>2, <2>3, <2>4
<1>2. CASE \E y \in SUBSET Keys, z \in SUBSET Keys : todo = <<y, z>>
  <2>1. PICK y \in SUBSET Keys, z \in SUBSET Keys : todo = <<y, z>>
    BY <1>2
  <2>2. Tail(todo) = <<z>> /\ Len(todo) = 2
    BY <2>1
  <2>3. <<x>> \o <<z>> = <<x, z>>
    <3> DEFINE s == <<x>>
               t == <<z>>
               l == <<x, z>>
    <3>1. /\ s \in Seq(SUBSET Keys) /\ t \in Seq(SUBSET Keys) /\ l \in Seq(SUBSET Keys)
          /\ Len(s) = 1 /\ Len(t) = 1 /\ Len(l) = 2 /\ s[1] = x /\ t[1] = z /\ l[1] = x /\ l[2] = z
      OBVIOUS
    <3> HIDE DEF s, t, l
    <3>2. /\ s \o t \in Seq(SUBSET Keys) /\ Len(s \o t) = 2
          /\ \A i \in 1 .. 2 : (s \o t)[i] = IF i <= 1 THEN s[i] ELSE t[i - 1]
      BY <3>1, ConcatProperties, SMT
    <3>3. \A i \in 1 .. 2 : (s \o t)[i] = l[i]
      BY <3>1, <3>2, SMT
    <3>4. s \o t = l
      BY <3>1, <3>2, <3>3, SeqEqual, SMT
    <3> QED BY <3>4 DEF s, t, l
  <2>4. /\ <<x, z>> \in Todos /\ <<x, z>> # <<>> /\ Head(<<x, z>>) = x /\ Tail(<<x, z>>) = <<z>>
        /\ Len(<<x, z>>) = 2
    BY DEF Todos
  <2> QED BY <2>2, <2>3, <2>4
<1> QED BY <1>1, <1>2 DEF Todos

\* The module's operators, in terms of the section and the form.
LEMMA ModuleSays ==
    /\ \A v : G!Consistent(v) <=> Coherent(section, v)
    /\ \A u : G!Calls(u) = CallsOf(section, u)
    /\ \A c : G!AsChecked(c) <=> AsIs(section, yaml, form[c])
    /\ \A c, v : AsIs(section, yaml, form[c]) => G!Put(c, v) = With(form[c], v)
    /\ \A c : G!Saving(c) <=> Busy(form[c])
    /\ G!Keys = Keys
<1>1. \A v : G!Consistent(v) <=> Coherent(section, v)
  BY DEF G!Consistent, G!Ordered, G!SharesFit, G!HasInterface, Coherent
<1>2. G!Keys = Keys /\ \A u : G!Calls(u) = CallsOf(section, u)
  BY DEF G!Calls, CallsOf, G!Keys, Keys
<1>3. \A c : G!AsChecked(c) <=> AsIs(section, yaml, form[c])
  BY DEF G!AsChecked, AsIs, G!Stored, G!Wanted, G!Call
<1>4. ASSUME NEW c, NEW v, AsIs(section, yaml, form[c]) PROVE G!Put(c, v) = With(form[c], v)
  <2>1. \A k \in G!Wanted(c) : G!Stored(c, k) = form[c].want[k]
    BY <1>3, <1>4 DEF G!AsChecked
  <2>2. G!Wanted(c) = DOMAIN form[c].want \cap Head(form[c].todo)
    BY DEF G!Wanted, G!Call
  <2> QED BY <1>2, <2>1, <2>2 DEF G!Put, With
<1>5. \A c : G!Saving(c) <=> Busy(form[c])
  BY DEF G!Saving, Busy
<1> QED BY <1>1, <1>2, <1>3, <1>4, <1>5

\* Whatever is stored is a value.
LEMMA PutIs ==
    ASSUME NEW c, form[c] \in SaveForms, NEW v \in KeyValues
    PROVE  G!Put(c, v) \in KeyValues /\ G!Wanted(c) \subseteq Keys /\ G!Changed(c) \subseteq G!Wanted(c)
<1>1. DOMAIN form[c].want \subseteq Keys /\ \A k \in DOMAIN form[c].want : form[c].want[k] \in 0 .. 2
  BY DEF SaveForms, Wants
<1>2. G!Wanted(c) \subseteq DOMAIN form[c].want
  BY DEF G!Wanted
<1>3. \A k \in G!Wanted(c) : G!Stored(c, k) \in 0 .. 2
  BY <1>1, <1>2 DEF G!Stored
<1>4. G!Put(c, v) \in KeyValues
  BY <1>3 DEF G!Put, KeyValues, G!Keys, Keys
<1>5. G!Changed(c) \subseteq G!Wanted(c)
  BY DEF G!Changed
<1> QED BY <1>1, <1>2, <1>4, <1>5

\* What is put in force is values, and a save's next write does not change what it will have put.
LEMMA WritesAre ==
    ASSUME NEW f \in SaveForms, NEW v \in KeyValues, NEW s
    PROVE  /\ G!Merged(v, f.want) \in KeyValues /\ With(f, v) \in KeyValues
           /\ G!Merged(With(f, v), f.want) = G!Merged(v, f.want)
           /\ Coherent(s, G!Merged(v, f.want)) /\ (\A k \in DOMAIN f.want : v[k] = f.want[k]) => Coherent(s, v)
<1>1. f.want \in Wants /\ DOMAIN f.want \subseteq Keys /\ \A k \in DOMAIN f.want : f.want[k] \in 0 .. 2
  BY DEF SaveForms, Wants
<1>2. G!Merged(v, f.want) = [k \in Keys |-> IF k \in DOMAIN f.want THEN f.want[k] ELSE v[k]]
  BY DEF G!Merged, G!Keys, Keys
<1>3. G!Merged(v, f.want) \in KeyValues
  BY <1>1, <1>2 DEF KeyValues
<1>4. With(f, v) \in KeyValues
  BY <1>1 DEF KeyValues, With
<1>5. G!Merged(With(f, v), f.want) = G!Merged(v, f.want)
  <2>1. G!Merged(With(f, v), f.want) = [k \in Keys |-> IF k \in DOMAIN f.want THEN f.want[k] ELSE With(f, v)[k]]
    BY DEF G!Merged, G!Keys, Keys
  <2>2. \A k \in Keys : k \notin DOMAIN f.want => With(f, v)[k] = v[k]
    BY DEF With
  <2> QED BY <1>2, <2>1, <2>2
<1>6. (\A k \in DOMAIN f.want : v[k] = f.want[k]) => G!Merged(v, f.want) = v
  BY <1>2 DEF KeyValues
<1> QED BY <1>3, <1>4, <1>5, <1>6

-----------------------------------------------------------------------------
\* The first state: one set of values, and no form.
LEMMA InitSet == NobodyIsFree /\ G!Init => SetInv
<1> SUFFICES ASSUME NobodyIsFree, G!Init PROVE SetInv
  OBVIOUS
<1>1. G!Closed = [pc |-> "closed", ts |-> -1, want |-> [k \in {} |-> 0], todo |-> <<>>]
  BY DEF G!Closed
<1>2. G!Closed \in SaveForms
  <2>1. [k \in {} |-> 0] \in Wants
    <3>1. [k \in {} |-> 0] \in [{} -> 0 .. 2] /\ {} \in SUBSET Keys
      OBVIOUS
    <3> QED BY <3>1 DEF Wants
  <2> QED BY <1>1, <2>1 DEF SaveForms, Todos
<1>3. SetShape
  <2>1. memory \in KeyValues
    BY ModuleSays DEF G!Init, G!Legal, KeyValues
  <2> QED BY <1>1, <1>2, <2>1 DEF G!Init, SetShape, NobodyIsFree, Busy
<1>4. FormsAreJudged
  BY <1>1 DEF G!Init, FormsAreJudged
<1>5. Coherent(section, memory)
  BY ModuleSays DEF G!Init
<1>6. WritesAgree /\ SavesFit
  BY <1>1, <1>5 DEF G!Init, WritesAgree, SavesFit, InStep, Busy
<1> QED BY <1>3, <1>4, <1>6 DEF SetInv

\* A form's record when it goes on to another step.
LEMMA FormPc ==
    ASSUME NEW f \in SaveForms, NEW p \in {"closed", "read", "open", "valid", "write", "persist", "assign"}
    PROVE  LET g == [f EXCEPT !.pc = p]
           IN /\ g \in SaveForms
              /\ g.pc = p /\ g.ts = f.ts /\ g.want = f.want /\ g.todo = f.todo
BY DEF SaveForms

\* Three fields of a form set anew.
LEMMA FormAt ==
    ASSUME form \in [Clients -> SaveForms], NEW c \in Clients, NEW p, NEW w, NEW l
    PROVE  [form EXCEPT ![c].pc = p, ![c].want = w, ![c].todo = l]
             = [form EXCEPT ![c] = [form[c] EXCEPT !.pc = p, !.want = w, !.todo = l]]
OBVIOUS

\* A form has the shape of one.
LEMMA FormIs ==
    ASSUME SetShape, NEW c \in Clients
    PROVE  /\ form[c] \in SaveForms /\ form[c].ts \in Int /\ form[c].ts <= stamp /\ stamp \in Nat
           /\ form[c].want \in Wants /\ form[c].todo \in Todos
BY DEF SetShape, SaveForms

\* A closed form, and one that is reopened.
LEMMA ClosedIs ==
    /\ G!Closed \in SaveForms /\ G!Closed.pc = "closed" /\ G!Closed.ts = -1
    /\ [G!Closed EXCEPT !.pc = "read"] \in SaveForms
    /\ [G!Closed EXCEPT !.pc = "read"].pc = "read" /\ [G!Closed EXCEPT !.pc = "read"].ts = -1
    /\ \A t \in Int :
         /\ [G!Closed EXCEPT !.pc = "open", !.ts = t] \in SaveForms
         /\ [G!Closed EXCEPT !.pc = "open", !.ts = t].pc = "open"
         /\ [G!Closed EXCEPT !.pc = "open", !.ts = t].ts = t
<1> DEFINE w == [k \in {} |-> 0]
<1>1. G!Closed = [pc |-> "closed", ts |-> -1, want |-> w, todo |-> <<>>]
  BY DEF G!Closed
<1>2. w \in Wants
  <2>1. w \in [{} -> 0 .. 2] /\ {} \in SUBSET Keys
    OBVIOUS
  <2> QED BY <2>1 DEF Wants
<1> HIDE DEF w
<1>3. G!Closed \in SaveForms /\ G!Closed.pc = "closed" /\ G!Closed.ts = -1
  <2>1. \A p \in {"closed"}, t \in Int, l \in Todos : [pc |-> p, ts |-> t, want |-> w, todo |-> l] \in SaveForms
    BY <1>2 DEF SaveForms
  <2>2. -1 \in Int /\ <<>> \in Todos
    BY DEF Todos
  <2> QED BY <1>1, <2>1, <2>2
<1>4. /\ [G!Closed EXCEPT !.pc = "read"] \in SaveForms
      /\ [G!Closed EXCEPT !.pc = "read"].pc = "read" /\ [G!Closed EXCEPT !.pc = "read"].ts = -1
  BY <1>3, FormPc
<1>5. ASSUME NEW t \in Int
      PROVE  /\ [G!Closed EXCEPT !.pc = "open", !.ts = t] \in SaveForms
             /\ [G!Closed EXCEPT !.pc = "open", !.ts = t].pc = "open"
             /\ [G!Closed EXCEPT !.pc = "open", !.ts = t].ts = t
  BY <1>3 DEF SaveForms
<1> QED BY <1>3, <1>4, <1>5

\* A step of one client that writes nothing disturbs nobody.
LEMMA StillStep ==
    ASSUME SetInv, NEW c \in Clients, NEW f \in SaveForms, form' = [form EXCEPT ![c] = f], f.ts <= stamp',
           form[c].pc \notin {"persist", "assign"}, f.pc \notin {"persist", "assign"},
           Busy(form[c]) => Busy(f),
           f.pc = "valid" \/ Busy(f) => Len(f.todo) <= Len(CallsOf(section, f.want)),
           UNCHANGED <<section, memory, disk, yaml, holder, clock>>, ~spoiled' => ~spoiled,
           snap' \in KeyValues, stamp' \in Nat, stamp <= stamp', section # "sections" => stamp' = stamp,
           fresh' \subseteq Clients, raced' \subseteq Clients, (fresh \cup raced) \ {c} \subseteq fresh' \cup raced',
           moved' \subseteq Clients, moved' \ {c} = moved \ {c}, c \in moved' => c \in moved,
           f.pc = "read" => c \in fresh' \cup raced',
           f.pc \in {"open", "valid"} /\ c \notin fresh' \cup raced' =>
               f.ts < stamp' \/ \E d \in Clients \ {c} : Busy(form[d]),
           f.pc = "write" /\ Len(f.todo) = Len(CallsOf(section, f.want)) => c \in fresh' \cup raced',
           ~spoiled' /\ WritesAgree /\ SavesFit /\ (f.pc = "valid" \/ Busy(f)) /\ c \notin moved' => Fit(section, f, memory)
    PROVE  SetInv'
<1>1. /\ \A d \in Clients \ {c} : form'[d] = form[d]
      /\ form'[c] = f /\ form' \in [Clients -> SaveForms]
  BY DEF SetInv, SetShape
<1>2. \A d \in Clients : form[d].ts \in Int /\ form[d].ts <= stamp /\ stamp \in Nat
  BY FormIs DEF SetInv
<1>3. SetShape'
  BY <1>1, <1>2 DEF SetInv, SetShape, Busy
<1>4. FormsAreJudged'
  <2> SUFFICES ASSUME NEW d \in Clients
               PROVE /\ form'[d].pc = "read" => d \in fresh' \cup raced'
                     /\ form'[d].pc \in {"open", "valid"} /\ d \notin fresh' \cup raced' =>
                          form'[d].ts < stamp' \/ \E e \in Clients \ {d} : Busy(form'[e])
                     /\ form'[d].pc = "write" /\ Len(form'[d].todo) = Len(CallsOf(section', form'[d].want)) =>
                          d \in fresh' \cup raced'
    BY DEF FormsAreJudged
  <2>1. CASE d = c
    BY <1>1, <2>1
  <2>2. CASE d # c
    <3>1. /\ form[d].pc = "read" => d \in fresh \cup raced
          /\ form[d].pc \in {"open", "valid"} /\ d \notin fresh \cup raced =>
               form[d].ts < stamp \/ \E e \in Clients \ {d} : Busy(form[e])
          /\ form[d].pc = "write" /\ Len(form[d].todo) = Len(CallsOf(section, form[d].want)) =>
               d \in fresh \cup raced
      BY DEF SetInv, FormsAreJudged
    <3>2. form[d].ts < stamp => form[d].ts < stamp'
      BY <1>2
    <3>3. \A e \in Clients : Busy(form[e]) => Busy(form'[e])
      BY <1>1
    <3> QED BY <1>1, <2>2, <3>1, <3>2, <3>3
  <2> QED BY <2>1, <2>2
<1>5. ASSUME ~spoiled' PROVE WritesAgree' /\ SavesFit'
  <2>1. WritesAgree /\ SavesFit
    BY <1>5 DEF SetInv
  <2>2. WritesAgree'
    <3>1. \A d \in Clients : InStep(form'[d], memory', disk')
      BY <1>1, <2>1 DEF WritesAgree, InStep
    <3>2. \A d \in Clients : form'[d].pc = "persist" => AsIs(section', yaml', form'[d])
      BY <1>1, <2>1 DEF WritesAgree
    <3> QED BY <2>1, <3>1, <3>2 DEF WritesAgree
  <2>3. Fit(section, f, memory) \/ ~((f.pc = "valid" \/ Busy(f)) /\ c \notin moved')
    BY <1>5, <2>1
  <2>4. \A d \in Clients : (form'[d].pc = "valid" \/ Busy(form'[d])) /\ d \notin moved' => Fit(section', form'[d], memory')
    BY <1>1, <2>1, <2>3 DEF SavesFit
  <2>5. ~Coherent(section', memory') => \E d \in Clients : Busy(form'[d]) /\ d \notin moved'
    <3> SUFFICES ASSUME ~Coherent(section', memory') PROVE \E d \in Clients : Busy(form'[d]) /\ d \notin moved'
      OBVIOUS
    <3>1. PICK d \in Clients : Busy(form[d]) /\ d \notin moved
      BY <2>1 DEF SavesFit
    <3>2. Busy(form'[d]) /\ d \notin moved'
      BY <1>1, <3>1
    <3> QED BY <3>2
  <2> QED BY <2>2, <2>4, <2>5 DEF SavesFit
<1> QED BY <1>3, <1>4, <1>5 DEF SetInv

\* The stamp never goes back, and only the monitored sections' may be found moved on.
LEMMA CurrentIs ==
    ASSUME SetShape
    PROVE  G!Current \in Nat /\ G!Current >= stamp /\ (section # "sections" => G!Current = stamp)
BY DEF SetShape, G!Current, G!Observed

\* A form that is read shows the values in force.
LEMMA ReadValuesKeeps == ASSUME SetInv, NEW c \in Clients, G!ReadValues(c) PROVE SetInv'
<1> DEFINE f == [G!Closed EXCEPT !.pc = "read"]
<1>1. f \in SaveForms /\ f.pc = "read" /\ f.ts = -1
  BY ClosedIs
<1>2. form' = [form EXCEPT ![c] = f] /\ ~Busy(form[c])
  BY DEF G!ReadValues, Busy
<1>3. /\ UNCHANGED <<section, memory, disk, yaml, holder, clock, moved, spoiled>> /\ snap' = snap /\ stamp' = stamp
      /\ fresh' = fresh \cup {c} /\ raced' = raced \ {c}
  BY DEF G!ReadValues, G!store
<1>4. snap \in KeyValues /\ stamp \in Nat /\ fresh \subseteq Clients /\ raced \subseteq Clients
  BY DEF SetInv, SetShape
<1> HIDE DEF f
<1>5. f.ts <= stamp'
  BY <1>1, <1>3, <1>4
<1>6. stamp' \in Nat /\ stamp <= stamp' /\ snap' \in KeyValues
  BY <1>3, <1>4
<1>7. fresh' \subseteq Clients /\ raced' \subseteq Clients /\ fresh \cup raced \subseteq fresh' \cup raced' /\ c \in fresh'
  BY <1>3, <1>4
<1>8. ~Busy(f) /\ f.pc # "valid"
  BY <1>1 DEF Busy
<1>9. form[c].pc \notin {"persist", "assign"}
  BY <1>2 DEF Busy
<1>10. moved \subseteq Clients
  BY DEF SetInv, SetShape
<1> QED BY <1>1, <1>2, <1>3, <1>5, <1>6, <1>7, <1>8, <1>9, <1>10, StillStep

\* Its stamp is read later: who has written meanwhile has marked it.
LEMMA ReadStampKeeps == ASSUME SetInv, NEW c \in Clients, G!ReadStamp(c) PROVE SetInv'
<1> DEFINE f == [form[c] EXCEPT !.pc = "open", !.ts = G!Current]
<1>1. G!Current \in Nat /\ G!Current >= stamp /\ (section # "sections" => G!Current = stamp)
  BY CurrentIs DEF SetInv
<1>2. f \in SaveForms /\ f.pc = "open" /\ f.ts = G!Current
  <2>1. SetShape
    BY DEF SetInv
  <2>2. form[c] \in SaveForms
    BY <2>1, FormIs
  <2> DEFINE t == G!Current
  <2>3. t \in Int
    BY <1>1
  <2> HIDE DEF t
  <2>4. LET g == [form[c] EXCEPT !.pc = "open", !.ts = t] IN g \in SaveForms /\ g.pc = "open" /\ g.ts = t
    BY <2>2, <2>3 DEF SaveForms
  <2> QED BY <2>4 DEF t
<1>3. form' = [form EXCEPT ![c] = f] /\ form[c].pc = "read" /\ ~Busy(form[c])
  BY DEF G!ReadStamp, Busy
<1>4. /\ UNCHANGED <<section, memory, disk, yaml, holder, clock, moved, spoiled, fresh, raced>>
      /\ stamp' = G!Current /\ snap' = IF section = "sections" THEN memory ELSE snap
  BY DEF G!ReadStamp, G!Look, G!history
<1>5. /\ memory \in KeyValues /\ snap \in KeyValues /\ stamp \in Nat /\ fresh \subseteq Clients /\ raced \subseteq Clients
      /\ c \in fresh \cup raced
  BY <1>3 DEF SetInv, SetShape, FormsAreJudged
<1> HIDE DEF f
<1>6. f.ts <= stamp' /\ stamp' \in Nat /\ stamp <= stamp' /\ snap' \in KeyValues
  BY <1>1, <1>2, <1>4, <1>5
<1>7. ~Busy(f) /\ f.pc # "valid" /\ moved \subseteq Clients
  BY <1>2 DEF Busy, SetInv, SetShape
<1> QED BY <1>1, <1>2, <1>3, <1>4, <1>5, <1>6, <1>7, StillStep

\* A request has validated what it will have put in force.
LEMMA SubmitKeeps == ASSUME SetInv, NEW c \in Clients, G!Submit(c) PROVE SetInv'
<1>0. PICK ks \in G!Requests : \E u \in [ks -> G!Legal] :
        /\ G!Consistent(G!Merged(memory, G!Completed(u)))
        /\ form' = [form EXCEPT ![c].pc = "valid", ![c].want = G!Completed(u), ![c].todo = G!Calls(G!Completed(u))]
  BY DEF G!Submit
<1>1. PICK u \in [ks -> G!Legal] :
        /\ G!Consistent(G!Merged(memory, G!Completed(u)))
        /\ form' = [form EXCEPT ![c].pc = "valid", ![c].want = G!Completed(u), ![c].todo = G!Calls(G!Completed(u))]
  BY <1>0
<1> DEFINE w == G!Completed(u)
           f == [form[c] EXCEPT !.pc = "valid", !.want = w, !.todo = G!Calls(w)]
<1>2. w \in Wants
  <2>1. ks \in SUBSET Keys
    BY DEF G!Requests, G!WholeList, G!OneSwitch, G!AnyKeys, G!Keys, Keys
  <2>2. u \in Wants
    <3>1. G!Legal \subseteq 0 .. 2
      BY DEF G!Legal
    <3>2. u \in [ks -> 0 .. 2]
      BY <3>1
    <3> QED BY <2>1, <3>2 DEF Wants
  <2>3. [a |-> 0, b |-> 0] \in [Keys -> 0 .. 2] /\ [a |-> 2, b |-> 2] \in [Keys -> 0 .. 2]
    BY DEF Keys
  <2>4. [Keys -> 0 .. 2] \subseteq Wants
    BY DEF Wants
  <2> QED BY <2>2, <2>3, <2>4 DEF G!Completed
<1>3. /\ UNCHANGED <<section, memory, disk, yaml, holder, clock, spoiled, snap, stamp, fresh, raced>>
      /\ moved' = moved \ {c} /\ form[c].pc = "open"
  BY DEF G!Submit, G!store
<1>4. G!Calls(w) = CallsOf(section, w) /\ Coherent(section, G!Merged(memory, w))
  BY <1>1, ModuleSays
<1> HIDE DEF w
<1>5. CallsOf(section, w) \in Todos /\ \A k \in DOMAIN w : Unwritten(CallsOf(section, w), k)
  BY <1>2, CallsAreTodo
<1>6. form[c] \in SaveForms /\ form[c].ts <= stamp /\ stamp \in Nat
  BY FormIs DEF SetInv
<1>7. f \in SaveForms /\ f.pc = "valid" /\ f.ts = form[c].ts /\ f.want = w /\ f.todo = CallsOf(section, w)
  <2> DEFINE l == CallsOf(section, w)
             g == [form[c] EXCEPT !.pc = "valid", !.want = w, !.todo = l]
  <2>1. f = g
    BY <1>4
  <2> HIDE DEF l, f
  <2>2. l \in Todos
    BY <1>5 DEF l
  <2>3. g \in SaveForms /\ g.pc = "valid" /\ g.ts = form[c].ts /\ g.want = w /\ g.todo = l
    <3> HIDE DEF w
    <3> QED BY <1>2, <1>6, <2>2 DEF SaveForms
  <2> QED BY <2>1, <2>3 DEF l
<1>8. form' = [form EXCEPT ![c] = f]
  <2>1. form \in [Clients -> SaveForms]
    BY DEF SetInv, SetShape
  <2> QED BY <1>1, <2>1, FormAt DEF w, f
<1> HIDE DEF f
<1>9. Fit(section, f, memory)
  BY <1>4, <1>5, <1>7 DEF Fit
<1>10. /\ snap \in KeyValues /\ fresh \subseteq Clients /\ raced \subseteq Clients /\ moved \subseteq Clients
       /\ c \notin fresh \cup raced => form[c].ts < stamp \/ \E d \in Clients \ {c} : Busy(form[d])
  BY <1>3 DEF SetInv, SetShape, FormsAreJudged
<1>11. /\ ~Busy(form[c]) /\ Len(f.todo) <= Len(CallsOf(section, f.want))
  <2>1. Len(f.todo) \in Nat /\ f.todo = CallsOf(section, f.want)
    BY <1>5, <1>7, TodoIs
  <2> QED BY <1>3, <2>1 DEF Busy
<1>12. /\ snap' \in KeyValues /\ stamp' \in Nat /\ stamp <= stamp' /\ f.ts <= stamp'
  BY <1>3, <1>6, <1>7, <1>10
<1> QED BY <1>3, <1>7, <1>8, <1>9, <1>10, <1>11, <1>12, StillStep

\* A form that passes the check has the present stamp: it is up to date, or a save is under way.
LEMMA CheckKeeps == ASSUME SetInv, NEW c \in Clients, G!Check(c) PROVE SetInv'
<1> DEFINE open == [form[c] EXCEPT !.pc = "write"]
           f == IF G!UpToDate(c) THEN open ELSE G!Closed
<1>1. G!Current \in Nat /\ G!Current >= stamp /\ (section # "sections" => G!Current = stamp)
  BY CurrentIs DEF SetInv
<1>2. /\ form' = [form EXCEPT ![c] = f] /\ form[c].pc = "valid" /\ ~Busy(form[c])
      /\ UNCHANGED <<section, memory, disk, yaml, holder, clock, fresh, moved, spoiled>>
      /\ stamp' = G!Current /\ snap' = IF section = "sections" THEN memory ELSE snap
      /\ raced' = IF \E d \in Clients \ {c} : Busy(form[d]) THEN raced \cup {c} ELSE raced
  BY ModuleSays DEF G!Check, G!Look, Busy
<1>3. form[c] \in SaveForms /\ form[c].ts <= stamp /\ stamp \in Nat /\ form[c].ts \in Int
  BY FormIs DEF SetInv
<1>4. /\ open \in SaveForms /\ open.pc = "write" /\ open.ts = form[c].ts /\ open.want = form[c].want
      /\ open.todo = form[c].todo
  BY <1>3, FormPc
<1>5. G!Closed \in SaveForms /\ G!Closed.pc = "closed" /\ G!Closed.ts = -1
  BY ClosedIs
<1> HIDE DEF open
<1>6. /\ f \in SaveForms /\ f.pc \in {"write", "closed"} /\ f.ts <= stamp'
      /\ f.pc = "write" => f = open /\ form[c].ts = G!Current
  BY <1>1, <1>2, <1>3, <1>4, <1>5 DEF G!UpToDate
<1> HIDE DEF f
<1>7. /\ snap \in KeyValues /\ memory \in KeyValues
      /\ fresh \subseteq Clients /\ raced \subseteq Clients /\ moved \subseteq Clients
      /\ c \notin fresh \cup raced => form[c].ts < stamp \/ \E d \in Clients \ {c} : Busy(form[d])
      /\ Len(form[c].todo) <= Len(CallsOf(section, form[c].want))
  BY <1>2 DEF SetInv, SetShape, FormsAreJudged
<1>8. f.pc = "write" => c \in fresh' \cup raced'
  <2> SUFFICES ASSUME f.pc = "write", c \notin fresh \cup raced PROVE \E d \in Clients \ {c} : Busy(form[d])
    BY <1>2
  <2> QED BY <1>1, <1>3, <1>6, <1>7
<1>9. Busy(f) <=> f.pc = "write"
  BY <1>6 DEF Busy
<1>10. /\ snap' \in KeyValues /\ stamp' \in Nat /\ stamp <= stamp' /\ raced' \subseteq Clients
       /\ section # "sections" => stamp' = stamp
  BY <1>1, <1>2, <1>3, <1>7
<1>11. f.pc = "write" => Len(f.todo) <= Len(CallsOf(section, f.want))
  BY <1>4, <1>6, <1>7
<1>12. SavesFit /\ f.pc = "write" /\ c \notin moved' => Fit(section, f, memory)
  BY <1>2, <1>4, <1>6 DEF SavesFit, Fit
<1>13. (fresh \cup raced) \ {c} \subseteq fresh' \cup raced'
  BY <1>2
<1> QED BY <1>2, <1>6, <1>7, <1>8, <1>9, <1>10, <1>11, <1>12, <1>13, StillStep

\* A step of a save: the forms are judged as before if those that it leaves behind are marked, have an
\* older stamp, or see the save go on.
LEMMA SaveStep ==
    ASSUME SetInv, NEW c \in Clients, NEW f \in SaveForms, form' = [form EXCEPT ![c] = f], f.ts <= stamp',
           section' = section, clock' = clock, memory' \in KeyValues, disk' \in KeyValues, snap' \in KeyValues,
           stamp' \in Nat, stamp <= stamp', section # "sections" => stamp' <= clock,
           holder' \in Clients \cup {"nobody"},
           \A d \in Clients : holder' = d <=> form'[d].pc \in {"persist", "assign"},
           f.pc \in {"persist", "assign"} => section # "retention" /\ f.todo # <<>>,
           f.pc = "assign" => section # "thresholds",
           f.pc \in {"closed", "open", "write", "persist", "assign"},
           Busy(f) => Len(f.todo) <= Len(CallsOf(section, f.want)),
           f.pc = "write" => Len(f.todo) # Len(CallsOf(section, f.want)),
           f.pc = "open" => c \in fresh' \cup raced',
           fresh' \subseteq Clients, raced' \subseteq Clients, moved' \subseteq Clients,
           \A d \in Clients \ {c} : form[d].pc \in {"read", "write"} /\ d \in fresh \cup raced => d \in fresh' \cup raced',
           \A d \in Clients \ {c} : form[d].pc \in {"open", "valid"} /\ d \notin fresh' \cup raced' =>
               Busy(f) \/ form[d].ts < stamp'
    PROVE  SetShape' /\ FormsAreJudged'
<1>1. /\ \A d \in Clients \ {c} : form'[d] = form[d]
      /\ form'[c] = f /\ form' \in [Clients -> SaveForms]
  BY DEF SetInv, SetShape
<1>2. \A d \in Clients : form[d].ts \in Int /\ form[d].ts <= stamp /\ stamp \in Nat
  BY FormIs DEF SetInv
<1>3. \A d \in Clients : form'[d].ts <= stamp'
  BY <1>1, <1>2
<1>4. ASSUME NEW d \in Clients
      PROVE  /\ form'[d].pc \in {"persist", "assign"} => section' # "retention" /\ form'[d].todo # <<>>
             /\ form'[d].pc = "assign" => section' # "thresholds"
             /\ form'[d].pc = "valid" \/ Busy(form'[d]) => Len(form'[d].todo) <= Len(CallsOf(section', form'[d].want))
  <2>1. CASE d = c
    BY <1>1, <2>1
  <2>2. CASE d # c
    BY <1>1, <2>2 DEF SetInv, SetShape
  <2> QED BY <2>1, <2>2
<1>5. SetShape'
  BY <1>1, <1>3, <1>4 DEF SetInv, SetShape
<1>6. FormsAreJudged'
  <2> SUFFICES ASSUME NEW d \in Clients
               PROVE /\ form'[d].pc = "read" => d \in fresh' \cup raced'
                     /\ form'[d].pc \in {"open", "valid"} /\ d \notin fresh' \cup raced' =>
                          form'[d].ts < stamp' \/ \E e \in Clients \ {d} : Busy(form'[e])
                     /\ form'[d].pc = "write" /\ Len(form'[d].todo) = Len(CallsOf(section', form'[d].want)) =>
                          d \in fresh' \cup raced'
    BY DEF FormsAreJudged
  <2>1. CASE d = c
    BY <1>1, <2>1
  <2>2. CASE d # c
    <3>1. /\ form[d].pc = "read" => d \in fresh \cup raced
          /\ form[d].pc = "write" /\ Len(form[d].todo) = Len(CallsOf(section, form[d].want)) =>
               d \in fresh \cup raced
      BY DEF SetInv, FormsAreJudged
    <3>2. Busy(f) => \E e \in Clients \ {d} : Busy(form'[e])
      BY <1>1, <2>2
    <3> QED BY <1>1, <2>2, <3>1, <3>2
  <2> QED BY <2>1, <2>2
<1> QED BY <1>5, <1>6

\* And the saves fit as before if the step marks those that it overtakes.
LEMMA SaveFits ==
    ASSUME SetInv, ~spoiled, NEW c \in Clients, NEW f \in SaveForms, form' = [form EXCEPT ![c] = f],
           section' = section,
           \A d \in Clients \ {c} : (form[d].pc = "valid" \/ Busy(form[d])) /\ d \notin moved' =>
               memory' = memory /\ d \notin moved,
           f.pc # "valid",
           Busy(f) /\ c \notin moved' => Fit(section, f, memory'),
           ~Coherent(section, memory') => \/ Busy(f) /\ c \notin moved'
                                          \/ memory' = memory /\ moved' = moved /\ (c \in moved \/ Coherent(section, memory))
    PROVE  SavesFit'
<1>1. /\ \A d \in Clients \ {c} : form'[d] = form[d]
      /\ form'[c] = f
  BY DEF SetInv, SetShape
<1>2. SavesFit
  BY DEF SetInv
<1>3. ASSUME NEW d \in Clients, form'[d].pc = "valid" \/ Busy(form'[d]), d \notin moved'
      PROVE  Fit(section', form'[d], memory')
  <2>1. CASE d = c
    BY <1>1, <1>3, <2>1
  <2>2. CASE d # c
    BY <1>1, <1>2, <1>3, <2>2 DEF SavesFit
  <2> QED BY <2>1, <2>2
<1>4. ASSUME ~Coherent(section', memory') PROVE \E d \in Clients : Busy(form'[d]) /\ d \notin moved'
  <2>1. CASE Busy(f) /\ c \notin moved'
    BY <1>1, <2>1
  <2>2. CASE memory' = memory /\ moved' = moved /\ (c \in moved \/ Coherent(section, memory))
    <3>1. PICK d \in Clients : Busy(form[d]) /\ d \notin moved
      BY <1>2, <1>4, <2>2 DEF SavesFit
    <3>2. d # c
      BY <1>4, <2>2, <3>1
    <3> QED BY <1>1, <2>2, <3>1, <3>2
  <2> QED BY <1>4, <2>1, <2>2
<1> QED BY <1>3, <1>4 DEF SavesFit

\* Who writes holds the lock or finds it free, and then nobody else is between two writes.
LEMMA LockIs ==
    ASSUME SetInv, NobodyIsFree, NEW c \in Clients, holder = "nobody" \/ form[c].pc \in {"persist", "assign"}
    PROVE  /\ \A d \in Clients \ {c} : form[d].pc \notin {"persist", "assign"}
           /\ holder = "nobody" <=> form[c].pc \notin {"persist", "assign"}
BY DEF SetInv, SetShape, NobodyIsFree

LEMMA LockMoves ==
    ASSUME SetInv, NobodyIsFree, NEW c \in Clients, NEW f \in SaveForms, form' = [form EXCEPT ![c] = f],
           holder = "nobody" \/ form[c].pc \in {"persist", "assign"},
           holder' = IF f.pc \in {"persist", "assign"} THEN c ELSE "nobody"
    PROVE  /\ holder' \in Clients \cup {"nobody"}
           /\ \A d \in Clients : holder' = d <=> form'[d].pc \in {"persist", "assign"}
           /\ InStep(f, memory', disk') /\ (holder' = "nobody" => memory' = disk')
              /\ (f.pc = "persist" => AsIs(section', yaml', f)) => WritesAgree'
<1>1. /\ \A d \in Clients \ {c} : form'[d] = form[d]
      /\ form'[c] = f
  BY DEF SetInv, SetShape
<1>2. \A d \in Clients \ {c} : form'[d].pc \notin {"persist", "assign"}
  BY <1>1, LockIs
<1> QED BY <1>1, <1>2 DEF WritesAgree, InStep, NobodyIsFree

-----------------------------------------------------------------------------
\* A part that was written: the next call, if the keys of this one are in force.
LEMMA NextCallIs ==
    ASSUME SetInv, NEW c \in Clients, G!NextCall(c), Busy(form[c]), form[c].todo # <<>>, NEW m
    PROVE  \E f \in SaveForms :
             /\ form' = [form EXCEPT ![c] = f] /\ f.pc = "write" /\ f.ts = form[c].ts /\ f.want = form[c].want
             /\ Len(f.todo) < Len(CallsOf(section, f.want))
             /\ /\ Fit(section, form[c], m)
                /\ \A k \in DOMAIN form[c].want \cap Head(form[c].todo) : m[k] = form[c].want[k]
                => Fit(section, f, m)
<1>1. form[c] \in SaveForms /\ form[c].todo \in Todos /\ form[c].want \in Wants /\ form \in [Clients -> SaveForms]
  BY FormIs DEF SetInv, SetShape
<1> DEFINE f == [form[c] EXCEPT !.pc = "write", !.todo = Tail(form[c].todo)]
<1>2. Tail(form[c].todo) \in Todos /\ Len(Tail(form[c].todo)) = Len(form[c].todo) - 1 /\ Len(form[c].todo) \in Nat
  BY <1>1, TodoIs
<1>3. f \in SaveForms /\ f.pc = "write" /\ f.ts = form[c].ts /\ f.want = form[c].want /\ f.todo = Tail(form[c].todo)
  BY <1>1, <1>2 DEF SaveForms
<1>4. form' = [form EXCEPT ![c] = f]
  BY <1>1 DEF G!NextCall
<1> HIDE DEF f
<1>5. Len(form[c].todo) <= Len(CallsOf(section, form[c].want))
  BY DEF SetInv, SetShape
<1>6. CallsOf(section, form[c].want) \in Todos
  BY <1>1, CallsAreTodo
<1>7. Len(CallsOf(section, form[c].want)) \in Nat
  BY <1>6, TodoIs
<1>8. Len(f.todo) < Len(CallsOf(section, f.want))
  BY <1>2, <1>3, <1>5, <1>7
<1>9. ASSUME Fit(section, form[c], m),
             \A k \in DOMAIN form[c].want \cap Head(form[c].todo) : m[k] = form[c].want[k]
      PROVE  Fit(section, f, m)
  <2>1. ASSUME NEW k \in DOMAIN f.want PROVE Unwritten(f.todo, k) \/ m[k] = f.want[k]
    <3>1. k \in DOMAIN form[c].want /\ (Unwritten(form[c].todo, k) \/ m[k] = form[c].want[k])
      BY <1>3, <1>9, <2>1 DEF Fit
    <3>2. k \in Keys
      BY <1>1, <3>1 DEF Wants
    <3>3. Unwritten(form[c].todo, k) => k \in Head(form[c].todo) \/ Unwritten(f.todo, k)
      BY <1>1, <1>3, <3>2, TodoIs
    <3> QED BY <1>3, <1>9, <3>1, <3>3
  <2>2. Coherent(section, G!Merged(m, f.want))
    BY <1>3, <1>9 DEF Fit
  <2> QED BY <2>1, <2>2 DEF Fit
<1> QED BY <1>3, <1>4, <1>8, <1>9

\* Nothing of the part is new.
LEMMA SamePartKeeps ==
    ASSUME SetInv, NEW c \in Clients, form[c].pc = "write", form[c].todo # <<>>, G!Changed(c) = {}, G!NextCall(c),
           UNCHANGED <<section, memory, disk, yaml, holder, clock, snap, stamp, fresh, raced, moved>>,
           ~spoiled' => ~spoiled /\ G!AsChecked(c)
    PROVE  SetInv'
<1>1. G!AsChecked(c) => \A k \in DOMAIN form[c].want \cap Head(form[c].todo) : memory[k] = form[c].want[k]
  BY DEF G!Changed, G!Wanted, G!Call, G!AsChecked
<1>2. PICK f \in SaveForms :
        /\ form' = [form EXCEPT ![c] = f] /\ f.pc = "write" /\ f.ts = form[c].ts /\ f.want = form[c].want
        /\ Len(f.todo) < Len(CallsOf(section, f.want))
        /\ G!AsChecked(c) /\ Fit(section, form[c], memory) => Fit(section, f, memory)
  <2>1. PICK f \in SaveForms :
        /\ form' = [form EXCEPT ![c] = f] /\ f.pc = "write" /\ f.ts = form[c].ts /\ f.want = form[c].want
        /\ Len(f.todo) < Len(CallsOf(section, f.want))
        /\ /\ Fit(section, form[c], memory)
           /\ \A k \in DOMAIN form[c].want \cap Head(form[c].todo) : memory[k] = form[c].want[k]
           => Fit(section, f, memory)
    BY NextCallIs DEF Busy
  <2> QED BY <1>1, <2>1
<1>3. CallsOf(section, f.want) \in Todos /\ f.todo \in Todos
  BY CallsAreTodo DEF SaveForms
<1>4. Len(f.todo) \in Nat /\ Len(CallsOf(section, f.want)) \in Nat
  BY <1>3, TodoIs
<1>5. Len(f.todo) <= Len(CallsOf(section, f.want)) /\ Len(f.todo) # Len(CallsOf(section, f.want))
  BY <1>2, <1>4
<1>6. form[c].ts <= stamp /\ stamp \in Nat
  BY FormIs DEF SetInv
<1>7. ~spoiled /\ SavesFit /\ c \notin moved => Fit(section, form[c], memory)
  BY DEF SavesFit, Busy
<1>8. /\ fresh \subseteq Clients /\ raced \subseteq Clients /\ moved \subseteq Clients /\ snap \in KeyValues
  BY DEF SetInv, SetShape
<1>9. Busy(f)
  BY <1>2 DEF Busy
<1>10. f.ts <= stamp' /\ stamp' \in Nat /\ stamp <= stamp'
  BY <1>2, <1>6
<1> QED BY <1>2, <1>5, <1>7, <1>8, <1>9, <1>10, StillStep

\* New values are in force.
LEMMA AssignedIs ==
    ASSUME SetInv, NEW c \in Clients, G!Assigned(c)
    PROVE  /\ AsIs(section, yaml, form[c]) => memory' = With(form[c], memory)
           /\ memory' \in KeyValues
           /\ fresh' \subseteq Clients /\ raced' \subseteq Clients /\ moved' \subseteq Clients
           /\ \A d \in Clients \ {c} : form[d].pc \in {"read", "write"} => d \in fresh' \cup raced'
           /\ \A d \in Clients \ {c} : form[d].pc = "valid" \/ Busy(form[d]) => d \in moved'
           /\ c \in moved' <=> c \in moved
           /\ ~spoiled' => ~spoiled /\ c \notin moved' /\ AsIs(section, yaml, form[c])
<1>1. memory' = G!Put(c, memory) /\ (AsIs(section, yaml, form[c]) => memory' = With(form[c], memory))
  BY ModuleSays DEF G!Assigned
<1>2. form[c] \in SaveForms /\ memory \in KeyValues
  BY FormIs DEF SetInv, SetShape
<1>3. memory' \in KeyValues
  BY <1>1, <1>2, PutIs
<1>4. fresh' \subseteq Clients /\ raced' \subseteq Clients /\ moved' \subseteq Clients
  BY DEF G!Assigned, SetInv, SetShape
<1>5. \A d \in Clients \ {c} : form[d].pc = "valid" \/ Busy(form[d]) => d \in moved'
  BY DEF G!Assigned, Busy
<1>6. \A d \in Clients \ {c} : form[d].pc \in {"read", "write"} => d \in fresh' \cup raced'
  BY DEF G!Assigned
<1>7. /\ c \in moved' <=> c \in moved
      /\ ~spoiled' => ~spoiled /\ c \notin moved' /\ AsIs(section, yaml, form[c])
  BY ModuleSays DEF G!Assigned
<1> QED BY <1>1, <1>3, <1>4, <1>5, <1>6, <1>7

\* What a save has validated is what it puts in force.
LEMMA FitStays ==
    ASSUME NEW f \in SaveForms, NEW v \in KeyValues, NEW s, Fit(s, f, v)
    PROVE  Fit(s, f, With(f, v))
<1>1. G!Merged(With(f, v), f.want) = G!Merged(v, f.want)
  BY WritesAre
<1>2. ASSUME NEW k \in DOMAIN f.want PROVE Unwritten(f.todo, k) \/ With(f, v)[k] = f.want[k]
  <2>1. k \in Keys
    BY DEF SaveForms, Wants
  <2> QED BY <2>1 DEF Fit, With
<1> QED BY <1>1, <1>2 DEF Fit

\* A save's first write: the memory, and nobody else's form shows it.
LEMMA AssignKeeps == ASSUME SetInv, NobodyIsFree, NEW c \in Clients, G!Assign(c) PROVE SetInv'
<1>1. /\ form[c].pc = "write" /\ form[c].todo # <<>> /\ section # "retention" /\ holder = "nobody"
      /\ UNCHANGED <<section, disk, yaml, snap, stamp, clock>>
  BY DEF G!Assign
<1>2. CASE G!Changed(c) = {}
  <2>1. /\ G!NextCall(c) /\ UNCHANGED <<memory, holder, fresh, raced, moved>>
        /\ ~spoiled' => ~spoiled /\ G!AsChecked(c)
    BY <1>2 DEF G!Assign
  <2> QED BY <1>1, <1>2, <2>1, SamePartKeeps
<1>3. CASE G!Changed(c) # {}
  <2> DEFINE l == <<G!Changed(c)>> \o Tail(form[c].todo)
             f == [form[c] EXCEPT !.pc = "persist", !.todo = l]
  <2>1. G!Assigned(c) /\ form' = [form EXCEPT ![c] = f] /\ holder' = c
    <3>1. /\ G!Assigned(c) /\ holder' = c
          /\ form' = [form EXCEPT ![c].pc = "persist", ![c].todo = <<G!Changed(c)>> \o Tail(@)]
      BY <1>3 DEF G!Assign
    <3>2. form \in [Clients -> SaveForms]
      BY DEF SetInv, SetShape
    <3> QED BY <3>1, <3>2
  <2>2. form[c] \in SaveForms /\ form[c].ts <= stamp /\ stamp \in Nat
    BY FormIs DEF SetInv
  <2>10. form[c].todo \in Todos /\ memory \in KeyValues
    BY FormIs DEF SetInv, SetShape
  <2>11. G!Changed(c) \in SUBSET Keys
    BY <2>2, <2>10, PutIs
  <2>12. l \in Todos /\ l # <<>> /\ Head(l) = G!Changed(c) /\ Tail(l) = Tail(form[c].todo)
         /\ Len(l) = Len(form[c].todo)
    BY <1>1, <2>10, <2>11, Narrowed
  <2>13. \A k \in Keys : /\ Unwritten(form[c].todo, k) <=>
                               k \in Head(form[c].todo) \/ Unwritten(Tail(form[c].todo), k)
                         /\ Unwritten(Tail(form[c].todo), k) => Unwritten(l, k)
    BY <1>1, <2>10, <2>12, TodoIs
  <2> HIDE DEF l
  <2>3. f \in SaveForms /\ f.pc = "persist" /\ f.ts = form[c].ts /\ f.want = form[c].want /\ f.todo = l
    BY <2>2, <2>12 DEF SaveForms
  <2> HIDE DEF f
  <2>4. /\ AsIs(section, yaml, form[c]) => memory' = With(form[c], memory)
        /\ memory' \in KeyValues
        /\ fresh' \subseteq Clients /\ raced' \subseteq Clients /\ moved' \subseteq Clients
        /\ \A d \in Clients \ {c} : form[d].pc \in {"read", "write"} => d \in fresh' \cup raced'
        /\ \A d \in Clients \ {c} : form[d].pc = "valid" \/ Busy(form[d]) => d \in moved'
        /\ c \in moved' <=> c \in moved
        /\ ~spoiled' => ~spoiled /\ c \notin moved' /\ AsIs(section, yaml, form[c])
    BY <2>1, AssignedIs
  <2>5. /\ disk \in KeyValues /\ snap \in KeyValues /\ memory \in KeyValues /\ clock \in Nat
        /\ section # "sections" => stamp <= clock
        /\ Len(form[c].todo) <= Len(CallsOf(section, form[c].want))
    BY <1>1 DEF SetInv, SetShape, Busy
  <2>6. /\ holder' \in Clients \cup {"nobody"}
        /\ \A d \in Clients : holder' = d <=> form'[d].pc \in {"persist", "assign"}
        /\ InStep(f, memory', disk') /\ (holder' = "nobody" => memory' = disk')
           /\ (f.pc = "persist" => AsIs(section', yaml', f)) => WritesAgree'
    BY <1>1, <2>1, <2>3, LockMoves
  <2>7. Busy(f) /\ f.ts <= stamp'
    BY <1>1, <2>2, <2>3 DEF Busy
  <2> DEFINE Marked == /\ \A d \in Clients \ {c} : form[d].pc \in {"read", "write"} /\ d \in fresh \cup raced =>
                            d \in fresh' \cup raced'
                       /\ \A d \in Clients \ {c} : form[d].pc \in {"open", "valid"} /\ d \notin fresh' \cup raced' =>
                            Busy(f) \/ form[d].ts < stamp'
  <2>8. SetShape' /\ FormsAreJudged'
    <3>1. Marked
      BY <2>4, <2>7
    <3>2. /\ stamp' \in Nat /\ stamp <= stamp' /\ (section # "sections" => stamp' <= clock)
          /\ disk' \in KeyValues /\ snap' \in KeyValues
      BY <1>1, <2>2, <2>5
    <3>3. /\ f.pc \in {"closed", "open", "write", "persist", "assign"} /\ f.todo # <<>>
          /\ Len(f.todo) <= Len(CallsOf(section, f.want)) /\ f.pc # "assign"
      BY <1>1, <2>3, <2>5, <2>12
    <3> QED BY <1>1, <2>1, <2>3, <2>4, <2>6, <2>7, <3>1, <3>2, <3>3, SaveStep
  <2>9. ASSUME ~spoiled' PROVE WritesAgree' /\ SavesFit'
    <3>1. WritesAgree /\ SavesFit /\ ~spoiled /\ c \notin moved /\ c \notin moved'
      BY <2>4, <2>9 DEF SetInv
    <3>2. memory = disk
      BY <1>1, <3>1 DEF WritesAgree
    <3>9. AsIs(section, yaml, form[c]) /\ memory' = With(form[c], memory)
      BY <2>4, <2>9
    <3>10. \A k \in DOMAIN f.want \cap Head(form[c].todo) : k \in Head(f.todo) \/ memory[k] = f.want[k]
      <4>1. G!AsChecked(c)
        BY <3>9, ModuleSays
      <4> QED BY <2>3, <2>12, <4>1 DEF G!Changed, G!Wanted, G!Call, G!AsChecked
    <3>11. Head(f.todo) \subseteq Head(form[c].todo)
      BY <2>3, <2>12 DEF G!Changed, G!Wanted, G!Call
    <3>3. With(f, disk') = memory'
      <4>1. memory = [k \in Keys |-> memory[k]]
        BY <2>5 DEF KeyValues
      <4> QED BY <1>1, <2>3, <3>2, <3>9, <3>10, <3>11 DEF With
    <3>4. InStep(f, memory', disk') /\ holder' # "nobody" /\ AsIs(section', yaml', f)
      <4>1. AsIs(section, yaml, f)
        BY <2>3, <3>9, <3>11 DEF AsIs
      <4> QED BY <1>1, <2>1, <2>3, <3>3, <4>1 DEF InStep, NobodyIsFree
    <3>5. Fit(section, form[c], memory)
      BY <1>1, <3>1 DEF SavesFit, Busy
    <3>6. Fit(section, form[c], memory')
      BY <2>2, <2>5, <3>5, <3>9, FitStays
    <3>7. Fit(section, f, memory')
      <4>1. ASSUME NEW k \in DOMAIN f.want PROVE Unwritten(f.todo, k) \/ memory'[k] = f.want[k]
        <5>1. k \in Keys /\ (Unwritten(form[c].todo, k) \/ memory'[k] = f.want[k])
          BY <2>3, <3>6 DEF Fit, SaveForms, Wants
        <5>2. k \in Head(form[c].todo) => memory'[k] = f.want[k]
          BY <2>3, <3>9, <5>1 DEF With
        <5> QED BY <2>3, <2>13, <5>1, <5>2
      <4>2. Coherent(section, G!Merged(memory', f.want))
        BY <2>3, <3>6 DEF Fit
      <4> QED BY <4>1, <4>2 DEF Fit
    <3>8. SavesFit'
      BY <1>1, <2>1, <2>3, <2>4, <2>7, <3>1, <3>7, SaveFits
    <3> QED BY <2>1, <2>6, <3>4, <3>8
  <2> QED BY <2>8, <2>9 DEF SetInv
<1> QED BY <1>2, <1>3

\* And its second, to the file.
LEMMA PersistKeeps == ASSUME SetInv, NobodyIsFree, NEW c \in Clients, G!Persist(c) PROVE SetInv'
<1>1. /\ form[c].pc = "persist" /\ G!NextCall(c) /\ holder' = "nobody"
      /\ disk' = [k \in Keys |-> IF k \in yaml.missing THEN disk[k] ELSE G!Put(c, disk)[k]]
      /\ ~spoiled' => ~spoiled /\ G!Wanted(c) \cap yaml.missing = {}
      /\ UNCHANGED <<section, memory, snap, stamp, clock, fresh, raced, moved>>
  BY ModuleSays DEF G!Persist
<1>2. /\ form[c].todo # <<>> /\ Busy(form[c])
      /\ fresh \subseteq Clients /\ raced \subseteq Clients /\ moved \subseteq Clients
      /\ disk \in KeyValues /\ snap \in KeyValues /\ memory \in KeyValues
      /\ section # "sections" => stamp <= clock
  BY <1>1 DEF SetInv, SetShape, Busy
<1>3. form[c] \in SaveForms /\ form[c].ts <= stamp /\ stamp \in Nat
  BY FormIs DEF SetInv
<1>4. disk' \in KeyValues /\ G!Put(c, disk) \in KeyValues
  <2>1. G!Put(c, disk) \in KeyValues
    BY <1>2, <1>3, PutIs
  <2> QED BY <1>1, <1>2, <2>1 DEF KeyValues
<1>5. PICK f \in SaveForms :
        /\ form' = [form EXCEPT ![c] = f] /\ f.pc = "write" /\ f.ts = form[c].ts /\ f.want = form[c].want
        /\ Len(f.todo) < Len(CallsOf(section, f.want))
        /\ /\ Fit(section, form[c], disk')
           /\ \A k \in DOMAIN form[c].want \cap Head(form[c].todo) : disk'[k] = form[c].want[k]
           => Fit(section, f, disk')
  BY <1>1, <1>2, NextCallIs
<1>6. CallsOf(section, f.want) \in Todos /\ f.todo \in Todos
  BY CallsAreTodo DEF SaveForms
<1>7. Len(f.todo) \in Nat /\ Len(CallsOf(section, f.want)) \in Nat
  BY <1>6, TodoIs
<1>8. Len(f.todo) <= Len(CallsOf(section, f.want)) /\ Len(f.todo) # Len(CallsOf(section, f.want))
  BY <1>5, <1>7
<1>9. /\ holder' \in Clients \cup {"nobody"}
      /\ \A d \in Clients : holder' = d <=> form'[d].pc \in {"persist", "assign"}
      /\ InStep(f, memory', disk') /\ (holder' = "nobody" => memory' = disk')
           /\ (f.pc = "persist" => AsIs(section', yaml', f)) => WritesAgree'
  BY <1>1, <1>5, LockMoves
<1>10. Busy(f) /\ f.ts <= stamp' /\ stamp <= stamp' /\ stamp' \in Nat /\ (section # "sections" => stamp' <= clock)
  BY <1>1, <1>2, <1>3, <1>5 DEF Busy
<1>11. SetShape' /\ FormsAreJudged'
  <2>1. disk' \in KeyValues
    BY <1>4
  <2>2. /\ memory' \in KeyValues /\ snap' \in KeyValues
        /\ fresh' \subseteq Clients /\ raced' \subseteq Clients /\ moved' \subseteq Clients
    BY <1>1, <1>2
  <2>3. f.pc \in {"closed", "open", "write", "persist", "assign"} /\ f.pc \notin {"persist", "assign", "open"}
    BY <1>5
  <2>4. \A d \in Clients \ {c} : form[d].pc \in {"read", "write"} /\ d \in fresh \cup raced => d \in fresh' \cup raced'
    BY <1>1
  <2> QED BY <1>1, <1>5, <1>8, <1>9, <1>10, <2>1, <2>2, <2>3, <2>4, SaveStep
<1>12. ASSUME ~spoiled' PROVE WritesAgree' /\ SavesFit'
  <2>1. WritesAgree /\ SavesFit /\ ~spoiled
    BY <1>1, <1>12 DEF SetInv
  <2>6. G!Put(c, disk) = With(form[c], disk)
    BY <1>1, <2>1, ModuleSays DEF WritesAgree
  <2>7. disk' = G!Put(c, disk)
    <3>1. \A k \in yaml.missing : k \in Keys => G!Put(c, disk)[k] = disk[k]
      BY <1>1, <1>12, ModuleSays DEF G!Put
    <3> QED BY <1>1, <1>4, <3>1 DEF KeyValues
  <2>8. \A k \in DOMAIN form[c].want \cap Head(form[c].todo) : disk'[k] = form[c].want[k]
    <3>1. DOMAIN form[c].want \subseteq Keys
      BY <1>3 DEF SaveForms, Wants
    <3> QED BY <2>6, <2>7, <3>1 DEF With
  <2>2. memory' = disk' /\ memory' = memory
    BY <1>1, <2>1, <2>6, <2>7 DEF WritesAgree, InStep
  <2>3. InStep(f, memory', disk')
    BY <1>5 DEF InStep
  <2>4. c \notin moved => Fit(section, f, memory')
    BY <1>1, <1>2, <1>5, <2>1, <2>2, <2>8 DEF SavesFit
  <2>5. SavesFit'
    BY <1>1, <1>5, <1>10, <2>1, <2>2, <2>4, SaveFits
  <2> QED BY <1>5, <1>9, <2>2, <2>3, <2>5
<1> QED BY <1>11, <1>12 DEF SetInv

\* A list's first write is to the file.
LEMMA PersistListKeeps == ASSUME SetInv, NobodyIsFree, NEW c \in Clients, G!PersistList(c) PROVE SetInv'
<1>1. /\ form[c].pc = "write" /\ form[c].todo # <<>> /\ section # "retention" /\ holder = "nobody"
      /\ section # "thresholds"
      /\ UNCHANGED <<section, memory, yaml, snap, stamp, clock, fresh, raced, moved, spoiled>>
  BY DEF G!PersistList, G!FileFirst, G!history
<1>2. CASE section = "network" /\ G!Changed(c) = {}
  <2>1. G!NextCall(c) /\ UNCHANGED <<disk, holder>>
    BY <1>2 DEF G!PersistList
  <2>2. G!AsChecked(c)
    BY <1>1, ModuleSays DEF AsIs
  <2> QED BY <1>1, <1>2, <2>1, <2>2, SamePartKeeps
<1>3. CASE ~(section = "network" /\ G!Changed(c) = {})
  <2> DEFINE f == [form[c] EXCEPT !.pc = "assign"]
  <2>1. disk' = With(form[c], disk) /\ form' = [form EXCEPT ![c] = f] /\ holder' = c
    BY <1>1, <1>3, ModuleSays DEF G!PersistList, G!Go, AsIs
  <2>2. form[c] \in SaveForms /\ form[c].ts <= stamp /\ stamp \in Nat
    BY FormIs DEF SetInv
  <2>3. f \in SaveForms /\ f.pc = "assign" /\ f.ts = form[c].ts /\ f.want = form[c].want /\ f.todo = form[c].todo
    BY <2>2, FormPc
  <2> HIDE DEF f
  <2>4. /\ disk \in KeyValues /\ snap \in KeyValues /\ memory \in KeyValues /\ clock \in Nat
        /\ section # "sections" => stamp <= clock
        /\ Len(form[c].todo) <= Len(CallsOf(section, form[c].want))
        /\ fresh \subseteq Clients /\ raced \subseteq Clients /\ moved \subseteq Clients
    BY <1>1 DEF SetInv, SetShape, Busy
  <2>5. disk' \in KeyValues
    BY <2>1, <2>2, <2>4, WritesAre
  <2>6. /\ holder' \in Clients \cup {"nobody"}
        /\ \A d \in Clients : holder' = d <=> form'[d].pc \in {"persist", "assign"}
        /\ InStep(f, memory', disk') /\ (holder' = "nobody" => memory' = disk')
           /\ (f.pc = "persist" => AsIs(section', yaml', f)) => WritesAgree'
    BY <1>1, <2>1, <2>3, LockMoves
  <2>7. Busy(f) /\ f.ts <= stamp'
    BY <1>1, <2>2, <2>3 DEF Busy
  <2>8. SetShape' /\ FormsAreJudged'
    <3>1. \A d \in Clients \ {c} : form[d].pc \in {"read", "write"} /\ d \in fresh \cup raced => d \in fresh' \cup raced'
      BY <1>1
    <3>2. /\ stamp' \in Nat /\ stamp <= stamp'
          /\ section # "sections" => stamp' <= clock
          /\ memory' \in KeyValues /\ snap' \in KeyValues
          /\ fresh' \subseteq Clients /\ raced' \subseteq Clients /\ moved' \subseteq Clients
      BY <1>1, <2>2, <2>4
    <3>3. /\ f.pc \in {"closed", "open", "write", "persist", "assign"} /\ f.todo # <<>>
          /\ Len(f.todo) <= Len(CallsOf(section, f.want))
      BY <1>1, <2>3, <2>4
    <3> QED BY <1>1, <2>1, <2>3, <2>5, <2>6, <2>7, <3>1, <3>2, <3>3, SaveStep
  <2>9. ASSUME ~spoiled' PROVE WritesAgree' /\ SavesFit'
    <3>1. WritesAgree /\ SavesFit /\ ~spoiled
      BY <1>1, <2>9 DEF SetInv
    <3>2. memory = disk
      BY <1>1, <3>1 DEF WritesAgree
    <3>3. With(f, memory') = disk'
      BY <1>1, <2>1, <2>3, <3>2 DEF With
    <3>4. InStep(f, memory', disk') /\ holder' # "nobody"
      BY <2>1, <2>3, <3>3 DEF InStep, NobodyIsFree
    <3>5. c \notin moved => Fit(section, form[c], memory)
      BY <1>1, <3>1 DEF SavesFit, Busy
    <3>6. c \notin moved => Fit(section, f, memory')
      BY <1>1, <2>3, <3>5 DEF Fit
    <3>7. SavesFit'
      BY <1>1, <2>1, <2>3, <2>7, <3>1, <3>6, SaveFits
    <3> QED BY <2>3, <2>6, <3>4, <3>7
  <2> QED BY <2>8, <2>9 DEF SetInv
<1> QED BY <1>2, <1>3

\* And its second to memory.
LEMMA AssignListKeeps == ASSUME SetInv, NobodyIsFree, NEW c \in Clients, G!AssignList(c) PROVE SetInv'
<1>1. /\ form[c].pc = "assign" /\ G!NextCall(c) /\ holder' = "nobody"
      /\ section # "thresholds"
      /\ UNCHANGED <<section, disk, yaml, snap, stamp, clock>>
  BY DEF G!AssignList, SetInv, SetShape
<1>2. /\ form[c].todo # <<>> /\ Busy(form[c])
      /\ fresh \subseteq Clients /\ raced \subseteq Clients /\ moved \subseteq Clients
      /\ disk \in KeyValues /\ snap \in KeyValues /\ memory \in KeyValues
      /\ section # "sections" => stamp <= clock
  BY <1>1 DEF SetInv, SetShape, Busy
<1>3. form[c] \in SaveForms /\ form[c].ts <= stamp /\ stamp \in Nat
  BY FormIs DEF SetInv
<1> DEFINE ks == DOMAIN form[c].want \cap Head(form[c].todo)
<1>15. AsIs(section, yaml, form[c]) /\ G!AsChecked(c)
  BY <1>1, ModuleSays DEF AsIs
<1>4. /\ memory' = With(form[c], memory) /\ memory' \in KeyValues
      /\ fresh' \subseteq Clients /\ raced' \subseteq Clients /\ moved' \subseteq Clients
      /\ \A d \in Clients \ {c} : form[d].pc \in {"read", "write"} /\ d \in fresh \cup raced => d \in fresh' \cup raced'
      /\ \A d \in Clients \ {c} : (form[d].pc = "valid" \/ Busy(form[d])) /\ d \notin moved' =>
           memory' = memory /\ d \notin moved
      /\ c \in moved' <=> c \in moved
      /\ ~spoiled' => ~spoiled /\ (c \notin moved' \/ (memory' = memory /\ moved' = moved))
  <2>1. CASE G!Changed(c) = {}
    <3>1. UNCHANGED <<memory, fresh, raced, moved, spoiled>>
      BY <2>1 DEF G!AssignList, G!history
    <3>2. \A k \in ks : memory[k] = form[c].want[k]
      BY <1>15, <2>1 DEF G!Changed, G!Wanted, G!Call, G!AsChecked
    <3>3. With(form[c], memory) = memory
      BY <1>2, <3>2 DEF With, KeyValues
    <3> QED BY <1>2, <3>1, <3>3
  <2>2. CASE G!Changed(c) # {}
    <3>1. G!Assigned(c)
      BY <2>2 DEF G!AssignList
    <3>2. /\ memory' = With(form[c], memory) /\ memory' \in KeyValues
          /\ fresh' \subseteq Clients /\ raced' \subseteq Clients /\ moved' \subseteq Clients
          /\ \A d \in Clients \ {c} : form[d].pc \in {"read", "write"} => d \in fresh' \cup raced'
          /\ \A d \in Clients \ {c} : form[d].pc = "valid" \/ Busy(form[d]) => d \in moved'
          /\ c \in moved' <=> c \in moved
          /\ ~spoiled' => ~spoiled /\ c \notin moved'
      BY <1>15, <3>1, AssignedIs
    <3> QED BY <3>2
  <2> QED BY <2>1, <2>2
<1>5. \A k \in ks : memory'[k] = form[c].want[k]
  <2>1. DOMAIN form[c].want \subseteq Keys
    BY <1>3 DEF SaveForms, Wants
  <2> QED BY <1>4, <2>1 DEF With
<1>6. PICK f \in SaveForms :
        /\ form' = [form EXCEPT ![c] = f] /\ f.pc = "write" /\ f.ts = form[c].ts /\ f.want = form[c].want
        /\ Len(f.todo) < Len(CallsOf(section, f.want))
        /\ Fit(section, form[c], memory') => Fit(section, f, memory')
  <2>1. PICK f \in SaveForms :
        /\ form' = [form EXCEPT ![c] = f] /\ f.pc = "write" /\ f.ts = form[c].ts /\ f.want = form[c].want
        /\ Len(f.todo) < Len(CallsOf(section, f.want))
        /\ /\ Fit(section, form[c], memory')
           /\ \A k \in DOMAIN form[c].want \cap Head(form[c].todo) : memory'[k] = form[c].want[k]
           => Fit(section, f, memory')
    BY <1>1, <1>2, NextCallIs
  <2> QED BY <1>5, <2>1
<1>7. CallsOf(section, f.want) \in Todos /\ f.todo \in Todos
  BY CallsAreTodo DEF SaveForms
<1>8. Len(f.todo) \in Nat /\ Len(CallsOf(section, f.want)) \in Nat
  BY <1>7, TodoIs
<1>9. Len(f.todo) <= Len(CallsOf(section, f.want)) /\ Len(f.todo) # Len(CallsOf(section, f.want))
  BY <1>6, <1>8
<1>10. /\ holder' \in Clients \cup {"nobody"}
       /\ \A d \in Clients : holder' = d <=> form'[d].pc \in {"persist", "assign"}
       /\ InStep(f, memory', disk') /\ (holder' = "nobody" => memory' = disk')
           /\ (f.pc = "persist" => AsIs(section', yaml', f)) => WritesAgree'
  BY <1>1, <1>6, LockMoves
<1>11. /\ Busy(f) /\ f.ts <= stamp' /\ stamp <= stamp' /\ stamp' \in Nat
       /\ section # "sections" => stamp' <= clock
       /\ disk' \in KeyValues /\ snap' \in KeyValues
  BY <1>1, <1>2, <1>3, <1>6 DEF Busy
<1>12. f.pc \in {"closed", "open", "write", "persist", "assign"} /\ f.pc \notin {"persist", "assign", "open", "valid"}
  BY <1>6
<1>13. SetShape' /\ FormsAreJudged'
  BY <1>1, <1>4, <1>6, <1>9, <1>10, <1>11, <1>12, SaveStep
<1>14. ASSUME ~spoiled' PROVE WritesAgree' /\ SavesFit'
  <2>1. WritesAgree /\ SavesFit /\ ~spoiled
    BY <1>4, <1>14 DEF SetInv
  <2>2. memory' = disk'
    BY <1>1, <1>4, <2>1 DEF WritesAgree, InStep
  <2>3. InStep(f, memory', disk')
    BY <1>6 DEF InStep
  <2>4. c \notin moved => Fit(section, form[c], memory')
    <3>1. c \notin moved => Fit(section, form[c], memory)
      BY <1>2, <2>1 DEF SavesFit
    <3> QED BY <1>2, <1>3, <1>4, <3>1, FitStays
  <2>5. c \notin moved' => Fit(section, f, memory')
    BY <1>4, <1>6, <2>4
  <2>6. SavesFit'
    BY <1>1, <1>4, <1>6, <1>11, <1>12, <1>14, <2>1, <2>5, SaveFits
  <2> QED BY <1>6, <1>10, <2>2, <2>3, <2>6
<1> QED BY <1>13, <1>14 DEF SetInv

\* The answer's form.
LEMMA AnsweredIs ==
    ASSUME SetInv, NEW c \in Clients, NEW t \in Int, G!Answered(c, t)
    PROVE  \E f \in SaveForms : /\ form' = [form EXCEPT ![c] = f] /\ f.pc = "open" /\ f.ts = t /\ ~Busy(f)
                                /\ c \in fresh' /\ fresh' \subseteq Clients /\ (memory' = memory => fresh \subseteq fresh')
<1> DEFINE f == [G!Closed EXCEPT !.pc = "open", !.ts = t]
<1>1. f \in SaveForms /\ f.pc = "open" /\ f.ts = t
  BY ClosedIs
<1>2. form' = [form EXCEPT ![c] = f]
  BY DEF G!Answered
<1> HIDE DEF f
<1>3. c \in fresh' /\ fresh' \subseteq Clients /\ (memory' = memory => fresh \subseteq fresh')
  BY DEF G!Answered, SetInv, SetShape
<1>4. ~Busy(f)
  BY <1>1 DEF Busy
<1> QED BY <1>1, <1>2, <1>3, <1>4

\* A save that has written all has put in force what it validated.
LEMMA DoneIsCoherent ==
    ASSUME SetInv, SavesFit, NEW c \in Clients, form[c].pc = "write", form[c].todo = <<>>, c \notin moved
    PROVE  Coherent(section, memory)
<1>1. Fit(section, form[c], memory)
  BY DEF SavesFit, Busy
<1>2. form[c] \in SaveForms /\ memory \in KeyValues
  BY FormIs DEF SetInv, SetShape
<1>3. \A k \in DOMAIN form[c].want : memory[k] = form[c].want[k]
  <2>1. \A k \in DOMAIN form[c].want : ~Unwritten(form[c].todo, k)
    BY DEF Unwritten
  <2> QED BY <1>1, <2>1 DEF Fit
<1>4. Coherent(section, G!Merged(memory, form[c].want))
  BY <1>1 DEF Fit
<1> QED BY <1>2, <1>3, <1>4, WritesAre

\* The new stamp tells every form that does not show the values, but those of the same second.
LEMMA StampKeeps == ASSUME SetInv, NobodyIsFree, NEW c \in Clients, G!Stamp(c) PROVE SetInv'
<1>1. /\ form[c].pc = "write" /\ form[c].todo = <<>>
      /\ UNCHANGED <<section, memory, disk, yaml, holder, clock, moved, spoiled>>
      /\ stamp' = IF section = "sections" THEN G!Observed ELSE clock
      /\ snap' = IF section = "sections" THEN memory ELSE snap
      /\ raced' = (raced \ {c}) \cup G!SameSecond(c) /\ G!Answered(c, stamp')
  BY DEF G!Stamp
<1>2. /\ disk \in KeyValues /\ snap \in KeyValues /\ memory \in KeyValues
      /\ clock \in Nat /\ stamp \in Nat
      /\ section # "sections" => stamp <= clock
      /\ fresh \subseteq Clients /\ raced \subseteq Clients /\ moved \subseteq Clients
      /\ holder \in Clients \cup {"nobody"}
      /\ \A d \in Clients : holder = d <=> form[d].pc \in {"persist", "assign"}
  BY DEF SetInv, SetShape
<1>3. stamp' \in Nat /\ stamp <= stamp'
  BY <1>1, <1>2 DEF G!Observed
<1>4. PICK f \in SaveForms : /\ form' = [form EXCEPT ![c] = f] /\ f.pc = "open" /\ f.ts = stamp' /\ ~Busy(f)
                             /\ c \in fresh' /\ fresh' \subseteq Clients /\ (memory' = memory => fresh \subseteq fresh')
  BY <1>1, <1>3, AnsweredIs
<1>5. fresh \subseteq fresh'
  BY <1>1, <1>4
<1>6. raced \ {c} \subseteq raced' /\ raced' \subseteq Clients
  BY <1>1, <1>2 DEF G!SameSecond
<1>7. /\ \A d \in Clients \ {c} : form'[d] = form[d]
      /\ form'[c] = f
  BY <1>4 DEF SetInv, SetShape
<1>8. \A d \in Clients \ {c} : d \notin fresh' \cup raced' => form[d].ts < stamp'
  <2> SUFFICES ASSUME NEW d \in Clients \ {c}, d \notin fresh' \cup raced' PROVE form[d].ts < stamp'
    OBVIOUS
  <2>1. form[d].ts \in Int /\ form[d].ts <= stamp
    BY FormIs DEF SetInv
  <2>2. form'[d].ts # stamp' \/ form[d].ts # stamp'
    BY <1>1, <1>7 DEF G!SameSecond
  <2> QED BY <1>2, <1>3, <1>7, <2>1, <2>2
<1>9. /\ holder' \in Clients \cup {"nobody"}
      /\ \A d \in Clients : holder' = d <=> form'[d].pc \in {"persist", "assign"}
  <2>1. \A d \in Clients : form'[d].pc \in {"persist", "assign"} <=> form[d].pc \in {"persist", "assign"}
    BY <1>1, <1>4, <1>7
  <2> QED BY <1>1, <1>2, <2>1
<1>10. f.pc \in {"closed", "open", "write", "persist", "assign"} /\ f.pc \notin {"persist", "assign", "valid", "write"}
  BY <1>4
<1>11. SetShape' /\ FormsAreJudged'
  <2>1. /\ section # "sections" => stamp' <= clock
        /\ snap' \in KeyValues /\ f.ts <= stamp'
        /\ memory' \in KeyValues /\ disk' \in KeyValues /\ moved' \subseteq Clients
    BY <1>1, <1>2, <1>3, <1>4
  <2>2. \A d \in Clients \ {c} : form[d].pc \in {"read", "write"} /\ d \in fresh \cup raced => d \in fresh' \cup raced'
    BY <1>5, <1>6
  <2> QED BY <1>1, <1>3, <1>4, <1>6, <1>8, <1>9, <1>10, <2>1, <2>2, SaveStep
<1>12. ASSUME ~spoiled' PROVE WritesAgree' /\ SavesFit'
  <2>1. WritesAgree /\ SavesFit /\ ~spoiled
    BY <1>1, <1>12 DEF SetInv
  <2>2. WritesAgree'
    <3>1. \A d \in Clients : InStep(form'[d], memory', disk')
      BY <1>1, <1>4, <1>7, <2>1 DEF WritesAgree, InStep
    <3>2. \A d \in Clients : form'[d].pc = "persist" => AsIs(section', yaml', form'[d])
      BY <1>1, <1>4, <1>7, <2>1 DEF WritesAgree
    <3> QED BY <1>1, <2>1, <3>1, <3>2 DEF WritesAgree
  <2>3. c \in moved \/ Coherent(section, memory)
    BY <1>1, <2>1, DoneIsCoherent
  <2>4. SavesFit'
    BY <1>1, <1>4, <1>10, <2>1, <2>3, SaveFits
  <2> QED BY <2>2, <2>4
<1> QED BY <1>11, <1>12 DEF SetInv

\* A stamp that cannot be written: all that do not show the values are marked.
LEMMA StampFailsKeeps == ASSUME SetInv, NobodyIsFree, NEW c \in Clients, G!StampFails(c) PROVE SetInv'
<1>1. /\ form[c].pc = "write" /\ form[c].todo = <<>> /\ G!Unstamped
      /\ form' = [form EXCEPT ![c] = G!Closed]
      /\ UNCHANGED <<section, memory, disk, yaml, holder, snap, stamp, clock, fresh, moved, spoiled>>
  BY DEF G!StampFails, G!store
<1>2. /\ disk \in KeyValues /\ snap \in KeyValues /\ memory \in KeyValues
      /\ clock \in Nat /\ stamp \in Nat
      /\ section # "sections" => stamp <= clock
      /\ fresh \subseteq Clients /\ raced \subseteq Clients /\ moved \subseteq Clients
      /\ holder \in Clients \cup {"nobody"}
      /\ \A d \in Clients : holder = d <=> form[d].pc \in {"persist", "assign"}
  BY DEF SetInv, SetShape
<1> DEFINE f == G!Closed
<1>3. f \in SaveForms /\ f.pc = "closed" /\ f.ts = -1 /\ ~Busy(f)
  BY ClosedIs DEF Busy
<1>4. raced' \subseteq Clients /\ \A d \in Clients : form[d].pc # "closed" => d \in fresh' \cup raced'
  BY <1>1, <1>2 DEF G!Unstamped
<1>5. form' = [form EXCEPT ![c] = f]
  BY <1>1
<1> HIDE DEF f
<1>6. /\ \A d \in Clients \ {c} : form'[d] = form[d]
      /\ form'[c] = f
  BY <1>5 DEF SetInv, SetShape
<1>7. /\ holder' \in Clients \cup {"nobody"}
      /\ \A d \in Clients : holder' = d <=> form'[d].pc \in {"persist", "assign"}
  <2>1. \A d \in Clients : form'[d].pc \in {"persist", "assign"} <=> form[d].pc \in {"persist", "assign"}
    BY <1>1, <1>3, <1>6
  <2> QED BY <1>1, <1>2, <2>1
<1>8. /\ f.pc \in {"closed", "open", "write", "persist", "assign"}
      /\ f.pc \notin {"persist", "assign", "valid", "write", "open"}
  BY <1>3
<1>9. /\ stamp' \in Nat /\ stamp <= stamp' /\ f.ts <= stamp'
      /\ snap' \in KeyValues /\ disk' \in KeyValues /\ memory' \in KeyValues
      /\ section # "sections" => stamp' <= clock
      /\ moved' \subseteq Clients /\ fresh' \subseteq Clients
  BY <1>1, <1>2, <1>3
<1>10. SetShape' /\ FormsAreJudged'
  BY <1>1, <1>3, <1>4, <1>5, <1>7, <1>8, <1>9, SaveStep
<1>11. ASSUME ~spoiled' PROVE WritesAgree' /\ SavesFit'
  <2>1. WritesAgree /\ SavesFit /\ ~spoiled
    BY <1>1, <1>11 DEF SetInv
  <2>2. WritesAgree'
    <3>1. \A d \in Clients : InStep(form'[d], memory', disk')
      BY <1>1, <1>3, <1>6, <2>1 DEF WritesAgree, InStep
    <3>2. \A d \in Clients : form'[d].pc = "persist" => AsIs(section', yaml', form'[d])
      BY <1>1, <1>3, <1>6, <2>1 DEF WritesAgree
    <3> QED BY <1>1, <2>1, <3>1, <3>2 DEF WritesAgree
  <2>3. c \in moved \/ Coherent(section, memory)
    BY <1>1, <2>1, DoneIsCoherent
  <2>4. SavesFit'
    BY <1>1, <1>3, <1>5, <1>8, <2>1, <2>3, SaveFits
  <2> QED BY <2>2, <2>4
<1> QED BY <1>10, <1>11 DEF SetInv

\* The days that history is kept are written and stamped in one step.
LEMMA RetentionKeeps == ASSUME SetInv, NobodyIsFree, NEW c \in Clients, G!SaveRetention(c) PROVE SetInv'
<1>1. /\ form[c].pc = "write" /\ section = "retention"
      /\ UNCHANGED <<section, yaml, holder, clock, snap>>
      /\ memory' = With(form[c], memory) /\ disk' = With(form[c], disk) /\ stamp' = clock
      /\ G!Answered(c, clock)
      /\ raced' = (raced \ {c}) \cup G!SameSecond(c)
                    \cup {d \in Clients \ {c} : d \notin fresh' /\ form[d].pc \in {"read", "write"}}
      /\ moved' = IF memory' = memory THEN moved
                  ELSE moved \cup {d \in Clients \ {c} : form[d].pc \in {"valid", "write"}}
      /\ ~spoiled' => ~spoiled
  BY ModuleSays DEF G!SaveRetention, AsIs
<1>2. /\ disk \in KeyValues /\ snap \in KeyValues /\ memory \in KeyValues
      /\ clock \in Nat /\ stamp \in Nat /\ stamp <= clock
      /\ fresh \subseteq Clients /\ raced \subseteq Clients /\ moved \subseteq Clients
      /\ holder = "nobody" /\ \A d \in Clients : form[d].pc \notin {"persist", "assign"}
  BY <1>1 DEF SetInv, SetShape
<1>3. PICK f \in SaveForms : /\ form' = [form EXCEPT ![c] = f] /\ f.pc = "open" /\ f.ts = clock /\ ~Busy(f)
                             /\ c \in fresh' /\ fresh' \subseteq Clients /\ (memory' = memory => fresh \subseteq fresh')
  <2>1. clock \in Int
    BY <1>2
  <2> QED BY <1>1, <2>1, AnsweredIs
<1>4. raced' \subseteq Clients /\ moved' \subseteq Clients
  BY <1>1, <1>2 DEF G!SameSecond
<1>5. /\ \A d \in Clients \ {c} : form'[d] = form[d]
      /\ form'[c] = f
  BY <1>3 DEF SetInv, SetShape
<1>6. \A d \in Clients \ {c} : d \notin fresh' \cup raced' => form[d].ts < stamp'
  <2> SUFFICES ASSUME NEW d \in Clients \ {c}, d \notin fresh' \cup raced' PROVE form[d].ts < stamp'
    OBVIOUS
  <2>1. form[d].ts \in Int /\ form[d].ts <= stamp
    BY FormIs DEF SetInv
  <2>2. form'[d].ts # stamp' \/ form[d].ts # stamp'
    BY <1>1, <1>5 DEF G!SameSecond
  <2> QED BY <1>1, <1>2, <1>5, <2>1, <2>2
<1>7. /\ holder' \in Clients \cup {"nobody"}
      /\ \A d \in Clients : holder' = d <=> form'[d].pc \in {"persist", "assign"}
  BY <1>1, <1>2, <1>3, <1>5 DEF NobodyIsFree
<1>8. f.pc \in {"closed", "open", "write", "persist", "assign"} /\ f.pc \notin {"persist", "assign", "valid", "write"}
  BY <1>3
<1>9. form[c] \in SaveForms
  BY FormIs DEF SetInv
<1>10. memory' \in KeyValues /\ disk' \in KeyValues
  BY <1>1, <1>2, <1>9, WritesAre
<1>11. SetShape' /\ FormsAreJudged'
  <2>1. /\ stamp' \in Nat /\ stamp <= stamp' /\ snap' \in KeyValues /\ f.ts <= stamp'
        /\ section # "sections" => stamp' <= clock
    BY <1>1, <1>2, <1>3
  <2>2. \A d \in Clients \ {c} : form[d].pc \in {"read", "write"} => d \in fresh' \cup raced'
    BY <1>1
  <2> QED BY <1>1, <1>3, <1>4, <1>6, <1>7, <1>8, <1>10, <2>1, <2>2, SaveStep
<1>12. ASSUME ~spoiled' PROVE WritesAgree' /\ SavesFit'
  <2>1. WritesAgree /\ SavesFit /\ ~spoiled
    BY <1>1, <1>12 DEF SetInv
  <2>2. WritesAgree'
    <3>1. memory' = disk'
      BY <1>1, <1>2, <2>1 DEF WritesAgree
    <3>2. \A d \in Clients : InStep(form'[d], memory', disk')
      BY <1>2, <1>3, <1>5 DEF InStep
    <3>3. \A d \in Clients : form'[d].pc # "persist"
      BY <1>2, <1>3, <1>5
    <3> QED BY <3>1, <3>2, <3>3 DEF WritesAgree
  <2>3. Coherent(section, memory')
    BY <1>1 DEF Coherent
  <2>4. \A d \in Clients \ {c} : (form[d].pc = "valid" \/ Busy(form[d])) /\ d \notin moved' =>
            memory' = memory /\ d \notin moved
    BY <1>1, <1>2 DEF Busy
  <2>5. SavesFit'
    BY <1>1, <1>3, <1>8, <2>1, <2>3, <2>4, SaveFits
  <2> QED BY <2>2, <2>5
<1> QED BY <1>11, <1>12 DEF SetInv

\* When they cannot be written, all that do not show them are marked.
LEMMA UnsavedKeeps == ASSUME SetInv, NobodyIsFree, NEW c \in Clients, G!RetentionUnsaved(c) PROVE SetInv'
<1>1. /\ form[c].pc = "write" /\ section = "retention" /\ spoiled'
      /\ UNCHANGED <<section, holder, disk, stamp, clock, snap, moved>>
      /\ memory' = With(form[c], memory) /\ G!Answered(c, 0) /\ G!Unstamped
  BY ModuleSays DEF G!RetentionUnsaved, AsIs
<1>2. /\ disk \in KeyValues /\ snap \in KeyValues /\ memory \in KeyValues
      /\ clock \in Nat /\ stamp \in Nat /\ stamp <= clock
      /\ raced \subseteq Clients /\ moved \subseteq Clients
      /\ holder = "nobody" /\ \A d \in Clients : form[d].pc \notin {"persist", "assign"}
  BY <1>1 DEF SetInv, SetShape
<1>3. PICK f \in SaveForms : /\ form' = [form EXCEPT ![c] = f] /\ f.pc = "open" /\ f.ts = 0
                             /\ c \in fresh' /\ fresh' \subseteq Clients
  <2>1. 0 \in Int
    OBVIOUS
  <2> QED BY <1>1, <2>1, AnsweredIs
<1>4. raced' \subseteq Clients /\ \A d \in Clients : form[d].pc # "closed" => d \in fresh' \cup raced'
  BY <1>1, <1>2 DEF G!Unstamped
<1>5. /\ \A d \in Clients \ {c} : form'[d] = form[d]
      /\ form'[c] = f
  BY <1>3 DEF SetInv, SetShape
<1>6. form[c] \in SaveForms
  BY FormIs DEF SetInv
<1>7. memory' \in KeyValues
  BY <1>1, <1>2, <1>6, WritesAre
<1>8. /\ holder' \in Clients \cup {"nobody"}
      /\ \A d \in Clients : holder' = d <=> form'[d].pc \in {"persist", "assign"}
  BY <1>1, <1>2, <1>3, <1>5 DEF NobodyIsFree
<1>9. /\ f.pc \in {"closed", "open", "write", "persist", "assign"}
      /\ f.pc \notin {"persist", "assign", "valid", "write"} /\ ~Busy(f)
  BY <1>3 DEF Busy
<1>10. /\ stamp' \in Nat /\ stamp <= stamp' /\ snap' \in KeyValues /\ disk' \in KeyValues /\ f.ts <= stamp'
       /\ section # "sections" => stamp' <= clock
       /\ moved' \subseteq Clients
  BY <1>1, <1>2, <1>3
<1>11. SetShape' /\ FormsAreJudged'
  BY <1>1, <1>3, <1>4, <1>7, <1>8, <1>9, <1>10, SaveStep
<1> QED BY <1>1, <1>11 DEF SetInv

\* And so when another setting's save fails.
LEMMA FailureKeeps == ASSUME SetInv, NobodyIsFree, NEW c \in Clients, G!SaveFails(c) PROVE SetInv'
<1>1. /\ holder = "nobody" \/ form[c].pc \in {"persist", "assign"}
      /\ form[c].pc # "closed" /\ holder' = "nobody" /\ spoiled' /\ G!Unstamped
      /\ form' = [form EXCEPT ![c] = G!Closed]
      /\ UNCHANGED <<section, memory, disk, snap, stamp, clock, fresh, moved>>
  BY DEF G!SaveFails
<1>2. /\ disk \in KeyValues /\ snap \in KeyValues /\ memory \in KeyValues
      /\ clock \in Nat /\ stamp \in Nat
      /\ section # "sections" => stamp <= clock
      /\ fresh \subseteq Clients /\ raced \subseteq Clients /\ moved \subseteq Clients
  BY DEF SetInv, SetShape
<1> DEFINE f == G!Closed
<1>3. f \in SaveForms /\ f.pc = "closed" /\ f.ts = -1 /\ ~Busy(f)
  BY ClosedIs DEF Busy
<1>4. raced' \subseteq Clients /\ \A d \in Clients : form[d].pc # "closed" => d \in fresh' \cup raced'
  BY <1>1, <1>2 DEF G!Unstamped
<1>5. form' = [form EXCEPT ![c] = f]
  BY <1>1
<1> HIDE DEF f
<1>6. /\ holder' \in Clients \cup {"nobody"}
      /\ \A d \in Clients : holder' = d <=> form'[d].pc \in {"persist", "assign"}
  BY <1>1, <1>3, <1>5, LockMoves
<1>7. /\ f.pc \in {"closed", "open", "write", "persist", "assign"}
      /\ f.pc \notin {"persist", "assign", "valid", "write", "open"}
  BY <1>3
<1>8. /\ stamp' \in Nat /\ stamp <= stamp' /\ f.ts <= stamp'
      /\ snap' \in KeyValues /\ disk' \in KeyValues /\ memory' \in KeyValues
      /\ section # "sections" => stamp' <= clock
      /\ moved' \subseteq Clients /\ fresh' \subseteq Clients
  BY <1>1, <1>2, <1>3
<1>9. SetShape' /\ FormsAreJudged'
  BY <1>1, <1>3, <1>4, <1>5, <1>6, <1>7, <1>8, SaveStep
<1> QED BY <1>1, <1>9 DEF SetInv

\* Time changes no form.
LEMMA AdvanceKeeps == ASSUME SetInv, G!Advance PROVE SetInv'
<1>1. clock' = clock + 1 /\ UNCHANGED <<section, memory, disk, yaml, snap, stamp, holder, form, fresh, raced, moved, spoiled>>
  BY DEF G!Advance, G!store, G!history
<1>2. clock' \in Nat /\ (section' # "sections" => stamp' <= clock')
  BY <1>1 DEF SetInv, SetShape
<1>3. SetShape'
  BY <1>1, <1>2 DEF SetInv, SetShape
<1>4. FormsAreJudged'
  BY <1>1 DEF SetInv, FormsAreJudged
<1>5. ~spoiled' => WritesAgree' /\ SavesFit'
  BY <1>1 DEF SetInv, WritesAgree, SavesFit, InStep, AsIs, Fit
<1> QED BY <1>3, <1>4, <1>5 DEF SetInv

\* After a restart there are only forms that were open, and what the file says.
LEMMA RestartKeeps == ASSUME SetInv, NobodyIsFree, G!Restart PROVE SetInv'
<1>1. /\ memory' = disk /\ holder' = "nobody"
      /\ form' = [c \in Clients |-> IF form[c].pc = "open" THEN form[c] ELSE G!Closed]
      /\ fresh' = IF memory = disk THEN fresh ELSE {}
      /\ UNCHANGED <<section, disk, snap, stamp, clock, moved>>
  BY DEF G!Restart
<1>2. /\ disk \in KeyValues /\ snap \in KeyValues /\ memory \in KeyValues
      /\ clock \in Nat /\ stamp \in Nat
      /\ section # "sections" => stamp <= clock
      /\ fresh \subseteq Clients /\ raced \subseteq Clients /\ moved \subseteq Clients
  BY DEF SetInv, SetShape
<1>3. \/ memory = disk /\ (\A c \in Clients : ~Busy(form[c])) /\ raced' = raced /\ spoiled' = spoiled
      \/ G!Unstamped /\ spoiled'
  BY ModuleSays DEF G!Restart
<1>4. G!Closed \in SaveForms /\ G!Closed.pc = "closed" /\ G!Closed.ts = -1
  BY ClosedIs
<1>5. ASSUME NEW c \in Clients
      PROVE  /\ form'[c] \in SaveForms /\ form'[c].ts <= stamp' /\ form'[c].pc \in {"open", "closed"}
             /\ form'[c].pc = "open" => form'[c] = form[c]
  <2>1. (form'[c] = form[c] /\ form[c].pc = "open") \/ form'[c] = G!Closed
    BY <1>1
  <2>2. form[c] \in SaveForms /\ form[c].ts <= stamp
    BY FormIs DEF SetInv
  <2> QED BY <1>1, <1>2, <1>4, <2>1, <2>2
<1>6. raced' \subseteq Clients /\ fresh' \subseteq Clients
  BY <1>1, <1>2, <1>3 DEF G!Unstamped
<1>7. SetShape'
  <2>1. form' \in [Clients -> SaveForms]
    <3>1. form' = [c \in Clients |-> form'[c]]
      BY <1>1
    <3> QED BY <1>5, <3>1
  <2>2. \A c \in Clients : ~Busy(form'[c]) /\ form'[c].pc \notin {"valid", "persist", "assign"} /\ holder' # c
    BY <1>1, <1>5 DEF Busy, NobodyIsFree
  <2> QED BY <1>1, <1>2, <1>5, <1>6, <2>1, <2>2 DEF SetShape
<1>8. FormsAreJudged'
  <2> SUFFICES ASSUME NEW c \in Clients, form'[c].pc = "open", c \notin fresh' \cup raced' PROVE form'[c].ts < stamp'
    BY <1>5 DEF FormsAreJudged
  <2>1. form'[c] = form[c] /\ form[c].pc = "open"
    BY <1>5
  <2>2. CASE memory = disk /\ (\A d \in Clients : ~Busy(form[d])) /\ raced' = raced
    BY <1>1, <2>1, <2>2 DEF SetInv, FormsAreJudged
  <2>3. CASE G!Unstamped
    BY <2>1, <2>3 DEF G!Unstamped
  <2> QED BY <1>3, <2>2, <2>3
<1>9. ASSUME ~spoiled' PROVE WritesAgree' /\ SavesFit'
  <2>1. memory = disk /\ (\A c \in Clients : ~Busy(form[c])) /\ ~spoiled
    BY <1>3, <1>9
  <2>2. WritesAgree'
    BY <1>1, <1>5 DEF WritesAgree, InStep
  <2>3. Coherent(section, memory)
    BY <2>1 DEF SetInv, SavesFit
  <2>4. \A c \in Clients : form'[c].pc # "valid" /\ ~Busy(form'[c])
    BY <1>5 DEF Busy
  <2> QED BY <1>1, <2>1, <2>2, <2>3, <2>4 DEF SavesFit
<1> QED BY <1>7, <1>8, <1>9 DEF SetInv

\* The invariant of the settings holds in every reachable state.
LEMMA SetInductive == NobodyIsFree /\ G!Spec => []SetInv
<1> SUFFICES ASSUME NobodyIsFree PROVE G!Spec => []SetInv
  OBVIOUS
<1>0. G!Init => SetInv
  BY InitSet
<1>1. SetInv /\ [G!Next]_G!vars => SetInv'
  <2> SUFFICES ASSUME SetInv, [G!Next]_G!vars PROVE SetInv'
    OBVIOUS
  <2>1. CASE UNCHANGED G!vars
    <3>1. UNCHANGED <<section, memory, disk, yaml, stamp, snap, clock, holder, form, fresh, raced, moved, spoiled>>
      BY <2>1 DEF G!vars
    <3>2. SetShape'
      BY <3>1 DEF SetInv, SetShape
    <3>3. FormsAreJudged'
      BY <3>1 DEF SetInv, FormsAreJudged
    <3>4. ~spoiled' => WritesAgree' /\ SavesFit'
      BY <3>1 DEF SetInv, WritesAgree, SavesFit, InStep, AsIs, Fit
    <3> QED BY <3>2, <3>3, <3>4 DEF SetInv
  <2>2. ASSUME NEW c \in Clients, G!ReadValues(c) PROVE SetInv'
    BY <2>2, ReadValuesKeeps
  <2>3. ASSUME NEW c \in Clients, G!ReadStamp(c) PROVE SetInv'
    BY <2>3, ReadStampKeeps
  <2>4. ASSUME NEW c \in Clients, G!Handler(c) PROVE SetInv'
    <3>1. CASE G!Submit(c)
      BY <3>1, SubmitKeeps
    <3>2. CASE G!Check(c)
      BY <3>2, CheckKeeps
    <3>3. CASE G!Assign(c)
      BY <3>3, AssignKeeps
    <3>4. CASE G!Persist(c)
      BY <3>4, PersistKeeps
    <3>5. CASE G!PersistList(c)
      BY <3>5, PersistListKeeps
    <3>6. CASE G!AssignList(c)
      BY <3>6, AssignListKeeps
    <3>7. CASE G!SaveRetention(c)
      BY <3>7, RetentionKeeps
    <3>8. CASE G!SaveFails(c)
      BY <3>8, FailureKeeps
    <3>9. CASE G!RetentionUnsaved(c)
      BY <3>9, UnsavedKeeps
    <3>10. CASE G!Stamp(c)
      BY <3>10, StampKeeps
    <3>11. CASE G!StampFails(c)
      BY <3>11, StampFailsKeeps
    <3> QED BY <2>4, <3>1, <3>2, <3>3, <3>4, <3>5, <3>6, <3>7, <3>8, <3>9, <3>10, <3>11 DEF G!Handler
  <2>5. CASE G!Advance
    BY <2>5, AdvanceKeeps
  <2>6. CASE G!Restart
    BY <2>6, RestartKeeps
  <2> QED BY <2>1, <2>2, <2>3, <2>4, <2>5, <2>6 DEF G!Next
<1> QED BY <1>0, <1>1, PTL DEF G!Spec

\* For any number of clients, and each of the sections, a save is accepted only from a form that shows
\* the values it replaces, up to the named races; restarts and failures included.
\* (_check_config_conflict, _bump_config_updated_at.)
THEOREM EditsAreFromCurrentForms == NobodyIsFree /\ G!Spec => []G!AcceptedFormIsCurrent
<1>1. SetInv => G!AcceptedFormIsCurrent
  BY ModuleSays DEF SetInv, FormsAreJudged, G!AcceptedFormIsCurrent
<1> QED BY <1>1, SetInductive, PTL

\* For any number of clients, memory and config.yaml agree between saves, and the keys agree with each
\* other, unless saves have overlapped, one has failed, wrote a key that the file lacks or stored a
\* fraction over what reads as an integer.  (The validators, update_config_section.)
THEOREM SettingsAreSafe == NobodyIsFree /\ G!Spec => []G!SettingsStayConsistent
<1>1. SetInv => G!SettingsStayConsistent
  <2> SUFFICES ASSUME SetInv, ~spoiled, \A c \in Clients : ~Busy(form[c])
               PROVE memory = disk /\ Coherent(section, memory)
    BY ModuleSays DEF G!SettingsStayConsistent
  <2>1. holder = "nobody"
    BY DEF SetInv, SetShape, Busy
  <2> QED BY <2>1 DEF SetInv, WritesAgree, SavesFit
<1> QED BY <1>1, SetInductive, PTL

-----------------------------------------------------------------------------
(***************************************************************************)
(* Snapshots of the past: what sweeps must leave and what they must not,   *)
(* by the days that were in force.                                         *)
(***************************************************************************)

\* Days have a length.
Spans == Every \in Nat /\ Day \in Nat /\ MaxDays \in Nat /\ MaxTime \in Nat

SaveStates == [pc : {"idle", "memory", "file"}, days : H!Days \cup {0}]
Sweeps == [pc : {"asleep", "deletes"}, wake : Nat, cutoff : Int]
Records == [at : Nat, least : H!Days]

\* A history of the rows that is in the order of time.
Ordered(ms) ==
    /\ ms \in Seq(Records)
    /\ \A i, j \in 1 .. Len(ms) : i < j => ms[i].at <= ms[j].at /\ ms[i].least <= ms[j].least

\* The loop sleeps until it is due, and looks back.
Clocked ==
    /\ now \in Nat /\ sweep \in Sweeps /\ now <= sweep.wake
    /\ sweep.pc = "deletes" => sweep.cutoff <= now

\* Rows are in the order of time.
RowsInOrder ==
    /\ rows \in Seq(Nat) /\ (\A i \in 1 .. Len(rows) : rows[i] <= now)
    /\ \A i, j \in 1 .. Len(rows) : i < j => rows[i] <= rows[j]

\* Whoever sets the days has set those in memory, and one at a time writes the file.
SavesAreOfDays ==
    /\ days \in H!Days \cup {0} /\ file \in H!Days /\ save \in [Tabs -> SaveStates]
    /\ \A t \in Tabs : save[t].pc # "idle" => days # 0 /\ save[t].days # 0
    /\ \A t, u \in Tabs : save[t].pc = "memory" /\ save[u].pc = "memory" => t = u
    /\ \A t \in Tabs : save[t].pc = "memory" => save[t].days = days

HistoryShape == Clocked /\ RowsInOrder /\ SavesAreOfDays /\ Ordered(made)

\* What is known of a row: neither the sweep that is under way nor one that follows a save reaches it.
Needed(r) ==
    /\ r.least <= H!InForce /\ now - r.at <= r.least * Day
    /\ sweep.pc = "deletes" => r.at >= sweep.cutoff
    /\ \A t \in Tabs : save[t].pc # "idle" => r.least <= save[t].days \/ r.at = now

\* A history is of the last rows.
Ends(rs, ms) ==
    /\ Len(ms) <= Len(rs)
    /\ \A i \in 1 .. Len(ms) : ms[i].at = rs[Len(rs) - Len(ms) + i]

MadeIsThere == Ends(rows, made) /\ \A i \in 1 .. Len(made) : Needed(made[i])

\* The days in force have swept all rows up to a time, unless who has set them is about to.
SweptTo(time) == \A i \in 1 .. Len(rows) : rows[i] >= time - H!InForce * Day
Setting == \E t \in Tabs : save[t].pc # "idle" /\ save[t].days = H!InForce
SweepsFollow ==
    /\ sweep.wake - Every <= now
    /\ ~overdue => \/ Setting
                   \/ sweep.pc = "asleep" /\ SweptTo(sweep.wake - Every)
                   \/ sweep.pc = "deletes" /\ (sweep.cutoff >= H!CutOff(H!InForce) \/ SweptTo(now))

\* The file has the days in force, but for who is to write it and whoever could not.
FileFollows == failed \/ days = 0 \/ days = file \/ H!Locked

HistInv == HistoryShape /\ MadeIsThere /\ SweepsFollow /\ FileFollows

-----------------------------------------------------------------------------
\* Numbers that have all lesser ones with them are the first ones.
LEMMA FirstOnes ==
    ASSUME NEW l \in Nat, NEW old \in SUBSET (1 .. l), \A i, j \in 1 .. l : i < j /\ j \in old => i \in old
    PROVE  Cardinality(old) \in 0 .. l /\ old = 1 .. Cardinality(old)
<1> DEFINE rest == (1 .. l + 1) \ old
<1>1. l + 1 \in rest /\ rest \subseteq Nat
  OBVIOUS
<1>2. PICK k \in rest : \A j \in rest : <<j, k>> \notin OpToRel(<, Nat)
  <2> HIDE DEF rest
  <2> QED BY <1>1, NatLessThanWellFounded, WFMin
<1>3. \A j \in rest : k <= j
  <2> HIDE DEF rest
  <2> SUFFICES ASSUME NEW j \in rest PROVE k <= j
    OBVIOUS
  <2>1. j \in Nat /\ k \in Nat
    BY <1>1, <1>2
  <2>2. j < k => <<j, k>> \in OpToRel(<, Nat)
    BY <2>1 DEF OpToRel
  <2>3. ~(j < k)
    BY <1>2, <2>2
  <2> QED BY <2>1, <2>3
<1>4. k \in 1 .. l + 1 /\ k \notin old
  OBVIOUS
<1>5. \A i \in 1 .. k - 1 : i \in old
  BY <1>3, <1>4
<1>6. \A i \in old : i < k
  BY <1>4
<1>7. old = 1 .. k - 1
  <2> HIDE DEF rest
  <2>1. ASSUME NEW i \in old PROVE i \in 1 .. k - 1
    <3>1. i \in 1 .. l /\ i < k
      BY <1>6
    <3> QED BY <1>4, <3>1
  <2> QED BY <1>5, <2>1
<1>8. Cardinality(old) = k - 1
  <2>1. Cardinality(1 .. k - 1) = IF 1 > k - 1 THEN 0 ELSE (k - 1) - 1 + 1
    BY <1>4, FS_Interval
  <2> QED BY <1>4, <1>7, <2>1
<1> QED BY <1>4, <1>7, <1>8

\* SnapshotHistory's cardinality is the one the theorems on finite sets are about.
LEMMA RowsAreCounted == \A s : H!Cardinality(s) = Cardinality(s)
BY DEF H!Cardinality, Cardinality

\* A sequence without its first elements.
LEMMA LastOnes ==
    ASSUME NEW Elem, NEW s \in Seq(Elem), NEW n \in 0 .. Len(s)
    PROVE  /\ SubSeq(s, n + 1, Len(s)) \in Seq(Elem) /\ Len(SubSeq(s, n + 1, Len(s))) = Len(s) - n
           /\ \A i \in 1 .. Len(s) - n : SubSeq(s, n + 1, Len(s))[i] = s[n + i]
<1>1. Len(s) \in Nat
  BY LenProperties
<1>2. /\ n + 1 \in 1 .. Len(s) + 1 /\ Len(s) \in (n + 1) - 1 .. Len(s)
  BY <1>1
<1>3. /\ SubSeq(s, n + 1, Len(s)) \in Seq(Elem)
      /\ Len(SubSeq(s, n + 1, Len(s))) = Len(s) - (n + 1) + 1
      /\ \A i \in 1 .. (Len(s) - (n + 1) + 1) : SubSeq(s, n + 1, Len(s))[i] = s[(n + 1) + i - 1]
  BY <1>1, <1>2, SubSeqProperties
<1>4. \A i \in 1 .. Len(s) - n : SubSeq(s, n + 1, Len(s))[i] = s[n + i]
  <2> SUFFICES ASSUME NEW i \in 1 .. Len(s) - n PROVE SubSeq(s, n + 1, Len(s))[i] = s[n + i]
    OBVIOUS
  <2>1. (n + 1) + i - 1 = n + i /\ i \in 1 .. (Len(s) - (n + 1) + 1)
    BY <1>1
  <2> QED BY <1>3, <2>1
<1> QED BY <1>1, <1>3, <1>4

\* More days are a longer time.
LEMMA DaysAreLonger ==
    ASSUME Spans, NEW a \in Nat, NEW b \in Nat, a <= b
    PROVE  a * Day \in Nat /\ b * Day \in Nat /\ a * Day <= b * Day
<1>1. Day \in Nat
  BY DEF Spans
<1>2. b * Day = a * Day + (b - a) * Day /\ (b - a) * Day \in Nat /\ a * Day \in Nat
  BY <1>1
<1> QED BY <1>2

\* The days in force are days.
LEMMA ForceIs ==
    ASSUME HistoryShape, Spans
    PROVE  H!InForce \in H!Days /\ H!InForce \in Nat /\ H!InForce * Day \in Nat /\ now \in Nat /\ file \in Nat
<1>1. \A d \in H!Days : d \in Nat
  BY DEF H!Days, Spans
<1>2. H!InForce \in H!Days /\ file \in H!Days
  BY DEF H!InForce, HistoryShape, SavesAreOfDays
<1>3. H!InForce \in Nat
  BY <1>1, <1>2
<1>4. H!InForce * Day \in Nat
  BY <1>3, DaysAreLonger
<1> QED BY <1>1, <1>2, <1>3, <1>4 DEF HistoryShape, Clocked

\* The rows before a time are the first ones.
LEMMA BeforeIs ==
    ASSUME HistoryShape, NEW at \in Int
    PROVE  /\ H!Before(at) \in 0 .. Len(rows) /\ Len(rows) \in Nat
           /\ \A i \in 1 .. Len(rows) : rows[i] < at <=> i <= H!Before(at)
<1> DEFINE old == {i \in DOMAIN rows : rows[i] < at}
<1>1. rows \in Seq(Nat) /\ Len(rows) \in Nat /\ DOMAIN rows = 1 .. Len(rows)
  BY LenProperties DEF HistoryShape, RowsInOrder
<1>2. \A i \in 1 .. Len(rows) : rows[i] \in Nat
  BY <1>1, ElementOfSeq
<1>3. old \in SUBSET (1 .. Len(rows))
  BY <1>1
<1>4. \A i, j \in 1 .. Len(rows) : i < j /\ j \in old => i \in old
  BY <1>1, <1>2 DEF HistoryShape, RowsInOrder
<1>5. H!Before(at) = Cardinality(old)
  BY RowsAreCounted, Zenon DEF H!Before
<1>6. \A i \in 1 .. Len(rows) : rows[i] < at <=> i \in old
  BY <1>1
<1> HIDE DEF old
<1>7. Cardinality(old) \in 0 .. Len(rows) /\ old = 1 .. Cardinality(old)
  BY <1>1, <1>3, <1>4, FirstOnes
<1> QED BY <1>1, <1>5, <1>6, <1>7

\* A sweep deletes the first rows, those that are older.
LEMMA KeptIs ==
    ASSUME HistoryShape, NEW from \in Int
    PROVE  \E n \in 0 .. Len(rows) :
             /\ H!Kept(from) \in Seq(Nat) /\ Len(H!Kept(from)) = Len(rows) - n /\ Len(rows) \in Nat
             /\ \A i \in 1 .. Len(rows) - n : H!Kept(from)[i] = rows[n + i] /\ rows[n + i] >= from
             /\ \A i \in 1 .. n : rows[i] < from
<1> DEFINE n == H!Before(from)
<1>1. n \in 0 .. Len(rows) /\ Len(rows) \in Nat /\ rows \in Seq(Nat)
  BY BeforeIs DEF HistoryShape, RowsInOrder
<1>2. \A i \in 1 .. Len(rows) : rows[i] \in Nat /\ (rows[i] < from <=> i <= n)
  BY <1>1, BeforeIs, ElementOfSeq
<1>3. H!Kept(from) = SubSeq(rows, n + 1, Len(rows))
  BY DEF H!Kept
<1> HIDE DEF n
<1>4. /\ SubSeq(rows, n + 1, Len(rows)) \in Seq(Nat) /\ Len(SubSeq(rows, n + 1, Len(rows))) = Len(rows) - n
      /\ \A i \in 1 .. Len(rows) - n : SubSeq(rows, n + 1, Len(rows))[i] = rows[n + i]
  BY <1>1, LastOnes
<1>5. \A i \in 1 .. Len(rows) - n : n + i \in 1 .. Len(rows) /\ ~(n + i <= n)
  BY <1>1
<1>6. \A i \in 1 .. n : i \in 1 .. Len(rows) /\ i <= n
  BY <1>1
<1>7. \A i \in 1 .. Len(rows) - n : rows[n + i] >= from
  <2> SUFFICES ASSUME NEW i \in 1 .. Len(rows) - n PROVE rows[n + i] >= from
    OBVIOUS
  <2>1. rows[n + i] \in Nat /\ ~(rows[n + i] < from)
    BY <1>2, <1>5
  <2> QED BY <2>1
<1>8. \A i \in 1 .. n : rows[i] < from
  BY <1>2, <1>6
<1>9. Len(H!Kept(from)) = Len(rows) - n /\ H!Kept(from) \in Seq(Nat)
  BY <1>3, <1>4
<1>10. \A i \in 1 .. Len(rows) - n : H!Kept(from)[i] = rows[n + i]
  BY <1>3, <1>4
<1> QED BY <1>1, <1>7, <1>8, <1>9, <1>10

\* What is known of a row, by its parts.
LEMMA RecordIs ==
    ASSUME NEW ms \in Seq(Records), NEW i \in 1 .. Len(ms), Spans
    PROVE  ms[i] \in Records /\ ms[i].at \in Nat /\ ms[i].least \in H!Days /\ ms[i].least \in Nat
<1>1. ms[i] \in Records
  BY ElementOfSeq
<1> QED BY <1>1 DEF Records, H!Days, Spans

\* Days that come in force leave no row more than them.
LEMMA UnderIs ==
    ASSUME Spans, HistoryShape, NEW d \in H!Days
    PROVE  /\ Ordered(H!Under(d)) /\ Len(H!Under(d)) = Len(made) /\ Len(made) \in Nat
           /\ \A i \in 1 .. Len(made) : /\ H!Under(d)[i].at = made[i].at
                                        /\ H!Under(d)[i].least <= made[i].least /\ H!Under(d)[i].least <= d
<1> DEFINE ms == H!Under(d)
<1>1. made \in Seq(Records) /\ Len(made) \in Nat /\ DOMAIN made = 1 .. Len(made)
  BY LenProperties DEF HistoryShape, Ordered
<1>2. ms = [i \in 1 .. Len(made) |-> [made[i] EXCEPT !.least = IF d < made[i].least THEN d ELSE made[i].least]]
  BY <1>1 DEF H!Under
<1> HIDE DEF ms
<1>3. ASSUME NEW i \in 1 .. Len(made)
      PROVE  /\ ms[i] \in Records /\ ms[i].at = made[i].at
             /\ ms[i].least = IF d < made[i].least THEN d ELSE made[i].least
  <2>1. made[i] \in Records
    BY <1>1, ElementOfSeq
  <2>2. ms[i] = [made[i] EXCEPT !.least = IF d < made[i].least THEN d ELSE made[i].least]
    BY <1>2
  <2> QED BY <2>1, <2>2 DEF Records
<1>4. ms \in Seq(Records) /\ Len(ms) = Len(made)
  <2>1. ms \in [1 .. Len(made) -> Records]
    <3>1. ms = [i \in 1 .. Len(made) |-> ms[i]]
      BY <1>2
    <3> QED BY <1>3, <3>1
  <2> QED BY <1>1, <2>1, SeqDef, LenProperties
<1>5. \A i \in 1 .. Len(made) : made[i].least \in Nat /\ made[i].at \in Nat /\ d \in Nat
  BY <1>1, RecordIs DEF H!Days, Spans
<1>6. \A i, j \in 1 .. Len(made) : i < j => made[i].at <= made[j].at /\ made[i].least <= made[j].least
  BY DEF HistoryShape, Ordered
<1>7. \A i, j \in 1 .. Len(ms) : i < j => ms[i].at <= ms[j].at /\ ms[i].least <= ms[j].least
  BY <1>3, <1>4, <1>5, <1>6
<1> QED BY <1>1, <1>3, <1>4, <1>5, <1>7 DEF Ordered, ms

\* Rows that time has given up are the first of a history.
LEMMA StandingIs ==
    ASSUME Spans, NEW ms, Ordered(ms), NEW time \in Nat, \A i \in 1 .. Len(ms) : ms[i].at <= time
    PROVE  \E n \in 0 .. Len(ms) :
             /\ H!Standing(ms, time) \in Seq(Records) /\ Len(H!Standing(ms, time)) = Len(ms) - n /\ Len(ms) \in Nat
             /\ \A i \in 1 .. Len(ms) - n : /\ H!Standing(ms, time)[i] = ms[n + i]
                                            /\ time - ms[n + i].at <= ms[n + i].least * Day
<1> DEFINE old == {i \in DOMAIN ms : time - ms[i].at > ms[i].least * Day}
           n == Cardinality(old)
<1>1. ms \in Seq(Records) /\ Len(ms) \in Nat /\ DOMAIN ms = 1 .. Len(ms)
  BY LenProperties DEF Ordered
<1>2. \A i \in 1 .. Len(ms) : ms[i].at \in Nat /\ ms[i].least \in Nat
  BY <1>1, RecordIs
<1>3. ASSUME NEW i \in 1 .. Len(ms), NEW j \in 1 .. Len(ms), i < j, j \in old PROVE i \in old
  <2>1. ms[i].at <= ms[j].at /\ ms[i].least <= ms[j].least
    BY <1>3 DEF Ordered
  <2>2. ms[i].least * Day \in Nat /\ ms[j].least * Day \in Nat /\ ms[i].least * Day <= ms[j].least * Day
    BY <1>2, <2>1, DaysAreLonger
  <2>3. time - ms[j].at > ms[j].least * Day
    BY <1>3
  <2>4. time - ms[i].at > ms[i].least * Day
    BY <1>2, <2>1, <2>2, <2>3
  <2> QED BY <1>1, <2>4
<1>4. old \in SUBSET (1 .. Len(ms))
  BY <1>1
<1>9. H!Standing(ms, time) = SubSeq(ms, n + 1, Len(ms))
  BY RowsAreCounted, Zenon DEF H!Standing
<1>5. \A i \in 1 .. Len(ms) : i \notin old => ~(time - ms[i].at > ms[i].least * Day)
  BY <1>1
<1> HIDE DEF old
<1>6. n \in 0 .. Len(ms) /\ old = 1 .. n
  BY <1>1, <1>3, <1>4, FirstOnes
<1> HIDE DEF n
<1>7. /\ SubSeq(ms, n + 1, Len(ms)) \in Seq(Records) /\ Len(SubSeq(ms, n + 1, Len(ms))) = Len(ms) - n
      /\ \A i \in 1 .. Len(ms) - n : SubSeq(ms, n + 1, Len(ms))[i] = ms[n + i]
  BY <1>1, <1>6, LastOnes
<1>8. ASSUME NEW i \in 1 .. Len(ms) - n PROVE time - ms[n + i].at <= ms[n + i].least * Day
  <2>1. n + i \in 1 .. Len(ms) /\ n + i \notin old
    BY <1>1, <1>6
  <2>2. ms[n + i].at \in Nat /\ ms[n + i].least \in Nat
    BY <1>2, <2>1
  <2>3. ms[n + i].least * Day \in Nat
    BY <2>2 DEF Spans
  <2>4. ~(time - ms[n + i].at > ms[n + i].least * Day)
    BY <1>5, <2>1
  <2> QED BY <2>2, <2>3, <2>4
<1> QED BY <1>1, <1>6, <1>7, <1>8, <1>9

\* What is left of a history is one of the same last rows.
LEMMA StandingKeeps ==
    ASSUME Spans, NEW ms, Ordered(ms), NEW time \in Nat, \A i \in 1 .. Len(ms) : ms[i].at <= time,
           NEW rs \in Seq(Nat), Ends(rs, ms)
    PROVE  /\ Ordered(H!Standing(ms, time)) /\ Ends(rs, H!Standing(ms, time))
           /\ \A i \in 1 .. Len(H!Standing(ms, time)) :
                /\ \E j \in 1 .. Len(ms) : H!Standing(ms, time)[i] = ms[j]
                /\ time - H!Standing(ms, time)[i].at <= H!Standing(ms, time)[i].least * Day
<1> DEFINE st == H!Standing(ms, time)
<1> HIDE DEF st
<1>1. PICK n \in 0 .. Len(ms) :
        /\ st \in Seq(Records) /\ Len(st) = Len(ms) - n /\ Len(ms) \in Nat
        /\ \A i \in 1 .. Len(ms) - n : st[i] = ms[n + i] /\ time - ms[n + i].at <= ms[n + i].least * Day
  BY StandingIs DEF st
<1>2. Len(rs) \in Nat /\ Len(ms) <= Len(rs) /\ Len(st) \in Nat
  BY <1>1, LenProperties DEF Ends
<1>3. \A i \in 1 .. Len(st) : n + i \in 1 .. Len(ms) /\ st[i] = ms[n + i]
  BY <1>1
<1>4. Ordered(st)
  <2> SUFFICES ASSUME NEW i \in 1 .. Len(st), NEW j \in 1 .. Len(st), i < j
               PROVE  st[i].at <= st[j].at /\ st[i].least <= st[j].least
    BY <1>1 DEF Ordered
  <2>1. n + i < n + j
    BY <1>1
  <2> QED BY <1>3, <2>1 DEF Ordered
<1>5. Ends(rs, st)
  <2>1. ASSUME NEW i \in 1 .. Len(st) PROVE st[i].at = rs[Len(rs) - Len(st) + i]
    <3>1. ms[n + i].at = rs[Len(rs) - Len(ms) + (n + i)]
      BY <1>3 DEF Ends
    <3>2. Len(rs) - Len(ms) + (n + i) = Len(rs) - Len(st) + i
      BY <1>1, <1>2
    <3> QED BY <1>3, <3>1, <3>2
  <2>2. Len(st) <= Len(rs)
    BY <1>1, <1>2
  <2> QED BY <2>1, <2>2 DEF Ends
<1>6. \A i \in 1 .. Len(st) : (\E j \in 1 .. Len(ms) : st[i] = ms[j]) /\ time - st[i].at <= st[i].least * Day
  BY <1>1, <1>3
<1> QED BY <1>4, <1>5, <1>6 DEF st

\* A sweep that nothing needed is older than leaves the last rows.
LEMMA RowsGo ==
    ASSUME HistoryShape, Ends(rows, made), Spans, NEW from \in Int, \A i \in 1 .. Len(made) : made[i].at >= from,
           rows' = H!Kept(from), now' = now
    PROVE  /\ RowsInOrder' /\ Ends(rows', made)
           /\ \A i \in 1 .. Len(rows') : rows'[i] >= from /\ \E j \in 1 .. Len(rows) : rows'[i] = rows[j]
<1>1. PICK n \in 0 .. Len(rows) :
        /\ rows' \in Seq(Nat) /\ Len(rows') = Len(rows) - n /\ Len(rows) \in Nat
        /\ \A i \in 1 .. Len(rows) - n : rows'[i] = rows[n + i] /\ rows[n + i] >= from
        /\ \A i \in 1 .. n : rows[i] < from
  BY KeptIs
<1>2. Len(made) \in Nat /\ Len(made) <= Len(rows)
  BY LenProperties DEF Ends, HistoryShape, Ordered
<1>3. Len(made) <= Len(rows) - n
  <2> SUFFICES ASSUME ~(Len(made) <= Len(rows) - n) PROVE FALSE
    OBVIOUS
  <2> DEFINE i == n - (Len(rows) - Len(made))
  <2>1. i \in 1 .. Len(made) /\ n \in 1 .. n /\ Len(rows) - Len(made) + i = n
    BY <1>1, <1>2
  <2>2. made[i].at = rows[n]
    <3> HIDE DEF i
    <3>1. made[i].at = rows[Len(rows) - Len(made) + i]
      BY <2>1 DEF Ends
    <3> QED BY <2>1, <3>1
  <2> HIDE DEF i
  <2>3. made[i].at >= from /\ made[i].at < from
    BY <1>1, <2>1, <2>2
  <2>4. made[i].at \in Nat
    BY <2>1, RecordIs DEF HistoryShape, Ordered
  <2> QED BY <2>3, <2>4
<1>4. \A i \in 1 .. Len(rows') : n + i \in 1 .. Len(rows) /\ rows'[i] = rows[n + i] /\ rows[n + i] >= from
  <2> SUFFICES ASSUME NEW i \in 1 .. Len(rows')
               PROVE  n + i \in 1 .. Len(rows) /\ rows'[i] = rows[n + i] /\ rows[n + i] >= from
    OBVIOUS
  <2>1. i \in 1 .. Len(rows) - n /\ n + i \in 1 .. Len(rows)
    BY <1>1
  <2> QED BY <1>1, <2>1
<1>5. RowsInOrder'
  <2>1. \A i \in 1 .. Len(rows') : rows'[i] <= now'
    BY <1>4 DEF HistoryShape, RowsInOrder
  <2>2. ASSUME NEW i \in 1 .. Len(rows'), NEW j \in 1 .. Len(rows'), i < j PROVE rows'[i] <= rows'[j]
    <3>1. n + i < n + j
      BY <1>1, <2>2
    <3> QED BY <1>4, <3>1 DEF HistoryShape, RowsInOrder
  <2> QED BY <1>1, <2>1, <2>2 DEF RowsInOrder
<1>6. Ends(rows', made)
  <2>1. ASSUME NEW i \in 1 .. Len(made) PROVE made[i].at = rows'[Len(rows') - Len(made) + i]
    <3>1. /\ Len(rows') - Len(made) + i \in 1 .. Len(rows')
          /\ n + (Len(rows') - Len(made) + i) = Len(rows) - Len(made) + i
      <4> DEFINE x == Len(rows)
                 y == Len(made)
                 z == Len(rows')
      <4> HIDE DEF x, y, z
      <4>1. x \in Nat /\ y \in Nat /\ n \in 0 .. x /\ z = x - n /\ y <= x - n /\ i \in 1 .. y
        BY <1>1, <1>2, <1>3 DEF x, y, z
      <4>2. z - y + i \in 1 .. z /\ n + (z - y + i) = x - y + i
        BY <4>1
      <4> QED BY <4>2 DEF x, y, z
    <3>2. made[i].at = rows[Len(rows) - Len(made) + i]
      BY DEF Ends
    <3> QED BY <1>4, <3>1, <3>2
  <2> QED BY <1>1, <1>3, <2>1 DEF Ends
<1> QED BY <1>4, <1>5, <1>6

\* Days that are set, and those of a file that has been read, are in force for every row.
LEMMA NewDays ==
    ASSUME Spans, HistoryShape, MadeIsThere, NEW d \in H!Days, made' = H!Standing(H!Under(d), now)
    PROVE  /\ Ordered(made)' /\ Ends(rows, made')
           /\ \A i \in 1 .. Len(made') :
                /\ made'[i].least <= d /\ now - made'[i].at <= made'[i].least * Day
                /\ \E j \in 1 .. Len(made) : made'[i].at = made[j].at /\ made'[i].least <= made[j].least
<1> DEFINE ms == H!Under(d)
<1> HIDE DEF ms
<1>1. /\ Ordered(ms) /\ Len(ms) = Len(made) /\ Len(made) \in Nat
      /\ \A i \in 1 .. Len(made) : /\ ms[i].at = made[i].at
                                   /\ ms[i].least <= made[i].least /\ ms[i].least <= d
  BY UnderIs DEF ms
<1>2. Ends(rows, ms)
  BY <1>1 DEF MadeIsThere, Ends
<1>3. \A i \in 1 .. Len(ms) : ms[i].at <= now
  <2> SUFFICES ASSUME NEW i \in 1 .. Len(made) PROVE made[i].at <= now
    BY <1>1
  <2>1. Len(rows) - Len(made) + i \in 1 .. Len(rows)
    <3>1. Len(rows) \in Nat /\ Len(made) <= Len(rows)
      BY LenProperties DEF HistoryShape, RowsInOrder, MadeIsThere, Ends
    <3> QED BY <1>1, <3>1
  <2> QED BY <2>1 DEF MadeIsThere, Ends, HistoryShape, RowsInOrder
<1>4. now \in Nat /\ rows \in Seq(Nat)
  BY DEF HistoryShape, Clocked, RowsInOrder
<1>5. /\ Ordered(H!Standing(ms, now)) /\ Ends(rows, H!Standing(ms, now))
      /\ \A i \in 1 .. Len(H!Standing(ms, now)) :
                /\ \E j \in 1 .. Len(ms) : H!Standing(ms, now)[i] = ms[j]
                /\ now - H!Standing(ms, now)[i].at <= H!Standing(ms, now)[i].least * Day
  BY <1>1, <1>2, <1>3, <1>4, StandingKeeps
<1>6. made' = H!Standing(ms, now)
  BY DEF ms
<1>7. /\ Ordered(made') /\ Ends(rows, made')
      /\ \A i \in 1 .. Len(made') : /\ \E j \in 1 .. Len(ms) : made'[i] = ms[j]
                                    /\ now - made'[i].at <= made'[i].least * Day
  BY <1>5, <1>6
<1>8. ASSUME NEW i \in 1 .. Len(made')
      PROVE  /\ made'[i].least <= d
             /\ \E j \in 1 .. Len(made) : made'[i].at = made[j].at /\ made'[i].least <= made[j].least
  <2>1. PICK j \in 1 .. Len(ms) : made'[i] = ms[j]
    BY <1>7
  <2> QED BY <1>1, <2>1
<1>9. Ordered(made)'
  BY <1>7 DEF Ordered
<1> QED BY <1>7, <1>8, <1>9

\* What is known of a row that must be there, and its bounds.
LEMMA NeededIs ==
    ASSUME Spans, HistoryShape, MadeIsThere, NEW i \in 1 .. Len(made)
    PROVE  /\ made[i].at \in Nat /\ made[i].at <= now /\ made[i].least \in Nat
           /\ made[i].least * Day \in Nat /\ Needed(made[i])
<1>1. made[i].at \in Nat /\ made[i].least \in Nat
  BY RecordIs DEF HistoryShape, Ordered
<1>2. Len(rows) - Len(made) + i \in 1 .. Len(rows)
  <2>1. Len(rows) \in Nat /\ Len(made) \in Nat /\ Len(made) <= Len(rows)
    BY LenProperties DEF HistoryShape, RowsInOrder, Ordered, MadeIsThere, Ends
  <2> QED BY <2>1
<1>3. made[i].at <= now
  BY <1>2 DEF MadeIsThere, Ends, HistoryShape, RowsInOrder
<1>4. made[i].least * Day \in Nat
  BY <1>1 DEF Spans
<1> QED BY <1>1, <1>3, <1>4 DEF MadeIsThere

\* A step that touches neither rows nor days keeps the invariant.
LEMMA NothingChanges ==
    ASSUME HistInv, UNCHANGED <<now, rows, days, file, save, sweep, made, failed, overdue>>
    PROVE  HistInv'
<1>1. HistoryShape'
  BY DEF HistInv, HistoryShape, Clocked, RowsInOrder, SavesAreOfDays, Ordered
<1>2. H!InForce' = H!InForce
  BY DEF H!InForce
<1>3. MadeIsThere'
  BY <1>2 DEF HistInv, MadeIsThere, Ends, Needed
<1>4. SweepsFollow'
  BY <1>2 DEF HistInv, SweepsFollow, Setting, SweptTo, H!CutOff
<1>5. FileFollows'
  BY DEF HistInv, FileFollows, H!Locked
<1> QED BY <1>1, <1>3, <1>4, <1>5 DEF HistInv

\* A new row is the last one, and needed.
LEMMA InsertKeeps ==
    ASSUME HistInv, Spans, NEW c \in Collectors, H!Insert(c)
    PROVE  HistInv'
<1>1. CASE UNCHANGED <<rows, made>>
  BY <1>1, NothingChanges DEF H!Insert
<1>2. CASE rows' = Append(rows, now) /\ made' = Append(made, [at |-> now, least |-> H!InForce])
  <2>1. UNCHANGED <<now, days, file, save, sweep, failed, overdue>> /\ H!InForce' = H!InForce
    BY DEF H!Insert, H!InForce
  <2>2. /\ now \in Nat /\ H!InForce \in H!Days /\ H!InForce \in Nat /\ H!InForce * Day \in Nat
        /\ HistoryShape /\ MadeIsThere /\ rows \in Seq(Nat) /\ made \in Seq(Records)
    BY ForceIs DEF HistInv, HistoryShape, RowsInOrder, Ordered
  <2> DEFINE r == [at |-> now, least |-> H!InForce]
  <2>3. r \in Records /\ r.at = now /\ r.least = H!InForce
    BY <2>2 DEF Records
  <2> HIDE DEF r
  <2>4. /\ rows' \in Seq(Nat) /\ Len(rows') = Len(rows) + 1 /\ Len(rows) \in Nat /\ rows'[Len(rows) + 1] = now
        /\ \A i \in 1 .. Len(rows) : rows'[i] = rows[i]
    BY <1>2, <2>2, AppendProperties, LenProperties
  <2>5. /\ made' \in Seq(Records) /\ Len(made') = Len(made) + 1 /\ Len(made) \in Nat /\ made'[Len(made) + 1] = r
        /\ \A i \in 1 .. Len(made) : made'[i] = made[i]
    <3>1. made' = Append(made, r)
      BY <1>2 DEF r
    <3> QED BY <2>2, <2>3, <3>1, AppendProperties, LenProperties
  <2>6. RowsInOrder'
    <3>1. \A i \in 1 .. Len(rows') : rows'[i] <= now /\ (i = Len(rows) + 1 \/ i \in 1 .. Len(rows))
      <4> SUFFICES ASSUME NEW i \in 1 .. Len(rows')
                   PROVE  rows'[i] <= now /\ (i = Len(rows) + 1 \/ i \in 1 .. Len(rows))
        OBVIOUS
      <4>1. i = Len(rows) + 1 \/ i \in 1 .. Len(rows)
        BY <2>4
      <4>2. \A j \in 1 .. Len(rows) : rows[j] <= now
        BY <2>2 DEF HistoryShape, RowsInOrder
      <4>3. now <= now
        BY <2>2
      <4> QED BY <2>4, <4>1, <4>2, <4>3
    <3>2. \A i, j \in 1 .. Len(rows') : i < j => rows'[i] <= rows'[j]
      <4> SUFFICES ASSUME NEW i \in 1 .. Len(rows'), NEW j \in 1 .. Len(rows'), i < j PROVE rows'[i] <= rows'[j]
        OBVIOUS
      <4>1. i \in 1 .. Len(rows)
        BY <2>4
      <4>2. CASE j = Len(rows) + 1
        BY <2>4, <3>1, <4>2
      <4>3. CASE j \in 1 .. Len(rows)
        BY <2>2, <2>4, <4>1, <4>3 DEF HistoryShape, RowsInOrder
      <4> QED BY <3>1, <4>2, <4>3
    <3> QED BY <2>1, <2>4, <3>1, <3>2 DEF RowsInOrder
  <2>7. \A i \in 1 .. Len(made') : i = Len(made) + 1 \/ i \in 1 .. Len(made)
    BY <2>5
  <2>8. Ordered(made)'
    <3> SUFFICES ASSUME NEW i \in 1 .. Len(made'), NEW j \in 1 .. Len(made'), i < j
                 PROVE  made'[i].at <= made'[j].at /\ made'[i].least <= made'[j].least
      BY <2>5 DEF Ordered
    <3>1. i \in 1 .. Len(made)
      BY <2>5
    <3>2. CASE j = Len(made) + 1
      <4>1. made[i].at <= now /\ made[i].least <= H!InForce
        BY <2>2, <3>1, NeededIs DEF Needed
      <4> QED BY <2>3, <2>5, <3>1, <3>2, <4>1
    <3>3. CASE j \in 1 .. Len(made)
      BY <2>2, <2>5, <3>1, <3>3 DEF HistoryShape, Ordered
    <3> QED BY <2>7, <3>2, <3>3
  <2>9. Ends(rows', made')
    <3>1. Len(made') <= Len(rows')
      BY <2>2, <2>4, <2>5 DEF MadeIsThere, Ends
    <3>2. ASSUME NEW i \in 1 .. Len(made') PROVE made'[i].at = rows'[Len(rows') - Len(made') + i]
      <4>1. CASE i = Len(made) + 1
        <5>1. Len(rows') - Len(made') + i = Len(rows) + 1
          BY <2>4, <2>5, <4>1
        <5> QED BY <2>3, <2>4, <2>5, <4>1, <5>1
      <4>2. CASE i \in 1 .. Len(made)
        <5>1. Len(rows') - Len(made') + i = Len(rows) - Len(made) + i
          BY <2>4, <2>5
        <5>2. Len(rows) - Len(made) + i \in 1 .. Len(rows)
          BY <2>2, <2>4, <2>5, <4>2 DEF MadeIsThere, Ends
        <5>3. made[i].at = rows[Len(rows) - Len(made) + i]
          BY <2>2, <4>2 DEF MadeIsThere, Ends
        <5> QED BY <2>4, <2>5, <4>2, <5>1, <5>2, <5>3
      <4> QED BY <2>7, <4>1, <4>2
    <3> QED BY <3>1, <3>2 DEF Ends
  <2>10. ASSUME NEW i \in 1 .. Len(made') PROVE Needed(made[i])'
    <3>1. CASE i = Len(made) + 1
      <4>1. made'[i].at = now /\ made'[i].least = H!InForce
        BY <2>3, <2>5, <3>1
      <4>2. sweep.pc = "deletes" => now >= sweep.cutoff
        BY <2>2 DEF HistoryShape, Clocked, Sweeps
      <4>3. now - now <= H!InForce * Day /\ H!InForce <= H!InForce
        BY <2>2
      <4> QED BY <2>1, <4>1, <4>2, <4>3 DEF Needed
    <3>2. CASE i \in 1 .. Len(made)
      <4>1. made'[i] = made[i] /\ Needed(made[i])
        BY <2>2, <2>5, <3>2, NeededIs
      <4> QED BY <2>1, <4>1 DEF Needed
    <3> QED BY <2>7, <3>1, <3>2
  <2>11. Clocked' /\ SavesAreOfDays'
    BY <2>1, <2>2 DEF HistoryShape, Clocked, SavesAreOfDays
  <2>12. SweepsFollow'
    <3>1. \A i \in 1 .. Len(rows') : rows'[i] = now \/ \E j \in 1 .. Len(rows) : rows'[i] = rows[j]
      BY <2>4
    <3>2. \A time \in Int : time <= now => now >= time - H!InForce * Day
      BY <2>2
    <3>3. \A time \in Int : time <= now /\ SweptTo(time) => SweptTo(time)'
      BY <2>1, <3>1, <3>2 DEF SweptTo
    <3>4. sweep.wake - Every \in Int /\ sweep.wake - Every <= now /\ now <= now
      BY <2>2 DEF HistInv, SweepsFollow, HistoryShape, Clocked, Sweeps, Spans
    <3>5. Setting' = Setting
      BY <2>1 DEF Setting
    <3>6. SweptTo(sweep.wake - Every) => SweptTo(sweep.wake - Every)'
      BY <2>1, <3>3, <3>4
    <3>7. SweptTo(now) => SweptTo(now)'
      BY <2>1, <2>2, <3>3, <3>4
    <3> QED BY <2>1, <3>5, <3>6, <3>7 DEF HistInv, SweepsFollow, H!CutOff
  <2>13. FileFollows'
    BY <2>1 DEF HistInv, FileFollows, H!Locked
  <2> QED BY <2>6, <2>8, <2>9, <2>10, <2>11, <2>12, <2>13 DEF HistInv, HistoryShape, MadeIsThere
<1> QED BY <1>1, <1>2 DEF H!Insert

\* A turn of the loop goes by the days in force, which no needed row has outlived.
LEMMA WakeKeeps ==
    ASSUME HistInv, Spans, H!Wake
    PROVE  HistInv'
<1>1. /\ UNCHANGED <<now, rows, file, save, made, failed>> /\ sweep.pc = "asleep" /\ sweep \in Sweeps
      /\ now \in Nat /\ Every \in Nat /\ sweep.wake = now /\ HistoryShape /\ MadeIsThere
      /\ H!InForce \in H!Days /\ H!InForce \in Nat /\ H!InForce * Day \in Nat
  BY ForceIs DEF HistInv, H!Wake, HistoryShape, Clocked, Sweeps, Spans
<1>2. RowsInOrder' /\ Ordered(made)' /\ Ends(rows', made')
  BY <1>1 DEF HistoryShape, RowsInOrder, Ordered, MadeIsThere
<1>3. CASE quiet
  <2>1. sweep' = [pc |-> "asleep", wake |-> now + Every, cutoff |-> 0] /\ overdue' = TRUE /\ days' = days
    BY <1>3 DEF H!Wake, H!Asleep
  <2>2. Clocked' /\ SavesAreOfDays'
    BY <1>1, <2>1 DEF HistoryShape, Clocked, SavesAreOfDays, Sweeps
  <2>3. H!InForce' = H!InForce
    BY <1>1, <2>1 DEF H!InForce
  <2>4. \A i \in 1 .. Len(made') : Needed(made[i])'
    BY <1>1, <2>1, <2>3 DEF MadeIsThere, Needed
  <2>5. SweepsFollow'
    BY <1>1, <2>1 DEF SweepsFollow
  <2>6. FileFollows'
    BY <1>1, <2>1 DEF HistInv, FileFollows, H!Locked
  <2> QED BY <1>2, <2>2, <2>4, <2>5, <2>6 DEF HistInv, HistoryShape, MadeIsThere
<1>4. CASE ~quiet
  <2>1. /\ sweep' = [sweep EXCEPT !.pc = "deletes", !.cutoff = now - H!InForce * Day]
        /\ days' = H!InForce /\ overdue' = overdue
    BY <1>4 DEF H!Wake, H!CutOff
  <2>2. sweep'.pc = "deletes" /\ sweep'.cutoff = now - H!InForce * Day /\ sweep'.wake = sweep.wake /\ sweep' \in Sweeps
    <3> DEFINE from == now - H!InForce * Day
    <3>1. from \in Int /\ sweep' = [sweep EXCEPT !.pc = "deletes", !.cutoff = from]
      BY <1>1, <2>1
    <3> HIDE DEF from
    <3>2. sweep'.pc = "deletes" /\ sweep'.cutoff = from /\ sweep'.wake = sweep.wake /\ sweep' \in Sweeps
      BY <1>1, <3>1 DEF Sweeps
    <3> QED BY <3>2 DEF from
  <2>3. H!InForce # 0
    BY <1>1 DEF H!Days
  <2>4. H!InForce' = H!InForce
    BY <2>1, <2>3 DEF H!InForce
  <2>5. Clocked'
    BY <1>1, <2>2 DEF HistoryShape, Clocked
  <2>6. SavesAreOfDays'
    <3>1. \A t \in Tabs : save[t].pc = "memory" => days # 0 /\ days = H!InForce
      BY <1>1 DEF HistoryShape, SavesAreOfDays, H!InForce
    <3> QED BY <1>1, <2>1, <2>3, <3>1 DEF HistoryShape, SavesAreOfDays
  <2>7. ASSUME NEW i \in 1 .. Len(made) PROVE Needed(made[i])'
    <3>1. /\ made[i].at \in Nat /\ made[i].least \in Nat /\ made[i].least * Day \in Nat /\ Needed(made[i])
      BY <1>1, NeededIs
    <3>2. made[i].least * Day <= H!InForce * Day
      BY <1>1, <3>1, DaysAreLonger DEF Needed
    <3>3. made[i].at >= now - H!InForce * Day
      BY <1>1, <3>1, <3>2 DEF Needed
    <3> QED BY <1>1, <2>2, <2>4, <3>1, <3>3 DEF Needed
  <2>8. SweepsFollow'
    <3>1. ~overdue => Setting \/ sweep'.cutoff >= H!CutOff(H!InForce)
      BY <1>1, <2>2 DEF H!CutOff
    <3>2. Setting' = Setting /\ H!CutOff(H!InForce)' = H!CutOff(H!InForce)
      BY <1>1, <2>4 DEF Setting, H!CutOff
    <3> QED BY <1>1, <2>1, <2>2, <3>1, <3>2 DEF HistInv, SweepsFollow
  <2>9. FileFollows'
    <3>1. days = 0 => days' = file
      BY <2>1 DEF H!InForce
    <3>2. days # 0 => days' = days
      BY <2>1 DEF H!InForce
    <3> QED BY <1>1, <3>1, <3>2 DEF HistInv, FileFollows, H!Locked
  <2> QED BY <1>1, <1>2, <2>5, <2>6, <2>7, <2>8, <2>9 DEF HistInv, HistoryShape, MadeIsThere
<1> QED BY <1>3, <1>4

\* New days are in memory before anything is swept by them.
LEMMA SetDaysKeeps ==
    ASSUME HistInv, Spans, NEW t \in Tabs, H!SetDays(t)
    PROVE  HistInv'
<1>1. PICK d \in H!Days :
        /\ days' = d /\ made' = H!Standing(H!Under(d), now)
        /\ save' = [save EXCEPT ![t] = [pc |-> "memory", days |-> d]]
  BY DEF H!SetDays
<1>2. /\ UNCHANGED <<now, rows, file, sweep, failed, overdue>> /\ save[t].pc = "idle" /\ ~H!Locked
      /\ now \in Nat /\ sweep \in Sweeps /\ HistoryShape /\ MadeIsThere /\ d \in Nat /\ d # 0
      /\ save \in [Tabs -> SaveStates]
  BY DEF HistInv, H!SetDays, HistoryShape, Clocked, SavesAreOfDays, H!Days, Spans
<1>3. /\ Ordered(made)' /\ Ends(rows', made')
      /\ \A i \in 1 .. Len(made') :
           /\ made'[i].least <= d /\ now - made'[i].at <= made'[i].least * Day
           /\ \E j \in 1 .. Len(made) : made'[i].at = made[j].at /\ made'[i].least <= made[j].least
  BY <1>1, <1>2, NewDays
<1>4. H!InForce' = d
  BY <1>1, <1>2 DEF H!InForce
<1>5. /\ save'[t] = [pc |-> "memory", days |-> d] /\ save' \in [Tabs -> SaveStates]
      /\ \A u \in Tabs : u # t => save'[u] = save[u] /\ save[u].pc # "memory"
  BY <1>1, <1>2 DEF H!Locked, SaveStates
<1>6. SavesAreOfDays'
  <2>1. \A u \in Tabs : save'[u].pc = "memory" => u = t
    BY <1>5
  <2>2. \A u \in Tabs : save'[u].pc # "idle" => save'[u].days # 0
    BY <1>2, <1>5 DEF HistoryShape, SavesAreOfDays
  <2>3. save'[t].days = d
    BY <1>5
  <2>4. \A u \in Tabs : save'[u].pc # "idle" => days' # 0 /\ save'[u].days # 0
    BY <1>1, <1>2, <2>2
  <2>5. \A u, v \in Tabs : save'[u].pc = "memory" /\ save'[v].pc = "memory" => u = v
    BY <2>1
  <2>6. \A u \in Tabs : save'[u].pc = "memory" => save'[u].days = days'
    BY <1>1, <2>1, <2>3
  <2>7. days' \in H!Days \cup {0} /\ file' \in H!Days
    BY <1>1, <1>2 DEF HistoryShape, SavesAreOfDays
  <2>8. H!Days' = H!Days /\ SaveStates' = SaveStates
    BY DEF H!Days, SaveStates
  <2> QED BY <1>5, <2>4, <2>5, <2>6, <2>7, <2>8 DEF SavesAreOfDays
<1>7. Clocked' /\ RowsInOrder'
  BY <1>2 DEF HistoryShape, Clocked, RowsInOrder, Sweeps
<1>8. ASSUME NEW i \in 1 .. Len(made') PROVE Needed(made[i])'
  <2>1. PICK j \in 1 .. Len(made) : made'[i].at = made[j].at /\ made'[i].least <= made[j].least
    BY <1>3
  <2>2. /\ Needed(made[j]) /\ made[j].least \in Nat /\ made[j].at \in Nat /\ made'[i].least \in Nat
    <3>1. made'[i].least \in Nat
      BY <1>3, RecordIs DEF Ordered
    <3> QED BY <1>2, <3>1, NeededIs
  <2>3. \A u \in Tabs : save'[u].pc # "idle" => made'[i].least <= save'[u].days \/ made'[i].at = now
    <3> SUFFICES ASSUME NEW u \in Tabs, save'[u].pc # "idle" PROVE made'[i].least <= save'[u].days \/ made'[i].at = now
      OBVIOUS
    <3>1. CASE u = t
      BY <1>3, <1>5, <3>1
    <3>2. CASE u # t
      <4>1. made[j].least <= save[u].days \/ made[j].at = now
        BY <1>5, <2>2, <3>2 DEF Needed
      <4>2. save[u].days \in Nat
        BY <1>2 DEF SaveStates, H!Days, Spans
      <4>3. save'[u].days = save[u].days
        BY <1>5, <3>2
      <4> QED BY <2>1, <2>2, <4>1, <4>2, <4>3
    <3> QED BY <3>1, <3>2
  <2> QED BY <1>2, <1>3, <1>4, <2>1, <2>2, <2>3 DEF Needed
<1>9. SweepsFollow'
  <2>1. Setting'
    BY <1>4, <1>5 DEF Setting
  <2> QED BY <1>2, <2>1 DEF HistInv, SweepsFollow
<1>10. FileFollows'
  BY <1>5 DEF FileFollows, H!Locked
<1> QED BY <1>3, <1>6, <1>7, <1>8, <1>9, <1>10 DEF HistInv, HistoryShape, MadeIsThere

\* And in the file, or the failure is noted.
LEMMA WriteDaysKeeps ==
    ASSUME HistInv, Spans, NEW t \in Tabs, H!WriteDays(t)
    PROVE  HistInv'
<1>1. /\ UNCHANGED <<now, rows, days, sweep, made, overdue>> /\ save[t].pc = "memory" /\ save' = [save EXCEPT ![t].pc = "file"]
      /\ HistoryShape /\ MadeIsThere /\ save \in [Tabs -> SaveStates] /\ save[t].days = days /\ days # 0
  BY DEF HistInv, H!WriteDays, HistoryShape, SavesAreOfDays
<1>2. (file' = save[t].days /\ failed' = failed) \/ (failed' = TRUE /\ file' = file)
  BY DEF H!WriteDays
<1>3. H!InForce' = H!InForce
  BY <1>1 DEF H!InForce
<1>4. /\ save' \in [Tabs -> SaveStates] /\ save'[t].pc = "file"
      /\ \A u \in Tabs : save'[u].days = save[u].days /\ (u # t => save'[u] = save[u])
      /\ \A u \in Tabs : save'[u].pc # "idle" <=> save[u].pc # "idle"
  BY <1>1 DEF SaveStates
<1>5. \A u \in Tabs : save'[u].pc # "memory"
  BY <1>1, <1>4 DEF HistoryShape, SavesAreOfDays
<1>6. SavesAreOfDays'
  <2>1. days' \in H!Days \cup {0} /\ file' \in H!Days
    BY <1>1, <1>2 DEF HistoryShape, SavesAreOfDays
  <2>2. \A u \in Tabs : save'[u].pc # "idle" => days' # 0 /\ save'[u].days # 0
    BY <1>1, <1>4 DEF HistoryShape, SavesAreOfDays
  <2>3. H!Days' = H!Days /\ SaveStates' = SaveStates
    BY DEF H!Days, SaveStates
  <2> QED BY <1>4, <1>5, <2>1, <2>2, <2>3 DEF SavesAreOfDays
<1>7. Clocked' /\ RowsInOrder' /\ Ordered(made)' /\ Ends(rows', made')
  BY <1>1 DEF HistoryShape, Clocked, RowsInOrder, Ordered, MadeIsThere
<1>8. \A i \in 1 .. Len(made') : Needed(made[i])'
  BY <1>1, <1>3, <1>4 DEF MadeIsThere, Needed
<1>9. SweepsFollow'
  <2>1. Setting' = Setting /\ H!CutOff(H!InForce)' = H!CutOff(H!InForce)
    BY <1>1, <1>3, <1>4 DEF Setting, H!CutOff
  <2> QED BY <1>1, <1>3, <2>1 DEF HistInv, SweepsFollow, SweptTo
<1>10. FileFollows'
  BY <1>1, <1>2 DEF FileFollows
<1> QED BY <1>6, <1>7, <1>8, <1>9, <1>10 DEF HistInv, HistoryShape, MadeIsThere

\* Rows that have been swept by a time stay so when more are deleted.
LEMMA StillSwept ==
    ASSUME NEW time \in Int, SweptTo(time), H!InForce' = H!InForce,
           \A i \in 1 .. Len(rows') : \E j \in 1 .. Len(rows) : rows'[i] = rows[j]
    PROVE  \A i \in 1 .. Len(rows') : rows'[i] >= time - H!InForce * Day
BY DEF SweptTo

\* The loop's delete reaches no row that is needed, whatever was set since it took the time.
LEMMA DeleteKeeps ==
    ASSUME HistInv, Spans, H!Delete
    PROVE  HistInv'
<1>1. /\ UNCHANGED <<now, days, file, save, made, failed>> /\ sweep.pc = "deletes" /\ sweep \in Sweeps
      /\ sweep' = [pc |-> "asleep", wake |-> now + Every, cutoff |-> 0]
      /\ now \in Nat /\ Every \in Nat /\ HistoryShape /\ MadeIsThere
      /\ H!InForce \in Nat /\ H!InForce * Day \in Nat
  BY ForceIs DEF HistInv, H!Delete, H!Asleep, HistoryShape, Clocked, Spans
<1>2. H!InForce' = H!InForce /\ H!CutOff(H!InForce) = now - H!InForce * Day
  BY <1>1 DEF H!InForce, H!CutOff
<1>3. sweep'.pc = "asleep" /\ sweep'.wake = now + Every /\ sweep'.wake - Every = now /\ sweep' \in Sweeps
  BY <1>1 DEF Sweeps
<1>4. Clocked' /\ SavesAreOfDays' /\ Ordered(made)' /\ FileFollows' /\ Setting' = Setting
  BY <1>1, <1>2, <1>3 DEF HistInv, HistoryShape, Clocked, SavesAreOfDays, Ordered, FileFollows, H!Locked, Setting
<1>5. \A i \in 1 .. Len(made') : Needed(made[i])'
  BY <1>1, <1>2, <1>3 DEF MadeIsThere, Needed
<1>6. CASE UNCHANGED rows /\ overdue' = TRUE
  <2>1. RowsInOrder' /\ Ends(rows', made')
    BY <1>1, <1>6 DEF HistoryShape, RowsInOrder, MadeIsThere
  <2>2. SweepsFollow'
    BY <1>1, <1>3, <1>6 DEF SweepsFollow
  <2> QED BY <1>4, <1>5, <2>1, <2>2 DEF HistInv, HistoryShape, MadeIsThere
<1>7. CASE rows' = H!Kept(sweep.cutoff) /\ overdue' = (overdue /\ sweep.cutoff < H!CutOff(H!InForce))
  <2>1. \A i \in 1 .. Len(made) : made[i].at >= sweep.cutoff
    BY <1>1 DEF MadeIsThere, Needed
  <2>2. sweep.cutoff \in Int
    BY <1>1 DEF Sweeps
  <2>3. /\ RowsInOrder' /\ Ends(rows', made)
        /\ \A i \in 1 .. Len(rows') : rows'[i] >= sweep.cutoff /\ \E j \in 1 .. Len(rows) : rows'[i] = rows[j]
    BY <1>1, <1>7, <2>1, <2>2, RowsGo DEF MadeIsThere
  <2>4. \A i \in 1 .. Len(rows') : rows'[i] \in Nat
    BY <2>3, ElementOfSeq DEF RowsInOrder
  <2>5. ASSUME ~overdue', ~Setting PROVE SweptTo(now)'
    <3>1. CASE sweep.cutoff >= now - H!InForce * Day
      <4>1. \A i \in 1 .. Len(rows') : rows'[i] >= now - H!InForce * Day
        BY <1>1, <2>2, <2>3, <2>4, <3>1
      <4> QED BY <1>1, <1>2, <4>1 DEF SweptTo
    <3>2. CASE ~(sweep.cutoff >= now - H!InForce * Day)
      <4>1. ~overdue
        <5>1. sweep.cutoff < H!CutOff(H!InForce)
          BY <1>1, <1>2, <2>2, <3>2
        <5> QED BY <1>7, <2>5, <5>1, Zenon
      <4>2. SweptTo(now)
        BY <1>1, <1>2, <2>5, <3>2, <4>1 DEF HistInv, SweepsFollow
      <4>3. \A i \in 1 .. Len(rows') : rows'[i] >= now - H!InForce * Day
        BY <1>1, <1>2, <2>3, <4>2, StillSwept
      <4> QED BY <1>1, <1>2, <4>3 DEF SweptTo
    <3> QED BY <3>1, <3>2
  <2>6. SweepsFollow'
    <3>1. (sweep.wake - Every)' = now' /\ now' <= now'
      BY <1>1, <1>3
    <3>2. SweptTo(now)' => SweptTo(sweep.wake - Every)'
      BY <3>1 DEF SweptTo
    <3> QED BY <1>3, <1>4, <2>5, <3>1, <3>2 DEF SweepsFollow
  <2> QED BY <1>1, <1>4, <1>5, <2>3, <2>6 DEF HistInv, HistoryShape, MadeIsThere
<1> QED BY <1>6, <1>7 DEF H!Delete

\* Nor does that of a request, under which every row but the present ones has been.
LEMMA SweepAtOnceKeeps ==
    ASSUME HistInv, Spans, NEW t \in Tabs, H!SweepAtOnce(t)
    PROVE  HistInv'
<1>1. /\ UNCHANGED <<now, days, file, sweep, made, failed>> /\ save[t].pc = "file"
      /\ save' = [save EXCEPT ![t] = H!NoSave] /\ save \in [Tabs -> SaveStates] /\ sweep \in Sweeps
      /\ now \in Nat /\ Every \in Nat /\ HistoryShape /\ MadeIsThere
      /\ H!InForce \in Nat /\ H!InForce * Day \in Nat
  BY ForceIs DEF HistInv, H!SweepAtOnce, HistoryShape, Clocked, SavesAreOfDays, Spans
<1>2. H!InForce' = H!InForce
  BY <1>1 DEF H!InForce
<1>3. /\ save' \in [Tabs -> SaveStates] /\ save'[t] = H!NoSave /\ \A u \in Tabs : u # t => save'[u] = save[u]
      /\ save'[t].pc = "idle"
  BY <1>1 DEF SaveStates, H!NoSave
<1>4. save[t].days \in Nat
  BY <1>1 DEF SaveStates, H!Days, Spans
<1>5. SavesAreOfDays'
  <2>1. \A u \in Tabs : save'[u].pc # "idle" => u # t /\ save'[u] = save[u]
    BY <1>3
  <2>2. \A u \in Tabs : save'[u].pc = "memory" => u # t /\ save'[u] = save[u]
    BY <1>3
  <2> QED BY <1>1, <1>3, <2>1, <2>2 DEF HistoryShape, SavesAreOfDays
<1>6. Clocked' /\ Ordered(made)'
  BY <1>1 DEF HistoryShape, Clocked, Ordered
<1>7. \A i \in 1 .. Len(made') : Needed(made[i])'
  <2> SUFFICES ASSUME NEW i \in 1 .. Len(made) PROVE Needed(made[i])'
    BY <1>1
  <2>1. Needed(made[i])
    BY <1>1 DEF MadeIsThere
  <2>2. \A u \in Tabs : save'[u].pc # "idle" => made[i].least <= save'[u].days \/ made[i].at = now
    BY <1>3, <2>1 DEF Needed
  <2> QED BY <1>1, <1>2, <2>1, <2>2 DEF Needed
<1>8. FileFollows'
  BY <1>1, <1>3 DEF HistInv, FileFollows, H!Locked
<1>9. CASE UNCHANGED rows /\ overdue' = TRUE
  <2>1. RowsInOrder' /\ Ends(rows', made')
    BY <1>1, <1>9 DEF HistoryShape, RowsInOrder, MadeIsThere
  <2>2. SweepsFollow'
    BY <1>1, <1>9 DEF HistInv, SweepsFollow
  <2> QED BY <1>5, <1>6, <1>7, <1>8, <2>1, <2>2 DEF HistInv, HistoryShape, MadeIsThere
<1>10. CASE rows' = H!Kept(H!CutOff(save[t].days)) /\ UNCHANGED overdue
  <2> DEFINE from == H!CutOff(save[t].days)
  <2>1. from \in Int /\ from = now - save[t].days * Day /\ save[t].days * Day \in Nat
    <3>1. save[t].days * Day \in Nat
      BY <1>4 DEF Spans
    <3> QED BY <1>1, <3>1 DEF H!CutOff
  <2> HIDE DEF from
  <2>2. ASSUME NEW i \in 1 .. Len(made) PROVE made[i].at >= from
    <3>1. /\ made[i].at \in Nat /\ made[i].least \in Nat /\ made[i].least * Day \in Nat /\ Needed(made[i])
      BY <1>1, NeededIs
    <3>2. CASE made[i].at = now
      BY <1>1, <2>1, <3>2
    <3>3. CASE made[i].least <= save[t].days
      <4>1. made[i].least * Day <= save[t].days * Day
        BY <1>4, <3>1, <3>3, DaysAreLonger
      <4>2. now - made[i].at <= made[i].least * Day
        BY <3>1 DEF Needed
      <4> DEFINE p == made[i].least * Day
                 q == save[t].days * Day
      <4>3. p \in Nat /\ q \in Nat /\ p <= q /\ now - made[i].at <= p /\ from = now - q /\ now \in Nat /\ made[i].at \in Nat
        BY <1>1, <2>1, <3>1, <4>1, <4>2
      <4> HIDE DEF p, q
      <4> QED BY <4>3
    <3> QED BY <1>1, <3>1, <3>2, <3>3 DEF Needed
  <2>3. rows' = H!Kept(from) /\ overdue' = overdue
    BY <1>10 DEF from
  <2>4. /\ RowsInOrder' /\ Ends(rows', made)
        /\ \A i \in 1 .. Len(rows') : rows'[i] >= from /\ \E j \in 1 .. Len(rows) : rows'[i] = rows[j]
    BY <1>1, <2>1, <2>2, <2>3, RowsGo DEF MadeIsThere
  <2>5. \A i \in 1 .. Len(rows') : rows'[i] \in Nat
    BY <2>4, ElementOfSeq DEF RowsInOrder
  <2>6. SweepsFollow'
    <3>1. sweep.wake - Every <= now /\ sweep.wake - Every \in Int
      BY <1>1 DEF HistInv, SweepsFollow, Sweeps
    <3>2. (sweep.wake - Every)' <= now'
      BY <1>1, <3>1
    <3>3. CASE overdue
      BY <2>3, <3>2, <3>3 DEF SweepsFollow
    <3>4. CASE ~overdue /\ \E u \in Tabs : u # t /\ save[u].pc # "idle" /\ save[u].days = H!InForce
      <4>1. Setting'
        BY <1>2, <1>3, <3>4 DEF Setting
      <4> QED BY <3>2, <4>1 DEF SweepsFollow
    <3>5. CASE save[t].days = H!InForce
      <4>1. \A i \in 1 .. Len(rows') : rows'[i] >= now - H!InForce * Day
        BY <2>1, <2>4, <3>5
      <4>2. SweptTo(now)'
        BY <1>1, <1>2, <4>1 DEF SweptTo
      <4>3. \A i \in 1 .. Len(rows') : rows'[i] >= (sweep.wake - Every) - H!InForce * Day
        BY <1>1, <2>5, <3>1, <4>1
      <4>4. SweptTo(sweep.wake - Every)'
        BY <1>1, <1>2, <4>3 DEF SweptTo
      <4>5. sweep'.pc \in {"asleep", "deletes"}
        BY <1>1 DEF Sweeps
      <4> QED BY <3>2, <4>2, <4>4, <4>5 DEF SweepsFollow
    <3>6. CASE ~overdue /\ ~Setting
      <4>1. SweptTo(sweep.wake - Every) => SweptTo(sweep.wake - Every)'
        <5> SUFFICES ASSUME SweptTo(sweep.wake - Every) PROVE SweptTo(sweep.wake - Every)'
          OBVIOUS
        <5>1. \A i \in 1 .. Len(rows') : rows'[i] >= (sweep.wake - Every) - H!InForce * Day
          BY <1>2, <2>4, <3>1, StillSwept
        <5> QED BY <1>1, <1>2, <5>1 DEF SweptTo
      <4>2. SweptTo(now) => SweptTo(now)'
        <5> SUFFICES ASSUME SweptTo(now) PROVE SweptTo(now)'
          OBVIOUS
        <5>1. \A i \in 1 .. Len(rows') : rows'[i] >= now - H!InForce * Day
          BY <1>1, <1>2, <2>4, StillSwept
        <5> QED BY <1>1, <1>2, <5>1 DEF SweptTo
      <4>3. H!CutOff(H!InForce)' = H!CutOff(H!InForce)
        BY <1>1, <1>2 DEF H!CutOff
      <4> QED BY <1>1, <3>2, <3>6, <4>1, <4>2, <4>3 DEF HistInv, SweepsFollow
    <3> QED BY <3>3, <3>4, <3>5, <3>6 DEF Setting
  <2> QED BY <1>1, <1>5, <1>6, <1>7, <1>8, <2>4, <2>6 DEF HistInv, HistoryShape, MadeIsThere
<1> QED BY <1>9, <1>10 DEF H!SweepAtOnce

\* Time gives up the first rows of the history.
LEMMA HistoryAdvances ==
    ASSUME HistInv, Spans, H!Advance
    PROVE  HistInv'
<1>1. /\ UNCHANGED <<rows, days, file, save, sweep, failed, overdue>> /\ now' = now + 1 /\ made' = H!Standing(made, now + 1)
      /\ sweep.pc = "asleep" /\ now < sweep.wake /\ \A t \in Tabs : save[t].pc = "idle"
      /\ now \in Nat /\ now + 1 \in Nat /\ sweep.wake \in Nat /\ Every \in Nat /\ HistoryShape /\ MadeIsThere
      /\ rows \in Seq(Nat)
  BY DEF HistInv, H!Advance, HistoryShape, Clocked, Sweeps, RowsInOrder, Spans
<1>2. H!InForce' = H!InForce
  BY <1>1 DEF H!InForce
<1>3. \A i \in 1 .. Len(made) : made[i].at <= now + 1
  <2> SUFFICES ASSUME NEW i \in 1 .. Len(made) PROVE made[i].at <= now + 1
    OBVIOUS
  <2>1. made[i].at <= now /\ made[i].at \in Nat
    BY <1>1, NeededIs
  <2> QED BY <1>1, <2>1
<1>4. /\ Ordered(made') /\ Ends(rows, made')
      /\ \A i \in 1 .. Len(made') : /\ \E j \in 1 .. Len(made) : made'[i] = made[j]
                                    /\ (now + 1) - made'[i].at <= made'[i].least * Day
  BY <1>1, <1>3, StandingKeeps DEF HistoryShape, MadeIsThere
<1>5. Ordered(made)' /\ SavesAreOfDays'
  BY <1>1, <1>4 DEF HistoryShape, SavesAreOfDays, Ordered
<1>6. Clocked'
  BY <1>1 DEF HistoryShape, Clocked
<1>7. RowsInOrder'
  <2>1. ASSUME NEW i \in 1 .. Len(rows) PROVE rows[i] <= now + 1
    <3>1. rows[i] \in Nat /\ rows[i] <= now
      BY <1>1, ElementOfSeq DEF HistoryShape, RowsInOrder
    <3> QED BY <1>1, <3>1
  <2> QED BY <1>1, <2>1 DEF HistoryShape, RowsInOrder
<1>8. ASSUME NEW i \in 1 .. Len(made') PROVE Needed(made[i])'
  <2>1. PICK j \in 1 .. Len(made) : made'[i] = made[j]
    BY <1>4
  <2>2. Needed(made[j])
    BY <1>1, NeededIs
  <2>3. now' - made'[i].at <= made'[i].least * Day
    BY <1>1, <1>4
  <2> QED BY <1>1, <1>2, <2>1, <2>2, <2>3 DEF Needed
<1>9. SweepsFollow'
  <2>1. (sweep.wake - Every)' <= now'
    BY <1>1 DEF HistInv, SweepsFollow
  <2>2. ~overdue => SweptTo(sweep.wake - Every)
    BY <1>1 DEF HistInv, SweepsFollow, Setting
  <2>3. ~overdue => SweptTo(sweep.wake - Every)'
    BY <1>1, <1>2, <2>2 DEF SweptTo
  <2> QED BY <1>1, <2>1, <2>3 DEF SweepsFollow
<1>10. FileFollows'
  BY <1>1 DEF HistInv, FileFollows, H!Locked
<1> QED BY <1>1, <1>4, <1>5, <1>6, <1>7, <1>8, <1>9, <1>10 DEF HistInv, HistoryShape, MadeIsThere

\* After a restart the days of the file are in force.
LEMMA HistoryRestarts ==
    ASSUME HistInv, Spans, H!Restart
    PROVE  HistInv'
<1>1. /\ UNCHANGED <<now, rows, file>> /\ days' = 0 /\ save' = [t \in Tabs |-> H!NoSave]
      /\ sweep' = [pc |-> "asleep", wake |-> now, cutoff |-> 0] /\ overdue' = TRUE
      /\ made' = H!Standing(H!Under(file), now)
      /\ now \in Nat /\ Every \in Nat /\ HistoryShape /\ MadeIsThere /\ file \in H!Days
  BY DEF HistInv, H!Restart, H!Asleep, HistoryShape, Clocked, SavesAreOfDays, Spans
<1>2. /\ Ordered(made)' /\ Ends(rows', made')
      /\ \A i \in 1 .. Len(made') :
           /\ made'[i].least <= file /\ now - made'[i].at <= made'[i].least * Day
           /\ \E j \in 1 .. Len(made) : made'[i].at = made[j].at /\ made'[i].least <= made[j].least
  BY <1>1, NewDays
<1>3. H!InForce' = file /\ sweep'.pc = "asleep" /\ sweep'.wake = now /\ sweep' \in Sweeps
  BY <1>1 DEF H!InForce, Sweeps
<1>4. save' \in [Tabs -> SaveStates] /\ \A t \in Tabs : save'[t].pc = "idle"
  BY <1>1 DEF SaveStates, H!NoSave
<1>5. Clocked' /\ SavesAreOfDays' /\ RowsInOrder'
  BY <1>1, <1>3, <1>4 DEF HistoryShape, Clocked, SavesAreOfDays, RowsInOrder
<1>6. ASSUME NEW i \in 1 .. Len(made') PROVE Needed(made[i])'
  BY <1>1, <1>2, <1>3, <1>4 DEF Needed
<1>7. SweepsFollow' /\ FileFollows'
  BY <1>1, <1>3 DEF SweepsFollow, FileFollows
<1> QED BY <1>2, <1>5, <1>6, <1>7 DEF HistInv, HistoryShape, MadeIsThere

\* The first state: no rows.
LEMMA InitHist ==
    ASSUME H!Init, Spans
    PROVE  HistInv
<1>1. /\ now = 0 /\ rows = <<>> /\ made = <<>> /\ days = 0 /\ file \in H!Days /\ overdue = TRUE
      /\ save = [t \in Tabs |-> H!NoSave] /\ sweep = [pc |-> "asleep", wake |-> 0, cutoff |-> 0]
  BY DEF H!Init, H!Asleep
<1>2. sweep.pc = "asleep" /\ sweep.wake = 0 /\ sweep \in Sweeps
  BY <1>1 DEF Sweeps
<1>3. save \in [Tabs -> SaveStates] /\ \A t \in Tabs : save[t].pc = "idle"
  BY <1>1 DEF SaveStates, H!NoSave
<1>4. rows \in Seq(Nat) /\ made \in Seq(Records) /\ Len(rows) = 0 /\ Len(made) = 0
  BY <1>1, EmptySeq
<1>5. Every \in Nat /\ 0 - Every <= 0
  BY DEF Spans
<1> QED BY <1>1, <1>2, <1>3, <1>4, <1>5
        DEF HistInv, HistoryShape, Clocked, RowsInOrder, SavesAreOfDays, Ordered, MadeIsThere, Ends, SweepsFollow, FileFollows

\* Every step of collectors, sweeps, requests and of the service keeps the invariant.
LEMMA HistInductive ==
    ASSUME HistInv, Spans, [H!Next]_H!vars
    PROVE  HistInv'
<1>1. CASE UNCHANGED H!vars
  BY <1>1, NothingChanges DEF H!vars
<1>2. ASSUME NEW c \in Collectors, H!PassGate(c) PROVE HistInv'
  BY <1>2, NothingChanges DEF H!PassGate
<1>3. ASSUME NEW c \in Collectors, H!Insert(c) PROVE HistInv'
  BY <1>3, InsertKeeps
<1>4. ASSUME NEW t \in Tabs, H!SetDays(t) PROVE HistInv'
  BY <1>4, SetDaysKeeps
<1>5. ASSUME NEW t \in Tabs, H!WriteDays(t) PROVE HistInv'
  BY <1>5, WriteDaysKeeps
<1>6. ASSUME NEW t \in Tabs, H!SweepAtOnce(t) PROVE HistInv'
  BY <1>6, SweepAtOnceKeeps
<1>7. CASE H!Wake
  BY <1>7, WakeKeeps
<1>8. CASE H!Delete
  BY <1>8, DeleteKeeps
<1>9. CASE H!Toggle
  BY <1>9, NothingChanges DEF H!Toggle
<1>10. CASE H!Advance
  BY <1>10, HistoryAdvances
<1>11. CASE H!Restart
  BY <1>11, HistoryRestarts
<1> QED BY <1>1, <1>2, <1>3, <1>4, <1>5, <1>6, <1>7, <1>8, <1>9, <1>10, <1>11 DEF H!Next

\* The invariant of the history holds in every reachable state.
THEOREM HistoryIsSafe == Spans /\ H!Spec => []HistInv
<1> SUFFICES ASSUME Spans PROVE H!Spec => []HistInv
  OBVIOUS
<1>1. H!Init => HistInv
  BY InitHist
<1>2. HistInv /\ [H!Next]_H!vars => HistInv'
  BY HistInductive
<1> QED BY <1>1, <1>2, PTL DEF H!Spec

\* By the invariant, the answer has the rows that must be there.
LEMMA InvKeepsHistory ==
    ASSUME HistInv, Spans
    PROVE  H!HistoryIsKept
<1>1. HistoryShape /\ MadeIsThere /\ now \in Nat /\ rows \in Seq(Nat) /\ Len(rows) \in Nat /\ Len(made) \in Nat
  BY LenProperties DEF HistInv, HistoryShape, Clocked, RowsInOrder, Ordered
<1> SUFFICES ASSUME NEW span \in {Day, MaxDays * Day}, NEW limit \in {1, 2 * MaxTime}
             PROVE  LET kept == {i \in DOMAIN made : now - made[i].at <= span}
                    IN  Len(H!Answer(span, limit)) >= H!Least(limit, Cardinality(kept))
  BY RowsAreCounted, Zenon DEF H!HistoryIsKept
<1>2. span \in Nat /\ limit \in Nat
  BY DEF Spans
<1> DEFINE kept == {i \in DOMAIN made : now - made[i].at <= span}
           found == H!Within(span)
<1>3. \A i \in kept : i \in 1 .. Len(made) /\ now - made[i].at <= span
  BY <1>1, LenProperties DEF HistoryShape, Ordered
<1> HIDE DEF kept
<1>4. now - span \in Int /\ now + 1 \in Int
  BY <1>1, <1>2
<1>5. found \in Seq(Nat) /\ Len(found) = Len(rows) - H!Before(now - span) /\ H!Before(now - span) \in 0 .. Len(rows)
      /\ \A i \in 1 .. Len(rows) : rows[i] < now - span <=> i <= H!Before(now - span)
  <2>1. H!Before(now + 1) = Len(rows)
    <3>1. /\ H!Before(now + 1) \in 0 .. Len(rows)
          /\ \A i \in 1 .. Len(rows) : rows[i] < now + 1 <=> i <= H!Before(now + 1)
      BY <1>1, <1>4, BeforeIs
    <3>2. \A i \in 1 .. Len(rows) : rows[i] \in Nat /\ rows[i] <= now
      BY <1>1, ElementOfSeq DEF HistoryShape, RowsInOrder
    <3>3. \A i \in 1 .. Len(rows) : i <= H!Before(now + 1)
      BY <1>1, <3>1, <3>2
    <3> QED BY <1>1, <3>1, <3>3
  <2>2. /\ H!Before(now - span) \in 0 .. Len(rows)
        /\ \A i \in 1 .. Len(rows) : rows[i] < now - span <=> i <= H!Before(now - span)
    BY <1>1, <1>4, BeforeIs
  <2>3. found = SubSeq(rows, H!Before(now - span) + 1, Len(rows))
    BY <2>1 DEF H!Within
  <2> HIDE DEF found
  <2> QED BY <1>1, <2>2, <2>3, LastOnes
<1> DEFINE b == H!Before(now - span)
           lo == b - (Len(rows) - Len(made)) + 1
<1> HIDE DEF found, b
<1>6. b \in 0 .. Len(rows) /\ Len(found) = Len(rows) - b /\ \A i \in 1 .. Len(rows) : rows[i] < now - span <=> i <= b
  BY <1>5 DEF b
<1>7. kept \subseteq lo .. Len(made)
  <2> SUFFICES ASSUME NEW i \in kept PROVE i \in lo .. Len(made)
    OBVIOUS
  <2>1. i \in 1 .. Len(made) /\ now - made[i].at <= span
    BY <1>3
  <2>2. made[i].at \in Nat /\ made[i].at = rows[Len(rows) - Len(made) + i]
    BY <1>1, <2>1, NeededIs DEF MadeIsThere, Ends
  <2>3. Len(rows) - Len(made) + i \in 1 .. Len(rows)
    BY <1>1, <2>1 DEF MadeIsThere, Ends
  <2>4. ~(rows[Len(rows) - Len(made) + i] < now - span)
    BY <1>1, <1>2, <2>1, <2>2
  <2>5. ~(Len(rows) - Len(made) + i <= b)
    BY <1>6, <2>3, <2>4
  <2> QED BY <1>1, <1>6, <2>1, <2>5
<1>8. Cardinality(kept) \in Nat /\ Cardinality(kept) <= Len(found)
  <2>1. lo \in Int /\ Len(made) \in Int /\ Len(made) - lo + 1 = Len(found) /\ Len(found) \in Nat
    BY <1>1, <1>6
  <2> HIDE DEF lo
  <2>2. IsFiniteSet(lo .. Len(made)) /\ Cardinality(lo .. Len(made)) = IF lo > Len(made) THEN 0 ELSE Len(made) - lo + 1
    BY <2>1, FS_Interval
  <2>3. IsFiniteSet(kept) /\ Cardinality(kept) <= Cardinality(lo .. Len(made))
    BY <1>7, <2>2, FS_Subset
  <2>4. Cardinality(kept) \in Nat
    BY <2>3, FS_CardinalityType
  <2> QED BY <2>1, <2>2, <2>3, <2>4
<1>9. Len(H!Answer(span, limit)) = H!Least(limit, Len(found))
  <2> DEFINE m == H!Least(limit, Len(found))
  <2>1. Len(found) \in Nat /\ m \in 0 .. Len(found)
    BY <1>1, <1>2, <1>6 DEF H!Least
  <2>2. H!Answer(span, limit) = SubSeq(found, Len(found) - m + 1, Len(found))
    BY DEF H!Answer, found
  <2> HIDE DEF m
  <2>3. Len(found) - m \in 0 .. Len(found) /\ found \in Seq(Nat)
    BY <1>5, <2>1
  <2>4. Len(SubSeq(found, (Len(found) - m) + 1, Len(found))) = Len(found) - (Len(found) - m)
    BY <2>3, LastOnes
  <2>5. Len(H!Answer(span, limit)) = m
    BY <2>1, <2>2, <2>4
  <2> QED BY <2>5 DEF m
<1>10. Len(H!Answer(span, limit)) >= H!Least(limit, Cardinality(kept))
  BY <1>1, <1>2, <1>6, <1>8, <1>9 DEF H!Least
<1> QED BY <1>10 DEF kept

\* For any days, tabs and collectors, a question is answered with every row of its span that no days
\* in force since have given up, up to the limit.  (delete_older_than, query_recent.)
THEOREM HistoryIsThere == Spans /\ H!Spec => []H!HistoryIsKept
<1> SUFFICES ASSUME Spans PROVE H!Spec => []H!HistoryIsKept
  OBVIOUS
<1>1. HistInv => H!HistoryIsKept
  BY InvKeepsHistory
<1> QED BY <1>1, HistoryIsSafe, PTL

\* By the invariant, no row is older than the days in force and a turn of the loop.
LEMMA InvBoundsHistory ==
    ASSUME HistInv, Spans
    PROVE  H!HistoryIsBounded
<1> SUFFICES ASSUME ~overdue, sweep.pc = "asleep", \A t \in Tabs : save[t].pc = "idle", NEW i \in DOMAIN rows
             PROVE  now - rows[i] <= H!InForce * Day + Every
  BY DEF H!HistoryIsBounded
<1>1. /\ rows \in Seq(Nat) /\ i \in 1 .. Len(rows) /\ now \in Nat /\ sweep.wake \in Nat /\ now <= sweep.wake /\ Every \in Nat
      /\ H!InForce * Day \in Nat
  BY ForceIs, LenProperties DEF HistInv, HistoryShape, Clocked, RowsInOrder, Sweeps, Spans
<1>2. rows[i] \in Nat /\ rows[i] >= (sweep.wake - Every) - H!InForce * Day
  BY <1>1, ElementOfSeq DEF HistInv, SweepsFollow, Setting, SweptTo
<1> QED BY <1>1, <1>2

\* For any days, what is older than the days in force goes with the next turn of the loop that sweeps
\* without failing.  (cleanup_loop, set_history_retention.)
THEOREM HistoryIsFinite == Spans /\ H!Spec => []H!HistoryIsBounded
<1> SUFFICES ASSUME Spans PROVE H!Spec => []H!HistoryIsBounded
  OBVIOUS
<1>1. HistInv => H!HistoryIsBounded
  BY InvBoundsHistory
<1> QED BY <1>1, HistoryIsSafe, PTL

\* By the invariant, the file has the days in force.
LEMMA InvSharesWindow ==
    ASSUME HistInv
    PROVE  H!EvidenceSharesWindow
BY DEF HistInv, FileFollows, H!EvidenceSharesWindow, H!InForce, H!ForEvidence

\* For any tabs, the evidence of the diagnostics is kept as long as snapshots, unless the file could
\* not be written.  (configured_days.)
THEOREM EvidenceIsAsOld == Spans /\ H!Spec => []H!EvidenceSharesWindow
BY HistoryIsSafe, InvSharesWindow, PTL

-----------------------------------------------------------------------------
(***************************************************************************)
(* Answers to requests about sections: what the cache has, and what a      *)
(* request may still take from it.                                         *)
(***************************************************************************)

\* A probe of the hardware is not kept longer than the collector's period.
ProbesAreShort == Interval \in Nat /\ TTL \in Nat /\ TTL <= Interval

\* ages by section
AgeTables == UNION {[Some -> Nat] : Some \in SUBSET Sections}

\* Nothing is older than the collector's period.
InPeriod(t) == \A s \in DOMAIN t : t[s] <= Interval

SectionRequests == [pc : {"idle", "full", "choose", "cold", "probe", "sections", "demand", "collect", "answered"},
             all : BOOLEAN, want : SUBSET Sections, set : SUBSET Sections, got : AgeTables, late : BOOLEAN]

\* The shape, and a collector that has been started whenever there is something to collect.
SectionShape ==
    /\ quiet \in BOOLEAN /\ unsettled \in BOOLEAN /\ monitored \in SUBSET Sections
    /\ coll \in [pc : {"none", "wait", "collect"}, secs : SUBSET Sections, left : Nat]
    /\ coll.left <= Interval
    /\ coll.pc = "none" => monitored = {}
    /\ coll.pc = "collect" => coll.secs # {} /\ coll.left = 0
    /\ cache \in AgeTables /\ probe \in AgeTables
    /\ req \in [Clients -> SectionRequests]

\* A settled cache has what is monitored, and outside quiet mode the collector will have
\* replaced it before it is older than its period.
CacheKeepsUp ==
    ~unsettled /\ monitored # {} =>
        /\ monitored \subseteq DOMAIN cache
        /\ ~quiet => \A s \in DOMAIN cache : cache[s] + coll.left <= Interval

\* A request that nothing has overtaken may still take what the cache has.
OnTime(r, un, mon, t) ==
    /\ r.pc \notin {"idle", "answered"} => ~un
    /\ r.pc \in {"full", "choose"} => mon = {} \/ InPeriod(t)
    /\ r.pc = "cold" => (mon = {} \/ mon = Sections) /\ InPeriod(t) /\ DOMAIN t = Sections
    /\ r.pc = "sections" => r.set = {} \/ InPeriod(t)
    /\ r.pc \in {"demand", "collect"} => InPeriod(r.got)

\* One for all sections has them or still needs them.
Whole(r) ==
    /\ r.all /\ r.pc \in {"full", "choose", "cold", "probe", "sections"} => r.want = Sections
    /\ r.all /\ r.pc \in {"demand", "collect"} => r.want \cup DOMAIN r.got = Sections

RequestOK(r, un, mon, t) == (r.late \/ OnTime(r, un, mon, t)) /\ Whole(r)

SectionInv ==
    SectionShape /\ CacheKeepsUp /\ \A c \in Clients : RequestOK(req[c], unsettled, monitored, cache)

-----------------------------------------------------------------------------
\* A table has ages by section.
LEMMA TableIs ==
    ASSUME NEW t
    PROVE  t \in AgeTables <=> /\ t = [s \in DOMAIN t |-> t[s]] /\ DOMAIN t \subseteq Sections
                               /\ \A s \in DOMAIN t : t[s] \in Nat
<1>1. ASSUME t \in AgeTables
      PROVE  /\ t = [s \in DOMAIN t |-> t[s]] /\ DOMAIN t \subseteq Sections
             /\ \A s \in DOMAIN t : t[s] \in Nat
  <2>1. PICK Some \in SUBSET Sections : t \in [Some -> Nat]
    BY <1>1 DEF AgeTables
  <2> QED BY <2>1
<1>2. ASSUME t = [s \in DOMAIN t |-> t[s]], DOMAIN t \subseteq Sections, \A s \in DOMAIN t : t[s] \in Nat
      PROVE  t \in AgeTables
  <2>1. t \in [DOMAIN t -> Nat]
    BY <1>2
  <2>2. DOMAIN t \in SUBSET Sections
    BY <1>2
  <2> QED BY <2>1, <2>2 DEF AgeTables
<1> QED BY <1>1, <1>2

\* What has been collected just now.
LEMMA FreshTable ==
    ASSUME NEW ss \in SUBSET Sections, Interval \in Nat
    PROVE  C!Fresh(ss) \in AgeTables /\ DOMAIN C!Fresh(ss) = ss /\ InPeriod(C!Fresh(ss))
           /\ \A s \in ss : C!Fresh(ss)[s] = 0
<1> DEFINE t == [s \in ss |-> 0]
<1>1. C!Fresh(ss) = t
  BY DEF C!Fresh
<1>2. DOMAIN t = ss /\ \A s \in ss : t[s] = 0
  OBVIOUS
<1>3. t = [s \in DOMAIN t |-> t[s]]
  OBVIOUS
<1> HIDE DEF t
<1>4. t \in AgeTables
  BY <1>2, <1>3, TableIs
<1> QED BY <1>1, <1>2, <1>4 DEF InPeriod

\* A choice from a table.
LEMMA PickTable ==
    ASSUME NEW t \in AgeTables, NEW ss
    PROVE  /\ C!Pick(t, ss) \in AgeTables /\ DOMAIN C!Pick(t, ss) = DOMAIN t \cap ss
           /\ \A s \in DOMAIN t \cap ss : C!Pick(t, ss)[s] = t[s]
<1> DEFINE u == [s \in DOMAIN t \cap ss |-> t[s]]
<1>1. C!Pick(t, ss) = u
  BY DEF C!Pick
<1>2. DOMAIN u = DOMAIN t \cap ss /\ \A s \in DOMAIN t \cap ss : u[s] = t[s]
  OBVIOUS
<1>3. u = [s \in DOMAIN u |-> u[s]]
  OBVIOUS
<1>4. DOMAIN t \subseteq Sections /\ \A s \in DOMAIN t : t[s] \in Nat
  BY TableIs
<1> HIDE DEF u
<1>5. u \in AgeTables
  BY <1>2, <1>3, <1>4, TableIs
<1> QED BY <1>1, <1>2, <1>5

\* Two tables joined.
LEMMA JoinTable ==
    ASSUME NEW t \in AgeTables, NEW u \in AgeTables
    PROVE  /\ C!Join(t, u) \in AgeTables /\ DOMAIN C!Join(t, u) = DOMAIN t \cup DOMAIN u
           /\ InPeriod(t) /\ InPeriod(u) => InPeriod(C!Join(t, u))
<1> DEFINE v == [s \in DOMAIN t \cup DOMAIN u |-> IF s \in DOMAIN u THEN u[s] ELSE t[s]]
<1>1. C!Join(t, u) = v
  BY DEF C!Join
<1>2. DOMAIN v = DOMAIN t \cup DOMAIN u
      /\ \A s \in DOMAIN t \cup DOMAIN u : v[s] = IF s \in DOMAIN u THEN u[s] ELSE t[s]
  OBVIOUS
<1>3. v = [s \in DOMAIN v |-> v[s]]
  OBVIOUS
<1>4. /\ DOMAIN t \subseteq Sections /\ \A s \in DOMAIN t : t[s] \in Nat
      /\ DOMAIN u \subseteq Sections /\ \A s \in DOMAIN u : u[s] \in Nat
  BY TableIs
<1> HIDE DEF v
<1>5. v \in AgeTables
  BY <1>2, <1>3, <1>4, TableIs
<1>6. InPeriod(t) /\ InPeriod(u) => InPeriod(v)
  BY <1>2 DEF InPeriod
<1> QED BY <1>1, <1>2, <1>5, <1>6

\* A table a unit of time later.
LEMMA OlderTable ==
    ASSUME NEW t \in AgeTables, Interval \in Nat
    PROVE  /\ C!Older(t) \in AgeTables /\ DOMAIN C!Older(t) = DOMAIN t
           /\ \A s \in DOMAIN t : t[s] <= Interval => C!Older(t)[s] = t[s] + 1
<1> DEFINE u == [s \in DOMAIN t |-> IF t[s] = Interval + 1 THEN Interval + 1 ELSE t[s] + 1]
<1>1. C!Older(t) = u
  BY DEF C!Older, C!Old
<1>2. DOMAIN u = DOMAIN t /\ \A s \in DOMAIN t : u[s] = IF t[s] = Interval + 1 THEN Interval + 1 ELSE t[s] + 1
  OBVIOUS
<1>3. u = [s \in DOMAIN u |-> u[s]]
  OBVIOUS
<1>4. DOMAIN t \subseteq Sections /\ \A s \in DOMAIN t : t[s] \in Nat
  BY TableIs
<1> HIDE DEF u
<1>5. u \in AgeTables
  BY <1>2, <1>3, <1>4, TableIs
<1> QED BY <1>1, <1>2, <1>4, <1>5

\* No table has no sections.
LEMMA NothingTable == C!Nothing \in AgeTables /\ DOMAIN C!Nothing = {}
<1> DEFINE t == [s \in {} |-> 0]
<1>1. C!Nothing = t
  BY DEF C!Nothing
<1>2. DOMAIN t = {} /\ t = [s \in DOMAIN t |-> t[s]]
  OBVIOUS
<1> HIDE DEF t
<1>3. t \in AgeTables
  BY <1>2, TableIs
<1> QED BY <1>1, <1>2, <1>3

\* An idle request.
LEMMA IdleRequest == C!Idle \in SectionRequests /\ C!Idle.pc = "idle" /\ ~C!Idle.all
<1>1. C!Nothing \in AgeTables
  BY NothingTable
<1> QED BY <1>1 DEF C!Idle, SectionRequests

\* A request that is not under way takes nothing.
LEMMA FreeIsOK ==
    ASSUME NEW r, r.pc \in {"idle", "answered"}, NEW un, NEW mon, NEW t
    PROVE  RequestOK(r, un, mon, t)
BY DEF RequestOK, OnTime, Whole

\* What changes the cache or the sections overtakes the requests, unless they may still take it.
LEMMA OvertakenIsOK ==
    ASSUME SectionInv, C!Overtake, unsettled' \in BOOLEAN,
           ~unsettled' => \/ (monitored' = monitored \/ monitored' = {}) /\ cache' = cache
                          \/ monitored' = monitored /\ monitored # {} /\ InPeriod(cache') /\ DOMAIN cache' = monitored
    PROVE  req' \in [Clients -> SectionRequests] /\ \A c \in Clients : RequestOK(req'[c], unsettled', monitored', cache')
<1>0. req \in [Clients -> SectionRequests]
  BY DEF SectionInv, SectionShape
<1>1. ASSUME NEW c \in Clients
      PROVE  req'[c] \in SectionRequests /\ RequestOK(req'[c], unsettled', monitored', cache')
  <2> DEFINE r == req[c]
             l == r.late \/ (unsettled' /\ ~C!Free(c))
  <2>1. r \in SectionRequests /\ RequestOK(r, unsettled, monitored, cache)
    BY <1>0 DEF SectionInv
  <2>2. req'[c] = [r EXCEPT !.late = l] /\ l \in BOOLEAN
    BY <2>1 DEF C!Overtake, SectionRequests
  <2>3. C!Free(c) <=> r.pc \in {"idle", "answered"}
    BY DEF C!Free
  <2> DEFINE q == [r EXCEPT !.late = l]
  <2>4. /\ q \in SectionRequests /\ q.pc = r.pc /\ q.all = r.all /\ q.want = r.want /\ q.set = r.set /\ q.got = r.got
        /\ q.late = l
    BY <2>1, <2>2 DEF SectionRequests
  <2>9. req'[c] = q
    BY <2>2
  <2> HIDE DEF q
  <2>5. Whole(q)
    BY <2>1, <2>4 DEF Whole, RequestOK
  <2>6. CASE q.late
    BY <2>4, <2>5, <2>6, <2>9 DEF RequestOK
  <2>7. CASE r.pc \in {"idle", "answered"}
    BY <2>4, <2>7, <2>9, FreeIsOK
  <2>8. CASE ~q.late /\ r.pc \notin {"idle", "answered"}
    <3>1. ~r.late /\ ~unsettled'
      BY <2>3, <2>4, <2>8
    <3>2. OnTime(r, unsettled, monitored, cache)
      BY <2>1, <3>1 DEF RequestOK
    <3>3. OnTime(q, unsettled', monitored', cache')
      <4>1. CASE (monitored' = monitored \/ monitored' = {}) /\ cache' = cache
        BY <2>4, <3>1, <3>2, <4>1 DEF OnTime, InPeriod
      <4>2. CASE monitored' = monitored /\ monitored # {} /\ InPeriod(cache') /\ DOMAIN cache' = monitored
        BY <2>4, <3>1, <3>2, <4>2 DEF OnTime
      <4> QED BY <3>1, <4>1, <4>2
    <3> QED BY <2>4, <2>5, <2>9, <3>3 DEF RequestOK
  <2> QED BY <2>6, <2>7, <2>8
<1>2. req' = [c \in Clients |-> req'[c]]
  BY DEF C!Overtake
<1> QED BY <1>1, <1>2

\* A request's own step leaves the others' as they are.
LEMMA OthersStay ==
    ASSUME SectionInv, NEW c \in Clients, NEW r \in SectionRequests, C!Become(c, r),
           RequestOK(r, unsettled, monitored, cache'),
           cache' = cache \/ (InPeriod(cache') /\ DOMAIN cache' = Sections)
    PROVE  req' \in [Clients -> SectionRequests] /\ \A e \in Clients : RequestOK(req'[e], unsettled', monitored', cache')
<1>1. /\ req \in [Clients -> SectionRequests] /\ req' = [req EXCEPT ![c] = r]
      /\ UNCHANGED <<monitored, unsettled>>
  BY DEF SectionInv, SectionShape, C!Become
<1>2. ASSUME NEW e \in Clients PROVE RequestOK(req'[e], unsettled, monitored, cache')
  <2>1. CASE e = c
    BY <1>1, <2>1
  <2>2. CASE e # c
    <3>1. req'[e] = req[e] /\ RequestOK(req[e], unsettled, monitored, cache)
      BY <1>1, <2>2 DEF SectionInv
    <3>2. CASE cache' = cache
      BY <3>1, <3>2
    <3>3. CASE InPeriod(cache') /\ DOMAIN cache' = Sections
      BY <3>1, <3>3 DEF RequestOK, OnTime
    <3> QED BY <3>1, <3>2, <3>3
  <2> QED BY <2>1, <2>2
<1> QED BY <1>1, <1>2

\* The first state: the cache is unsettled.
LEMMA InitSection ==
    ASSUME ProbesAreShort, C!Init
    PROVE  SectionInv
<1>1. cache \in AgeTables /\ probe \in AgeTables
  BY NothingTable DEF C!Init
<1>2. req \in [Clients -> SectionRequests] /\ \A c \in Clients : req[c] = C!Idle
  BY IdleRequest DEF C!Init
<1>3. \A c \in Clients : RequestOK(req[c], unsettled, monitored, cache)
  BY <1>2, IdleRequest, FreeIsOK
<1>4. /\ coll \in [pc : {"none", "wait", "collect"}, secs : SUBSET Sections, left : Nat]
      /\ coll.left = 0 /\ coll.pc # "collect" /\ coll.pc = "none" => monitored = {}
  BY DEF C!Init
<1>5. SectionShape
  BY <1>1, <1>2, <1>4 DEF C!Init, SectionShape, ProbesAreShort
<1>6. CacheKeepsUp
  BY DEF C!Init, CacheKeepsUp
<1> QED BY <1>3, <1>5, <1>6 DEF SectionInv

\* The collector takes the sections of the moment, or waits.
LEMMA BeginKeeps ==
    ASSUME SectionInv, ProbesAreShort, C!Begin
    PROVE  SectionInv'
<1>1. UNCHANGED <<quiet, monitored, cache, probe, req, unsettled>> /\ coll.pc = "wait" /\ coll.left = 0
  BY DEF C!Begin
<1>2. SectionShape /\ CacheKeepsUp
  BY DEF SectionInv
<1>3. \/ (quiet \/ monitored = {}) /\ coll' = [coll EXCEPT !.left = Interval]
      \/ ~quiet /\ monitored # {} /\ coll' = [coll EXCEPT !.pc = "collect", !.secs = monitored]
  BY DEF C!Begin
<1>4. coll' \in [pc : {"none", "wait", "collect"}, secs : SUBSET Sections, left : Nat]
      /\ coll'.left <= Interval /\ coll'.pc # "none" /\ (coll'.pc = "collect" => coll'.secs # {} /\ coll'.left = 0)
      /\ (~quiet /\ monitored # {} => coll'.left = coll.left)
  <2>1. CASE (quiet \/ monitored = {}) /\ coll' = [coll EXCEPT !.left = Interval]
    BY <1>1, <1>2, <2>1 DEF SectionShape, ProbesAreShort
  <2>2. CASE ~quiet /\ monitored # {} /\ coll' = [coll EXCEPT !.pc = "collect", !.secs = monitored]
    BY <1>1, <1>2, <2>2 DEF SectionShape, ProbesAreShort
  <2> QED BY <1>3, <2>1, <2>2
<1>5. SectionShape'
  BY <1>1, <1>2, <1>4 DEF SectionShape
<1>6. CacheKeepsUp'
  BY <1>1, <1>2, <1>4 DEF CacheKeepsUp
<1>7. \A c \in Clients : RequestOK(req'[c], unsettled', monitored', cache')
  BY <1>1 DEF SectionInv
<1> QED BY <1>5, <1>6, <1>7 DEF SectionInv

\* What was collected is the cache of those sections, if they still are.
LEMMA CollectedKeeps ==
    ASSUME SectionInv, ProbesAreShort, NEW ok \in BOOLEAN, C!Collected(ok)
    PROVE  SectionInv'
<1>1. /\ coll.pc = "collect" /\ coll' = [pc |-> "wait", secs |-> {}, left |-> Interval]
      /\ cache' = (IF ok THEN C!Fresh(coll.secs) ELSE cache)
      /\ unsettled' = ~(ok /\ coll.secs = monitored) /\ C!Overtake
      /\ UNCHANGED <<quiet, monitored, probe>>
  BY DEF C!Collected
<1>2. SectionShape
  BY DEF SectionInv
<1>3. coll.secs \in SUBSET Sections /\ coll.secs # {}
  BY <1>1, <1>2 DEF SectionShape
<1>4. /\ C!Fresh(coll.secs) \in AgeTables /\ DOMAIN C!Fresh(coll.secs) = coll.secs /\ InPeriod(C!Fresh(coll.secs))
      /\ \A s \in coll.secs : C!Fresh(coll.secs)[s] = 0
  BY <1>3, FreshTable DEF ProbesAreShort
<1>5. ~unsettled' => monitored' = monitored /\ monitored # {} /\ InPeriod(cache') /\ DOMAIN cache' = monitored
  BY <1>1, <1>3, <1>4
<1>6. req' \in [Clients -> SectionRequests] /\ \A c \in Clients : RequestOK(req'[c], unsettled', monitored', cache')
  BY <1>1, <1>5, OvertakenIsOK
<1>7. cache' \in AgeTables
  BY <1>1, <1>2, <1>4 DEF SectionShape
<1>8. SectionShape'
  BY <1>1, <1>2, <1>6, <1>7 DEF SectionShape, ProbesAreShort
<1>9. CacheKeepsUp'
  <2> SUFFICES ASSUME ~unsettled'
               PROVE  monitored' \subseteq DOMAIN cache' /\ \A s \in DOMAIN cache' : cache'[s] + coll'.left <= Interval
    BY DEF CacheKeepsUp
  <2>1. ok /\ cache' = C!Fresh(coll.secs) /\ coll'.left = Interval
    BY <1>1
  <2> QED BY <1>4, <1>5, <2>1 DEF ProbesAreShort
<1> QED BY <1>6, <1>8, <1>9 DEF SectionInv

\* Other sections unsettle the cache.
LEMMA ConfigureKeeps ==
    ASSUME SectionInv, ProbesAreShort, NEW ss \in SUBSET Sections, C!Configure(ss)
    PROVE  SectionInv'
<1>1. /\ monitored' = ss /\ coll' = C!Started(ss) /\ unsettled' = (ss # {}) /\ C!Overtake
      /\ UNCHANGED <<quiet, cache, probe>>
  BY DEF C!Configure
<1>2. SectionShape
  BY DEF SectionInv
<1>3. req' \in [Clients -> SectionRequests] /\ \A c \in Clients : RequestOK(req'[c], unsettled', monitored', cache')
  BY <1>1, OvertakenIsOK
<1>4. coll' \in [pc : {"none", "wait", "collect"}, secs : SUBSET Sections, left : Nat]
      /\ coll'.left <= Interval /\ (coll'.pc = "collect" => coll'.secs # {} /\ coll'.left = 0)
      /\ (coll'.pc = "none" => ss = {})
  <2>1. CASE coll.pc = "none" /\ ss # {}
    <3>1. coll' = [coll EXCEPT !.pc = "wait", !.left = 0]
      BY <1>1, <2>1 DEF C!Started
    <3>2. /\ coll' \in [pc : {"none", "wait", "collect"}, secs : SUBSET Sections, left : Nat]
          /\ coll'.pc = "wait" /\ coll'.left = 0
      BY <1>2, <3>1 DEF SectionShape
    <3> QED BY <3>2 DEF ProbesAreShort
  <2>2. CASE ~(coll.pc = "none" /\ ss # {})
    <3>1. coll' = coll
      BY <1>1, <2>2 DEF C!Started
    <3> QED BY <1>2, <2>2, <3>1 DEF SectionShape, ProbesAreShort
  <2> QED BY <2>1, <2>2
<1>5. SectionShape'
  BY <1>1, <1>2, <1>3, <1>4 DEF SectionShape
<1>6. CacheKeepsUp'
  BY <1>1 DEF CacheKeepsUp
<1> QED BY <1>3, <1>5, <1>6 DEF SectionInv

\* The end of quiet mode does, too.
LEMMA QuietKeeps ==
    ASSUME SectionInv, ProbesAreShort, C!Quiet
    PROVE  SectionInv'
<1>1. /\ quiet' = ~quiet /\ unsettled' = (unsettled \/ (quiet /\ monitored # {})) /\ C!Overtake
      /\ UNCHANGED <<monitored, coll, cache, probe>>
  BY DEF C!Quiet
<1>2. SectionShape /\ CacheKeepsUp
  BY DEF SectionInv
<1>3. req' \in [Clients -> SectionRequests] /\ \A c \in Clients : RequestOK(req'[c], unsettled', monitored', cache')
  BY <1>1, <1>2, OvertakenIsOK DEF SectionShape
<1>4. SectionShape'
  BY <1>1, <1>2, <1>3 DEF SectionShape
<1>5. CacheKeepsUp'
  BY <1>1, <1>2 DEF CacheKeepsUp, SectionShape
<1> QED BY <1>3, <1>4, <1>5 DEF SectionInv

\* The cache grows older as the collector's wait grows less.
LEMMA SectionTickKeeps ==
    ASSUME SectionInv, ProbesAreShort, C!Tick
    PROVE  SectionInv'
<1>1. /\ coll.pc = "none" \/ (coll.pc = "wait" /\ coll.left > 0)
      /\ coll' = [coll EXCEPT !.left = IF @ = 0 THEN 0 ELSE @ - 1]
      /\ cache' = C!Older(cache) /\ probe' = C!Older(probe)
      /\ req' = [c \in Clients |-> C!Idle]
      /\ UNCHANGED <<quiet, monitored, unsettled>>
  BY DEF C!Tick
<1>2. SectionShape /\ CacheKeepsUp
  BY DEF SectionInv
<1>3. req' \in [Clients -> SectionRequests] /\ \A c \in Clients : RequestOK(req'[c], unsettled', monitored', cache')
  <2>1. req' \in [Clients -> SectionRequests] /\ \A c \in Clients : req'[c] = C!Idle
    BY <1>1, IdleRequest
  <2> QED BY <2>1, IdleRequest, FreeIsOK
<1>4. /\ cache' \in AgeTables /\ probe' \in AgeTables /\ DOMAIN cache' = DOMAIN cache
      /\ \A s \in DOMAIN cache : cache[s] <= Interval => cache'[s] = cache[s] + 1
  BY <1>1, <1>2, OlderTable DEF SectionShape, ProbesAreShort
<1>5. /\ coll' \in [pc : {"none", "wait", "collect"}, secs : SUBSET Sections, left : Nat]
      /\ coll'.pc = coll.pc /\ coll'.left <= coll.left /\ (coll.pc = "wait" => coll'.left = coll.left - 1)
      /\ coll.left \in Nat /\ coll'.left \in Nat
  BY <1>1, <1>2 DEF SectionShape
<1>6. SectionShape'
  BY <1>1, <1>2, <1>3, <1>4, <1>5 DEF SectionShape, ProbesAreShort
<1>7. CacheKeepsUp'
  <2> SUFFICES ASSUME ~unsettled, monitored # {}
               PROVE  /\ monitored \subseteq DOMAIN cache'
                      /\ ~quiet => \A s \in DOMAIN cache' : cache'[s] + coll'.left <= Interval
    BY <1>1 DEF CacheKeepsUp
  <2>1. coll.pc = "wait" /\ coll'.left = coll.left - 1
    BY <1>1, <1>2, <1>5 DEF SectionShape
  <2>2. \A s \in DOMAIN cache : cache[s] \in Nat
    BY <1>2, TableIs DEF SectionShape
  <2>3. ASSUME ~quiet, NEW s \in DOMAIN cache PROVE cache'[s] + coll'.left <= Interval
    <3>1. cache[s] + coll.left <= Interval
      BY <1>2, <2>3 DEF CacheKeepsUp
    <3> QED BY <1>4, <1>5, <2>1, <2>2, <3>1 DEF ProbesAreShort
  <2> QED BY <1>2, <1>4, <2>3 DEF CacheKeepsUp
<1> QED BY <1>3, <1>6, <1>7 DEF SectionInv

\* A step of one request that leaves the cache alone.
LEMMA RequestStep ==
    ASSUME SectionInv, NEW c \in Clients, NEW r \in SectionRequests, C!Become(c, r), RequestOK(r, unsettled, monitored, cache),
           UNCHANGED <<coll, cache>>, probe' \in AgeTables
    PROVE  SectionInv'
<1>1. req' \in [Clients -> SectionRequests] /\ \A e \in Clients : RequestOK(req'[e], unsettled', monitored', cache')
  BY OthersStay
<1>2. UNCHANGED <<quiet, monitored, unsettled>>
  BY DEF C!Become
<1>3. SectionShape /\ CacheKeepsUp
  BY DEF SectionInv
<1>4. SectionShape'
  BY <1>1, <1>2, <1>3 DEF SectionShape
<1>5. CacheKeepsUp'
  BY <1>2, <1>3 DEF CacheKeepsUp
<1> QED BY <1>1, <1>4, <1>5 DEF SectionInv

\* A request that begins on a settled cache finds it young.
LEMMA AskKeeps ==
    ASSUME SectionInv, ProbesAreShort, NEW c \in Clients,
           C!AskQuiet(c) \/ C!AskAll(c) \/ (\E ss \in SUBSET Sections \ {{}} : C!AskSome(c, ss))
    PROVE  SectionInv'
<1>1. SectionShape /\ CacheKeepsUp
  BY DEF SectionInv
<1>2. C!Started(monitored) = coll
  BY <1>1 DEF C!Started, SectionShape
<1>3. UNCHANGED <<coll, cache, probe>> /\ probe' \in AgeTables
  BY <1>1, <1>2 DEF C!AskQuiet, C!AskAll, C!AskSome, SectionShape
<1>4. CASE C!AskQuiet(c)
  <2>1. C!Become(c, C!Idle)
    BY <1>4 DEF C!AskQuiet
  <2>2. RequestOK(C!Idle, unsettled, monitored, cache)
    BY IdleRequest, FreeIsOK
  <2> QED BY <1>3, <2>1, <2>2, IdleRequest, RequestStep
<1>5. ASSUME ~quiet, ~unsettled, monitored # {} PROVE InPeriod(cache)
  <2> SUFFICES ASSUME NEW s \in DOMAIN cache PROVE cache[s] <= Interval
    BY DEF InPeriod
  <2>1. cache[s] + coll.left <= Interval /\ coll.left \in Nat
    BY <1>1, <1>5 DEF CacheKeepsUp, SectionShape
  <2>2. cache[s] \in Nat
    BY <1>1, TableIs DEF SectionShape
  <2> QED BY <2>1, <2>2 DEF ProbesAreShort
<1>6. CASE C!AskAll(c)
  <2> DEFINE r == [C!Idle EXCEPT !.pc = "full", !.all = TRUE, !.want = Sections, !.late = unsettled]
  <2>1. C!Become(c, r) /\ ~quiet
    BY <1>6 DEF C!AskAll
  <2>2. r \in SectionRequests /\ r.pc = "full" /\ r.want = Sections /\ r.late = unsettled
    BY <1>1, IdleRequest DEF SectionRequests, SectionShape
  <2> HIDE DEF r
  <2>3. RequestOK(r, unsettled, monitored, cache)
    BY <1>5, <2>1, <2>2 DEF RequestOK, OnTime, Whole
  <2> QED BY <1>3, <2>1, <2>2, <2>3, RequestStep
<1>7. ASSUME NEW ss \in SUBSET Sections, C!AskSome(c, ss) PROVE SectionInv'
  <2> DEFINE r == [C!Idle EXCEPT !.pc = "sections", !.want = ss, !.set = monitored, !.late = unsettled]
  <2>1. C!Become(c, r) /\ ~quiet
    BY <1>7 DEF C!AskSome
  <2>2. r \in SectionRequests /\ r.pc = "sections" /\ ~r.all /\ r.set = monitored /\ r.late = unsettled
    BY <1>1, IdleRequest DEF SectionRequests, SectionShape
  <2> HIDE DEF r
  <2>3. RequestOK(r, unsettled, monitored, cache)
    BY <1>5, <2>1, <2>2 DEF RequestOK, OnTime, Whole
  <2> QED BY <1>3, <2>1, <2>2, <2>3, RequestStep
<1> QED BY <1>4, <1>6, <1>7

\* One for all sections takes the snapshot if all are monitored.
LEMMA FullKeeps ==
    ASSUME SectionInv, ProbesAreShort, NEW c \in Clients, C!Full(c) \/ C!Choose(c)
    PROVE  SectionInv'
<1> DEFINE q == req[c]
<1>1. SectionShape /\ CacheKeepsUp /\ q \in SectionRequests /\ RequestOK(q, unsettled, monitored, cache) /\ q.pc \in {"full", "choose"}
      /\ UNCHANGED <<coll, cache>> /\ probe' \in AgeTables
  BY DEF SectionInv, SectionShape, C!Full, C!Choose
<1>4. CASE C!Full(c) /\ monitored # Sections
  <2> DEFINE r == [q EXCEPT !.pc = "choose"]
  <2>1. C!Become(c, r)
    BY <1>4 DEF C!Full
  <2>2. r \in SectionRequests /\ r.pc = "choose" /\ r.all = q.all /\ r.want = q.want /\ r.late = q.late
    BY <1>1 DEF SectionRequests
  <2> HIDE DEF r, q
  <2>3. RequestOK(r, unsettled, monitored, cache)
    BY <1>1, <2>2 DEF RequestOK, OnTime, Whole
  <2> QED BY <1>1, <2>1, <2>2, <2>3, RequestStep
<1>2. CASE C!Choose(c)
  <2> DEFINE r == [q EXCEPT !.pc = IF quiet THEN "idle" ELSE "sections", !.set = monitored]
  <2>1. C!Become(c, r)
    BY <1>2 DEF C!Choose
  <2>2. /\ r \in SectionRequests /\ r.pc \in {"idle", "sections"} /\ r.all = q.all /\ r.want = q.want /\ r.late = q.late
        /\ r.set = monitored
    BY <1>1 DEF SectionRequests, SectionShape
  <2> HIDE DEF r, q
  <2>3. RequestOK(r, unsettled, monitored, cache)
    BY <1>1, <2>2 DEF RequestOK, OnTime, Whole
  <2> QED BY <1>1, <2>1, <2>2, <2>3, RequestStep
<1>3. CASE C!Full(c) /\ monitored = Sections
  <2> DEFINE r == [q EXCEPT !.pc = "cold"]
  <2>1. C!Become(c, r)
    BY <1>3 DEF C!Full
  <2>2. r \in SectionRequests /\ r.pc = "cold" /\ r.all = q.all /\ r.want = q.want /\ r.late = q.late
    BY <1>1 DEF SectionRequests
  <2> HIDE DEF r, q
  <2>3. Whole(r)
    BY <1>1, <2>2 DEF RequestOK, Whole
  <2>4. ASSUME ~r.late PROVE OnTime(r, unsettled, monitored, cache)
    <3>1. ~unsettled /\ (monitored = {} \/ InPeriod(cache))
      BY <1>1, <2>2, <2>4 DEF RequestOK, OnTime
    <3>2. DOMAIN cache \subseteq Sections
      BY <1>1, TableIs DEF SectionShape
    <3>3. CASE monitored # {}
      BY <1>1, <1>3, <2>2, <3>1, <3>2, <3>3 DEF CacheKeepsUp, OnTime
    <3>4. CASE monitored = {}
      <4>1. DOMAIN cache = {} /\ InPeriod(cache)
        BY <1>3, <3>2, <3>4 DEF InPeriod
      <4> QED BY <1>3, <2>2, <3>1, <3>4, <4>1 DEF OnTime
    <3> QED BY <3>3, <3>4
  <2>5. RequestOK(r, unsettled, monitored, cache)
    BY <2>3, <2>4 DEF RequestOK
  <2> QED BY <1>1, <2>1, <2>2, <2>5, RequestStep
<1> QED BY <1>2, <1>3, <1>4

\* And takes it then.
LEMMA SnapshotKeeps ==
    ASSUME SectionInv, ProbesAreShort, NEW c \in Clients, C!Snapshot(c)
    PROVE  SectionInv'
<1> DEFINE q == req[c]
<1>1. SectionShape /\ q \in SectionRequests /\ RequestOK(q, unsettled, monitored, cache) /\ q.pc = "cold"
      /\ UNCHANGED <<coll, cache>> /\ probe' \in AgeTables
  BY DEF SectionInv, SectionShape, C!Snapshot
<1>2. CASE cache = C!Nothing
  <2> DEFINE r == [q EXCEPT !.pc = "probe"]
  <2>1. C!Become(c, r)
    BY <1>2 DEF C!Snapshot
  <2>2. r \in SectionRequests /\ r.pc = "probe" /\ r.all = q.all /\ r.want = q.want /\ r.late = q.late
    BY <1>1 DEF SectionRequests
  <2> HIDE DEF r, q
  <2>3. RequestOK(r, unsettled, monitored, cache)
    BY <1>1, <2>2 DEF RequestOK, OnTime, Whole
  <2> QED BY <1>1, <2>1, <2>2, <2>3, RequestStep
<1>3. CASE cache # C!Nothing
  <2> DEFINE r == [q EXCEPT !.pc = "answered", !.got = cache]
  <2>1. C!Become(c, r)
    BY <1>3 DEF C!Snapshot
  <2>2. r \in SectionRequests /\ r.pc = "answered"
    BY <1>1 DEF SectionRequests, SectionShape
  <2> HIDE DEF r
  <2>3. RequestOK(r, unsettled, monitored, cache)
    BY <2>2, FreeIsOK
  <2> QED BY <1>1, <2>1, <2>2, <2>3, RequestStep
<1> QED BY <1>2, <1>3

\* Or collects a first one.
LEMMA ColdKeeps ==
    ASSUME SectionInv, ProbesAreShort, NEW c \in Clients, NEW ok \in BOOLEAN, C!Cold(c, ok)
    PROVE  SectionInv'
<1> DEFINE q == req[c]
<1>1. SectionShape /\ CacheKeepsUp /\ q \in SectionRequests /\ UNCHANGED <<coll, probe>> /\ probe' \in AgeTables
  BY DEF SectionInv, SectionShape, C!Cold
<1>2. CASE ok
  <2> DEFINE r == [q EXCEPT !.pc = "answered", !.got = C!Fresh(Sections)]
  <2>0. /\ C!Fresh(Sections) \in AgeTables /\ DOMAIN C!Fresh(Sections) = Sections /\ InPeriod(C!Fresh(Sections))
        /\ \A s \in Sections : C!Fresh(Sections)[s] = 0
    BY FreshTable DEF ProbesAreShort
  <2>1. C!Become(c, r) /\ cache' = C!Fresh(Sections)
    BY <1>2 DEF C!Cold
  <2>2. r \in SectionRequests /\ r.pc = "answered"
    BY <1>1, <2>0 DEF SectionRequests
  <2> HIDE DEF r
  <2>3. req' \in [Clients -> SectionRequests] /\ \A e \in Clients : RequestOK(req'[e], unsettled', monitored', cache')
    BY <2>0, <2>1, <2>2, FreeIsOK, OthersStay
  <2>4. UNCHANGED <<quiet, monitored, unsettled>>
    BY <2>1 DEF C!Become
  <2>5. SectionShape'
    BY <1>1, <2>0, <2>1, <2>3, <2>4 DEF SectionShape
  <2>6. CacheKeepsUp'
    <3>1. \A s \in DOMAIN cache' : cache'[s] + coll'.left <= Interval
      <4>1. \A s \in DOMAIN cache' : cache'[s] = 0
        BY <2>0, <2>1
      <4> QED BY <1>1, <4>1 DEF SectionShape
    <3>2. monitored' \subseteq DOMAIN cache'
      BY <1>1, <2>0, <2>1, <2>4 DEF SectionShape
    <3> QED BY <3>1, <3>2 DEF CacheKeepsUp
  <2> QED BY <2>3, <2>5, <2>6 DEF SectionInv
<1>3. CASE ~ok
  <2>1. C!Become(c, C!Idle) /\ UNCHANGED <<coll, cache>>
    BY <1>3 DEF C!Cold
  <2>2. RequestOK(C!Idle, unsettled, monitored, cache)
    BY IdleRequest, FreeIsOK
  <2> QED BY <1>1, <2>1, <2>2, IdleRequest, RequestStep
<1> QED BY <1>2, <1>3

\* The monitored sections from the snapshot are young.
LEMMA ServeSections ==
    ASSUME SectionInv, ProbesAreShort, NEW c \in Clients, C!Serve(c)
    PROVE  /\ SectionInv' /\ cache' = cache
           /\ ~req[c].late => InPeriod(req'[c].got)
           /\ req[c].all /\ req'[c].pc = "answered" => DOMAIN req'[c].got = Sections
<1> DEFINE q == req[c]
           g == C!Pick(cache, q.want \cap q.set)
           l == q.want \ DOMAIN g
           r == [q EXCEPT !.pc = IF l = {} THEN "answered" ELSE "demand", !.got = g, !.want = l, !.set = {}]
<1>1. /\ SectionShape /\ q \in SectionRequests /\ RequestOK(q, unsettled, monitored, cache) /\ q.pc = "sections"
      /\ UNCHANGED <<coll, cache>> /\ probe' \in AgeTables /\ C!Become(c, r)
  BY DEF SectionInv, SectionShape, C!Serve, C!Slice
<1>2. /\ g \in AgeTables /\ DOMAIN g = DOMAIN cache \cap (q.want \cap q.set)
      /\ \A s \in DOMAIN g : g[s] = cache[s]
  <2> DEFINE ss == q.want \cap q.set
  <2>1. cache \in AgeTables
    BY <1>1 DEF SectionShape
  <2> HIDE DEF ss
  <2>2. /\ C!Pick(cache, ss) \in AgeTables /\ DOMAIN C!Pick(cache, ss) = DOMAIN cache \cap ss
        /\ \A s \in DOMAIN cache \cap ss : C!Pick(cache, ss)[s] = cache[s]
    BY <2>1, PickTable
  <2>3. g = C!Pick(cache, ss)
    BY DEF ss
  <2> HIDE DEF g
  <2> QED BY <2>2, <2>3 DEF ss
<1>3. DOMAIN g \subseteq Sections /\ l \in SUBSET Sections /\ (q.want = Sections => l \cup DOMAIN g = Sections)
  BY <1>1, <1>2, TableIs DEF SectionRequests
<1> HIDE DEF g
<1>4. /\ r \in SectionRequests /\ r.pc = (IF l = {} THEN "answered" ELSE "demand") /\ r.got = g /\ r.want = l
      /\ r.all = q.all /\ r.late = q.late
  BY <1>1, <1>2, <1>3 DEF SectionRequests
<1> HIDE DEF l, r
<1>5. ASSUME ~q.late PROVE InPeriod(g)
  <2>1. OnTime(q, unsettled, monitored, cache)
    BY <1>1, <1>5 DEF RequestOK
  <2>2. q.set = {} \/ InPeriod(cache)
    BY <1>1, <2>1 DEF OnTime
  <2> QED BY <1>2, <2>2 DEF InPeriod
<1>6. q.all => l \cup DOMAIN g = Sections
  BY <1>1, <1>3 DEF RequestOK, Whole
<1>7. RequestOK(r, unsettled, monitored, cache)
  BY <1>1, <1>4, <1>5, <1>6 DEF RequestOK, OnTime, Whole
<1>8. SectionInv'
  BY <1>1, <1>4, <1>7, RequestStep
<1>9. req'[c] = r
  BY <1>1 DEF C!Become, SectionShape
<1> QED BY <1>1, <1>4, <1>5, <1>6, <1>8, <1>9

\* Those of the last probe are, too.
LEMMA LookupSections ==
    ASSUME SectionInv, ProbesAreShort, NEW c \in Clients, C!Lookup(c)
    PROVE  /\ SectionInv' /\ cache' = cache
           /\ ~req[c].late => InPeriod(req'[c].got)
           /\ req[c].all /\ req'[c].pc = "answered" => DOMAIN req'[c].got = Sections
<1> DEFINE q == req[c]
           h == C!Pick(probe, {s \in q.want \cap DOMAIN probe : probe[s] < TTL})
           g == C!Join(q.got, h)
           l == q.want \ DOMAIN h
           r == [q EXCEPT !.pc = IF l = {} THEN "answered" ELSE "collect", !.got = g, !.want = l]
<1>1. /\ SectionShape /\ q \in SectionRequests /\ RequestOK(q, unsettled, monitored, cache) /\ q.pc = "demand"
      /\ UNCHANGED <<coll, cache>> /\ probe' \in AgeTables /\ C!Become(c, r)
  BY DEF SectionInv, SectionShape, C!Lookup
<1>2. /\ h \in AgeTables /\ DOMAIN h = DOMAIN probe \cap {s \in q.want \cap DOMAIN probe : probe[s] < TTL}
      /\ \A s \in DOMAIN h : h[s] = probe[s]
  <2> DEFINE ss == {s \in q.want \cap DOMAIN probe : probe[s] < TTL}
  <2>1. probe \in AgeTables
    BY <1>1 DEF SectionShape
  <2> HIDE DEF ss
  <2>2. /\ C!Pick(probe, ss) \in AgeTables /\ DOMAIN C!Pick(probe, ss) = DOMAIN probe \cap ss
        /\ \A s \in DOMAIN probe \cap ss : C!Pick(probe, ss)[s] = probe[s]
    BY <2>1, PickTable
  <2>3. h = C!Pick(probe, ss)
    BY DEF ss
  <2> HIDE DEF h
  <2> QED BY <2>2, <2>3 DEF ss
<1>3. InPeriod(h)
  <2>1. \A s \in DOMAIN probe : probe[s] \in Nat
    BY <1>1, TableIs DEF SectionShape
  <2> QED BY <1>2, <2>1 DEF InPeriod, ProbesAreShort
<1> HIDE DEF h
<1>4. g \in AgeTables /\ DOMAIN g = DOMAIN q.got \cup DOMAIN h /\ (InPeriod(q.got) => InPeriod(g))
  BY <1>1, <1>2, <1>3, JoinTable DEF SectionRequests
<1> HIDE DEF g
<1>5. l \in SUBSET Sections
  BY <1>1 DEF SectionRequests
<1>6. q.all => l \cup DOMAIN g = Sections
  <2>1. q.all => q.want \cup DOMAIN q.got = Sections
    BY <1>1 DEF RequestOK, Whole
  <2>2. DOMAIN h \subseteq q.want
    BY <1>2
  <2> QED BY <1>4, <2>1, <2>2
<1>7. /\ r \in SectionRequests /\ r.pc = (IF l = {} THEN "answered" ELSE "collect") /\ r.got = g /\ r.want = l
      /\ r.all = q.all /\ r.late = q.late
  BY <1>1, <1>4, <1>5 DEF SectionRequests
<1> HIDE DEF l, r
<1>8. ASSUME ~q.late PROVE InPeriod(g)
  BY <1>1, <1>4, <1>8 DEF RequestOK, OnTime
<1>9. RequestOK(r, unsettled, monitored, cache)
  BY <1>1, <1>6, <1>7, <1>8 DEF RequestOK, OnTime, Whole
<1>10. SectionInv'
  BY <1>1, <1>7, <1>9, RequestStep
<1>11. req'[c] = r
  BY <1>1 DEF C!Become, SectionShape
<1> QED BY <1>1, <1>6, <1>7, <1>8, <1>10, <1>11

\* And those that are collected.
LEMMA CollectSections ==
    ASSUME SectionInv, ProbesAreShort, NEW c \in Clients, NEW ok \in BOOLEAN, C!Collect(c, ok)
    PROVE  /\ SectionInv' /\ cache' = cache
           /\ ~req[c].late /\ req'[c].pc = "answered" => InPeriod(req'[c].got)
           /\ req[c].all /\ req'[c].pc = "answered" => DOMAIN req'[c].got = Sections
<1> DEFINE q == req[c]
           f == C!Fresh(q.want)
           g == C!Join(q.got, f)
           r == [q EXCEPT !.pc = "answered", !.got = g, !.want = {}]
<1>1. /\ SectionShape /\ q \in SectionRequests /\ RequestOK(q, unsettled, monitored, cache) /\ q.pc = "collect"
      /\ UNCHANGED <<coll, cache>>
  BY DEF SectionInv, SectionShape, C!Collect
<1>2. f \in AgeTables /\ DOMAIN f = q.want /\ InPeriod(f)
  BY <1>1, FreshTable DEF SectionRequests, ProbesAreShort
<1>3. CASE ok
  <2>1. probe' = C!Join(probe, f) /\ C!Become(c, r)
    BY <1>3 DEF C!Collect
  <2> HIDE DEF f
  <2>2. probe' \in AgeTables
    BY <1>1, <1>2, <2>1, JoinTable DEF SectionShape
  <2>3. g \in AgeTables /\ DOMAIN g = DOMAIN q.got \cup DOMAIN f /\ (InPeriod(q.got) => InPeriod(g))
    BY <1>1, <1>2, JoinTable DEF SectionRequests
  <2> HIDE DEF g
  <2>4. r \in SectionRequests /\ r.pc = "answered" /\ r.got = g
    BY <1>1, <2>3 DEF SectionRequests
  <2> HIDE DEF r
  <2>5. RequestOK(r, unsettled, monitored, cache)
    BY <2>4, FreeIsOK
  <2>6. SectionInv'
    BY <1>1, <2>1, <2>2, <2>4, <2>5, RequestStep
  <2>7. q.all => DOMAIN g = Sections
    BY <1>1, <1>2, <2>3 DEF RequestOK, Whole
  <2>8. ~q.late => InPeriod(g)
    BY <1>1, <2>3 DEF RequestOK, OnTime
  <2>9. req'[c] = r
    BY <1>1, <2>1 DEF C!Become, SectionShape
  <2> QED BY <1>1, <2>4, <2>6, <2>7, <2>8, <2>9
<1>4. CASE ~ok
  <2>1. C!Become(c, C!Idle) /\ probe' = probe
    BY <1>4 DEF C!Collect
  <2>2. RequestOK(C!Idle, unsettled, monitored, cache)
    BY IdleRequest, FreeIsOK
  <2>3. probe' \in AgeTables
    BY <1>1, <2>1 DEF SectionShape
  <2>4. SectionInv'
    BY <1>1, <2>1, <2>2, <2>3, IdleRequest, RequestStep
  <2>5. req'[c] = C!Idle
    BY <1>1, <2>1 DEF C!Become, SectionShape
  <2> QED BY <1>1, <2>4, <2>5, IdleRequest
<1> QED BY <1>3, <1>4

\* Whoever a step answers, gets what the two properties want.
AnswersOK ==
    \A c \in Clients : C!Answered(c) =>
        InPeriod(req'[c].got) /\ (req[c].all => DOMAIN req'[c].got = Sections)

\* A request's step answers nobody else.
LEMMA OneAnswers ==
    ASSUME SectionInv, NEW c \in Clients, NEW r, C!Become(c, r),
           C!Answered(c) => InPeriod(req'[c].got) /\ (req[c].all => DOMAIN req'[c].got = Sections)
    PROVE  AnswersOK
<1>1. \A e \in Clients \ {c} : req'[e] = req[e]
  BY DEF C!Become, SectionInv, SectionShape
<1> QED BY <1>1 DEF AnswersOK, C!Answered, C!Free

\* Other steps answer nobody.
LEMMA NobodyAnswers ==
    ASSUME SectionInv, C!Overtake \/ req' = [c \in Clients |-> C!Idle] \/ req' = req
    PROVE  AnswersOK
<1> SUFFICES ASSUME NEW c \in Clients PROVE ~C!Answered(c)
  BY DEF AnswersOK
<1>1. CASE C!Overtake
  <2>1. req[c] \in SectionRequests
    BY DEF SectionInv, SectionShape
  <2>2. req'[c].pc = req[c].pc
    BY <1>1, <2>1 DEF C!Overtake, SectionRequests
  <2> QED BY <2>2 DEF C!Answered, C!Free
<1>2. CASE req' = [e \in Clients |-> C!Idle]
  BY <1>2, IdleRequest DEF C!Answered
<1>3. CASE req' = req
  BY <1>3 DEF C!Answered, C!Free
<1> QED BY <1>1, <1>2, <1>3

\* The snapshot, when it is the answer.
LEMMA SnapshotAnswers ==
    ASSUME SectionInv, NEW c \in Clients, C!Snapshot(c)
    PROVE  AnswersOK
<1> DEFINE r == IF cache = C!Nothing THEN [req[c] EXCEPT !.pc = "probe"]
                ELSE [req[c] EXCEPT !.pc = "answered", !.got = cache]
<1>1. req[c] \in SectionRequests /\ RequestOK(req[c], unsettled, monitored, cache) /\ req[c].pc = "cold" /\ C!Become(c, r)
  BY DEF SectionInv, SectionShape, C!Snapshot
<1>2. req'[c] = r
  BY <1>1 DEF C!Become, SectionInv, SectionShape
<1>3. ASSUME ~req[c].late PROVE InPeriod(cache) /\ DOMAIN cache = Sections
  BY <1>1, <1>3 DEF RequestOK, OnTime
<1>4. r.pc = "answered" => r.got = cache
  BY <1>1 DEF SectionRequests
<1> HIDE DEF r
<1>5. C!Answered(c) => InPeriod(req'[c].got) /\ (req[c].all => DOMAIN req'[c].got = Sections)
  BY <1>2, <1>3, <1>4 DEF C!Answered
<1> QED BY <1>1, <1>5, OneAnswers

\* The first snapshot, when it is the answer.
LEMMA ColdAnswers ==
    ASSUME SectionInv, ProbesAreShort, NEW c \in Clients, NEW ok \in BOOLEAN, C!Cold(c, ok)
    PROVE  AnswersOK
<1>1. req \in [Clients -> SectionRequests] /\ req[c] \in SectionRequests
  BY DEF SectionInv, SectionShape
<1>2. CASE ok
  <2> DEFINE r == [req[c] EXCEPT !.pc = "answered", !.got = C!Fresh(Sections)]
  <2>1. C!Become(c, r)
    BY <1>2 DEF C!Cold
  <2>2. req'[c] = r
    BY <1>1, <2>1 DEF C!Become
  <2>3. r.got = C!Fresh(Sections)
    BY <1>1 DEF SectionRequests
  <2>4. InPeriod(C!Fresh(Sections)) /\ DOMAIN C!Fresh(Sections) = Sections
    BY FreshTable DEF ProbesAreShort
  <2> HIDE DEF r
  <2>5. InPeriod(req'[c].got) /\ DOMAIN req'[c].got = Sections
    BY <2>2, <2>3, <2>4
  <2> QED BY <2>1, <2>5, OneAnswers
<1>3. CASE ~ok
  <2>1. C!Become(c, C!Idle)
    BY <1>3 DEF C!Cold
  <2>2. ~C!Answered(c)
    BY <1>1, <2>1, IdleRequest DEF C!Become, C!Answered
  <2> QED BY <2>1, <2>2, OneAnswers
<1> QED BY <1>2, <1>3

\* The answers of all other steps of a request.
LEMMA RequestAnswers ==
    ASSUME SectionInv, ProbesAreShort, NEW c \in Clients,
           C!AskQuiet(c) \/ C!AskAll(c) \/ (\E ss \in SUBSET Sections \ {{}} : C!AskSome(c, ss))
             \/ C!Full(c) \/ C!Choose(c) \/ C!Serve(c) \/ C!Lookup(c) \/ \E ok \in BOOLEAN : C!Collect(c, ok)
    PROVE  AnswersOK
<1>0. req \in [Clients -> SectionRequests] /\ req[c] \in SectionRequests
  BY DEF SectionInv, SectionShape
<1>1. PICK r : C!Become(c, r)
  <2>1. CASE \E ok \in BOOLEAN : C!Collect(c, ok)
    BY <2>1 DEF C!Collect
  <2>2. CASE C!Full(c) \/ C!Choose(c)
    BY <2>2 DEF C!Full, C!Choose
  <2>3. CASE C!AskQuiet(c) \/ C!AskAll(c) \/ (\E ss \in SUBSET Sections \ {{}} : C!AskSome(c, ss))
    BY <2>3 DEF C!AskQuiet, C!AskAll, C!AskSome
  <2>4. CASE C!Serve(c) \/ C!Lookup(c)
    BY <2>4 DEF C!Serve, C!Lookup
  <2> QED BY <2>1, <2>2, <2>3, <2>4
<1>2. CASE C!AskQuiet(c) \/ C!AskAll(c) \/ (\E ss \in SUBSET Sections \ {{}} : C!AskSome(c, ss))
  <2>1. ~C!Answered(c)
    BY <1>2 DEF C!AskQuiet, C!AskAll, C!AskSome, C!Answered
  <2> QED BY <1>1, <2>1, OneAnswers
<1>3. CASE C!Full(c) \/ C!Choose(c)
  <2>1. req'[c].pc \in {"idle", "choose", "sections", "cold"}
    <3> DEFINE q == [req[c] EXCEPT !.pc = IF quiet THEN "idle" ELSE "sections", !.set = monitored]
               u == [req[c] EXCEPT !.pc = "cold"]
               v == [req[c] EXCEPT !.pc = "choose"]
    <3>1. q.pc \in {"idle", "sections"} /\ u.pc = "cold" /\ v.pc = "choose"
      BY <1>0 DEF SectionRequests
    <3>2. C!Become(c, q) \/ C!Become(c, u) \/ C!Become(c, v)
      BY <1>3 DEF C!Full, C!Choose
    <3> HIDE DEF q, u, v
    <3>3. req'[c] = q \/ req'[c] = u \/ req'[c] = v
      BY <1>0, <3>2 DEF C!Become
    <3> QED BY <3>1, <3>3
  <2> QED BY <1>1, <2>1, OneAnswers DEF C!Answered
<1>4. CASE C!Serve(c) \/ C!Lookup(c) \/ \E ok \in BOOLEAN : C!Collect(c, ok)
  <2>1. C!Answered(c) => InPeriod(req'[c].got) /\ (req[c].all => DOMAIN req'[c].got = Sections)
    BY <1>4, ServeSections, LookupSections, CollectSections DEF C!Answered
  <2> QED BY <1>1, <2>1, OneAnswers
<1> QED BY <1>2, <1>3, <1>4

\* Every step keeps the invariant, and answers as it should.
LEMMA SectionStep ==
    ASSUME SectionInv, ProbesAreShort, [C!Next]_C!vars
    PROVE  SectionInv' /\ AnswersOK
<1>1. CASE C!Begin
  BY <1>1, BeginKeeps, NobodyAnswers DEF C!Begin
<1>2. CASE C!Quiet
  BY <1>2, QuietKeeps, NobodyAnswers DEF C!Quiet
<1>3. CASE C!Tick
  BY <1>3, SectionTickKeeps, NobodyAnswers DEF C!Tick
<1>4. ASSUME NEW ss \in SUBSET Sections, C!Configure(ss) PROVE SectionInv' /\ AnswersOK
  BY <1>4, ConfigureKeeps, NobodyAnswers DEF C!Configure
<1>5. ASSUME NEW ok \in BOOLEAN, C!Collected(ok) PROVE SectionInv' /\ AnswersOK
  BY <1>5, CollectedKeeps, NobodyAnswers DEF C!Collected
<1>6. ASSUME NEW c \in Clients, C!Snapshot(c) PROVE SectionInv' /\ AnswersOK
  BY <1>6, SnapshotKeeps, SnapshotAnswers
<1>7. ASSUME NEW c \in Clients, NEW ok \in BOOLEAN, C!Cold(c, ok) PROVE SectionInv' /\ AnswersOK
  BY <1>7, ColdKeeps, ColdAnswers
<1>8. ASSUME NEW c \in Clients,
             C!AskQuiet(c) \/ C!AskAll(c) \/ (\E ss \in SUBSET Sections \ {{}} : C!AskSome(c, ss))
               \/ C!Full(c) \/ C!Choose(c) \/ C!Serve(c) \/ C!Lookup(c) \/ \E ok \in BOOLEAN : C!Collect(c, ok)
      PROVE  SectionInv' /\ AnswersOK
  <2>1. AnswersOK
    BY <1>8, RequestAnswers
  <2>2. CASE C!AskQuiet(c) \/ C!AskAll(c) \/ (\E ss \in SUBSET Sections \ {{}} : C!AskSome(c, ss))
    BY <2>1, <2>2, AskKeeps
  <2>3. CASE C!Full(c) \/ C!Choose(c)
    BY <2>1, <2>3, FullKeeps
  <2>4. CASE C!Serve(c) \/ C!Lookup(c) \/ \E ok \in BOOLEAN : C!Collect(c, ok)
    BY <2>1, <2>4, ServeSections, LookupSections, CollectSections
  <2> QED BY <1>8, <2>2, <2>3, <2>4
<1>9. CASE UNCHANGED C!vars
  <2>1. UNCHANGED <<quiet, monitored, coll, cache, probe, req, unsettled>>
    BY <1>9 DEF C!vars
  <2>2. AnswersOK
    BY <2>1, NobodyAnswers
  <2>3. SectionInv'
    BY <2>1 DEF SectionInv, SectionShape, CacheKeepsUp
  <2> QED BY <2>2, <2>3
<1> QED BY <1>1, <1>2, <1>3, <1>4, <1>5, <1>6, <1>7, <1>8, <1>9 DEF C!Next

\* The invariant of the answers holds in every reachable state.
THEOREM SectionsAreSafe == ProbesAreShort /\ C!Spec => []SectionInv
<1> SUFFICES ASSUME ProbesAreShort PROVE C!Spec => []SectionInv
  OBVIOUS
<1>1. C!Init => SectionInv
  BY InitSection
<1>2. SectionInv /\ [C!Next]_C!vars => SectionInv'
  BY SectionStep
<1> QED BY <1>1, <1>2, PTL DEF C!Spec

\* For any sections, clients and periods, an answer holds nothing older than the collector's period,
\* wherever its parts come from, with the exceptions that the property names.
\* (_respond_dynamic_sections, _dynamic_info_collector_loop.)
THEOREM AnswersAreFresh == ProbesAreShort /\ C!Spec => [][C!AnswerFresh]_C!vars
<1> SUFFICES ASSUME ProbesAreShort PROVE C!Spec => [][C!AnswerFresh]_C!vars
  OBVIOUS
<1>1. SectionInv /\ [C!Next]_C!vars => [C!AnswerFresh]_C!vars
  <2>1. AnswersOK => C!AnswerFresh
    BY DEF AnswersOK, C!AnswerFresh, InPeriod
  <2> QED BY <2>1, SectionStep
<1>2. C!Spec => []SectionInv
  BY SectionsAreSafe
<1> QED BY <1>1, <1>2, PTL DEF C!Spec

\* For the same, an answer for all sections has them all.  (_respond_dynamic_info_full.)
THEOREM AnswersAreComplete == ProbesAreShort /\ C!Spec => [][C!AnswerComplete]_C!vars
<1> SUFFICES ASSUME ProbesAreShort PROVE C!Spec => [][C!AnswerComplete]_C!vars
  OBVIOUS
<1>1. SectionInv /\ [C!Next]_C!vars => [C!AnswerComplete]_C!vars
  <2>1. AnswersOK => C!AnswerComplete
    BY DEF AnswersOK, C!AnswerComplete
  <2> QED BY <2>1, SectionStep
<1>2. C!Spec => []SectionInv
  BY SectionsAreSafe
<1> QED BY <1>1, <1>2, PTL DEF C!Spec

-----------------------------------------------------------------------------
(***************************************************************************)
(* The load of the disks: the sum of a set, the mean and the worst, the    *)
(* curves and the gate.                                                    *)
(***************************************************************************)

\* There are finitely many disks, each of a known kind.
DisksAreKnown ==
    /\ IsFiniteSet(Names)
    /\ \A n \in Names : Devices[n] \subseteq {"nvme", "stick", "card", "ssd", "spindle"}

Permille == 0 .. 1000

-----------------------------------------------------------------------------
\* the load of all disks, one picked after the other
Pick(s) == CHOOSE x \in s : TRUE
Totals(p, Dom, g) == g = [s \in SUBSET Dom |-> IF s = {} THEN 0 ELSE p[Pick(s)] + g[s \ {Pick(s)}]]

\* The load of all disks is that of one picked, and of the others.
LEMMA SumIs ==
    ASSUME NEW p, NEW Dom, Dom = DOMAIN p
    PROVE  D!Sum(p) = (CHOOSE g : Totals(p, Dom, g))[Dom]
<1>1. D!Sum(p) = (CHOOSE g : g = [s \in SUBSET Dom |-> IF s = {} THEN 0
                         ELSE p[CHOOSE x \in s : TRUE] + g[s \ {CHOOSE x \in s : TRUE}]])[Dom]
  BY DEF D!Sum, D!MapThenSumSet, D!MapThenFoldSet
<1> QED BY <1>1 DEF Totals, Pick

\* What is picked from a set is in it.
LEMMA PickIs == ASSUME NEW s, s # {} PROVE Pick(s) \in s
BY DEF Pick

\* A subset is no greater, and without what is picked from it smaller by one.
LEMMA SmallerSets ==
    ASSUME NEW Dom, IsFiniteSet(Dom), NEW s \in SUBSET Dom
    PROVE  /\ Cardinality(s) \in Nat /\ Cardinality(s) <= Cardinality(Dom) /\ (Cardinality(s) <= 0 => s = {})
           /\ s # {} => /\ Pick(s) \in s /\ s \ {Pick(s)} \in SUBSET Dom
                        /\ Cardinality(s \ {Pick(s)}) = Cardinality(s) - 1
<1>1. IsFiniteSet(s) /\ Cardinality(s) <= Cardinality(Dom)
  BY FS_Subset
<1>2. Cardinality(s) \in Nat /\ (Cardinality(s) = 0 <=> s = {})
  BY <1>1, FS_CardinalityType, FS_EmptySet
<1>3. s # {} => /\ Pick(s) \in s /\ s \ {Pick(s)} \in SUBSET Dom
                /\ Cardinality(s \ {Pick(s)}) = Cardinality(s) - 1
  BY <1>1, PickIs, FS_RemoveElement
<1> QED BY <1>1, <1>2, <1>3

\* There are such totals: those of greater sets are made of those of smaller ones.
LEMMA TotalsExist ==
    ASSUME NEW Dom, IsFiniteSet(Dom), NEW p \in [Dom -> Nat]
    PROVE  \E g : Totals(p, Dom, g)
<1> DEFINE Step(g, s) == IF s = {} THEN 0 ELSE p[Pick(s)] + g[s \ {Pick(s)}]
           UpTo(g, k) == \A s \in SUBSET Dom : Cardinality(s) <= k => g[s] = Step(g, s)
           Bad == {k \in Nat : ~ \E g \in [SUBSET Dom -> Nat] : UpTo(g, k)}
<1>1. ASSUME NEW g \in [SUBSET Dom -> Nat], NEW s \in SUBSET Dom PROVE Step(g, s) \in Nat
  <2>1. CASE s = {}
    BY <2>1
  <2>2. CASE s # {}
    <3>1. Pick(s) \in Dom /\ s \ {Pick(s)} \in SUBSET Dom
      BY <2>2, SmallerSets
    <3> QED BY <2>2, <3>1
  <2> QED BY <2>1, <2>2
<1>2. Bad = {}
  <2> SUFFICES ASSUME Bad # {} PROVE FALSE
    OBVIOUS
  <2>1. PICK k \in Bad : \A j \in Bad : <<j, k>> \notin OpToRel(<, Nat)
    <3>1. Bad \subseteq Nat
      OBVIOUS
    <3> HIDE DEF Bad
    <3> QED BY <3>1, NatLessThanWellFounded, WFMin
  <2>2. k \in Nat /\ ~ \E g \in [SUBSET Dom -> Nat] : UpTo(g, k)
    OBVIOUS
  <2>3. ASSUME NEW j \in Nat, j < k PROVE \E g \in [SUBSET Dom -> Nat] : UpTo(g, j)
    <3>1. <<j, k>> \in OpToRel(<, Nat)
      BY <2>2, <2>3 DEF OpToRel
    <3>2. j \notin Bad
      BY <2>1, <3>1
    <3> QED BY <3>2
  <2>4. CASE k = 0
    <3> DEFINE g == [s \in SUBSET Dom |-> 0]
    <3>1. g \in [SUBSET Dom -> Nat]
      OBVIOUS
    <3>2. ASSUME NEW s \in SUBSET Dom, Cardinality(s) <= 0 PROVE g[s] = Step(g, s)
      BY <3>2, SmallerSets
    <3>3. UpTo(g, 0)
      BY <3>2
    <3> QED BY <2>2, <2>4, <3>1, <3>3
  <2>5. CASE k # 0
    <3>1. k - 1 \in Nat /\ k - 1 < k
      BY <2>2, <2>5
    <3>2. PICK g \in [SUBSET Dom -> Nat] : UpTo(g, k - 1)
      BY <2>3, <3>1
    <3> DEFINE h == [s \in SUBSET Dom |-> Step(g, s)]
    <3>3. h \in [SUBSET Dom -> Nat]
      BY <1>1
    <3>4. ASSUME NEW s \in SUBSET Dom, Cardinality(s) <= k PROVE h[s] = Step(h, s)
      <4>1. CASE s = {}
        BY <4>1
      <4>2. CASE s # {}
        <5> DEFINE t == s \ {Pick(s)}
        <5>1. t \in SUBSET Dom /\ Cardinality(t) = Cardinality(s) - 1 /\ Cardinality(s) \in Nat
          BY <4>2, SmallerSets
        <5>2. Cardinality(t) <= k - 1
          BY <2>2, <3>4, <5>1
        <5>3. g[t] = Step(g, t)
          BY <3>2, <5>1, <5>2
        <5>4. h[t] = Step(g, t)
          BY <5>1
        <5>5. h[s] = p[Pick(s)] + g[t]
          BY <4>2
        <5> QED BY <4>2, <5>3, <5>4, <5>5
      <4> QED BY <4>1, <4>2
    <3>5. UpTo(h, k)
      BY <3>4
    <3> QED BY <2>2, <3>3, <3>5
  <2> QED BY <2>4, <2>5
<1>3. Cardinality(Dom) \in Nat
  BY FS_CardinalityType
<1>4. PICK g \in [SUBSET Dom -> Nat] : UpTo(g, Cardinality(Dom))
  BY <1>2, <1>3
<1>5. \A s \in SUBSET Dom : g[s] = Step(g, s)
  BY <1>4, SmallerSets
<1>6. g = [s \in SUBSET Dom |-> Step(g, s)]
  BY <1>5
<1>7. Totals(p, Dom, g)
  BY <1>6 DEF Totals
<1> QED BY <1>7

\* A sum is above each of its parts, and bounded by as many of the greatest.
LEMMA SumBounds ==
    ASSUME NEW Dom, IsFiniteSet(Dom), NEW p \in [Dom -> Nat], NEW K \in Nat, \A x \in Dom : p[x] <= K
    PROVE  D!Sum(p) \in Nat /\ D!Sum(p) <= K * Cardinality(Dom) /\ \A x \in Dom : p[x] <= D!Sum(p)
<1> DEFINE g == CHOOSE f : Totals(p, Dom, f)
           Fine(s) == g[s] \in Nat /\ g[s] <= K * Cardinality(s) /\ \A x \in s : p[x] <= g[s]
           Bad == {k \in Nat : \E s \in SUBSET Dom : Cardinality(s) = k /\ ~Fine(s)}
<1>1. Totals(p, Dom, g)
  BY TotalsExist
<1>2. ASSUME NEW s \in SUBSET Dom PROVE g[s] = IF s = {} THEN 0 ELSE p[Pick(s)] + g[s \ {Pick(s)}]
  <2> HIDE DEF g
  <2> QED BY <1>1 DEF Totals
<1>3. D!Sum(p) = g[Dom]
  BY SumIs
<1> HIDE DEF g
<1>4. Bad = {}
  <2> SUFFICES ASSUME Bad # {} PROVE FALSE
    OBVIOUS
  <2>1. PICK k \in Bad : \A j \in Bad : <<j, k>> \notin OpToRel(<, Nat)
    <3>1. Bad \subseteq Nat
      OBVIOUS
    <3> HIDE DEF Bad
    <3> QED BY <3>1, NatLessThanWellFounded, WFMin
  <2>2. PICK s \in SUBSET Dom : Cardinality(s) = k /\ ~Fine(s)
    OBVIOUS
  <2>3. k \in Nat
    OBVIOUS
  <2>4. CASE s = {}
    <3>1. g[s] = 0 /\ Cardinality(s) = 0
      BY <1>2, <2>4, FS_EmptySet
    <3>2. K * Cardinality(s) = 0
      BY <3>1
    <3> QED BY <2>2, <2>4, <3>1, <3>2
  <2>5. CASE s # {}
    <3> DEFINE x == Pick(s)
               t == s \ {x}
    <3>1. x \in s /\ x \in Dom /\ t \in SUBSET Dom /\ Cardinality(t) = k - 1 /\ k - 1 \in Nat
      BY <2>2, <2>3, <2>5, SmallerSets
    <3>2. g[s] = p[x] + g[t]
      BY <1>2, <2>5
    <3>3. k - 1 \notin Bad
      <4>1. <<k - 1, k>> \in OpToRel(<, Nat)
        BY <2>3, <3>1 DEF OpToRel
      <4> QED BY <2>1, <4>1
    <3>4. Fine(t)
      BY <3>1, <3>3
    <3> HIDE DEF x, t
    <3>5. p[x] \in Nat /\ p[x] <= K
      BY <3>1
    <3>6. g[t] \in Nat /\ g[t] <= K * (k - 1)
      BY <3>1, <3>4
    <3>7. K * (k - 1) = K * k - K /\ K * k \in Nat
      BY <2>3
    <3>8. g[s] \in Nat /\ g[s] <= K * Cardinality(s)
      BY <2>2, <3>2, <3>5, <3>6, <3>7
    <3>9. \A y \in s : p[y] <= g[s]
      <4>1. p[x] <= g[s]
        BY <3>2, <3>5, <3>6
      <4>2. ASSUME NEW y \in t PROVE p[y] <= g[s]
        <5>1. p[y] <= g[t] /\ p[y] \in Nat
          BY <3>1, <3>4
        <5> QED BY <3>2, <3>5, <3>6, <5>1
      <4>3. \A y \in s : y = x \/ y \in t
        BY DEF t
      <4> QED BY <4>1, <4>2, <4>3
    <3> QED BY <2>2, <3>8, <3>9
  <2> QED BY <2>4, <2>5
<1>5. Cardinality(Dom) \in Nat /\ Dom \in SUBSET Dom
  BY FS_CardinalityType
<1>6. Fine(Dom)
  BY <1>4, <1>5
<1> QED BY <1>3, <1>6

-----------------------------------------------------------------------------
\* One cardinality.
LEMMA DisksAreCounted == \A s : D!Cardinality(s) = Cardinality(s)
BY DEF D!Cardinality, Cardinality

\* A product grows with its factors.
LEMMA ProductGrows ==
    ASSUME NEW a \in Nat, NEW b \in Nat, NEW u \in Nat, NEW v \in Nat, a <= u, b <= v
    PROVE  a * b \in Nat /\ a * b <= u * v
<1>1. PICK i \in Nat : u = a + i
  <2>1. u - a \in Nat /\ u = a + (u - a)
    OBVIOUS
  <2> QED BY <2>1
<1>2. PICK j \in Nat : v = b + j
  <2>1. v - b \in Nat /\ v = b + (v - b)
    OBVIOUS
  <2> QED BY <2>1
<1>3. u * v = a * b + a * j + i * b + i * j
  BY <1>1, <1>2
<1>4. a * b \in Nat /\ a * j \in Nat /\ i * b \in Nat /\ i * j \in Nat
  BY <1>1, <1>2
<1> QED BY <1>3, <1>4

\* A mean is no more than the greatest.
LEMMA MeanBounds ==
    ASSUME NEW a \in Nat, NEW c \in Nat, c > 0, NEW K \in Nat, a <= K * c
    PROVE  a \div c \in 0 .. K
<1> DEFINE q == a \div c
           r == a % c
<1>1. a = c * q + r /\ r \in 0 .. (c - 1) /\ q \in Nat
  OBVIOUS
<1> HIDE DEF q, r
<1>2. q <= K
  <2> SUFFICES ASSUME q >= K + 1 PROVE FALSE
    BY <1>1
  <2>1. (K + 1) * c <= q * c /\ (K + 1) * c = K * c + c
    BY <1>1, ProductGrows
  <2>2. q * c = c * q /\ q * c \in Nat /\ K * c \in Nat
    BY <1>1
  <2> QED BY <1>1, <2>1, <2>2
<1> QED BY <1>1, <1>2 DEF q

\* The worst disk is one of them, and no other is worse.
LEMMA WorstIs ==
    ASSUME NEW Dom, Dom # {}, NEW p \in [Dom -> Permille]
    PROVE  (\E x \in Dom : D!Worst(p) = p[x]) /\ \A x \in Dom : p[x] <= D!Worst(p)
<1> DEFINE all == {p[x] : x \in Dom}
<1>1. all \in SUBSET (0 .. 1000) /\ all # {}
  BY DEF Permille
<1>2. \E t \in all : \A u \in all : t >= u
  <2> HIDE DEF all
  <2>1. \A s \in SUBSET (0 .. 1000) : s # {} => LatestOf(s) \in s /\ \A u \in s : u <= LatestOf(s)
    BY LastIsLatest, 1000 \in Nat
  <2>2. LatestOf(all) \in all /\ \A u \in all : u <= LatestOf(all)
    BY <1>1, <2>1
  <2> QED BY <1>1, <2>2
<1>3. D!Worst(p) = CHOOSE t \in all : \A u \in all : t >= u
  <2>1. DOMAIN p = Dom
    OBVIOUS
  <2> QED BY <2>1 DEF D!Worst, D!Max
<1>4. D!Worst(p) \in all /\ \A u \in all : D!Worst(p) >= u
  <2> HIDE DEF all
  <2> QED BY <1>2, <1>3
<1>5. ASSUME NEW x \in Dom PROVE p[x] <= D!Worst(p)
  <2>1. D!Worst(p) >= p[x] /\ D!Worst(p) \in Permille /\ p[x] \in Permille
    BY <1>1, <1>4 DEF Permille
  <2> QED BY <2>1 DEF Permille
<1> QED BY <1>4, <1>5

\* the mean m raised by the worst w
Raised(m, w) == 1000 - ((1000 - m) * (1000 - (8 * w) \div 10)) \div 1000

\* The score is raised from a mean by the worst disk; of up to seven, the mean has the share of each.
LEMMA CombinedIs ==
    ASSUME NEW Dom, IsFiniteSet(Dom), Dom # {}, NEW p \in [Dom -> Permille], NEW K \in Permille,
           \A x \in Dom : p[x] <= K
    PROVE  \E m \in 0 .. K : \E w \in 0 .. K :
             /\ D!Combined(p) = Raised(m, w) /\ \A x \in Dom : p[x] <= w
             /\ \A x \in Dom : Cardinality(Dom) <= 7 => p[x] <= 7 * m + 6
<1> DEFINE c == Cardinality(Dom)
           m == D!Sum(p) \div c
           w == D!Worst(p)
<1>1. c \in Nat /\ c > 0
  BY FS_CardinalityType, FS_EmptySet
<1>2. /\ D!Sum(p) \in Nat /\ D!Sum(p) <= K * c /\ \A x \in Dom : p[x] <= D!Sum(p)
      /\ K \in Nat
  <2>1. p \in [Dom -> Nat] /\ K \in Nat
    BY DEF Permille
  <2> QED BY <2>1, SumBounds
<1>3. m \in 0 .. K
  BY <1>1, <1>2, MeanBounds
<1>4. w \in 0 .. K /\ \A x \in Dom : p[x] <= w
  BY WorstIs DEF Permille
<1>5. D!Combined(p) = Raised(m, w)
  <2>1. DOMAIN p = Dom
    OBVIOUS
  <2> QED BY <2>1, DisksAreCounted DEF D!Combined, Raised
<1>6. ASSUME NEW x \in Dom, c <= 7 PROVE p[x] <= 7 * m + 6
  <2>1. p[x] \in Nat /\ p[x] <= D!Sum(p)
    BY <1>2 DEF Permille
  <2>2. c \in {1, 2, 3, 4, 5, 6, 7}
    BY <1>1, <1>6
  <2> HIDE DEF c
  <2>3. D!Sum(p) <= 7 * m + 6
    <3>1. ASSUME NEW a \in Nat PROVE /\ a <= 7 * (a \div 1) + 6 /\ a <= 7 * (a \div 2) + 6
                                     /\ a <= 7 * (a \div 3) + 6 /\ a <= 7 * (a \div 4) + 6
                                     /\ a <= 7 * (a \div 5) + 6 /\ a <= 7 * (a \div 6) + 6
                                     /\ a <= 7 * (a \div 7) + 6
      OBVIOUS
    <3> QED BY <1>2, <2>2, <3>1
  <2> HIDE DEF m
  <2> QED BY <1>2, <1>3, <2>1, <2>3
<1> QED BY <1>3, <1>4, <1>5, <1>6

\* What swamped and quiet disks come to.
LEMMA RaisedBounds ==
    ASSUME NEW m \in Permille, NEW w \in Permille
    PROVE  /\ Raised(m, w) \in Permille
           /\ m >= 135 /\ w >= 950 => Raised(m, w) >= 793
           /\ m <= 275 /\ w <= 275 => Raised(m, w) <= 435
<1> DEFINE a == 1000 - m
           b == 1000 - (8 * w) \div 10
<1>1. /\ a \in 0 .. 1000 /\ b \in 200 .. 1000
      /\ (w >= 950 => b <= 240) /\ (w <= 275 => b >= 780)
      /\ (m >= 135 => a <= 865) /\ (m <= 275 => a >= 725)
  BY DEF Permille
<1>2. Raised(m, w) = 1000 - (a * b) \div 1000
  BY DEF Raised
<1> HIDE DEF a, b
<1>3. a * b \in Nat /\ a * b <= 1000000
  BY <1>1, ProductGrows, 1000 * 1000 = 1000000
<1>4. Raised(m, w) \in Permille
  BY <1>2, <1>3 DEF Permille
<1>5. ASSUME m >= 135, w >= 950 PROVE Raised(m, w) >= 793
  <2>1. a * b <= 865 * 240 /\ 865 * 240 = 207600
    BY <1>1, <1>5, ProductGrows
  <2> QED BY <1>2, <1>3, <2>1
<1>6. ASSUME m <= 275, w <= 275 PROVE Raised(m, w) <= 435
  <2>1. 725 * 780 <= a * b /\ 725 * 780 = 565500
    BY <1>1, <1>6, ProductGrows
  <2> QED BY <1>2, <1>3, <2>1
<1> QED BY <1>4, <1>5, <1>6

-----------------------------------------------------------------------------
\* The less of two numbers.
LEMMA LessIs == ASSUME NEW a \in Int, NEW b \in Int PROVE D!Min({a, b}) = IF a <= b THEN a ELSE b
<1> DEFINE x == IF a <= b THEN a ELSE b
<1>1. x \in {a, b} /\ \A y \in {a, b} : x =< y
  OBVIOUS
<1>2. \A z \in {a, b} : (\A y \in {a, b} : z =< y) => z = x
  OBVIOUS
<1> QED BY <1>1, <1>2 DEF D!Min

\* The greater of two numbers.
LEMMA MoreIs == ASSUME NEW a \in Int, NEW b \in Int PROVE D!Max({a, b}) = IF a >= b THEN a ELSE b
<1> DEFINE x == IF a >= b THEN a ELSE b
<1>1. x \in {a, b} /\ \A y \in {a, b} : x >= y
  OBVIOUS
<1>2. \A z \in {a, b} : (\A y \in {a, b} : z >= y) => z = x
  OBVIOUS
<1> QED BY <1>1, <1>2 DEF D!Max

\* A full stall counts in full, whoever is to blame.
LEMMA StalledIs ==
    ASSUME NEW s \in D!Stalls
    PROVE  D!Stalled(s) \in Permille /\ (s.full = 1000 => D!Stalled(s) = 1000)
<1> DEFINE x == (((s.some \div 2) + 3 * s.full) * (IF s.blamed THEN 3 ELSE 10)) \div 10
<1>1. /\ s.some \in {0, 1000} /\ s.full \in {0, 300, 1000} /\ s.blamed \in BOOLEAN
      /\ s.full <= s.some
  BY DEF D!Stalls
<1>2. x \in Nat
  <2>1. CASE s.blamed
    BY <1>1, <2>1
  <2>2. CASE ~s.blamed
    BY <1>1, <2>2
  <2> QED BY <2>1, <2>2
<1>3. s.full = 1000 => x >= 1000
  <2>1. s.full = 1000 => s.some = 1000
    BY <1>1
  <2>2. CASE s.blamed
    BY <1>1, <2>1, <2>2
  <2>3. CASE ~s.blamed
    BY <1>1, <2>1, <2>3
  <2> QED BY <2>2, <2>3
<1>4. D!Stalled(s) = D!Min({1000, x})
  BY DEF D!Stalled
<1> HIDE DEF x
<1>5. D!Stalled(s) = IF 1000 <= x THEN 1000 ELSE x
  BY <1>2, <1>4, LessIs
<1>6. 1000 \in Permille /\ (~(1000 <= x) => x \in Permille)
  BY <1>2 DEF Permille
<1> QED BY <1>3, <1>5, <1>6

\* Where a stall is the disks' and where it is not.
LEMMA SaturationIs ==
    ASSUME NEW c \in Permille
    PROVE  /\ D!Saturation(c) \in Permille
           /\ c <= 435 => D!Saturation(c) <= 87
           /\ c >= 793 => D!Saturation(c) >= 982
           /\ c >= 800 => D!Saturation(c) = 1000
<1> DEFINE x == ((c - D!Low) * 1000) \div (D!High - D!Low)
<1>1. /\ x \in Int /\ (c <= 435 => x <= 87) /\ (c >= 793 => x >= 982)
      /\ (c >= 800 => x >= 1000)
  BY DEF Permille, D!Low, D!High
<1>2. D!Saturation(c) = D!Max({0, D!Min({1000, x})})
  BY DEF D!Saturation
<1> HIDE DEF x
<1>3. D!Saturation(c) = IF 0 >= (IF 1000 <= x THEN 1000 ELSE x) THEN 0
                        ELSE IF 1000 <= x THEN 1000 ELSE x
  BY <1>1, <1>2, LessIs, MoreIs
<1> QED BY <1>1, <1>3 DEF Permille

\* So quiet disks stay below medium, and swamped ones are critical under a full stall.
LEMMA RawIs ==
    ASSUME NEW c \in Permille, NEW s \in D!Stalls
    PROVE  /\ c <= 435 => D!Raw(c, s) < D!Medium
           /\ c >= 793 /\ s.full = 1000 => D!Raw(c, s) >= D!Critical
<1> DEFINE t == D!Stalled(s)
           g == D!Saturation(c)
           y == (t * g) \div 1000
<1>1. t \in Permille /\ (s.full = 1000 => t = 1000)
  BY StalledIs
<1>2. /\ g \in Permille /\ (c <= 435 => g <= 87) /\ (c >= 793 => g >= 982)
      /\ (c >= 800 => g = 1000)
  BY SaturationIs
<1>3. D!Raw(c, s) = c + ((1000 - c) * y) \div 1000
  BY DEF D!Raw
<1>4. ASSUME c <= 435 PROVE D!Raw(c, s) < D!Medium
  <2> HIDE DEF t, g
  <2>1. t * g \in Nat /\ t * g <= 1000 * 87
    BY <1>1, <1>2, <1>4, ProductGrows DEF Permille
  <2>2. y \in Nat /\ y <= 87
    BY <2>1
  <2> HIDE DEF y
  <2>3. (1000 - c) * y \in Nat /\ (1000 - c) * y <= 1000 * 87
    BY <2>2, ProductGrows DEF Permille
  <2> QED BY <1>3, <1>4, <2>3 DEF D!Medium, Permille
<1>5. ASSUME c >= 793, s.full = 1000 PROVE D!Raw(c, s) >= D!Critical
  <2> HIDE DEF t, g
  <2>1. y = g
    BY <1>1, <1>2, <1>5 DEF Permille
  <2> HIDE DEF y
  <2>2. CASE c >= 800
    <3>1. y = 1000
      BY <1>2, <2>1, <2>2
    <3> QED BY <1>3, <2>2, <3>1 DEF D!Critical, Permille
  <2>3. CASE c < 800
    <3>1. c \in {793, 794, 795, 796, 797, 798, 799}
      BY <1>5, <2>3 DEF Permille
    <3>2. y \in 982 .. 1000
      BY <1>2, <1>5, <2>1 DEF Permille
    <3> QED BY <1>3, <3>1, <3>2 DEF D!Critical
  <2> QED BY <2>2, <2>3 DEF Permille
<1> QED BY <1>4, <1>5

-----------------------------------------------------------------------------
\* a disk that is known, by what it does and what it was found to be
Kinds == {"nvme", "stick", "card", "ssd", "spindle"}

\* What sysfs says of a known disk gives its media.
LEMMA FactsAre ==
    ASSUME NEW d \in Kinds
    PROVE  /\ D!Facts(d).depth \in Nat /\ D!Classified(d) \in D!Media
           /\ d \in {"stick", "card", "spindle"} => D!Classified(d) \in {"usb", "mmc", "hdd"}
<1>1. CASE d = "nvme"
  BY <1>1 DEF D!Facts, D!Classified, D!Media
<1>2. CASE d = "stick"
  BY <1>2 DEF D!Facts, D!Classified, D!Media
<1>3. CASE d = "card"
  BY <1>3 DEF D!Facts, D!Classified, D!Media
<1>4. CASE d = "ssd"
  BY <1>4 DEF D!Facts, D!Classified, D!Media
<1>5. CASE d = "spindle"
  BY <1>5 DEF D!Facts, D!Classified, D!Media
<1> QED BY <1>1, <1>2, <1>3, <1>4, <1>5 DEF Kinds

\* The middles of the media, and those of the slow ones.
LEMMA MiddleIs ==
    ASSUME NEW m \in D!Media
    PROVE  /\ D!Middle(m).util \in 80 .. 95 /\ D!Middle(m).await \in 1 .. 30
           /\ D!Middle(m).queue \in 1 .. 32
           /\ m \in {"usb", "mmc", "hdd"} => D!Middle(m).await >= 10
<1>1. CASE m = "nvme"
  BY <1>1 DEF D!Middle
<1>2. CASE m = "usb"
  BY <1>2 DEF D!Middle
<1>3. CASE m = "mmc"
  BY <1>3 DEF D!Middle
<1>4. CASE m = "hdd"
  BY <1>4 DEF D!Middle
<1>5. CASE m = "sata_ssd"
  BY <1>5 DEF D!Middle
<1> QED BY <1>1, <1>2, <1>3, <1>4, <1>5 DEF D!Media

\* What one disk's pressure can be: quiet, routine on a slow disk, or swamped.
LEMMA PressureIs ==
    ASSUME NEW l \in D!Loads, NEW m \in D!Media, NEW depth \in Nat
    PROVE  /\ D!Pressure(l, m, depth) \in Permille
           /\ l \in {"idle", "flush"} => D!Pressure(l, m, depth) <= 275
           /\ l = "swamped" => D!Pressure(l, m, depth) >= 950
           /\ l = "write" /\ m \in {"usb", "mmc", "hdd"} => D!Pressure(l, m, depth) <= 375
<1> DEFINE s == D!Load(l)
           a == D!Activity(s.util)
           ca == D!Curve(s.await, D!Middle(m).await)
           cq == D!Curve(s.queue, D!QueueMiddle(m, depth))
           cu == D!Curve(s.util, D!Middle(m).util)
<1>1. D!Pressure(l, m, depth) = (a * (275 * ca + 175 * cq)) \div 2 + 50 * cu
  BY DEF D!Pressure
<1>2. a \in {0, 1, 2} /\ ca \in {0, 1, 2} /\ cq \in {0, 1, 2} /\ cu \in {0, 1, 2}
  BY DEF D!Activity, D!Curve
<1>3. D!QueueMiddle(m, depth) \in 1 .. 32
  BY MiddleIs DEF D!QueueMiddle
<1>4. (l = "idle" => a = 0 /\ cu = 0) /\ (l = "flush" => a = 1 /\ cq = 0 /\ cu = 0)
  BY <1>3, MiddleIs DEF D!Load, D!Activity, D!Curve
<1>5. l = "swamped" => a = 2 /\ ca = 2 /\ cq = 2 /\ cu \in {1, 2}
  BY <1>3, MiddleIs DEF D!Load, D!Activity, D!Curve
<1>6. l = "write" /\ m \in {"usb", "mmc", "hdd"} => cq = 0 /\ ca \in {0, 1}
  BY <1>3, MiddleIs DEF D!Load, D!Activity, D!Curve
<1> HIDE DEF a, ca, cq, cu
<1>7. D!Pressure(l, m, depth) \in Permille
  BY <1>1, <1>2 DEF Permille
<1>8. l \in {"idle", "flush"} => D!Pressure(l, m, depth) <= 275
  BY <1>1, <1>2, <1>4
<1>9. l = "swamped" => D!Pressure(l, m, depth) >= 950
  BY <1>1, <1>5
<1>10. l = "write" /\ m \in {"usb", "mmc", "hdd"} => D!Pressure(l, m, depth) <= 375
  BY <1>1, <1>2, <1>6
<1> QED BY <1>7, <1>8, <1>9, <1>10

-----------------------------------------------------------------------------
DiskShape ==
    /\ \A n \in Names : plugged[n] \in {D!NoDevice} \cup Devices[n]
    /\ known \in [Names -> {D!NoDevice} \cup D!Media]

DiskInv ==
    /\ DiskShape /\ D!LoadIsJudgedByMedia /\ D!QuietDisksAreCalm
    /\ Cardinality(Names) <= 7 => D!SwampedDiskIsCritical

\* A disk that is there is known, and its media found.
LEMMA PresentIs ==
    ASSUME DisksAreKnown, DiskShape, NEW n \in D!Present
    PROVE  /\ n \in Names /\ plugged[n] \in Kinds /\ plugged[n] # D!NoDevice
           /\ D!Found[n] \in D!Media
<1>1. n \in Names /\ plugged[n] # D!NoDevice
  BY DEF D!Present
<1>2. plugged[n] \in Kinds
  BY <1>1 DEF DisksAreKnown, DiskShape, Kinds
<1>3. D!Found[n] = IF known[n] = D!NoDevice THEN D!Classified(plugged[n]) ELSE known[n]
  BY <1>1 DEF D!Found
<1>4. known[n] \in {D!NoDevice} \cup D!Media
  BY <1>1 DEF DiskShape
<1> QED BY <1>1, <1>2, <1>3, <1>4, FactsAre

\* Media are found for names.
LEMMA FoundIs ==
    ASSUME DisksAreKnown, DiskShape
    PROVE  D!Found \in [Names -> {D!NoDevice} \cup D!Media]
<1>1. ASSUME NEW n \in Names PROVE D!Found[n] \in {D!NoDevice} \cup D!Media
  <2>1. CASE n \in D!Present
    BY <2>1, PresentIs
  <2>2. CASE n \notin D!Present
    BY <2>2 DEF D!Found, DiskShape
  <2> QED BY <2>1, <2>2
<1> QED BY <1>1 DEF D!Found

\* Nothing has been measured at rest.
LEMMA RestedIsCalm == D!Rested => D!LoadIsJudgedByMedia /\ D!QuietDisksAreCalm /\ D!SwampedDiskIsCritical
<1> SUFFICES ASSUME D!Rested
             PROVE  D!LoadIsJudgedByMedia /\ D!QuietDisksAreCalm /\ D!SwampedDiskIsCritical
  OBVIOUS
<1>1. truth.own = {} /\ report.score = 0 /\ report.busy = {}
  BY DEF D!Rested, D!NoReport, D!NoTruth
<1> QED BY <1>1 DEF D!LoadIsJudgedByMedia, D!QuietDisksAreCalm, D!SwampedDiskIsCritical, D!Medium

\* Nor after a step to it.
LEMMA RestedIsCalmNext ==
    D!Rested' => D!LoadIsJudgedByMedia' /\ D!QuietDisksAreCalm' /\ D!SwampedDiskIsCritical'
BY RestedIsCalm, PTL

\* A measurement judges every disk, and all of them.
LEMMA MeasureKeeps == ASSUME DisksAreKnown, DiskShape, D!Measure PROVE DiskInv'
<1> DEFINE There == D!Present
<1>1. PICK did \in [There -> D!Loads] :
        \E shown \in {f \in [There -> D!Loads] : \A n \in There : f[n] \in D!Seen(did[n], n)} :
        LET p == [n \in There |-> D!Pressure(shown[n], D!Found[n], D!Facts(plugged[n]).depth)]
            c == D!Combined(p)
            busy == {n \in There : p[n] >= D!Medium}
        IN \E s \in D!Stalls :
             /\ report' = [score |-> D!Raw(c, s), busy |-> busy]
             /\ truth' = [did |-> [n \in Names |-> IF n \in There THEN did[n] ELSE "idle"],
                          disk |-> plugged, stall |-> s,
                          own |-> {n \in There : compared[n] = "this"
                                                /\ D!Found[n] = D!Classified(plugged[n])},
                          new |-> {n \in There : compared[n] = "nothing"}]
  BY DEF D!Measure
<1>2. PICK shown \in [There -> D!Loads] :
        /\ \A n \in There : shown[n] \in D!Seen(did[n], n)
        /\ LET p == [n \in There |-> D!Pressure(shown[n], D!Found[n], D!Facts(plugged[n]).depth)]
               c == D!Combined(p)
               busy == {n \in There : p[n] >= D!Medium}
           IN \E s \in D!Stalls :
                /\ report' = [score |-> D!Raw(c, s), busy |-> busy]
                /\ truth' = [did |-> [n \in Names |-> IF n \in There THEN did[n] ELSE "idle"],
                             disk |-> plugged, stall |-> s,
                             own |-> {n \in There : compared[n] = "this"
                                                   /\ D!Found[n] = D!Classified(plugged[n])},
                             new |-> {n \in There : compared[n] = "nothing"}]
  BY <1>1
<1> DEFINE p == [n \in There |-> D!Pressure(shown[n], D!Found[n], D!Facts(plugged[n]).depth)]
           c == D!Combined(p)
<1>3. PICK s \in D!Stalls :
        /\ report' = [score |-> D!Raw(c, s), busy |-> {n \in There : p[n] >= D!Medium}]
        /\ truth' = [did |-> [n \in Names |-> IF n \in There THEN did[n] ELSE "idle"],
                     disk |-> plugged, stall |-> s,
                     own |-> {n \in There : compared[n] = "this"
                                           /\ D!Found[n] = D!Classified(plugged[n])},
                     new |-> {n \in There : compared[n] = "nothing"}]
  BY <1>2
<1>4. /\ report'.score = D!Raw(c, s) /\ report'.busy = {n \in There : p[n] >= D!Medium}
      /\ \A n \in There : truth'.did[n] = did[n]
      /\ truth'.disk = plugged /\ truth'.stall = s
      /\ truth'.own = {n \in There : compared[n] = "this" /\ D!Found[n] = D!Classified(plugged[n])}
      /\ truth'.new = {n \in There : compared[n] = "nothing"}
  <2>1. There \subseteq Names
    BY DEF D!Present
  <2> QED BY <1>3, <2>1
<1>5. DiskShape'
  BY FoundIs DEF D!Measure, DiskShape
<1>6. ASSUME NEW n \in There
      PROVE  /\ p[n] \in Permille
             /\ shown[n] \in {"idle", "flush"} => p[n] <= 275
             /\ shown[n] = "swamped" => p[n] >= 950
             /\ shown[n] = "write" /\ D!Found[n] \in {"usb", "mmc", "hdd"} => p[n] <= 375
  <2>1. shown[n] \in D!Loads /\ D!Found[n] \in D!Media /\ D!Facts(plugged[n]).depth \in Nat
    BY PresentIs, FactsAre
  <2>2. p[n] = D!Pressure(shown[n], D!Found[n], D!Facts(plugged[n]).depth)
    OBVIOUS
  <2> HIDE DEF p, There
  <2> QED BY <2>1, <2>2, PressureIs
<1>7. ASSUME NEW n \in truth'.own
      PROVE  /\ n \in There /\ truth'.did[n] = did[n] /\ shown[n] = did[n]
             /\ D!Found[n] = D!Classified(plugged[n]) /\ plugged[n] \in Kinds
  <2>1. n \in There /\ compared[n] = "this" /\ D!Found[n] = D!Classified(plugged[n])
    BY <1>4
  <2>2. shown[n] \in {did[n]}
    BY <1>2, <2>1 DEF D!Seen
  <2> QED BY <1>4, <2>1, <2>2, PresentIs
<1>8. ASSUME NEW n \in truth'.new PROVE n \in There /\ shown[n] = "idle"
  <2>1. n \in There /\ compared[n] = "nothing"
    BY <1>4
  <2>2. shown[n] \in {"idle"}
    BY <1>2, <2>1 DEF D!Seen
  <2> QED BY <2>1, <2>2
<1>9. p \in [There -> Permille] /\ IsFiniteSet(There) /\ Cardinality(There) <= Cardinality(Names)
  <2>1. There \subseteq Names
    BY DEF D!Present
  <2>2. p = [n \in There |-> p[n]]
    OBVIOUS
  <2> HIDE DEF p, There
  <2>3. p \in [There -> Permille]
    BY <1>6, <2>2
  <2> QED BY <2>1, <2>3, FS_Subset DEF DisksAreKnown
<1> HIDE DEF p, There, c
<1>10. ASSUME NEW K \in Permille, There # {}, \A x \in There : p[x] <= K
       PROVE  \E m \in 0 .. K : \E w \in 0 .. K :
                /\ c = Raised(m, w) /\ \A x \in There : p[x] <= w
                /\ \A x \in There : Cardinality(There) <= 7 => p[x] <= 7 * m + 6
  <2>1. \E m \in 0 .. K : \E w \in 0 .. K :
          /\ D!Combined(p) = Raised(m, w) /\ \A x \in There : p[x] <= w
          /\ \A x \in There : Cardinality(There) <= 7 => p[x] <= 7 * m + 6
    BY ONLY <1>9, <1>10, CombinedIs
  <2> QED BY ONLY <2>1 DEF c
<1>11. D!LoadIsJudgedByMedia'
  <2>1. ASSUME NEW n \in truth'.own, truth'.did[n] = "swamped" PROVE n \in report'.busy
    <3>1. n \in There /\ shown[n] = "swamped"
      BY <1>7, <2>1
    <3>2. p[n] >= 950 /\ p[n] \in Permille
      BY <1>6, <3>1
    <3>3. p[n] >= D!Medium
      BY <3>2 DEF D!Medium, Permille
    <3> QED BY <1>4, <3>1, <3>3
  <2>2. ASSUME NEW n \in truth'.own, truth'.did[n] = "write",
               truth'.disk[n] \in {"stick", "card", "spindle"}
        PROVE  n \notin report'.busy
    <3>1. n \in There /\ shown[n] = "write" /\ D!Found[n] = D!Classified(plugged[n])
          /\ plugged[n] \in Kinds /\ plugged[n] \in {"stick", "card", "spindle"}
      BY <1>4, <1>7, <2>2
    <3>2. D!Found[n] \in {"usb", "mmc", "hdd"}
      BY <3>1, FactsAre
    <3>3. p[n] <= 375 /\ p[n] \in Permille
      BY <1>6, <3>1, <3>2
    <3> QED BY <1>4, <3>3 DEF D!Medium, Permille
  <2> QED BY <2>1, <2>2 DEF D!LoadIsJudgedByMedia
<1>12. ASSUME Cardinality(Names) <= 7 PROVE D!SwampedDiskIsCritical'
  <2> SUFFICES ASSUME NEW n \in truth'.own, truth'.did[n] = "swamped", truth'.stall.full = 1000
               PROVE  report'.score >= D!Critical
    BY DEF D!SwampedDiskIsCritical, D!Critical
  <2>1. n \in There /\ p[n] >= 950 /\ There # {} /\ p[n] \in Permille
    BY <1>6, <1>7
  <2>2. Cardinality(There) <= 7
    <3>1. Cardinality(There) \in Nat /\ Cardinality(Names) \in Nat
      BY <1>9, FS_CardinalityType DEF DisksAreKnown
    <3> QED BY <1>9, <1>12, <3>1
  <2> DEFINE K == 1000
  <2>3. K \in Permille /\ \A x \in There : p[x] <= K
    BY <1>9 DEF Permille
  <2>4. K = 1000
    OBVIOUS
  <2> HIDE DEF K
  <2>5. PICK m \in 0 .. K, w \in 0 .. K : c = Raised(m, w) /\ p[n] <= w /\ p[n] <= 7 * m + 6
    <3>1. PICK m \in 0 .. K : \E w \in 0 .. K :
            /\ c = Raised(m, w) /\ \A x \in There : p[x] <= w
            /\ \A x \in There : Cardinality(There) <= 7 => p[x] <= 7 * m + 6
      BY <1>10, <2>1, <2>3
    <3>2. PICK w \in 0 .. K :
            /\ c = Raised(m, w) /\ \A x \in There : p[x] <= w
            /\ \A x \in There : Cardinality(There) <= 7 => p[x] <= 7 * m + 6
      BY <3>1
    <3> QED BY <2>1, <2>2, <3>2
  <2>6. m >= 135 /\ w >= 950 /\ m \in Permille /\ w \in Permille
    <3>1. m \in Int /\ w \in Int /\ p[n] \in Int
      <4>1. m \in Int /\ w \in Int
        BY <2>4
      <4>2. p[n] \in Int
        BY <2>1 DEF Permille
      <4> QED BY <4>1, <4>2
    <3>2. p[n] >= 950 /\ p[n] <= w /\ p[n] <= 7 * m + 6
      BY <2>1, <2>5
    <3>3. m >= 135 /\ w >= 950
      BY <3>1, <3>2
    <3> QED BY <2>4, <3>3 DEF Permille
  <2>7. c \in Permille /\ c >= 793
    BY <2>5, <2>6, RaisedBounds
  <2> QED BY <1>4, <2>7, RawIs
<1>13. D!QuietDisksAreCalm'
  <2> SUFFICES ASSUME \A n \in Names : \/ truth'.disk[n] = D!NoDevice \/ n \in truth'.new
                                       \/ n \in truth'.own /\ truth'.did[n] \in {"idle", "flush"}
               PROVE  report'.score < D!Medium /\ report'.busy = {}
    BY DEF D!QuietDisksAreCalm, D!Medium, D!NoDevice
  <2>1. ASSUME NEW n \in There PROVE p[n] <= 275 /\ p[n] \in Permille
    <3>1. n \in Names /\ truth'.disk[n] # D!NoDevice
      BY <1>4, PresentIs DEF There
    <3>2. shown[n] \in {"idle", "flush"}
      BY <1>7, <1>8, <3>1
    <3> QED BY <1>6, <3>2
  <2>2. report'.busy = {}
    <3>1. ASSUME NEW n \in There PROVE ~(p[n] >= D!Medium)
      <4>1. p[n] <= 275 /\ p[n] \in Permille
        BY <2>1
      <4>2. p[n] \in Int
        BY <4>1 DEF Permille
      <4> QED BY <4>1, <4>2 DEF D!Medium
    <3> QED BY <1>4, <3>1
  <2>3. c \in Permille /\ c <= 435
    <3>1. CASE There = {}
      <4>1. DOMAIN p = {}
        BY <1>9, <3>1
      <4>2. c = 0
        BY <4>1 DEF c, D!Combined
      <4> QED BY <4>2 DEF Permille
    <3>2. CASE There # {}
      <4>1. 275 \in Permille
        BY DEF Permille
      <4>3. PICK m \in 0 .. 275, w \in 0 .. 275 : c = Raised(m, w)
        BY <1>10, <2>1, <3>2, <4>1
      <4>4. m \in Permille /\ w \in Permille /\ m <= 275 /\ w <= 275
        BY DEF Permille
      <4> QED BY <4>3, <4>4, RaisedBounds
    <3> QED BY <3>1, <3>2
  <2> QED BY <1>4, <2>2, <2>3, RawIs
<1> QED BY <1>5, <1>11, <1>12, <1>13 DEF DiskInv

\* Every step of disks and measurements keeps the invariant.
LEMMA DiskInductive == ASSUME DisksAreKnown, DiskInv, [D!Next]_(D!vars) PROVE DiskInv'
<1>1. ASSUME NEW n \in Names, D!Plug(n) PROVE DiskInv'
  <2>1. DiskShape'
    BY <1>1 DEF DiskInv, DiskShape, D!Plug
  <2>2. D!Rested'
    BY <1>1 DEF D!Plug, D!Rested, D!NoReport, D!NoTruth
  <2> QED BY <2>1, <2>2, RestedIsCalmNext DEF DiskInv
<1>2. ASSUME NEW n \in Names, D!Unplug(n) PROVE DiskInv'
  <2>1. DiskShape'
    BY <1>2 DEF DiskInv, DiskShape, D!Unplug
  <2>2. D!Rested'
    BY <1>2 DEF D!Unplug, D!Rested, D!NoReport, D!NoTruth
  <2> QED BY <2>1, <2>2, RestedIsCalmNext DEF DiskInv
<1>3. ASSUME D!Measure PROVE DiskInv'
  BY <1>3, MeasureKeeps DEF DiskInv
<1>4. ASSUME D!Rest PROVE DiskInv'
  <2>1. DiskShape'
    BY <1>4 DEF DiskInv, DiskShape, D!Rest
  <2>2. D!Rested'
    BY <1>4 DEF D!Rest, D!Rested, D!NoReport, D!NoTruth
  <2> QED BY <2>1, <2>2, RestedIsCalmNext DEF DiskInv
<1>5. ASSUME UNCHANGED D!vars PROVE DiskInv'
  BY <1>5 DEF D!vars, DiskInv, DiskShape, D!LoadIsJudgedByMedia, D!QuietDisksAreCalm,
              D!SwampedDiskIsCritical
<1> QED BY <1>1, <1>2, <1>3, <1>4, <1>5 DEF D!Next

\* The first state: nothing is measured.
LEMMA InitDisk == ASSUME D!Init PROVE DiskInv
<1>1. DiskShape
  BY DEF D!Init, DiskShape
<1>2. D!Rested
  BY DEF D!Init
<1> QED BY <1>1, <1>2, RestedIsCalm DEF DiskInv

\* The invariant of the disks holds in every reachable state.
THEOREM DisksAreSafe == ASSUME DisksAreKnown PROVE D!Spec => []DiskInv
BY InitDisk, DiskInductive, PTL DEF D!Spec

\* By the invariant, disks are judged by their media and quiet ones are calm.
LEMMA InvJudgesDisks == DiskInv => D!LoadIsJudgedByMedia /\ D!QuietDisksAreCalm
BY DEF DiskInv

\* For any number of names and whatever devices come and go behind them, a disk that is compared with
\* itself and judged by its own media is busy when swamped and a slow one is not for what is routine, and
\* quiet disks are no pressure however long tasks wait.  (_disk_pressure, evaluate, classify_disk_pressure.)
THEOREM DisksAreJudged ==
    ASSUME DisksAreKnown PROVE D!Spec => [](D!LoadIsJudgedByMedia /\ D!QuietDisksAreCalm)
BY DisksAreSafe, InvJudgesDisks, PTL

\* By the invariant, one swamped disk of up to seven is seen.
LEMMA InvSeesSwamped == ASSUME Cardinality(Names) <= 7 PROVE DiskInv => D!SwampedDiskIsCritical
BY DEF DiskInv

\* With up to seven disks, one that is swamped is critical when every task waits, whatever the others
\* do; each idle disk lowers the mean, and with an eighth the score may stop short of it.  (evaluate.)
THEOREM SwampedIsSeen ==
    ASSUME DisksAreKnown, Cardinality(Names) <= 7 PROVE D!Spec => []D!SwampedDiskIsCritical
BY DisksAreSafe, InvSeesSwamped, PTL
=============================================================================
