-------------------------- MODULE SnapshotHistory --------------------------
(***************************************************************************)
(* The history of dynamic snapshots: the collectors store one in an        *)
(* interval, the dashboard asks for those of a span of time, and sweeps    *)
(* delete what is older than the days that users have set.  The days are   *)
(* kept in memory and in runtime_state.json, which is where the sweeps of  *)
(* the diagnostics find them.  Under quiet mode nothing is stored, and the *)
(* loop that sweeps leaves out its turn.                                   *)
(*                                                                         *)
(* Rows are told apart by the time they were stored at, in the order of    *)
(* their ids, which is that of time: what a sweep deletes are the first    *)
(* ones.  The clock is that of the history: a sweep of the loop begins     *)
(* when it is due, and it and a request are over before the next tick.     *)
(***************************************************************************)
EXTENDS Integers, Sequences, FiniteSets

CONSTANTS
  Collectors, \* threads that store what they have collected
  Tabs,     \* that set the days
  Interval, \* _DYNAMIC_SNAPSHOT_MIN_INTERVAL_SEC
  Every,    \* _SNAPSHOT_CLEANUP_INTERVAL_SEC
  Day,      \* the length of a day
  MaxDays,  \* _SNAPSHOT_RETENTION_MAX_DAYS; what is set, and the default, lie in 1 .. MaxDays
  MaxTime,  \* bounds: the clock,
  MaxStarts, \* the starts of the service,
  MaxSwitches \* and the times that quiet mode is switched

VARIABLES
  now,
  quiet,    \* quiet_mode.is_active()
  rows,     \* MonitorSnapshot's times
  stored,   \* _DYNAMIC_SNAPSHOT_STATE's last_persist_ts, below 0 when there is none
  due,      \* collectors that are past the gate, with a snapshot to store
  days,     \* _retention_days, or 0 when they are not loaded
  file,     \* snapshot_retention_days of runtime_state.json
  save,     \* per thread: the request that sets the days
  sweep,    \* the loop that sweeps
  made,     \* history: the rows that must be there, and the least days that were in force since
  turns,    \* how often the service has started and quiet mode was switched
  failed,   \* history: the days could not be written
  overdue   \* history: no sweep by the days in force has followed one that was left out or failed

vars == <<now, quiet, rows, stored, due, days, file, save, sweep, made, turns, failed, overdue>>

Days == 1 .. MaxDays
NoSave == [pc |-> "idle", days |-> 0]
Asleep(t) == [pc |-> "asleep", wake |-> t, cutoff |-> 0]

TypeOK ==
    /\ now \in 0 .. MaxTime /\ {quiet, failed, overdue} \subseteq BOOLEAN
    /\ rows \in Seq(0 .. MaxTime) /\ \A i, j \in DOMAIN rows : i < j => rows[i] <= rows[j]
    /\ stored \in -Interval .. MaxTime /\ due \subseteq Collectors
    /\ days \in Days \cup {0} /\ file \in Days
    /\ \A t \in Tabs : save[t].pc \in {"idle", "memory", "file"} /\ save[t].days \in Days \cup {0}
    /\ sweep.pc \in {"asleep", "deletes"} /\ sweep.wake \in 0 .. MaxTime + Every
    /\ made \in Seq([at : 0 .. MaxTime, least : Days])

Init ==
    /\ now = 0 /\ quiet \in BOOLEAN
    /\ rows = <<>> /\ stored = -Interval /\ due = {}
    /\ days = 0 /\ file \in Days
    /\ save = [t \in Tabs |-> NoSave] /\ sweep = Asleep(0)
    /\ made = <<>> /\ turns = [starts |-> 1, quiet |-> 0] /\ failed = FALSE /\ overdue = TRUE

\* What _load_retention_settings returns, and what configured_days of the diagnostics does.
InForce == IF days = 0 THEN file ELSE days
ForEvidence == file

\* Somebody writes runtime_state.json, under _SETTINGS_LOCK.
Locked == \E t \in Tabs : save[t].pc = "memory"

\* The rows that are older than a time come first; there are so many of them.
Before(at) == Cardinality({i \in DOMAIN rows : rows[i] < at})

\* Every row has been under these days, too; those that time has given up need not be there.
Under(d) == [i \in DOMAIN made |-> [made[i] EXCEPT !.least = IF d < @ THEN d ELSE @]]
Standing(ms, at) ==
    SubSeq(ms, Cardinality({i \in DOMAIN ms : at - ms[i].at > ms[i].least * Day}) + 1, Len(ms))

-----------------------------------------------------------------------------
(* Storing *)

\* persist_dynamic_snapshot_if_due up to its lock's end
PassGate(c) ==
    /\ c \notin due /\ ~quiet /\ now - stored >= Interval
    /\ stored' = now /\ due' = due \cup {c}
    /\ UNCHANGED <<now, quiet, rows, days, file, save, sweep, made, turns, failed, overdue>>

\* persist_monitor_snapshot: a failure is logged, and the interval has to pass all the same
Insert(c) ==
    /\ c \in due /\ due' = due \ {c}
    /\ \/ /\ rows' = Append(rows, now)
          /\ made' = Append(made, [at |-> now, least |-> InForce])
       \/ UNCHANGED <<rows, made>>
    /\ UNCHANGED <<now, quiet, stored, days, file, save, sweep, turns, failed, overdue>>

-----------------------------------------------------------------------------
(* Sweeping *)

\* delete_older_than
CutOff(d) == now - d * Day

\* a plausible bug: what is just as old as the days goes, too
KeptAfter(from) == SubSeq(rows, Before(from + 1) + 1, Len(rows))

Kept(from) == SubSeq(rows, Before(from) + 1, Len(rows))

\* cleanup_loop wakes up; _run_snapshot_cleanup takes the days in force and the time
Wake ==
    /\ sweep.pc = "asleep" /\ now >= sweep.wake
    /\ IF quiet
       THEN /\ sweep' = Asleep(now + Every) /\ overdue' = TRUE
            /\ UNCHANGED days
       ELSE /\ ~Locked
            /\ days' = InForce
            /\ sweep' = [sweep EXCEPT !.pc = "deletes", !.cutoff = CutOff(InForce)]
            /\ UNCHANGED overdue
    /\ UNCHANGED <<now, quiet, rows, stored, due, file, save, made, turns, failed>>

\* and deletes, or fails to, with the table to itself
Delete ==
    /\ sweep.pc = "deletes" /\ sweep' = Asleep(now + Every)
    /\ \/ /\ rows' = Kept(sweep.cutoff)
          /\ overdue' = (overdue /\ sweep.cutoff < CutOff(InForce))
       \/ UNCHANGED rows /\ overdue' = TRUE
    /\ UNCHANGED <<now, quiet, stored, due, days, file, save, made, turns, failed>>

-----------------------------------------------------------------------------
(* Setting the days *)

\* set_history_retention, when the form is not out of date: first the days in memory
SetDays(t) ==
    /\ save[t].pc = "idle" /\ ~Locked
    /\ \E d \in Days :
         /\ days' = d /\ made' = Standing(Under(d), now)
         /\ save' = [save EXCEPT ![t] = [pc |-> "memory", days |-> d]]
    /\ UNCHANGED <<now, quiet, rows, stored, due, file, sweep, turns, failed, overdue>>

\* then those of the file; the request goes on when it cannot be written
WriteDays(t) ==
    /\ save[t].pc = "memory" /\ save' = [save EXCEPT ![t].pc = "file"]
    /\ \/ file' = save[t].days /\ UNCHANGED failed
       \/ failed' = TRUE /\ UNCHANGED file
    /\ UNCHANGED <<now, quiet, rows, stored, due, days, sweep, made, turns, overdue>>

\* a plausible bug: the loop is left to sweep
LeaveToLoop(t) ==
    /\ save[t].pc = "file" /\ save' = [save EXCEPT ![t] = NoSave]
    /\ UNCHANGED <<now, quiet, rows, stored, due, days, file, sweep, made, turns, failed, overdue>>

\* and a sweep by what was asked for, also under quiet mode
SweepAtOnce(t) ==
    /\ save[t].pc = "file" /\ save' = [save EXCEPT ![t] = NoSave]
    /\ \/ rows' = Kept(CutOff(save[t].days)) /\ UNCHANGED overdue
       \/ UNCHANGED rows /\ overdue' = TRUE
    /\ UNCHANGED <<now, quiet, stored, due, days, file, sweep, made, turns, failed>>

-----------------------------------------------------------------------------
\* get_history: the newest of a span that ends now by the service's own clock
Least(a, b) == IF a < b THEN a ELSE b
Within(span) == SubSeq(rows, Before(now - span) + 1, Before(now + 1))
Answer(span, limit) ==
    LET found == Within(span)
    IN  SubSeq(found, Len(found) - Least(limit, Len(found)) + 1, Len(found))

-----------------------------------------------------------------------------
Toggle ==
    /\ turns.quiet < MaxSwitches
    /\ quiet' = ~quiet /\ turns' = [turns EXCEPT !.quiet = @ + 1]
    /\ UNCHANGED <<now, rows, stored, due, days, file, save, sweep, made, failed, overdue>>

Advance ==
    /\ now < MaxTime /\ now' = now + 1
    /\ made' = Standing(made, now')
    /\ sweep.pc = "asleep" /\ now < sweep.wake /\ \A t \in Tabs : save[t].pc = "idle"
    /\ UNCHANGED <<quiet, rows, stored, due, days, file, save, sweep, turns, failed, overdue>>

\* The service ends and starts again: the file's days are in force, and the first sweep is soon due.
Restart ==
    /\ turns.starts < MaxStarts
    /\ stored' = -Interval /\ due' = {} /\ days' = 0
    /\ save' = [t \in Tabs |-> NoSave] /\ sweep' = Asleep(now)
    /\ made' = Standing(Under(file), now) /\ turns' = [turns EXCEPT !.starts = @ + 1] /\ overdue' = TRUE
    /\ failed' = FALSE
    /\ UNCHANGED <<now, quiet, rows, file>>

Next ==
    \/ \E c \in Collectors : PassGate(c) \/ Insert(c)
    \/ \E t \in Tabs : SetDays(t) \/ WriteDays(t) \/ SweepAtOnce(t)
    \/ Wake \/ Delete \/ Toggle \/ Advance \/ Restart

Spec == Init /\ [][Next]_vars

-----------------------------------------------------------------------------
\* A question about the last span of time is answered with everything that was stored in it and
\* that no days in force since then have given up, up to the limit: whatever sweeps, saves of
\* other days and restarts there were.  (MonitorSnapshot.delete_older_than, query_recent.)
HistoryIsKept ==
    \A span \in {Day, MaxDays * Day} : \A limit \in {1, 2 * MaxTime} :
        LET kept == {i \in DOMAIN made : now - made[i].at <= span}
        IN  Len(Answer(span, limit)) >= Least(limit, Cardinality(kept))

\* What is older than the days in force goes with the next turn of the loop, also after turns that
\* were left out: "the next cycle deletes whatever this one would have".
\* (cleanup_loop, set_history_retention.)
HistoryIsBounded ==
    (~overdue /\ sweep.pc = "asleep" /\ \A t \in Tabs : save[t].pc = "idle") =>
        \A i \in DOMAIN rows : now - rows[i] <= InForce * Day + Every

\* Snapshots and the evidence of the diagnostics are kept for the same time, unless the file
\* could not be written: "so structured evidence shares its window".  (configured_days.)
EvidenceSharesWindow == (~failed /\ ~Locked) => InForce = ForEvidence
=============================================================================
