--------------------------- MODULE ControlLedger ---------------------------
(***************************************************************************)
(* The event ledger of resource limits: what the balancer reports of the   *)
(* limits of one application, what the ledger keeps of it, and what the    *)
(* dashboard makes of that (control_events.py, control_lifecycle.py, the   *)
(* OperationalEvent table).  Every limit has a protection id; it is kept   *)
(* while the same entry is capped again, and a hand-over to manual makes a *)
(* new one.  An event has an identity, <<source, boot, id, action,         *)
(* resource>>, and the table takes each identity once.                     *)
(*                                                                         *)
(* CPU and memory are one channel, "sys", as they are for the balancer.    *)
(* The manual limit's deferred disk cap, the user's release of an auto     *)
(* limit and failing inserts are left out.                                 *)
(***************************************************************************)
EXTENDS Naturals, FiniteSets, Sequences, SequencesExt

CONSTANTS
  MaxLives,  \* bound: protection ids ever made
  Ops,       \* what happens: "fail", "again" (a channel is capped again after a recovery)
  MaxStarts, \* bound: restarts of the service, with or without a reboot
  Window     \* the newest events that the unscoped query reads (2000)

Channels == {"sys", "io"}
None == "none"

\* an entry, a restore or a hand-over that is not there has the id 0
NoEntry == [id |-> 0, src |-> None, parts |-> {}]
NoRestore == [id |-> 0, by |-> None, parts |-> {}]
NoHandoff == [id |-> 0, parts |-> {}]

VARIABLES
  ledger,  \* the table, oldest first
  entry,   \* the registry's entry of the application
  restore, \* a restore under way: the id, the channels and who asked
  handoff, \* a hand-over whose APPLIED is not yet written: the id and the channels
  ids,     \* protection ids made so far
  base,    \* ids made before the service last started
  starts,
  boot,
  doubt,   \* history: ids with a failure, or replaced, or handed over while being restored
  recapped \* history: <<id, channel>> capped again after a recovery

vars == <<ledger, entry, restore, handoff, ids, base, starts, boot, doubt, recapped>>


Marks == {"verify", "rebooted", "cleared"}
Event(p, act, ch, scoped) == [id |-> p, act |-> act, ch |-> ch, boot |-> boot, scoped |-> scoped]

TypeOK ==
    /\ \A k \in DOMAIN ledger :
          /\ ledger[k].id \in 1..ids
          /\ ledger[k].act \in {"applied", "recovered", "failed"} \cup Marks
          /\ ledger[k].ch \in Channels \cup {None}
    /\ entry = NoEntry \/ (entry.id \in 1..ids /\ entry.src \in {"auto", "manual"}
                        /\ entry.parts \in SUBSET Channels \ {{}})
    /\ restore = NoRestore \/ (restore.id \in 1..ids /\ restore.parts \subseteq Channels)
    /\ handoff = NoHandoff \/ (handoff.id \in 1..ids /\ handoff.parts \subseteq Channels)
    /\ ids \in 0..MaxLives /\ base \in 0..ids /\ starts \in 0..MaxStarts /\ boot \in 0..starts
    /\ doubt \subseteq 1..ids /\ recapped \subseteq (1..ids) \X Channels

-----------------------------------------------------------------------------
(* The table.                                                              *)

\* the dedup_key of an event written now
SameFact(event, p, act, ch) ==
    event.id = p /\ event.act = act /\ event.ch = ch /\ event.boot = boot

\* insert_event, once for each resource: the unique index drops what is there already
Record(log, p, act, chs, scoped) ==
    log \o SetToSeq({Event(p, act, ch, scoped) : ch \in
        {c \in chs : ~\E k \in DOMAIN log : SameFact(log[k], p, act, c)}})

\* the events at these places
Selected(log, places) ==
    LET in == SelectSeq([k \in DOMAIN log |-> k], LAMBDA k : k \in places)
    IN  [n \in DOMAIN in |-> log[in[n]]]

Ids(log) == {log[k].id : k \in DOMAIN log}
Count(log, p, acts) == Cardinality({k \in DOMAIN log : log[k].id = p /\ log[k].act \in acts})

\* a mistake in it: one terminal closes the whole limit
UnresolvedUntilAny(log) ==
    {p \in Ids(log) : Count(log, p, {"applied"}) > 0
                      /\ Count(log, p, {"recovered", "failed", "rebooted"}) = 0}

\* _is_unresolved: an APPLIED more than there are terminals, and no reboot
Unresolved(log) ==
    {p \in Ids(log) : /\ Count(log, p, {"applied"}) > Count(log, p, {"recovered", "failed"})
                      /\ Count(log, p, {"rebooted"}) = 0}

-----------------------------------------------------------------------------
(* The read model: summarize and query.                                    *)

\* the latest action of a resource
Latest(log, p, ch) ==
    LET at == {k \in DOMAIN log : log[k].id = p /\ log[k].ch = ch}
    IN  IF at = {} THEN None ELSE log[CHOOSE k \in at : \A j \in at : j <= k].act

Active(log, p) == {ch \in Channels : Latest(log, p, ch) = "applied"}

Status(log, p) ==
    LET now == IF \E ch \in Channels : Latest(log, p, ch) = "failed" THEN "failed"
               ELSE IF Active(log, p) # {} THEN "active" ELSE "recovered"
    IN  CASE Count(log, p, {"rebooted"}) > 0 -> "cleared_by_reboot"
          [] Count(log, p, {"rebooted"}) = 0 /\ Count(log, p, {"cleared"}) > 0
                -> "cleared_without_runtime_state"
          [] Count(log, p, {"rebooted", "cleared"}) = 0 /\ Count(log, p, {"verify"}) > 0
             /\ now = "active" -> "requires_verification"
          [] OTHER -> now

First(log, p) == log[CHOOSE k \in DOMAIN log :
                        log[k].id = p /\ \A j \in DOMAIN log : log[j].id = p => k <= j]

\* query, as the dashboard asks it: the newest events, and all those of unresolved limits
Queried(log) ==
    LET listed == Unresolved(log)
        in == {k \in DOMAIN log : k > Len(log) - Window \/ log[k].id \in listed}
    IN  Selected(log, in)

-----------------------------------------------------------------------------
(* The balancer.                                                           *)

\* _upsert_auto_limited: merges into an auto entry and keeps its id; a manual entry is
\* excluded from the pool.  The monitor limits and restores in one thread.
AutoLimit ==
    \E chs \in SUBSET Channels \ {{}} :
        LET p == IF entry = NoEntry THEN ids + 1 ELSE entry.id
            fresh == chs \ entry.parts
            again == {c \in fresh : \E k \in DOMAIN ledger : ledger[k].id = p /\ ledger[k].ch = c}
        IN  /\ (entry = NoEntry \/ entry.src = "auto") /\ restore.by # "monitor"
            /\ p <= MaxLives /\ (again = {} \/ "again" \in Ops)
            /\ ids' = IF p > ids THEN p ELSE ids
            /\ entry' = [id |-> p, src |-> "auto", parts |-> chs \cup entry.parts]
            /\ ledger' = Record(ledger, p, "applied", fresh, TRUE)
            /\ recapped' = recapped \cup {<<p, ch>> : ch \in again}
            /\ UNCHANGED <<restore, handoff, base, starts, boot, doubt>>

\* set_resource_limit: what was asked for and applied, and what was asked for and failed
ManualLimit ==
    /\ ids < MaxLives
    /\ entry = NoEntry \/ entry.src = "manual"
    /\ \E done, failed \in SUBSET Channels :
        /\ done \cap failed = {} /\ done \cup failed # {}
        /\ failed = {} \/ "fail" \in Ops
        /\ entry' = IF done = {} THEN entry
                    ELSE [id |-> ids + 1, src |-> "manual", parts |-> done]
        /\ ledger' = Record(Record(ledger, ids + 1, "applied", done, TRUE),
                            ids + 1, "failed", failed, FALSE)
        /\ ids' = ids + 1
        \* the entry that is replaced keeps its lifecycle open
        /\ doubt' = doubt \cup (IF failed = {} THEN {} ELSE {ids + 1})
                          \cup (IF entry = NoEntry \/ done = {} THEN {} ELSE {entry.id})
        /\ UNCHANGED <<restore, handoff, base, starts, boot, recapped>>

\* The monitor's full restore of one channel: it remembers the id and writes to the cgroup.
AutoRestore ==
    /\ restore = NoRestore /\ entry # NoEntry /\ entry.src = "auto"
    /\ \E ch \in entry.parts :
        restore' = [id |-> entry.id, parts |-> {ch}, by |-> "monitor"]
    /\ UNCHANGED <<ledger, entry, handoff, ids, base, starts, boot, doubt, recapped>>

\* set_restore_resource, and the reaper: the entry goes first, the caps after
TakeOut ==
    /\ restore = NoRestore /\ entry # NoEntry
    /\ restore' = [id |-> entry.id, parts |-> entry.parts, by |-> "owner"]
    /\ entry' = NoEntry
    /\ doubt' = IF handoff = NoHandoff THEN doubt ELSE doubt \cup {entry.id}
    /\ UNCHANGED <<ledger, handoff, ids, base, starts, boot, recapped>>

\* The restore ends.  The monitor leaves the cap on record when its write failed, and takes
\* the channel off whatever entry there is now when it did not.
Restored ==
    /\ restore # NoRestore
    /\ restore' = NoRestore
    /\ \E done \in SUBSET restore.parts :
        LET failed == restore.parts \ done
            kept == entry.parts \ done
        IN  /\ failed = {} \/ "fail" \in Ops
            /\ ledger' = Record(Record(ledger, restore.id, "recovered", done, FALSE),
                                restore.id, "failed", failed, FALSE)
            /\ entry' = IF restore.by = "monitor" /\ entry # NoEntry
                        THEN (IF kept = {} THEN NoEntry ELSE [entry EXCEPT !.parts = kept])
                        ELSE entry
            /\ doubt' = doubt \cup (IF failed = {} THEN {} ELSE {restore.id})
                              \cup (IF restore.by = "monitor" /\ entry # NoEntry
                                       /\ entry.id # restore.id THEN {entry.id} ELSE {})
    /\ UNCHANGED <<handoff, ids, base, starts, boot, recapped>>

\* a mistake in it: the old id is left open
HandOverSilent ==
    /\ handoff = NoHandoff /\ entry # NoEntry /\ entry.src = "auto" /\ ids < MaxLives
    /\ ids' = ids + 1
    /\ entry' = [entry EXCEPT !.id = ids + 1, !.src = "manual"]
    /\ handoff' = [id |-> ids + 1, parts |-> entry.parts]
    /\ UNCHANGED <<ledger, restore, base, starts, boot, doubt, recapped>>

\* lock_to_manual, adopt_auto_limited: RECOVERED for the old id under the lock ...
HandOver ==
    /\ handoff = NoHandoff /\ entry # NoEntry /\ entry.src = "auto" /\ ids < MaxLives
    /\ ids' = ids + 1
    /\ entry' = [entry EXCEPT !.id = ids + 1, !.src = "manual"]
    /\ handoff' = [id |-> ids + 1, parts |-> entry.parts]
    /\ ledger' = Record(ledger, entry.id, "recovered", entry.parts, TRUE)
    /\ UNCHANGED <<restore, base, starts, boot, doubt, recapped>>

\* ... and APPLIED for the new one after it
HandedOver ==
    /\ handoff # NoHandoff
    /\ handoff' = NoHandoff
    /\ ledger' = Record(ledger, handoff.id, "applied", handoff.parts, TRUE)
    /\ UNCHANGED <<entry, restore, ids, base, starts, boot, doubt, recapped>>

-----------------------------------------------------------------------------
(* The service starts, the hourly clean-up, and the operator's clearing.   *)

\* a mistake in it: it goes by the newest events
ReconciledByWindow(log, b) ==
    LET newest == {log[k].id : k \in {j \in DOMAIN log : j > Len(log) - Window}}
        open == {p \in Unresolved(log) \cap newest : Status(log, p) = "active"}
        mark(p) == [id |-> p, ch |-> None, boot |-> b, scoped |-> FALSE,
                    act |-> IF First(log, p).boot # b THEN "rebooted" ELSE "verify"]
    IN  log \o SetToSeq({mark(p) : p \in open})

\* reconcile_interrupted_lifecycles in the boot b
Reconciled(log, b) ==
    LET open == {p \in Unresolved(log) : Status(log, p) = "active"}
        mark(p) == [id |-> p, ch |-> None, boot |-> b, scoped |-> FALSE,
                    act |-> IF First(log, p).boot # b THEN "rebooted" ELSE "verify"]
    IN  log \o SetToSeq({mark(p) : p \in open})

\* a crash or a stop, and the next start's mount_diagnostics; the registry is not persistent
Start ==
    /\ starts < MaxStarts
    /\ starts' = starts + 1
    /\ boot' \in {boot, boot + 1}
    /\ entry' = NoEntry /\ restore' = NoRestore /\ handoff' = NoHandoff
    /\ base' = ids
    /\ ledger' = Reconciled(ledger, boot')
    /\ UNCHANGED <<ids, doubt, recapped>>

\* a mistake in it: a closed limit's events go one by one
RetainedByEvent(log, old) ==
    {k \in DOMAIN log : k > old \/ log[k].id \in Unresolved(log)}

\* delete_older_than when the first old events are past the cutoff, which is a day at least:
\* nothing that a restore under way has written is that old
Retained(log, old) ==
    {k \in DOMAIN log : \/ k > old
                        \/ log[k].id \in Unresolved(log)
                        \/ \E j \in DOMAIN log : j > old /\ log[j].id = log[k].id}

CleanUp ==
  /\ restore = NoRestore /\ handoff = NoHandoff
  /\ \E old \in 1..Len(ledger) :
        LET kept == Retained(ledger, old)
        IN  /\ ledger' = Selected(ledger, kept)
            /\ UNCHANGED <<entry, restore, handoff, ids, base, starts, boot, doubt, recapped>>

\* clear_without_runtime_state; the dashboard offers it for what has no runtime limit
Clear ==
    \E p \in Ids(ledger) :
        /\ entry = NoEntry \/ entry.id # p
        /\ Status(ledger, p) = "active" /\ ~First(ledger, p).scoped
        /\ ledger' = Append(ledger, Event(p, "cleared", None, FALSE))
        /\ UNCHANGED <<entry, restore, handoff, ids, base, starts, boot, doubt, recapped>>

-----------------------------------------------------------------------------
Init ==
    /\ ledger = <<>> /\ entry = NoEntry /\ restore = NoRestore /\ handoff = NoHandoff
    /\ ids = 0 /\ base = 0 /\ starts = 0 /\ boot = 0
    /\ doubt = {} /\ recapped = {}

Next ==
    \/ AutoLimit \/ ManualLimit \/ AutoRestore \/ TakeOut \/ Restored
    \/ HandOver \/ HandedOver \/ Start \/ CleanUp \/ Clear

Spec == Init /\ [][Next]_vars

-----------------------------------------------------------------------------
\* An id of which nothing failed, no channel was capped twice, and no restore ran into its
\* hand-over: the table has all its events, and in order.
Plain(p) == p \notin doubt /\ \A ch \in Channels : <<p, ch>> \notin recapped

\* What the dashboard shows as active is limited, or its restore is being written down.
ShownIsLive ==
    \A p \in Ids(Queried(ledger)) :
        Plain(p) /\ Status(Queried(ledger), p) = "active" =>
            \/ entry.id = p /\ Active(Queried(ledger), p) \subseteq entry.parts
            \/ restore.id = p

\* A limit is shown with every channel it caps, however many newer events there are and
\* however old its own: the clean-up and the window of the query leave it alone.
LimitIsShown ==
    entry # NoEntry /\ handoff.id # entry.id /\ Plain(entry.id) =>
        entry.parts \subseteq Active(Queried(ledger), entry.id)

\* After a start nothing of an earlier run is still called active.
InterruptedIsClassified ==
    \A p \in Ids(ledger) : p <= base /\ Plain(p) => Status(ledger, p) # "active"

\* The clean-up never leaves a recovery without the limit that it ended.
NoPhantomRecovery ==
    \A k \in DOMAIN ledger :
        ledger[k].act = "recovered" /\ Plain(ledger[k].id) =>
            \E j \in 1..(k - 1) :
                ledger[j] = [ledger[k] EXCEPT !.act = "applied", !.scoped = TRUE]
=============================================================================
