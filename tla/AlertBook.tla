----------------------------- MODULE AlertBook -----------------------------
(***************************************************************************)
(* One alert of the diagnostics: the row that alerts.py keeps for a fault, *)
(* and the archive of its past occurrences (AlertState, AlertEpisode).     *)
(* Several threads fold events into the row, each in up to three           *)
(* transactions; a sweep resolves what is no longer renewed, an operator   *)
(* acknowledges and silences.                                              *)
(*                                                                         *)
(* kind is the fault's policy: "storm" has a lease and an escalation rule, *)
(* "failed" a recovery event, "fault" is closed by its acknowledgement.    *)
(* Every policy has for_seconds = 0.  An event's time may lie before the   *)
(* one at which it is folded in: the journal is scanned later.             *)
(***************************************************************************)
EXTENDS Naturals, FiniteSets

CONSTANTS
  Threads,   \* threads that emit events
  Ttl,       \* seconds without an event that end a storm
  Threshold, \* fires that escalate a storm ...
  Rule,      \* ... within that many seconds of its first
  Late,      \* the longest delay of an event
  MaxTime,   \* bound: the clock
  MaxEvents  \* bound: fault events

Kinds == {"storm", "failed", "fault"}

VARIABLES
  kind,
  now,
  row,      \* the AlertState row
  archive,  \* the AlertEpisode rows
  eval,     \* each thread's evaluate
  sweep,    \* whether resolve_expired has found the lease over
  events,   \* events so far; the time stamp of the n-th is <<n, its second>>
  fires,    \* history: fires of the present occurrence
  closed,   \* history: <<first, fires>> of the occurrences that were closed
  acked,    \* history: the severity at which the operator acknowledged this occurrence
  overtaken \* history: the row began a new occurrence while an evaluate was escalating

vars == <<kind, now, row, archive, eval, sweep, events, fires, closed, acked, overtaken>>

NoTime == <<0, 0>>
Row == [status : {"absent", "pending", "active", "resolved"},
        first : (0..MaxEvents) \X (0..MaxTime), seen : 0..MaxTime, count : 0..MaxEvents,
        ack : BOOLEAN, silenced : BOOLEAN, sev : {"policy", "critical"}, rule : BOOLEAN]

TypeOK ==
    /\ kind \in Kinds /\ now \in 0..MaxTime /\ row \in Row
    /\ archive \subseteq Row
    /\ eval \in [Threads -> [at : {"idle", "pending", "fire", "escalate"},
                             ts : (0..MaxEvents) \X (0..MaxTime), count : 0..MaxEvents]]
    /\ sweep \in BOOLEAN /\ events \in 0..MaxEvents /\ fires \in 0..MaxEvents
    /\ acked \in {"no", "policy", "critical"} /\ overtaken \in BOOLEAN

-----------------------------------------------------------------------------
(* evaluate.                                                               *)

\* an event of the fault arrives: emit_event has stored it and calls evaluate
Fault(t) ==
    /\ eval[t].at = "idle" /\ events < MaxEvents
    /\ events' = events + 1
    /\ \E at \in (IF now < Late THEN 0 ELSE now - Late)..now :
        eval' = [eval EXCEPT ![t] = [at |-> "pending", ts |-> <<events + 1, at>>, count |-> 0]]
    /\ UNCHANGED <<kind, now, row, archive, sweep, fires, closed, acked, overtaken>>

\* record_pending: a row that is active is left alone
Pending(t) ==
    /\ eval[t].at = "pending"
    /\ eval' = [eval EXCEPT ![t].at = "fire"]
    /\ row' = CASE row.status = "active" -> row
                [] row.status = "absent" -> [row EXCEPT !.status = "pending", !.first = eval[t].ts,
                                                        !.seen = eval[t].ts[2]]
                [] OTHER -> [row EXCEPT !.status = "pending", !.seen = eval[t].ts[2],
                                        !.sev = "policy"]
    /\ UNCHANGED <<kind, now, archive, sweep, events, fires, closed, acked, overtaken>>

\* a mistake in the count: it goes on
CountedOn == row.count + 1
\* the count after a fire: a new occurrence begins at one
Counted == IF row.status = "active" THEN row.count + 1 ELSE 1

\* a mistake in what a new occurrence has: the acknowledgement stays
BegunAcknowledged(r, ts) == IF r.status = "active" THEN r ELSE [r EXCEPT !.first = ts]

\* what a new occurrence has: not seen by the operator, and its own first time
Begun(r, ts) ==
    IF r.status = "active" THEN r ELSE [r EXCEPT !.first = ts, !.ack = FALSE, !.silenced = FALSE]
\* a mistake in the severity: the old occurrence's escalation goes on
SeverityKept == IF row.rule THEN row.sev ELSE "policy"
\* the severity after a fire: an escalated one stays while the occurrence lasts
Severity == IF row.status = "active" /\ row.rule THEN row.sev ELSE "policy"

\* record_fire; only a storm has an escalation rule
Fire(t) ==
    /\ eval[t].at = "fire"
    /\ row' = [Begun(row, eval[t].ts) EXCEPT
                  !.status = "active", !.count = Counted, !.seen = eval[t].ts[2],
                  !.sev = Severity]
    /\ eval' = [eval EXCEPT ![t].at = IF kind = "storm" THEN "escalate" ELSE "idle",
                            ![t].count = Counted]
    /\ fires' = IF row.status = "active" THEN fires + 1 ELSE 1
    /\ acked' = IF row.status = "active" THEN acked ELSE "no"
    /\ overtaken' = IF row.status = "active" THEN overtaken
                    ELSE \E u \in Threads \ {t} : eval[u].at = "escalate"
    /\ UNCHANGED <<kind, now, archive, sweep, events, closed>>

\* a mistake in escalate: who has acknowledged the lower severity is not asked again
EscalatedQuietly(r) == [r EXCEPT !.sev = "critical", !.rule = TRUE]

\* escalate: whatever the row's status; a row that is critical by the rule is left alone
Escalated(r) ==
    IF r.rule /\ r.sev = "critical" THEN r
    ELSE [r EXCEPT !.sev = "critical", !.rule = TRUE, !.ack = FALSE]
\* the rule: the count of this fire, and its distance to the row's first fire as it is now
Storm(ts, count) == count >= Threshold /\ ts[2] <= row.first[2] + Rule

\* _try_escalate
Escalate(t) ==
    /\ eval[t].at = "escalate"
    /\ row' = IF Storm(eval[t].ts, eval[t].count) THEN Escalated(row) ELSE row
    /\ eval' = [eval EXCEPT ![t].at = "idle"]
    /\ acked' = IF row'.sev # row.sev THEN "no" ELSE acked
    /\ UNCHANGED <<kind, now, archive, sweep, events, fires, closed, overtaken>>

-----------------------------------------------------------------------------
(* The ends of an occurrence.                                              *)

\* a mistake in closing: the alert is only marked
ClosedOnly(r) ==
    /\ row' = [r EXCEPT !.status = "resolved"]
    /\ closed' = closed \cup {<<row.first, fires>>}
    /\ UNCHANGED archive

\* archive and update in one transaction; the archive has one row of a first time
Closed(r) ==
    /\ archive' = IF \E e \in archive : e.first = r.first THEN archive
                  ELSE archive \cup {[r EXCEPT !.status = "resolved"]}
    /\ row' = [r EXCEPT !.status = "resolved"]
    /\ closed' = closed \cup {<<row.first, fires>>}

\* resolve, by the recovery event of a failed limit
Recovery ==
    /\ kind = "failed" /\ row.status = "active"
    /\ Closed(row)
    /\ UNCHANGED <<kind, now, eval, sweep, events, fires, acked, overtaken>>

\* resolve_expired: looks at the active alerts ...
Look ==
    /\ ~sweep /\ kind = "storm" /\ row.status = "active" /\ now > row.seen + Ttl
    /\ sweep' = TRUE
    /\ UNCHANGED <<kind, now, row, archive, eval, events, fires, closed, acked, overtaken>>

\* ... and resolves those it found over, if they are still active
Sweep ==
    /\ sweep
    /\ sweep' = FALSE
    /\ IF row.status = "active" THEN Closed(row) ELSE UNCHANGED <<row, archive, closed>>
    /\ UNCHANGED <<kind, now, eval, events, fires, acked, overtaken>>

\* acknowledge: a fault that has no recovery is closed by it
Acknowledge ==
    /\ row.status = "active"
    /\ acked' = row.sev
    /\ IF kind = "fault" THEN Closed([row EXCEPT !.ack = TRUE])
       ELSE row' = [row EXCEPT !.ack = TRUE] /\ UNCHANGED <<archive, closed>>
    /\ UNCHANGED <<kind, now, eval, sweep, events, fires, overtaken>>

Silence ==
    /\ row.status = "active" /\ ~row.silenced
    /\ row' = [row EXCEPT !.silenced = TRUE]
    /\ UNCHANGED <<kind, now, archive, eval, sweep, events, fires, closed, acked, overtaken>>

Tick ==
    /\ now < MaxTime
    /\ now' = now + 1
    /\ UNCHANGED <<kind, row, archive, eval, sweep, events, fires, closed, acked, overtaken>>

-----------------------------------------------------------------------------
Init ==
    /\ kind \in Kinds /\ now = 0 /\ archive = {} /\ sweep = FALSE /\ events = 0
    /\ row = [status |-> "absent", first |-> NoTime, seen |-> 0, count |-> 0, ack |-> FALSE,
              silenced |-> FALSE, sev |-> "policy", rule |-> FALSE]
    /\ eval = [t \in Threads |-> [at |-> "idle", ts |-> NoTime, count |-> 0]]
    /\ fires = 0 /\ closed = {} /\ acked = "no" /\ overtaken = FALSE

Next ==
    \/ \E t \in Threads : Fault(t) \/ Pending(t) \/ Fire(t) \/ Escalate(t)
    \/ Recovery \/ Look \/ Sweep \/ Acknowledge \/ Silence \/ Tick

Spec == Init /\ [][Next]_vars

-----------------------------------------------------------------------------
\* The archive has every occurrence that was closed, once and with all its fires, although the
\* row it is copied from is used again.
EpisodesAreExact ==
    /\ {<<e.first, e.count>> : e \in archive} = closed
    /\ \A e, f \in archive : e.first = f.first => e = f

\* An active alert is out of the operator's sight only if he acknowledged this occurrence, at
\* the severity it has now.
HiddenOnPurpose == row.status = "active" /\ row.ack => acked = row.sev

\* A storm is critical only after enough fires of its own, unless it began while an older
\* occurrence's event was still being escalated.
CriticalIsEarned ==
    row.status = "active" /\ row.sev = "critical" => fires >= Threshold \/ overtaken
=============================================================================
