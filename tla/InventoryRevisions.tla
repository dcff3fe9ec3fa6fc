------------------------- MODULE InventoryRevisions -------------------------
(***************************************************************************)
(* The versions of the machine's hardware and software inventory           *)
(* (config_revision.py).  A check reads every field, compares with the     *)
(* newest revision and either adds a revision with the changes or touches  *)
(* the newest one.  A field that cannot be read is gone only after two     *)
(* checks in succession have missed it.                                    *)
(*                                                                         *)
(* Each half of the inventory, hw and sw, has one field here.  A check     *)
(* reads the machine, then writes, then reports: it may be cut off         *)
(* anywhere, and each write may fail.                                      *)
(***************************************************************************)
EXTENDS Naturals, Sequences

CONSTANTS
  Fields,       \* fields of the inventory
  Values,       \* values a field can have
  Absent,       \* nothing is read
  MaxRevisions  \* bound: revisions

RemovedAfterMisses == 2

VARIABLES
  revisions, \* ConfigRevision, oldest first: the field status, the changes, what was read
  check,     \* the check under way
  events,    \* the inventory events: <<revision, field>>
  misses     \* history: how many checks in succession that were stored have missed the field

vars == <<revisions, check, events, misses>>

Readings == Values \cup {Absent}
Status == [value : Readings, state : {"present", "unavailable", "unknown", "removed"},
           streak : 0..RemovedAfterMisses]
NoStatus == [value |-> Absent, state |-> "unavailable", streak |-> 0]
Nothing == [f \in Fields |-> Absent]

TypeOK ==
    /\ Len(revisions) <= MaxRevisions
    /\ \A i \in 1..Len(revisions) :
        revisions[i] \in [status : [Fields -> Status], changed : SUBSET Fields,
                          read : [Fields -> Readings]]
    /\ check \in [at : {"none", "write", "report"}, read : [Fields -> Readings],
                  todo : SUBSET Fields]
    /\ events \subseteq (1..MaxRevisions) \X Fields
    /\ misses \in [Fields -> 0..RemovedAfterMisses]

\* the newest revision's status
Known == IF revisions = << >> THEN [f \in Fields |-> NoStatus] ELSE revisions[Len(revisions)].status

-----------------------------------------------------------------------------
(* _classify_and_diff, for one field.                                      *)

Missed(s) ==
    IF s.state \notin {"present", "unknown"} THEN s
    ELSE IF s.streak + 1 >= RemovedAfterMisses
         THEN [value |-> Absent, state |-> "removed", streak |-> RemovedAfterMisses]
         ELSE [s EXCEPT !.state = "unknown", !.streak = @ + 1]

\* a mistake in it: a read does not end the streak of misses
ClassifiedOn(s, value) ==
    IF value = Absent THEN Missed(s) ELSE [value |-> value, state |-> "present", streak |-> s.streak]
\* a missed read keeps the value until there are enough in succession
Classified(s, value) ==
    IF value = Absent THEN Missed(s) ELSE [value |-> value, state |-> "present", streak |-> 0]

Removal(s) == s.state \in {"present", "unknown"} /\ Missed(s).state = "removed"

\* a mistake in it: only a field that was read the last time can have another value
ChangedIfPresent(s, value) ==
    IF value = Absent THEN Removal(s)
    ELSE s.state \in {"unavailable", "removed"} \/ (s.state = "present" /\ value # s.value)
\* whether a change is noted
Changed(s, value) ==
    IF value = Absent THEN Removal(s)
    ELSE s.state \in {"unavailable", "removed"} \/ value # s.value

Changes == {f \in Fields : Changed(Known[f], check.read[f])}
Reclassified == [f \in Fields |-> Classified(Known[f], check.read[f])]

Counted == [f \in Fields |-> IF check.read[f] # Absent THEN 0
                             ELSE IF misses[f] = RemovedAfterMisses THEN misses[f] ELSE misses[f] + 1]

-----------------------------------------------------------------------------
\* the loop, or the process that has been started again, begins a check; any read may fail
Begin ==
    /\ check.at = "none"
    /\ \E read \in [Fields -> Readings] : check' = [at |-> "write", read |-> read, todo |-> {}]
    /\ UNCHANGED <<revisions, events, misses>>

\* insert_revision has failed, or the process ends
CutOff ==
    /\ check.at # "none"
    /\ check' = [at |-> "none", read |-> Nothing, todo |-> {}]
    /\ UNCHANGED <<revisions, events, misses>>

\* ensure_baseline: the first revision, without changes and without events
Baseline ==
    /\ check.at = "write" /\ revisions = << >>
    /\ revisions' = <<[status |-> Reclassified, changed |-> {}, read |-> check.read]>>
    /\ misses' = Counted
    /\ check' = [at |-> "none", read |-> Nothing, todo |-> {}]
    /\ UNCHANGED events

\* a mistake in an unchanged check: only its time is stored
TouchTime == UNCHANGED revisions
\* touch_checked_at: the misses so far are kept with the newest revision
Touch == revisions' = [revisions EXCEPT ![Len(revisions)].status = Reclassified]

Unchanged ==
    /\ check.at = "write" /\ revisions # << >> /\ Changes = {}
    /\ Touch
    /\ misses' = Counted
    /\ check' = [at |-> "none", read |-> Nothing, todo |-> {}]
    /\ UNCHANGED events

\* a revision is added, and its changes are reported afterwards
Revise ==
    /\ check.at = "write" /\ revisions # << >> /\ Changes # {} /\ Len(revisions) < MaxRevisions
    /\ revisions' = Append(revisions,
                           [status |-> Reclassified, changed |-> Changes, read |-> check.read])
    /\ misses' = Counted
    /\ check' = [check EXCEPT !.at = "report", !.todo = Changes]
    /\ UNCHANGED events

\* the events of hw and of sw; the last one ends the check
Report ==
    /\ check.at = "report"
    /\ \E f \in check.todo :
        /\ events' = events \cup {<<Len(revisions), f>>}
        /\ check' = IF check.todo = {f} THEN [at |-> "none", read |-> Nothing, todo |-> {}]
                    ELSE [check EXCEPT !.todo = @ \ {f}]
    /\ UNCHANGED <<revisions, misses>>

-----------------------------------------------------------------------------
Init ==
    /\ revisions = << >> /\ events = {}
    /\ check = [at |-> "none", read |-> Nothing, todo |-> {}]
    /\ misses = [f \in Fields |-> 0]

Next == Begin \/ CutOff \/ Baseline \/ Unchanged \/ Revise \/ Report

Spec == Init /\ [][Next]_vars

-----------------------------------------------------------------------------
\* The value that the last change before revision n gave the field.
Replayed(f, n) ==
    LET noted == {i \in 1..n : i = 1 \/ f \in revisions[i].changed}
    IN revisions[CHOOSE i \in noted : \A j \in noted : j <= i].read[f]

\* Whoever follows the changes from the baseline on arrives at the values of the newest revision:
\* no check that fails or is cut off, and no read that is missed for a while, loses a change.
HistoryAddsUp == revisions # << >> => \A f \in Fields : Replayed(f, Len(revisions)) = Known[f].value

\* A field is gone exactly if the last two stored checks have missed it, and had a value before.
RemovalIsConfirmed ==
    \A f \in Fields :
        /\ Known[f].state = "removed" => misses[f] = RemovedAfterMisses
        /\ misses[f] = RemovedAfterMisses => Known[f].value = Absent
=============================================================================
