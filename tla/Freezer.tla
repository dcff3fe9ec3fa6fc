------------------------------ MODULE Freezer ------------------------------
(***************************************************************************)
(* The manual "Freeze" of a limited app: cgroup.freeze is written for each *)
(* of the app's cgroups and cgroup.events confirms it, possibly long after *)
(* the time-out.  Every freeze is recorded in a state file before it is    *)
(* written, and the next start thaws what is recorded there.               *)
(*                                                                         *)
(* Requests run in threads of their own; the registry's lock covers only   *)
(* their first lookup and their last.  The process may end between any two *)
(* steps.  One app is modelled: its entry in the registry, its cgroups     *)
(* Own, and cgroups of others (Foreign) that somebody else froze.          *)
(***************************************************************************)
EXTENDS FiniteSets

CONSTANTS Own,       \* the app's cgroups
          Foreign,   \* cgroups frozen by somebody else, as with docker pause
          Clients    \* REST threads, and the reaper's

Cgs == Own \cup Foreign
None == [limited |-> FALSE, frozen |-> FALSE, cgroups |-> {}]
Idle == [pc |-> "idle", op |-> "none", dir |-> FALSE, scope |-> {}, todo |-> {}, done |-> {}]

VARIABLES want,    \* cgroup.freeze
          frozen,  \* cgroup.events
          alive,   \* the cgroups that exist
          record,  \* the state file
          entry,   \* the app's manual entry in the registry, or None
          th,      \* where each request is, and its locals
          phase,   \* "down", "boot" or "up"
          boot,    \* the locals of thaw_recorded
          doubt,   \* history: cgroups whose freezing the code has lost track of
          lost     \* history: those of them that may be frozen and unrecorded

kernel == <<want, frozen, alive>>
history == <<doubt, lost>>
vars == <<kernel, record, entry, th, phase, boot, history>>

Init ==
    /\ want = [c \in Cgs |-> c \in Foreign]
    /\ frozen = want
    /\ alive = Cgs
    /\ record = {}
    /\ entry = None
    /\ th = [t \in Clients |-> Idle]
    /\ phase = "up"
    /\ boot = [todo |-> {}, keep |-> {}]
    /\ doubt = {}
    /\ lost = {}

\* The shape of the state; also, a request that handles a cgroup has one to handle, only the
\* app's own cgroups are ever recorded, and what is lost is in doubt.
TypeOK ==
    /\ want \in [Cgs -> BOOLEAN] /\ frozen \in [Cgs -> BOOLEAN]
    /\ alive \subseteq Cgs /\ record \subseteq Own
    /\ entry.frozen \in BOOLEAN /\ entry.cgroups \subseteq Own
    /\ ~entry.limited => entry = None
    /\ \A t \in Clients :
         /\ th[t].pc \in {"idle", "begin", "write", "confirm", "landed", "failed", "flag"}
         /\ th[t].pc \notin {"idle", "flag"} => th[t].todo # {}
         /\ th[t].todo \cup th[t].done \subseteq th[t].scope
    /\ phase \in {"down", "boot", "up"}
    /\ boot.todo \cup boot.keep \subseteq Own
    /\ lost \subseteq doubt

Busy(t) == th[t].pc # "idle"

Doubt(cs) == doubt' = doubt \cup cs /\ UNCHANGED lost
Lose(cs) == doubt' = doubt \cup cs /\ lost' = lost \cup cs
Settled(c) == doubt' = doubt \ {c} /\ lost' = lost \ {c}

-----------------------------------------------------------------------------
(* The kernel and the app *)

\* cgroup.events follows cgroup.freeze, after any time
Settle(c) ==
    /\ c \in alive /\ frozen[c] # want[c]
    /\ frozen' = [frozen EXCEPT ![c] = want[c]]
    /\ UNCHANGED <<want, alive, record, entry, th, phase, boot, history>>

\* the app's processes end and the cgroup is removed
Vanish(c) ==
    /\ c \in alive \cap Own
    /\ alive' = alive \ {c}
    /\ want' = [want EXCEPT ![c] = FALSE]
    /\ frozen' = [frozen EXCEPT ![c] = FALSE]
    /\ Settled(c)
    /\ UNCHANGED <<record, entry, th, phase, boot>>

-----------------------------------------------------------------------------
(* Requests *)

\* set_resource_limit as far as it matters here: a fresh entry, never frozen
Limit ==
    /\ phase = "up" /\ alive \cap Own # {}
    /\ entry' = [limited |-> TRUE, frozen |-> FALSE, cgroups |-> alive \cap Own]
    /\ Doubt(IF entry.frozen \/ \E t \in Clients : Busy(t) /\ th[t].scope # alive \cap Own
             THEN Own ELSE {})
    /\ UNCHANGED <<kernel, record, th, phase, boot>>

Overlaps(t, op, cs) ==
    {c \in cs : \E u \in Clients \ {t} :
        Busy(u) /\ c \in th[u].scope /\ "freeze" \in {op, th[u].op}}

Start(t, op, dir, cs) ==
    /\ th' = [th EXCEPT ![t] = [pc |-> "begin", op |-> op, dir |-> dir, scope |-> cs,
                                todo |-> cs, done |-> {}]]
    /\ Lose(Overlaps(t, op, cs))

\* set_freeze, up to the first release of the registry's lock
Freeze(t, f) ==
    /\ phase = "up" /\ ~Busy(t)
    /\ entry.limited /\ entry.frozen # f
    /\ Start(t, IF f THEN "freeze" ELSE "unfreeze", f, entry.cgroups)
    /\ UNCHANGED <<kernel, record, entry, phase, boot>>

\* set_restore_resource, the reaper or the shutdown: pop the entry, lift the caps
\* (not modelled here), and thaw the cgroups if the popped entry says frozen
Lift(t) ==
    /\ phase = "up" /\ ~Busy(t) /\ entry.limited
    /\ entry' = None
    /\ IF entry.frozen THEN Start(t, "lift", FALSE, entry.cgroups)
                       ELSE UNCHANGED <<th, history>>
    /\ UNCHANGED <<kernel, record, phase, boot>>

-----------------------------------------------------------------------------
(* freeze_cgroup for one cgroup of th[t].todo *)

Undo(s) == [s EXCEPT !.pc = "begin", !.op = "rollback", !.dir = FALSE, !.todo = s.done]

\* _thaw_cgroups goes on after a failure; set_freeze undoes what it froze, or gives up
Advance(t, c, ok) ==
    LET s == th[t]
        rest == s.todo \ {c}
        next == [s EXCEPT !.pc = IF rest # {} THEN "begin"
                                 ELSE IF s.op \in {"lift", "rollback"} THEN "idle" ELSE "flag",
                          !.todo = rest, !.done = IF ok THEN @ \cup {c} ELSE @]
    IN th' = [th EXCEPT ![t] =
                IF ok \/ s.op \in {"lift", "rollback"}
                THEN IF next.pc = "idle" THEN Idle ELSE next
                ELSE IF s.op = "freeze" /\ s.done # {} THEN Undo(s) ELSE Idle]

Go(t, pc) == th' = [th EXCEPT ![t].pc = pc]

\* the cgroups are taken in the order of the entry's list
At(t, c, pc) == th[t].pc = pc /\ c = CHOOSE x \in th[t].todo : TRUE

\* freeze.record(c, False): a write of the file that fails is only warned of
Forgets(c) == record' \in {record \ {c}, record}

\* the directory is gone: nothing to thaw, or nothing to freeze
BeginGone(t, c) ==
    /\ At(t, c, "begin") /\ c \notin alive
    /\ IF th[t].dir THEN UNCHANGED record ELSE Forgets(c)
    /\ Advance(t, c, ~th[t].dir)
    /\ UNCHANGED <<kernel, entry, phase, boot, history>>

\* mutant: the freeze is not recorded in advance
BeginUnrecorded(t, c) ==
    /\ At(t, c, "begin") /\ c \in alive
    /\ Go(t, "write")
    /\ UNCHANGED <<kernel, record, entry, phase, boot, history>>

\* a freeze is recorded before it is written, and goes on if that fails
Begin(t, c) ==
    /\ At(t, c, "begin") /\ c \in alive
    /\ \/ /\ record' = IF th[t].dir THEN record \cup {c} ELSE record
          /\ UNCHANGED history
       \/ th[t].dir /\ UNCHANGED record /\ Lose({c})
    /\ Go(t, "write")
    /\ UNCHANGED <<kernel, entry, phase, boot>>

Write(t, c) ==
    /\ At(t, c, "write")
    /\ \/ /\ c \in alive
          /\ want' = [want EXCEPT ![c] = th[t].dir]
          /\ Go(t, "confirm")
       \/ Go(t, "failed") /\ UNCHANGED want
    /\ UNCHANGED <<frozen, alive, record, entry, phase, boot, history>>

\* the poll of cgroup.events sees the state wanted, or its deadline passes first
Confirm(t, c) ==
    /\ At(t, c, "confirm")
    /\ Go(t, IF c \in alive /\ frozen[c] = th[t].dir THEN "landed" ELSE "failed")
    /\ UNCHANGED <<kernel, record, entry, phase, boot, history>>

Landed(t, c) ==
    /\ At(t, c, "landed")
    /\ IF th[t].dir THEN UNCHANGED record ELSE Forgets(c)
    /\ Advance(t, c, TRUE)
    /\ UNCHANGED <<kernel, entry, phase, boot, history>>

\* a freeze that has not landed by now is forgotten, although it may land later
Failed(t, c) ==
    /\ At(t, c, "failed")
    /\ IF th[t].dir /\ ~frozen[c] THEN Forgets(c) ELSE UNCHANGED record
    /\ Advance(t, c, FALSE)
    /\ IF th[t].dir THEN Lose({c}) ELSE Doubt({c} \cup th[t].done)
    /\ UNCHANGED <<kernel, entry, phase, boot>>

\* mutant: a restore that came first is not noticed
FlagForgets(t) ==
    /\ th[t].pc = "flag"
    /\ entry' = IF entry.limited THEN [entry EXCEPT !.frozen = th[t].dir] ELSE entry
    /\ th' = [th EXCEPT ![t] = Idle]
    /\ UNCHANGED <<kernel, record, phase, boot, history>>

\* set_freeze, from the second lookup on
Flag(t) ==
    /\ th[t].pc = "flag"
    /\ IF entry.limited
       THEN /\ entry' = [entry EXCEPT !.frozen = th[t].dir]
            /\ th' = [th EXCEPT ![t] = Idle]
       ELSE /\ th' = [th EXCEPT ![t] = IF th[t].op = "freeze" THEN Undo(th[t]) ELSE Idle]
            /\ UNCHANGED entry
    /\ UNCHANGED <<kernel, record, phase, boot, history>>

-----------------------------------------------------------------------------
(* The end of the process, and the next start *)

Crash ==
    /\ phase # "down"
    /\ phase' = "down"
    /\ entry' = None
    /\ th' = [t \in Clients |-> Idle]
    /\ boot' = [todo |-> {}, keep |-> {}]
    /\ UNCHANGED <<kernel, record, history>>

\* mutant: the start thaws whatever it finds frozen
BootReadsKernel ==
    /\ phase = "down"
    /\ phase' = "boot"
    /\ boot' = [todo |-> {c \in alive : frozen[c]}, keep |-> {}]
    /\ UNCHANGED <<kernel, record, entry, th, history>>

BootRead ==
    /\ phase = "down"
    /\ phase' = "boot"
    /\ boot' = [todo |-> record, keep |-> {}]
    /\ UNCHANGED <<kernel, record, entry, th, history>>

\* a record whose cgroup is gone is dropped; a thaw that fails keeps its record
BootThaw(c) ==
    /\ phase = "boot" /\ c \in boot.todo
    /\ \/ /\ c \in alive
          /\ want' = [want EXCEPT ![c] = FALSE]
          /\ frozen' = [frozen EXCEPT ![c] = FALSE]
          /\ boot' = [boot EXCEPT !.todo = @ \ {c}]
          /\ Settled(c)
       \/ /\ c \in alive
          /\ want' \in {want, [want EXCEPT ![c] = FALSE]}
          /\ boot' = [todo |-> boot.todo \ {c}, keep |-> boot.keep \cup {c}]
          /\ Doubt({c})
          /\ UNCHANGED frozen
       \/ /\ c \notin alive
          /\ boot' = [boot EXCEPT !.todo = @ \ {c}]
          /\ UNCHANGED <<want, frozen, history>>
    /\ UNCHANGED <<alive, record, entry, th, phase>>

BootDone ==
    /\ phase = "boot" /\ boot.todo = {}
    /\ record' \in {boot.keep, record}
    /\ phase' = "up"
    /\ boot' = [todo |-> {}, keep |-> {}]
    /\ UNCHANGED <<kernel, entry, th, history>>

Next ==
    \/ \E c \in Cgs : Settle(c) \/ Vanish(c)
    \/ Limit
    \/ \E t \in Clients : Lift(t) \/ Flag(t) \/ \E f \in BOOLEAN : Freeze(t, f)
    \/ \E t \in Clients, c \in Own :
         \/ BeginGone(t, c) \/ Begin(t, c) \/ Write(t, c)
         \/ Confirm(t, c) \/ Landed(t, c) \/ Failed(t, c)
    \/ Crash \/ BootRead \/ BootDone
    \/ \E c \in Cgs : BootThaw(c)

Spec == Init /\ [][Next]_vars

-----------------------------------------------------------------------------
\* Whatever the process does or wherever it ends, a cgroup of the app that has been told to
\* freeze is in the state file, so that the next start can thaw it; the exceptions are the
\* cgroups in lost: a freeze that outlives its own time-out, or that the file could not be
\* written for, and requests that overlap.
\* (freeze_cgroup and freeze.record/forget.)
FrozenIsRecorded ==
    \A c \in Own \cap alive : want[c] => c \in record \cup lost

\* With no request under way, the app's cgroups are frozen exactly if its entry says so,
\* also after a restore has overtaken a freeze, a roll-back, or a restart; the exceptions
\* are the cgroups in doubt.  (set_freeze, set_restore_resource, thaw_recorded.)
FlagMatchesKernel ==
    (phase = "up" /\ \A t \in Clients : ~Busy(t)) =>
        \A c \in (Own \cap alive) \ doubt : want[c] = (entry.limited /\ entry.frozen)

\* What somebody else froze is never thawed, not even by the sweep at start.
\* (thaw_recorded goes by the state file, not by cgroup.freeze.)
ForeignStaysFrozen == [][\A c \in Foreign : want'[c] = want[c]]_vars
=============================================================================
