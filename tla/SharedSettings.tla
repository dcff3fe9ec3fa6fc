--------------------------- MODULE SharedSettings ---------------------------
(***************************************************************************)
(* One section of the settings that every dashboard may change.  A client  *)
(* reads the values and their time stamp, edits some of them and posts     *)
(* them with the stamp it knows; the service validates them against the    *)
(* values in force, refuses a stamp that has moved on, writes them to      *)
(* memory and config.yaml, and stamps the section anew.  Requests run in   *)
(* threads of their own, and only the writing of a part is under a lock.   *)
(*                                                                         *)
(* A section has two keys, "a" and "b"; a switch and the days that history *)
(* is kept have only "a".  A value is 0, nothing; 1, a fraction; or 2, the *)
(* whole.  YAML reads what was written for 0 and 2 as integers.            *)
(***************************************************************************)
EXTENDS Integers, Sequences, FiniteSets

CONSTANTS Clients,
          Sections, \* of "thresholds", "shares", "weights", "switch", "network", "sections", "retention"
          MaxTime   \* a bound on the clock, in seconds, and on the stamp

VARIABLES
  section,  \* the one that the behaviour is about
  memory,   \* b_config's values
  disk,     \* config.yaml's, and the default of a key that it lacks
  yaml,     \* those keys (missing), those whose line reads as an integer (text), and whose
            \* value in memory is one (loaded)
  stamp,    \* runtime_state.json's <section>_updated_at
  snap,     \* and the values it was last observed for ("sections" only)
  clock,
  holder,   \* who holds _persist_lock, or "nobody"
  form,     \* per client: where it is, the stamp it knows, what it wants to change
  fresh,    \* history: clients whose form shows the values in force
  raced,    \* history: clients whose stamp cannot tell, by a race that is named below
  moved,    \* history: clients whose validation others have overtaken
  spoiled   \* history: such a save was made, or one that failed half-way, wrote a key that
            \* the file lacks, or stored other values than were validated

vars == <<section, memory, disk, yaml, stamp, snap, clock, holder, form, fresh, raced, moved, spoiled>>
store == <<section, memory, disk, yaml, snap, stamp, holder>>
history == <<fresh, raced, moved, spoiled>>

Keys == {"a", "b"}
Values == 0 .. 2

\* What may be asked for: bands are above 0, everything else is there or not.
Legal == IF section = "thresholds" THEN {1, 2} ELSE {0, 2}

Closed == [pc |-> "closed", ts |-> -1, want |-> [k \in {} |-> 0], todo |-> <<>>]

\* A save is between its check and its answer.
Saving(c) == form[c].pc \in {"write", "persist", "assign"}

\* The shape of the state; the lock is held exactly between the two writes of a part.
TypeOK ==
    /\ section \in Sections /\ {memory, disk, snap} \subseteq [Keys -> Values]
    /\ yaml \in [missing : SUBSET Keys, text : SUBSET Keys, loaded : SUBSET Keys]
    /\ stamp \in 0 .. MaxTime + 1 /\ clock \in 1 .. MaxTime
    /\ \A c \in Clients :
         /\ form[c].pc \in {"closed", "read", "open", "valid", "write", "persist", "assign"}
         /\ DOMAIN form[c].want \subseteq Keys
         /\ holder = c <=> form[c].pc \in {"persist", "assign"}
    /\ fresh \cup raced \cup moved \subseteq Clients

Go(c, pc) == form' = [form EXCEPT ![c].pc = pc]

-----------------------------------------------------------------------------
(* Validation *)

\* thresholds must be ordered low <= medium <= high <= critical
Ordered(v) == v.a <= v.b

\* sub_weights must sum to at most 1
SharesFit(v) == v.a + v.b <= 2

\* at least one interface ("b") is selected while network control ("a") is on
HasInterface(v) == v.a # 0 => v.b # 0

Consistent(v) ==
    CASE section = "thresholds" -> Ordered(v)
      [] section = "shares" -> SharesFit(v)
      [] section = "network" -> HasInterface(v)
      [] OTHER -> TRUE

\* The keys for which there is a default.
Optional == CASE section = "shares" -> Keys [] section \in {"switch", "network"} -> {"a"} [] OTHER -> {}

\* The service has read the file, in which a threshold of 1.0 may stand as "1".
Init ==
    /\ section \in Sections
    /\ memory \in {v \in [Keys -> Legal] : Consistent(v)}
    /\ disk = memory /\ snap = memory
    /\ \E m \in SUBSET Optional, i \in SUBSET {k \in Keys : section = "thresholds" /\ memory[k] = 2} :
         yaml = [missing |-> m, text |-> i, loaded |-> i]
    /\ stamp = 0 /\ clock = 1 /\ holder = "nobody"
    /\ form = [c \in Clients |-> Closed]
    /\ fresh = {} /\ raced = {} /\ moved = {} /\ spoiled = FALSE

Merged(v, u) == [k \in Keys |-> IF k \in DOMAIN u THEN u[k] ELSE v[k]]

\* Switching network control off clears the interfaces; switching it on without naming any
\* takes those that are configured, or all that there are.
Completed(u) ==
    IF section # "network" \/ "a" \notin DOMAIN u THEN u
    ELSE IF u.a = 0 THEN [a |-> 0, b |-> 0]
    ELSE IF "b" \in DOMAIN u \/ memory.b # 0 THEN u
    ELSE [a |-> 2, b |-> 2]

\* The config calls of one save, by the keys that they set: a section is one call, but the switch
\* and the interfaces are two.
Calls(u) ==
    IF section # "network" THEN <<Keys>>
    ELSE IF DOMAIN u = Keys THEN <<{"a"}, {"b"}>> ELSE <<DOMAIN u>>

\* Lists are written to the file first, other settings to memory.
FileFirst(call) == section = "sections" \/ (section = "network" /\ call = {"b"})

\* What a request may name: any of several keys; the whole of a list; or the only key.
AnyKeys == SUBSET Keys \ {{}}
WholeList == {Keys}
OneSwitch == {{"a"}}

Requests ==
    CASE section = "sections" -> WholeList
      [] section \in {"switch", "retention"} -> OneSwitch
      [] OTHER -> AnyKeys

-----------------------------------------------------------------------------
(* Time stamps *)

\* _get_monitored_sections_updated_at stamps what it sees change, strictly upwards.
Observed == IF snap = memory /\ stamp > 0 THEN stamp
            ELSE IF stamp + 1 > clock THEN stamp + 1 ELSE clock

\* The stamp as GET and the conflict check find it.
Current == IF section = "sections" THEN Observed ELSE stamp

Look ==
    /\ stamp' = Current
    /\ snap' = IF section = "sections" THEN memory ELSE snap

-----------------------------------------------------------------------------
(* Reading: the values first, then their stamp *)

ReadValues(c) ==
    /\ form[c].pc \in {"closed", "open"} /\ stamp < MaxTime
    /\ form' = [form EXCEPT ![c] = [Closed EXCEPT !.pc = "read"]]
    /\ fresh' = fresh \cup {c} /\ raced' = raced \ {c}
    /\ UNCHANGED <<store, clock, moved, spoiled>>

ReadStamp(c) ==
    /\ form[c].pc = "read"
    /\ form' = [form EXCEPT ![c].pc = "open", ![c].ts = Current]
    /\ Look
    /\ UNCHANGED <<section, memory, disk, yaml, holder, clock, history>>

-----------------------------------------------------------------------------
(* Saving *)

\* a plausible bug: the new values are checked by themselves
SubmitUnmerged(c) ==
    /\ form[c].pc = "open" /\ stamp < MaxTime
    /\ \E ks \in Requests : \E u \in [ks -> Legal] :
         /\ ks = Keys => Consistent(u)
         /\ form' = [form EXCEPT ![c].pc = "valid", ![c].want = Completed(u), ![c].todo = Calls(Completed(u))]
    /\ moved' = moved \ {c}
    /\ UNCHANGED <<store, clock, fresh, raced, spoiled>>

\* the request's values, with those in force, must be consistent
Submit(c) ==
    /\ form[c].pc = "open" /\ stamp < MaxTime
    /\ \E ks \in Requests : \E u \in [ks -> Legal] :
         LET w == Completed(u)
         IN  /\ Consistent(Merged(memory, w))
             /\ form' = [form EXCEPT ![c].pc = "valid", ![c].want = w, ![c].todo = Calls(w)]
    /\ moved' = moved \ {c}
    /\ UNCHANGED <<store, clock, fresh, raced, spoiled>>

\* a plausible bug: a later stamp is taken for a newer form
CheckNotOlder(c) ==
    /\ form[c].pc = "valid"
    /\ form' = [form EXCEPT ![c] = IF Current >= form[c].ts THEN [@ EXCEPT !.pc = "write"] ELSE Closed]
    /\ raced' = IF \E d \in Clients \ {c} : Saving(d) THEN raced \cup {c} ELSE raced
    /\ Look
    /\ UNCHANGED <<section, memory, disk, yaml, holder, clock, fresh, moved, spoiled>>

\* The section still has the stamp that the form was given.
UpToDate(c) == Current = form[c].ts

\* _check_config_conflict; a save under way may have written but not stamped
Check(c) ==
    /\ form[c].pc = "valid"
    /\ form' = [form EXCEPT ![c] = IF UpToDate(c) THEN [@ EXCEPT !.pc = "write"] ELSE Closed]
    /\ raced' = IF \E d \in Clients \ {c} : Saving(d) THEN raced \cup {c} ELSE raced
    /\ Look
    /\ UNCHANGED <<section, memory, disk, yaml, holder, clock, fresh, moved, spoiled>>

Call(c) == Head(form[c].todo)
Wanted(c) == DOMAIN form[c].want \cap Call(c)

\* A threshold takes the type of the value before it: int() makes 0 of a fraction.
Stored(c, k) ==
    IF section = "thresholds" /\ k \in yaml.loaded /\ form[c].want[k] = 1 THEN 0 ELSE form[c].want[k]

AsChecked(c) == \A k \in Wanted(c) : Stored(c, k) = form[c].want[k]
Changed(c) == {k \in Wanted(c) : memory[k] # Stored(c, k)}
Put(c, v) == [k \in Keys |-> IF k \in Wanted(c) THEN Stored(c, k) ELSE v[k]]

NextCall(c) == form' = [form EXCEPT ![c].pc = "write", ![c].todo = Tail(@)]

\* New values are in force: nobody else's form shows them, and whoever has read the values
\* but not the stamp, or is past the check, will not notice.
Assigned(c) ==
    /\ memory' = Put(c, memory)
    /\ fresh' = fresh \cap {c}
    /\ raced' = raced \cup {d \in Clients \ {c} : form[d].pc \in {"read", "write"}}
    /\ moved' = moved \cup {d \in Clients \ {c} : form[d].pc \in {"valid", "write", "persist", "assign"}}
    /\ spoiled' = (spoiled \/ c \in moved \/ ~AsChecked(c))

\* update_config_section and the like: memory, then only what has changed to the file
Assign(c) ==
    /\ form[c].pc = "write" /\ form[c].todo # <<>> /\ section # "retention"
    /\ ~FileFirst(Call(c)) /\ holder = "nobody"
    /\ IF Changed(c) = {}
       THEN /\ NextCall(c) /\ spoiled' = (spoiled \/ ~AsChecked(c))
            /\ UNCHANGED <<memory, holder, fresh, raced, moved>>
       ELSE /\ Assigned(c) /\ holder' = c
            /\ form' = [form EXCEPT ![c].pc = "persist", ![c].todo = <<Changed(c)>> \o Tail(@)]
    /\ UNCHANGED <<section, disk, yaml, snap, stamp, clock>>

\* Only lines that exist are replaced, and nobody is told of the others.
Persist(c) ==
    /\ form[c].pc = "persist"
    /\ disk' = [k \in Keys |-> IF k \in yaml.missing THEN disk[k] ELSE Put(c, disk)[k]]
    /\ yaml' = IF section # "thresholds" THEN yaml
               ELSE [yaml EXCEPT !.text = (@ \ Wanted(c)) \cup {k \in Wanted(c) : Stored(c, k) # 1}]
    /\ NextCall(c) /\ holder' = "nobody"
    /\ spoiled' = (spoiled \/ Wanted(c) \cap yaml.missing # {})
    /\ UNCHANGED <<section, memory, snap, stamp, clock, fresh, raced, moved>>

\* set_list_section, set_monitored_sections: the file, then memory
PersistList(c) ==
    /\ form[c].pc = "write" /\ form[c].todo # <<>> /\ FileFirst(Call(c)) /\ holder = "nobody"
    /\ IF section = "network" /\ Changed(c) = {} THEN NextCall(c) /\ UNCHANGED <<disk, holder>>
       ELSE disk' = Put(c, disk) /\ Go(c, "assign") /\ holder' = c
    /\ UNCHANGED <<section, memory, yaml, snap, stamp, clock, history>>

AssignList(c) ==
    /\ form[c].pc = "assign"
    /\ IF Changed(c) = {} THEN UNCHANGED <<memory, history>> ELSE Assigned(c)
    /\ NextCall(c) /\ holder' = "nobody"
    /\ UNCHANGED <<section, disk, yaml, snap, stamp, clock>>

\* The answer gives the values now in force and the stamp ts.
Answered(c, ts) ==
    /\ form' = [form EXCEPT ![c] = [Closed EXCEPT !.pc = "open", !.ts = ts]]
    /\ fresh' = IF memory' = memory THEN fresh \cup {c} ELSE {c}

\* A second is too coarse for forms that were read in the one of the save.
SameSecond(c) == {d \in Clients \ {c} : d \notin fresh' /\ form[d].ts = stamp'}

\* _save_retention_settings: the days and their stamp in one write, under the lock of the readers
SaveRetention(c) ==
    /\ section = "retention" /\ form[c].pc = "write"
    /\ memory' = Put(c, memory) /\ disk' = Put(c, disk) /\ stamp' = clock
    /\ Answered(c, clock)
    /\ raced' = (raced \ {c}) \cup SameSecond(c)
                   \cup {d \in Clients \ {c} : d \notin fresh' /\ form[d].pc \in {"read", "write"}}
    /\ moved' = IF memory' = memory THEN moved
                ELSE moved \cup {d \in Clients \ {c} : form[d].pc \in {"valid", "write"}}
    /\ spoiled' = (spoiled \/ (memory' # memory /\ c \in moved))
    /\ UNCHANGED <<section, yaml, snap, clock, holder>>

\* Nobody will stamp what was written: forms that do not show it keep a stamp that is current.
Unstamped == raced' = raced \cup {c \in Clients : form[c].pc # "closed" /\ c \notin fresh'}

\* and when the file cannot be written, the days are in force until the service ends, answered
\* without an error and with 0 for a stamp
RetentionUnsaved(c) ==
    /\ section = "retention" /\ form[c].pc = "write"
    /\ memory' = Put(c, memory)
    /\ Answered(c, 0)
    /\ Unstamped /\ spoiled' = TRUE
    /\ UNCHANGED <<section, disk, yaml, snap, stamp, clock, holder, moved>>

\* The file cannot be written: the request ends with an error.
SaveFails(c) ==
    /\ \/ form[c].pc = "persist" /\ holder' = "nobody"
       \/ form[c].pc = "write" /\ form[c].todo # <<>> /\ FileFirst(Call(c)) /\ holder = "nobody"
          /\ UNCHANGED holder
    /\ form' = [form EXCEPT ![c] = Closed]
    /\ UNCHANGED <<section, memory, disk, yaml, snap, stamp, clock, fresh, moved>>
    /\ Unstamped /\ spoiled' = TRUE

\* _bump_config_updated_at, and the answer
Stamp(c) ==
    /\ form[c].pc = "write" /\ form[c].todo = <<>>
    /\ stamp' = IF section = "sections" THEN Observed ELSE clock
    /\ snap' = IF section = "sections" THEN memory ELSE snap
    /\ UNCHANGED <<section, memory, disk, yaml, holder, clock, moved, spoiled>>
    /\ Answered(c, stamp')
    /\ raced' = (raced \ {c}) \cup SameSecond(c)

\* The stamp cannot be written: an error is answered although the values are in force.
StampFails(c) ==
    /\ form[c].pc = "write" /\ form[c].todo = <<>> /\ section # "sections"
    /\ form' = [form EXCEPT ![c] = Closed]
    /\ UNCHANGED <<store, clock, fresh, moved, spoiled>>
    /\ Unstamped

\* update_config_generic, and the sections' handlers of their own
Handler(c) ==
    \/ Submit(c) \/ Check(c)
    \/ Assign(c) \/ Persist(c) \/ PersistList(c) \/ AssignList(c) \/ SaveRetention(c)
    \/ SaveFails(c) \/ RetentionUnsaved(c)
    \/ Stamp(c) \/ StampFails(c)

-----------------------------------------------------------------------------
Advance ==
    /\ clock < MaxTime /\ clock' = clock + 1
    /\ UNCHANGED <<store, form, history>>

\* The service ends and starts again; the dashboards stay open.
Restart ==
    /\ memory' = disk /\ yaml' = [yaml EXCEPT !.loaded = yaml.text] /\ holder' = "nobody"
    /\ form' = [c \in Clients |-> IF form[c].pc = "open" THEN form[c] ELSE Closed]
    /\ fresh' = IF memory = disk THEN fresh ELSE {}
    /\ IF memory # disk \/ \E c \in Clients : Saving(c)
       THEN Unstamped /\ spoiled' = TRUE ELSE UNCHANGED <<raced, spoiled>>
    /\ UNCHANGED <<section, disk, snap, stamp, clock, moved>>

Next ==
    \/ \E c \in Clients : ReadValues(c) \/ ReadStamp(c) \/ Handler(c)
    \/ Advance \/ Restart

Spec == Init /\ [][Next]_vars

-----------------------------------------------------------------------------
\* A save is accepted only from a form that shows the values it replaces, also after a
\* restart, a failure or a save by somebody who was refused before; the exceptions are saves
\* that overlap a read or each other, that fall within one second, and that nobody could
\* stamp.  ("To prevent silent last-write-wins overwrites".)
AcceptedFormIsCurrent ==
    \A c \in Clients : form[c].pc = "write" /\ Len(form[c].todo) = Len(Calls(form[c].want)) =>
        c \in fresh \cup raced

\* Between saves, what is in force is what the next start will read, and the keys agree with
\* each other although a request may change one of them only; unless saves have overlapped, one has
\* failed, a key had no line in the file, or a fraction was stored where the file has an integer.
\* (The validators, update_config_section, _replace_yaml_scalar_line, set_list_section.)
SettingsStayConsistent ==
    (~spoiled /\ \A c \in Clients : ~Saving(c)) => memory = disk /\ Consistent(memory)
=============================================================================
