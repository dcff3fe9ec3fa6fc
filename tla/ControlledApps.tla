--------------------------- MODULE ControlledApps ---------------------------
(***************************************************************************)
(* Which applications are managed.  The list controlled_apps is kept in    *)
(* config.yaml and in memory; a row of the database says which of them are *)
(* under control and keeps a copy of the entry, so that one that a user    *)
(* deletes by hand can be written back.  Requests of the dashboard are     *)
(* handled by threads of their own: they take a snapshot of the list,      *)
(* decide, and append to it, take from it or replace it as a whole.        *)
(*                                                                         *)
(* An application is known by its id, which stands for its name too, and   *)
(* by the names of its programs.                                           *)
(***************************************************************************)
EXTENDS Integers, Sequences, FiniteSets

CONSTANTS Ids, Programs, Scopes,
          NoScope,     \* shown for a program that does not run
          Handlers,    \* the threads that serve requests
          Placements,  \* where the programs may run: functions from Programs to Scopes
          MaxRequests, \* a bound on the requests that are made
          MaxEvents    \* a bound on what else happens: exits, edits by hand, restarts

VARIABLES
  memory,   \* b_config.controlled_apps, a sequence of [id, names]
  file,     \* config.yaml's
  rows,     \* id -> the AIAppPriority record: whether it is controlled, the copy of its
            \* entry's names ({} when there is none)
  where,    \* program -> the cgroup it runs in
  running,  \* the programs that run
  limit,    \* id -> the live limit: [kind, on], on the cgroups it holds
  pinned,   \* ids that are bound to some cores
  req,      \* handler -> the request it serves
  asked, happened, \* counters, for the bounds
  last,     \* history: id -> the programs its entry last named
  unsaved,  \* history: ids whose entry was written later than its copy
  crossed   \* history: ids that two requests decided about at once

vars == <<memory, file, rows, where, running, limit, pinned, req, asked, happened, last, unsaved, crossed>>
config == <<memory, file, last>>
world == <<where, running, limit, pinned>>
bounds == <<asked, happened>>
history == <<unsaved, crossed>>

Row(controlled, meta) == [known |-> TRUE, controlled |-> controlled, meta |-> meta]
NoRow == [known |-> FALSE, controlled |-> FALSE, meta |-> {}]
NoLimit == [kind |-> "none", on |-> {}]
Free == [pc |-> "free", id |-> "", names |-> {}, list |-> <<>>, on |-> FALSE]

-----------------------------------------------------------------------------
(* The list, and what the table of controlled applications shows *)

Entries(list, a) == {i \in DOMAIN list : list[i].id = a}
Has(list, a) == Entries(list, a) # {}
IndexOf(list, a) == CHOOSE i \in Entries(list, a) : \A j \in Entries(list, a) : i <= j
NamesOf(list, a) == IF Has(list, a) THEN list[IndexOf(list, a)].names ELSE {}

\* The wizard's check: no entry has the id, or names one of the programs.
ConflictsOfNames(list, a, names) == \E i \in DOMAIN list : list[i].names \cap names # {}
Conflicts(list, a, names) == \E i \in DOMAIN list : list[i].id = a \/ list[i].names \cap names # {}

\* The instances of an application: a row for every cgroup in which one of its programs
\* runs, whose name is that of one of them, with its limit, and one for every program
\* that does not run.
InstanceRows(names) ==
    LET live == names \cap running
        shown(s) == CHOOSE n \in live : where[n] = s
    IN {[name |-> shown(s), scope |-> s] : s \in {where[n] : n \in live}}
         \cup {[name |-> n, scope |-> NoScope] : n \in names \ running}

\* The names of the rows of a that are marked as limited.
LimitedNames(a, names) ==
    IF limit[a].kind = "none" THEN {}
    ELSE {r.name : r \in {x \in InstanceRows(names) : x.scope \in limit[a].on}}

\* What the dashboard offers: the list's applications and those only a row remembers.
Offered(a) == Has(memory, a) \/ rows[a] # NoRow
Controlled(a) == rows[a].controlled

\* Names that an entry can have: at least one program.
NameSets == SUBSET Programs \ {{}}

\* The shape of the state.
TypeOK ==
    /\ \A list \in {memory, file} : \A i \in DOMAIN list : list[i].id \in Ids /\ list[i].names \subseteq Programs
    /\ \A a \in Ids :
         /\ rows[a].controlled => rows[a].known
         /\ rows[a].meta \subseteq Programs
         /\ limit[a].kind \in {"none", "manual", "auto"} /\ limit[a].on \subseteq Scopes
         /\ limit[a].kind = "none" <=> limit[a].on = {}
    /\ running \subseteq Programs /\ pinned \cup unsaved \cup crossed \subseteq Ids
    /\ \A h \in Handlers : req[h] = Free \/ req[h].id \in Ids

\* Write the list, in the file and in memory.
Store(inFile, inMemory) ==
    /\ file' = inFile /\ memory' = inMemory
    /\ last' = [a \in Ids |-> IF Has(inMemory, a) THEN NamesOf(inMemory, a) ELSE last[a]]

Take(h, r) == req[h] = Free /\ asked < MaxRequests /\ asked' = asked + 1 /\ req' = [req EXCEPT ![h] = r]
At(h, pc) == req[h].pc = pc
Goto(h, pc) == req' = [req EXCEPT ![h].pc = pc]
Answer(h) == req' = [req EXCEPT ![h] = Free]

-----------------------------------------------------------------------------
(* The wizard: check, append, insert the row *)

New(h, a, names) ==
    /\ ~Conflicts(memory, a, names)
    /\ Take(h, [Free EXCEPT !.pc = "append", !.id = a, !.names = names])
    /\ UNCHANGED <<config, rows, world, happened, history>>

\* append_to_list_section: to what the file now holds.
Appended(list, h) == Append(list, [id |-> req[h].id, names |-> req[h].names])
AppendEntry(h) ==
    LET a == req[h].id IN
    /\ At(h, "append") \/ At(h, "restore")
    /\ Store(Appended(file, h), Appended(memory, h))
    /\ crossed' = IF \/ At(h, "restore") /\ rows[a] = NoRow
                     \/ \E g \in Handlers \ {h} : req[g].id = a /\ req[g].pc \in {"append", "restore"}
                  THEN crossed \cup {a} ELSE crossed
    /\ unsaved' = IF At(h, "append") THEN unsaved \cup {a} ELSE unsaved
    /\ Goto(h, IF At(h, "append") THEN "insert" ELSE "update")
    /\ UNCHANGED <<rows, world, bounds>>

\* The row is inserted, or the one there is updated, with the copy of the entry; a
\* database error is logged and the rest goes on.
InsertRow(h) ==
    LET a == req[h].id IN
    /\ At(h, "insert") /\ Answer(h)
    /\ \/ rows' = [rows EXCEPT ![a] = Row(TRUE, req[h].names)]
          /\ unsaved' = unsaved \ {a}
       \/ UNCHANGED <<rows, unsaved>>
    /\ crossed' = IF NamesOf(memory, a) # req[h].names THEN crossed \cup {a} ELSE crossed
    /\ UNCHANGED <<config, world, bounds>>

-----------------------------------------------------------------------------
(* Taking an application under control, or out of it *)

\* restore_config_entry: one that is gone from the list is rebuilt from the row's copy.
Enable(h, a) ==
    LET lost == ~Has(memory, a) /\ rows[a] # NoRow
    IN /\ Offered(a)
       /\ Take(h, [Free EXCEPT !.pc = IF lost THEN "restore" ELSE "update", !.id = a, !.on = TRUE,
                               !.names = IF lost THEN rows[a].meta ELSE {}])
       /\ UNCHANGED <<config, rows, world, happened, history>>

\* An application is unpinned first; that it fails is only logged.
Released(a) == {pinned \ {a}, pinned}
Disable(h, a) ==
    /\ Offered(a)
    /\ Take(h, [Free EXCEPT !.pc = "update", !.id = a])
    /\ pinned' \in Released(a)
    /\ crossed' = IF a \in pinned' THEN crossed \cup {a} ELSE crossed
    /\ UNCHANGED <<config, rows, where, running, limit, happened, unsaved>>

\* update_record, or insert_record without a copy of the entry when there is no row.
UpdateRow(h) ==
    LET a == req[h].id
        on == req[h].on
    IN /\ At(h, "update") /\ Answer(h)
       /\ rows' = [rows EXCEPT ![a] = IF @ = NoRow THEN Row(on, {})
                                                   ELSE [@ EXCEPT !.controlled = on]]
       /\ unsaved' = IF rows[a] = NoRow THEN unsaved \cup {a} ELSE unsaved
       /\ crossed' = IF on /\ ~Has(memory, a) THEN crossed \cup {a} ELSE crossed
       /\ UNCHANGED <<config, world, bounds>>

\* get_apps stores a row for an application that has none.
StoreRow(a) ==
    /\ Has(memory, a) /\ rows[a] = NoRow
    /\ rows' = [rows EXCEPT ![a] = Row(FALSE, {})]
    /\ unsaved' = unsaved \cup {a}
    /\ UNCHANGED <<config, world, req, bounds, crossed>>

-----------------------------------------------------------------------------
(* Editing the programs: a copy of the list with one entry changed replaces it *)

Replaced(list, a, names) == [list EXCEPT ![IndexOf(list, a)].names = names]
Overwrite(h, a, names) ==
    Take(h, [Free EXCEPT !.pc = "write", !.id = a, !.names = names, !.list = memory])

Merge(h, a, names) ==
    /\ Has(memory, a)
    /\ Overwrite(h, a, NamesOf(memory, a) \cup names)
    /\ UNCHANGED <<config, rows, world, happened, history>>

\* A name may not be dropped while an instance of it is limited.
MayReplaceAlways(a, names) == names # {}
MayReplace(a, names) == LimitedNames(a, NamesOf(memory, a)) \subseteq names
Edit(h, a, names) ==
    /\ Has(memory, a) /\ MayReplace(a, names)
    /\ Overwrite(h, a, names)
    /\ UNCHANGED <<config, rows, world, happened, history>>

\* What other requests have done to the list since h took its copy, which its own undoes.
Undone(h) ==
    {b \in Ids : LET Of(list) == SelectSeq(list, LAMBDA e : e.id = b) IN Of(memory) # Of(req[h].list)}

\* set_list_section: nothing is written, and an error answered, when nothing changes.
WriteList(h) ==
    LET a == req[h].id
        list == Replaced(req[h].list, a, req[h].names)
    IN /\ At(h, "write")
       /\ IF list = memory
          THEN Answer(h) /\ UNCHANGED <<config, history>>
          ELSE /\ Store(list, list) /\ Goto(h, "copy")
               /\ unsaved' = unsaved \cup {a}
               /\ crossed' = crossed \cup Undone(h)
       /\ UNCHANGED <<rows, world, bounds>>

\* serialize_config_meta: the copy of the entry as it now is.
CopyOfOld(h) == NamesOf(req[h].list, req[h].id)
Copy(h) == req[h].names

\* The row's copy follows; a database error is logged.
CopyEntry(h) ==
    LET a == req[h].id IN
    /\ At(h, "copy") /\ Answer(h)
    /\ \/ rows' = [rows EXCEPT ![a] = IF @ = NoRow THEN @ ELSE [@ EXCEPT !.meta = Copy(h)]]
          /\ unsaved' = unsaved \ {a}
       \/ UNCHANGED <<rows, unsaved>>
    /\ crossed' = IF NamesOf(memory, a) # req[h].names THEN crossed \cup {a} ELSE crossed
    /\ UNCHANGED <<config, world, bounds>>

-----------------------------------------------------------------------------
(* Deleting an application: its limit is lifted, its cores given back, then the *)
(* entry goes and the row *)

Purge(h, a) ==
    /\ Has(memory, a)
    /\ Take(h, [Free EXCEPT !.pc = "lift", !.id = a])
    /\ UNCHANGED <<config, rows, world, happened, history>>

\* An automatic limit is not ours to restore, and a manual one must be lifted.
LiftAuto(h) ==
    LET a == req[h].id IN
    /\ At(h, "lift") /\ Goto(h, "unpin")
    /\ limit' = IF limit[a].kind = "manual" THEN [limit EXCEPT ![a] = NoLimit] ELSE limit
    /\ UNCHANGED <<config, rows, where, running, pinned, bounds, history>>
Lift(h) ==
    LET a == req[h].id IN
    /\ At(h, "lift")
    /\ \/ limit[a].kind = "none" /\ Goto(h, "unpin") /\ UNCHANGED limit
       \/ limit[a].kind = "manual" /\ Goto(h, "unpin") /\ limit' = [limit EXCEPT ![a] = NoLimit]
       \/ limit[a].kind # "none" /\ Answer(h) /\ UNCHANGED limit
    /\ UNCHANGED <<config, rows, where, running, pinned, bounds, history>>

Unpin(h) ==
    LET a == req[h].id IN
    /\ At(h, "unpin")
    /\ \E p \in Released(a) :
         /\ pinned' = p
         /\ IF a \in p THEN Answer(h) ELSE Goto(h, "remove")
    /\ UNCHANGED <<config, rows, where, running, limit, bounds, history>>

\* remove_from_list_section: what the file does not hold stays in memory.
Without(list, a) == SelectSeq(list, LAMBDA e : e.id # a)
Remove(h) ==
    LET a == req[h].id IN
    /\ At(h, "remove")
    /\ IF Has(file, a)
       THEN Store(Without(file, a), Without(memory, a)) /\ Goto(h, "delete")
       ELSE Answer(h) /\ UNCHANGED config
    /\ UNCHANGED <<rows, world, bounds, history>>

\* A database error is logged: the row then stays, without its entry, until the restart.
DeleteRow(h) ==
    LET a == req[h].id IN
    /\ At(h, "delete") /\ Answer(h)
    /\ \/ rows' = [rows EXCEPT ![a] = NoRow] /\ crossed' = IF Has(memory, a) THEN crossed \cup {a} ELSE crossed
       \/ UNCHANGED rows /\ crossed' = crossed \cup {a}
    /\ UNCHANGED <<config, world, bounds, unsaved>>

-----------------------------------------------------------------------------
(* Limits and pins, which others set, and the programs *)

\* resource_limit and cpu_affinity: refused for what is not under control.
Ask(h, a, what) ==
    /\ Controlled(a) /\ (what = "limit" => limit[a].kind # "auto")
    /\ Take(h, [Free EXCEPT !.pc = what, !.id = a])
    /\ UNCHANGED <<config, rows, world, happened, history>>

\* A request that has looked at a's limit, or its pin, and has yet to act on what it saw.
Overtaken(a, pcs) == IF \E h \in Handlers : req[h].id = a /\ req[h].pc \in pcs THEN {a} ELSE {}
PastLimit == {"unpin", "remove", "delete", "write"}
PastPin == {"remove", "delete", "update"}

ScopesOf(a) == {where[n] : n \in NamesOf(memory, a) \cap running}
Limited(h) ==
    LET a == req[h].id IN
    /\ At(h, "limit") /\ Answer(h)
    /\ limit' = IF limit[a].kind = "none" /\ ScopesOf(a) # {}
                THEN [limit EXCEPT ![a] = [kind |-> "manual", on |-> ScopesOf(a)]] ELSE limit
    /\ crossed' = crossed \cup Overtaken(a, PastLimit)
    /\ UNCHANGED <<config, rows, where, running, pinned, bounds, unsaved>>

Pinned(h) ==
    LET a == req[h].id IN
    /\ At(h, "pin") /\ Answer(h)
    /\ pinned' = pinned \cup {a}
    /\ crossed' = crossed \cup Overtaken(a, PastPin)
    /\ UNCHANGED <<config, rows, where, running, limit, bounds, unsaved>>

Event == happened < MaxEvents /\ happened' = happened + 1

\* The monitor loop limits an application, and limits are restored.
AutoLimit(a) ==
    /\ Event /\ limit[a] = NoLimit /\ ScopesOf(a) # {}
    /\ limit' = [limit EXCEPT ![a] = [kind |-> "auto", on |-> ScopesOf(a)]]
    /\ crossed' = crossed \cup Overtaken(a, PastLimit)
    /\ UNCHANGED <<config, rows, where, running, pinned, req, asked, unsaved>>

Restore(a) ==
    /\ limit[a] # NoLimit /\ limit' = [limit EXCEPT ![a] = NoLimit]
    /\ UNCHANGED <<config, rows, where, running, pinned, req, bounds, history>>

\* A program ends; a limit ends with the last process of its cgroups.
Exit(n) ==
    LET alive == {where[m] : m \in running \ {n}} IN
    /\ Event /\ n \in running /\ running' = running \ {n}
    /\ limit' = [a \in Ids |-> LET on == limit[a].on \cap alive
                               IN IF on = {} THEN NoLimit ELSE [limit[a] EXCEPT !.on = on]]
    /\ crossed' = crossed \cup UNION {Overtaken(a, {"write"}) : a \in Ids}
    /\ UNCHANGED <<config, rows, where, pinned, req, asked, unsaved>>

-----------------------------------------------------------------------------
(* Edits of the file by hand, and the restart that reads them *)

\* Someone deletes an entry from config.yaml.
DeleteByHand(a) ==
    /\ Event /\ Has(file, a) /\ file' = Without(file, a)
    /\ UNCHANGED <<memory, last, rows, world, req, asked, history>>

\* diff_controlled_apps: rows under control whose entry is gone, and copies that differ;
\* of two entries with one id the later counts.
OrphanNever(a) == FALSE
Orphan(a) == Controlled(a) /\ ~Has(file, a)
LaterNames(a) == file[CHOOSE i \in Entries(file, a) : \A j \in Entries(file, a) : j <= i].names
Reconciled(a) ==
    CASE Orphan(a) -> [rows[a] EXCEPT !.controlled = FALSE]
      [] rows[a] # NoRow /\ Has(file, a) -> [rows[a] EXCEPT !.meta = LaterNames(a)]
      [] OTHER -> rows[a]

\* A restart, by a crash too: no request is finished, limits and pins are undone, and
\* the rows are reconciled with the file.
Restart ==
    LET settled == {a \in Ids : Cardinality(Entries(file, a)) = 1 /\ rows[a] # NoRow} IN
    /\ Event
    /\ Store(file, file)
    /\ rows' = [a \in Ids |-> Reconciled(a)]
    /\ limit' = [a \in Ids |-> NoLimit] /\ pinned' = {}
    /\ req' = [h \in Handlers |-> Free]
    /\ unsaved' = unsaved \ settled /\ crossed' = crossed \ settled
    /\ UNCHANGED <<where, running, asked>>

-----------------------------------------------------------------------------
\* A file with one application or none, which the table may already know.
Init ==
    \E a \in Ids, names \in NameSets, known \in BOOLEAN, on \in Placements :
      /\ memory \in {<<>>, <<[id |-> a, names |-> names]>>} /\ file = memory
      /\ rows = [b \in Ids |-> IF known /\ Has(memory, b) THEN Row(TRUE, names) ELSE NoRow]
      /\ where = on /\ running = Programs
      /\ limit = [b \in Ids |-> NoLimit] /\ pinned = {}
      /\ req = [h \in Handlers |-> Free] /\ asked = 0 /\ happened = 0
      /\ last = [b \in Ids |-> NamesOf(memory, b)]
      /\ unsaved = {} /\ crossed = {}

Requests(h) ==
    \/ \E a \in Ids : Enable(h, a) \/ Disable(h, a) \/ Purge(h, a)
    \/ \E a \in Ids, what \in {"limit", "pin"} : Ask(h, a, what)
    \/ \E a \in Ids, names \in NameSets : New(h, a, names) \/ Merge(h, a, names) \/ Edit(h, a, names)

Steps(h) ==
    \/ AppendEntry(h) \/ InsertRow(h) \/ UpdateRow(h) \/ WriteList(h) \/ CopyEntry(h)
    \/ Lift(h) \/ Unpin(h) \/ Remove(h) \/ DeleteRow(h) \/ Limited(h) \/ Pinned(h)

Next ==
    \/ \E h \in Handlers : Requests(h) \/ Steps(h)
    \/ \E a \in Ids : StoreRow(a) \/ AutoLimit(a) \/ Restore(a) \/ DeleteByHand(a)
    \/ \E n \in Programs : Exit(n)
    \/ Restart

Spec == Init /\ [][Next]_vars

-----------------------------------------------------------------------------
\* No request is under way for a.
Quiet(a) == \A h \in Handlers : req[h].id # a

\* The wizard never shadows an application: an id is listed once, unless two requests
\* wrote it at the same time (new_controlled_app, restore_config_entry).
ListedOnce == \A a \in Ids \ crossed : Cardinality(Entries(memory, a)) <= 1

\* An application that the table shows under control has its entry, without which no
\* lookup finds it (restore_config_entry, purge_controlled_app).
ControlledIsListed == \A a \in Ids \ crossed : Quiet(a) /\ Controlled(a) => Has(memory, a)

\* What brings back an entry that was deleted by hand brings it back as it last was,
\* whatever edits were made before, once its copy could be written
\* (config_entry_from_row, reconcile_controlled_apps).
ReturnsAsItWas ==
    \A a \in Ids \ (crossed \cup unsaved) : Quiet(a) /\ rows[a] # NoRow => rows[a].meta = last[a]

\* No edit or deletion takes a limit or a pin away from the dashboard: what is limited
\* or pinned is still listed, and a limited instance keeps a name that shows it while
\* the program runs, except for a limit set while the request was under way
\* (set_controlled_app_processes, purge_controlled_app).
Referenced(a, s) == \E n \in NamesOf(memory, a) \cap running : where[n] = s
HoldsKept ==
    \A a \in Ids \ crossed' :
        /\ running' = running =>
             \A s \in limit[a].on \cap limit'[a].on : Referenced(a, s) => Referenced(a, s)'
        /\ a \in pinned' /\ Controlled(a) => Controlled(a)'
        /\ a \in pinned' /\ Has(memory, a) => Has(memory, a)'
=============================================================================
