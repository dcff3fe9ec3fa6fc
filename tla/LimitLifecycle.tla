--------------------------- MODULE LimitLifecycle ---------------------------
(***************************************************************************)
(* How limits are applied, handed over, relaxed and lifted: the operations *)
(* of DynamicBalancer (balancer/balancer/balancer.py) on the registry and  *)
(* on the cgroups' caps.                                                   *)
(*                                                                         *)
(* The monitor thread applies auto limits, runs the staged restore and     *)
(* reaps closed apps, one after the other.  REST threads install and lift  *)
(* manual limits, give auto-limited apps back and take limits over.  The   *)
(* main thread shuts the service down.  Two locks order them:              *)
(*   - operation_lock is held across the two appliers (_apply_resource_    *)
(*     limits, _install_resource_limit) and the deferred IO cap, and is    *)
(*     the variable oplock;                                                *)
(*   - the registry's own lock is held for single lookups and updates, so  *)
(*     each block under it is one step.                                    *)
(* Every other operation writes its cgroup files with no lock held, so its *)
(* lookup, its writes and its bookkeeping are separate steps.              *)
(***************************************************************************)
EXTENDS LimitRegistry

CONSTANTS
    Owner,          \* the app each cgroup belongs to
    Controlled,     \* the apps that have a DB row at the start
    Monitor,        \* the monitor thread
    Main,           \* the thread that runs shutdown()
    Rest,           \* the REST threads
    Ops,            \* the operations of this instance, a subset of AllOps
    Serial,         \* TRUE: a step from outside only when no operation is under way
    WritesMayFail   \* TRUE: a write to a cgroup may fail

AllOps == {"auto", "staged", "reap", "limit", "edit", "restore", "user_restore",
           "handoff", "unexclude", "shutdown", "exit", "launch"}

Threads == {Monitor, Main} \cup Rest
NoThread == "nobody"

ASSUME LifecycleAssumption ==
    /\ Apps # {} /\ Owner \in [Cgroups -> Apps]
    /\ Controlled \subseteq Apps
    /\ NoKey \notin Cgroups /\ Apps \cap Cgroups = {}   \* no app is called like a cgroup
    /\ IsFiniteSet(Cgroups) /\ IsFiniteSet(Rest)
    /\ Monitor # Main /\ Monitor \notin Rest /\ Main \notin Rest
    /\ NoThread \notin Threads
    /\ Ops \subseteq AllOps
    /\ Serial \in BOOLEAN
    /\ WritesMayFail \in BOOLEAN

VARIABLES
    running,    \* is_running
    live,       \* the cgroups in which the app's processes run
    exists,     \* the cgroups that exist
    controlled, \* the apps with a DB row
    cap,        \* the kernel's caps: none, half (relaxed to 2x) or full
    oplock,     \* who holds operation_lock
    pc,         \* where each thread is
    op,         \* the locals of the operation each thread is running
    chan,       \* the locals of the monitor's _restore_channel_for
    closed      \* the entries the reaper has popped and not yet restored

vars == <<registry, order, exclusions, running, live, exists, controlled, cap,
          oplock, pc, op, chan, closed>>

\* The environment of the operations, which most of them leave alone.
worldVars == <<running, live, exists, controlled>>

Caps == {"none", "half", "full"}

\* Locals: the app and the cgroups acted on, the entry's key and identity, the
\* channels asked for, those that landed, and whether the IO cap is deferred.
Local == [app : Ids, key : Cgroups \cup {NoKey}, id : Nat, targets : SUBSET Cgroups,
          parts : SUBSET Parts, done : SUBSET Parts, defer : BOOLEAN,
          controlled : BOOLEAN]

NoOp == [app |-> CHOOSE a \in Apps : TRUE, key |-> NoKey, id |-> 0, targets |-> {},
         parts |-> {}, done |-> {}, defer |-> FALSE, controlled |-> FALSE]

\* Locals of a channel restore: the entry picked (key, identity, its parts when
\* picked), the channel, the stage, whether the primary's write succeeded, and
\* where the monitor goes on.
Channel == [key : Cgroups \cup {NoKey}, id : Nat, parts : SUBSET Parts,
            part : Parts, stage : {"partial", "full"}, ok : BOOLEAN,
            next : {"idle", "write"}]

NoChannel == [key |-> NoKey, id |-> 0, parts |-> {}, part |-> "sys",
              stage |-> "full", ok |-> TRUE, next |-> "idle"]

ApplySteps == {"yield", "write", "upsert", "lift", "account"}
InstallSteps == {"write_sys", "write_io", "record", "deferred", "defer_write", "defer_record"}
Labels == {"idle", "begin_apply", "reap", "lift_manual", "lift_user", "pop_user",
           "sweep", "stopped"} \cup ApplySteps \cup InstallSteps

TypeOK ==
    /\ RegistryTypeOK
    /\ running \in BOOLEAN
    /\ live \subseteq exists
    /\ exists \subseteq Cgroups
    /\ controlled \subseteq Apps
    /\ cap \in [Cgroups -> [Parts -> Caps]]
    /\ oplock \in Threads \cup {NoThread}
    /\ pc \in [Threads -> Labels]
    /\ op \in [Threads -> Local]
    /\ chan \in Channel
    /\ closed \subseteq Entry

Init ==
    /\ RegistryInit
    /\ running = TRUE
    /\ live = Cgroups
    /\ exists = Cgroups
    /\ controlled = Controlled
    /\ cap = [c \in Cgroups |-> [p \in Parts |-> "none"]]
    /\ oplock = NoThread
    /\ pc = [t \in Threads |-> "idle"]
    /\ op = [t \in Threads |-> NoOp]
    /\ chan = NoChannel
    /\ closed = {}

-----------------------------------------------------------------------------
CgroupsOf(app) == {c \in Cgroups : Owner[c] = app}
LiveOf(app) == CgroupsOf(app) \cap live

\* o is among the operations of this instance and, in a serial one, nothing else
\* is under way.
Enabled(o) ==
    /\ running
    /\ o \in Ops
    /\ Serial => \A u \in Threads : pc[u] = "idle"
\* Thread t may start operation o.
MayStart(t, o) == pc[t] = "idle" /\ Enabled(o)

Goto(t, label) == pc' = [pc EXCEPT ![t] = label]
\* The operation of t goes on at label with the locals l.
Continue(t, label, l) ==
    /\ Goto(t, label)
    /\ op' = [op EXCEPT ![t] = l]
\* A `with operation_lock` block is left.
Unlock(t) == oplock' = IF oplock = t THEN NoThread ELSE oplock
\* The operation of t returns.
Return(t) ==
    /\ Continue(t, "idle", NoOp)
    /\ Unlock(t)

\* The cgroups of C whose write succeeds.
Succeed(C) == IF WritesMayFail THEN SUBSET (C \cap exists) ELSE {C \cap exists}
\* The caps after the parts P of the cgroups C were written as v.
Write(C, P, v) ==
    cap' = [c \in Cgroups |-> [p \in Parts |-> IF c \in C /\ p \in P THEN v ELSE cap[c][p]]]

\* An entry is an object that threads hold references to, so an assignment to
\* one of its fields shows in every local that holds the same object.
Shared(k, l, new) == IF l.id = registry[k].id THEN new ELSE l

\* Mutant: the channel's name where the limit_parts key is meant.
SetPartsWrongKey(k, P, done) ==
    /\ registry' = [registry EXCEPT ![k].parts = IF "io" \in P THEN P \cup {"disk_io"} ELSE P]
    /\ op' = [t \in Threads |-> IF t \in done THEN NoOp ELSE op[t]]
    /\ UNCHANGED chan

\* limit_parts of the entry at k becomes P; the locals of the threads in done
\* go out of scope.
SetParts(k, P, done) ==
    /\ registry' = [registry EXCEPT ![k].parts = P]
    /\ op' = [t \in Threads |-> IF t \in done THEN NoOp
                               ELSE Shared(k, op[t], [op[t] EXCEPT !.parts = P])]
    /\ chan' = Shared(k, chan, [chan EXCEPT !.parts = P])

\* The identity of a new object: one that no entry and no local refers to.
FreshId ==
    LET used == {registry[k].id : k \in Keys} \cup {op[t].id : t \in Threads} \cup {chan.id}
    IN  CHOOSE n \in 1..(Cardinality(used) + 1) : n \notin used

(***************************************************************************)
(* The environment: instances of apps exit and start.  A cgroup either     *)
(* goes with its last process, and its caps with it, or stays (another     *)
(* process shares it).                                                     *)
(***************************************************************************)
Exit(c) ==
    /\ Enabled("exit")
    /\ c \in live
    /\ live' = live \ {c}
    /\ \/ exists' = exists \ {c} /\ Write({c}, Parts, "none")
       \/ UNCHANGED <<exists, cap>>
    /\ UNCHANGED <<registryVars, running, controlled, oplock, pc, op, chan, closed>>

\* An instance starts in c.  A cgroup that an entry or an operation still
\* refers to is not reused: scope names are unique while the app is around.
Launch(c) ==
    /\ Enabled("launch")
    /\ c \notin live
    /\ \A k \in Keys : c \notin registry[k].cgroups
    /\ \A t \in Threads : c \notin op[t].targets
    /\ \A e \in closed : c \notin e.cgroups
    /\ live' = live \cup {c}
    /\ exists' = exists \cup {c}
    /\ UNCHANGED <<registryVars, running, controlled, cap, oplock, pc, op, chan, closed>>

(***************************************************************************)
(* The monitor applies an auto limit.                                      *)
(***************************************************************************)
\* The target already carries an auto cap on this channel, under one of its ids.
AlreadyLimited(idents, part) ==
    \E i \in idents : LET k == by_any_id(i, "auto")
                      IN  k # NoKey /\ part \in registry[k].parts

\* _drop_excluded_candidates: what is left of the batch.
Eligible(app, c) == ~is_excluded(app, {c})

\* The tick picks a target.  The sample names an app and one cgroup c; an
\* excluded candidate is dropped, a controlled app is resolved to every cgroup
\* it runs in, any other one is c alone, and a target already limited on this
\* channel is passed over.
SelectTarget(app, c, part) ==
    /\ MayStart(Monitor, "auto")
    /\ c \in LiveOf(app)
    /\ Eligible(app, c)
    /\ LET T == IF app \in controlled THEN LiveOf(app) ELSE {c}
       IN  /\ ~AlreadyLimited({app, c} \cup IF part = "sys" THEN T ELSE {}, part)
           /\ Continue(Monitor, "begin_apply",
                 [NoOp EXCEPT !.app = IF app \in controlled \/ part = "sys" THEN app ELSE c,
                              !.key = Min(T), !.targets = T, !.parts = {part},
                              !.controlled = app \in controlled])
    /\ UNCHANGED <<registryVars, worldVars, cap, oplock, chan, closed>>

\* The ownership check of the applier, and a mutant that looks at the primary
\* only.
ManualPrimary(T) == Min(T) \in Keys /\ registry[Min(T)].source = "manual"
ManuallyLimited(T) == AnyOwned(T, "manual")

\* _apply_resource_limits takes operation_lock and gives up when a target is
\* under a manual limit.
BeginApply ==
    /\ pc[Monitor] = "begin_apply"
    /\ oplock = NoThread
    /\ IF ManuallyLimited(op[Monitor].targets)
       THEN Return(Monitor)
       ELSE /\ oplock' = Monitor
            /\ Goto(Monitor, IF "sys" \in op[Monitor].parts THEN "yield" ELSE "write")
            /\ UNCHANGED op
    /\ UNCHANGED <<registryVars, worldVars, cap, chan, closed>>

\* _clear_io_cap_before_sys_limit: an auto IO cap on the target is lifted first.
YieldIo ==
    /\ pc[Monitor] = "yield"
    /\ LET k == by_any_id(op[Monitor].key, "auto")
           yields == k # NoKey /\ "io" \in registry[k].parts
       IN  /\ chan' = IF yields
                      THEN [key |-> k, id |-> registry[k].id, parts |-> registry[k].parts,
                            part |-> "io", stage |-> "full", ok |-> TRUE, next |-> "write"]
                      ELSE chan
           /\ Goto(Monitor, IF yields THEN "lift" ELSE "write")
    /\ UNCHANGED <<registryVars, worldVars, cap, oplock, op, closed>>

\* A limit landed when the primary's write did; the mutant takes it for granted.
LandedAlways(l, W) == TRUE
Landed(l, W) == l.key \in W

\* The caps are written to the primary and the extra cgroups; only the
\* primary's outcome counts.  Nothing is written once the service is stopping.
WriteAuto ==
    /\ pc[Monitor] = "write"
    /\ LET l == op[Monitor]
       IN  \E W \in IF running THEN Succeed(l.targets) ELSE {{}} :
              /\ Write(W, l.parts, "full")
              /\ IF Landed(l, W)
                 THEN Continue(Monitor, "upsert", [l EXCEPT !.done = l.parts]) /\ UNCHANGED oplock
                 ELSE Return(Monitor)
    /\ UNCHANGED <<registryVars, worldVars, chan, closed>>

\* What _upsert_auto_limited keeps of an auto entry, and a mutant that forgets it.
MergeReplaces(prev, fresh) == fresh
Merge(prev, fresh) ==
    [fresh EXCEPT !.parts = @ \cup prev.parts,
                  !.partial = prev.partial \ fresh.parts,
                  !.cgroups = @ \cup prev.cgroups]

\* _upsert_auto_limited: merge with an auto entry, replace anything else.
Upsert ==
    /\ pc[Monitor] = "upsert"
    /\ LET l == op[Monitor]
           fresh == [id |-> FreshId, app |-> l.app, source |-> "auto", adopted |-> FALSE,
                     controlled |-> l.controlled, parts |-> l.done, partial |-> {},
                     cgroups |-> l.targets]
           merges == l.key \in Keys /\ registry[l.key].source = "auto"
       IN  Put(l.key, IF merges THEN Merge(registry[l.key], fresh) ELSE fresh)
    /\ Return(Monitor)
    /\ UNCHANGED <<exclusions, worldVars, cap, chan, closed>>

(***************************************************************************)
(* The monitor's staged restore.                                           *)
(***************************************************************************)
\* _restore_channel: the oldest auto entry that carries the channel and, for a
\* partial step, has not been relaxed on it yet.  Which channel is due, and at
\* which stage, is left open here.
StartRestore(part, stage) ==
    /\ MayStart(Monitor, "staged")
    /\ LET k == first_auto_with_part(part, stage = "partial")
       IN  /\ k # NoKey
           /\ chan' = [key |-> k, id |-> registry[k].id, parts |-> registry[k].parts,
                       part |-> part, stage |-> stage, ok |-> TRUE, next |-> "idle"]
    /\ Goto(Monitor, "lift")
    /\ UNCHANGED <<registryVars, worldVars, cap, oplock, op, closed>>

\* restore_resources looks the entry up again by its key, writes the primary
\* and the extras and, on a full restore, clears the channel's flag.
Lift ==
    /\ pc[Monitor] = "lift"
    /\ LET present == chan.key \in Keys
           C == {chan.key} \cup IF present THEN registry[chan.key].cgroups ELSE {}
       IN  \E W \in IF running THEN Succeed(C) ELSE {{}} :
              /\ Write(W, {chan.part}, IF chan.stage = "partial" THEN "half" ELSE "none")
              /\ IF present /\ chan.stage = "full" /\ chan.key \in W
                 THEN SetParts(chan.key, registry[chan.key].parts \ {chan.part}, {})
                 ELSE /\ chan' = [chan EXCEPT !.ok = ~running \/ chan.key \in W]
                      /\ UNCHANGED <<registry, op>>
    /\ Goto(Monitor, "account")
    /\ UNCHANGED <<order, exclusions, worldVars, oplock, closed>>

\* partial_parts after the step, and a mutant that never clears the flag.
NextPartialKept(S) == IF chan.stage = "partial" THEN S \cup {chan.part} ELSE S
NextPartial(S) == IF chan.stage = "partial" THEN S \cup {chan.part} ELSE S \ {chan.part}

\* The rest of _restore_channel_for.  An entry that keeps a cap moves to the
\* end of the queue, which raises KeyError (and ends the tick) when it was
\* popped meanwhile; one with no cap left is popped.
Account ==
    /\ pc[Monitor] = "account"
    /\ LET present == chan.key \in Keys
           same == present /\ registry[chan.key].id = chan.id
           lifted == chan.ok /\ chan.stage = "full" /\ chan.parts = {}
           Resume == IF chan.next = "write"
                     THEN Goto(Monitor, "write") /\ UNCHANGED <<op, oplock>>
                     ELSE Return(Monitor)
       IN  \/ /\ lifted
              /\ Pop({chan.key})
              /\ Resume
           \/ /\ ~lifted
              /\ present
              /\ PutLast(chan.key,
                    IF ~(same /\ chan.ok) THEN registry[chan.key]
                    ELSE [registry[chan.key] EXCEPT !.partial = NextPartial(@)])
              /\ Resume
           \/ /\ ~lifted
              /\ ~present
              /\ Return(Monitor)
              /\ UNCHANGED <<registry, order>>
    /\ chan' = NoChannel
    /\ UNCHANGED <<exclusions, worldVars, cap, closed>>

(***************************************************************************)
(* The monitor reaps closed apps.                                          *)
(***************************************************************************)
\* Under the registry's lock: pop every entry whose processes are all gone and
\* the exclusion that lists its key.
Reap ==
    /\ MayStart(Monitor, "reap")
    /\ LET gone == {k \in Keys : registry[k].cgroups \cap live = {}}
       IN  /\ gone # {}
           /\ closed' = {registry[k] : k \in gone}
           /\ Pop(gone)
           /\ exclusions' = remove_exclusions(exclusions, gone)
    /\ Goto(Monitor, "reap")
    /\ UNCHANGED <<worldVars, cap, oplock, op, chan>>

\* _restore_entry on one of them, outside the lock.
ReapOne ==
    /\ pc[Monitor] = "reap"
    /\ \E e \in closed :
          /\ \E W \in Succeed(e.cgroups) : Write(W, e.parts, "none")
          /\ closed' = closed \ {e}
          /\ Goto(Monitor, IF closed = {e} THEN "idle" ELSE "reap")
    /\ UNCHANGED <<registryVars, worldVars, oplock, op, chan>>

(***************************************************************************)
(* A REST thread installs a manual limit: set_resource_limit.              *)
(***************************************************************************)
\* _install_resource_limit takes operation_lock and refuses cgroups that are
\* auto-limited.  The user chose the instances T and what to cap; "edit" is
\* the same request for an app that is already under a manual limit.
Limit(t, app, T, want) ==
    /\ MayStart(t, IF by_public_id(app, "manual") = NoKey THEN "limit" ELSE "edit")
    /\ app \in controlled
    /\ T \subseteq LiveOf(app) /\ T # {}
    /\ want # {}
    /\ oplock = NoThread
    /\ ~AnyOwned(T, "auto")
    /\ oplock' = t
    /\ Continue(t, IF "sys" \in want THEN "write_sys" ELSE "write_io",
          [NoOp EXCEPT !.app = app, !.key = Min(T), !.targets = T, !.parts = want,
                       !.controlled = TRUE])
    /\ UNCHANGED <<registryVars, worldVars, cap, chan, closed>>

\* CPU and memory caps.  When a memory cap landed (mem), an IO cap of the same
\* request is held back until the reclaim is done.
WriteSys(t) ==
    /\ pc[t] = "write_sys"
    /\ LET l == op[t]
       IN  \E W \in IF running THEN Succeed(l.targets) ELSE {{}}, mem \in BOOLEAN :
              /\ Write(W, {"sys"}, "full")
              /\ LET landed == Landed(l, W)
                     defer == landed /\ mem /\ "io" \in l.parts
                 IN  Continue(t, IF "io" \in l.parts /\ ~defer THEN "write_io" ELSE "record",
                       [l EXCEPT !.done = IF landed THEN {"sys"} ELSE {}, !.defer = defer])
    /\ UNCHANGED <<registryVars, worldVars, oplock, chan, closed>>

WriteIo(t) ==
    /\ pc[t] = "write_io"
    /\ LET l == op[t]
       IN  \E W \in IF running THEN Succeed(l.targets) ELSE {{}} :
              /\ Write(W, {"io"}, "full")
              /\ Continue(t, "record",
                    [l EXCEPT !.done = IF Landed(l, W) THEN @ \cup {"io"} ELSE @])
    /\ UNCHANGED <<registryVars, worldVars, oplock, chan, closed>>

\* Under the registry's lock: the entry at the key is replaced by a manual one
\* and the app is excluded from auto-limiting.  Then operation_lock is
\* released, and a deferred IO cap waits for the reclaim.
Record(t) ==
    /\ pc[t] = "record"
    /\ LET l == op[t]
           entry == [id |-> FreshId, app |-> l.app, source |-> "manual", adopted |-> FALSE,
                     controlled |-> TRUE, parts |-> l.done, partial |-> {},
                     cgroups |-> l.targets]
       IN  /\ IF l.done # {}
              THEN /\ Put(l.key, entry)
                   /\ exclusions' = add_exclusion(exclusions, l.key, entry, "manual_limit")
              ELSE UNCHANGED registryVars
           /\ IF l.defer
              THEN Goto(t, "deferred") /\ oplock' = NoThread /\ UNCHANGED op
              ELSE Return(t)
    /\ UNCHANGED <<worldVars, cap, chan, closed>>

\* _apply_deferred_io_cap takes operation_lock again and gives up when no entry
\* has the key any more.
Deferred(t) ==
    /\ pc[t] = "deferred"
    /\ oplock = NoThread
    /\ IF op[t].key \in Keys
       THEN oplock' = t /\ Goto(t, "defer_write") /\ UNCHANGED op
       ELSE Return(t)
    /\ UNCHANGED <<registryVars, worldVars, cap, chan, closed>>

DeferWrite(t) ==
    /\ pc[t] = "defer_write"
    /\ LET l == op[t]
       IN  \E W \in Succeed(l.targets) :
              /\ Write(W, {"io"}, "full")
              /\ Continue(t, "defer_record",
                    [l EXCEPT !.done = IF Landed(l, W) THEN {"io"} ELSE {}])
    /\ UNCHANGED <<registryVars, worldVars, oplock, chan, closed>>

\* Whatever entry has the key now gets the flag.
DeferRecord(t) ==
    /\ pc[t] = "defer_record"
    /\ IF op[t].key \in Keys
       THEN /\ SetParts(op[t].key, (registry[op[t].key].parts \ {"io"}) \cup op[t].done, {t})
            /\ Goto(t, "idle")
            /\ Unlock(t)
       ELSE /\ Return(t)
            /\ UNCHANGED <<registry, chan>>
    /\ UNCHANGED <<order, exclusions, worldVars, cap, closed>>

(***************************************************************************)
(* A REST thread lifts a limit.                                            *)
(***************************************************************************)
\* set_restore_resource: pop the app's manual entry and drop its exclusion
\* under the registry's lock, then write the cgroups with no lock held.
Restore(t, app) ==
    /\ MayStart(t, "restore")
    /\ LET k == by_public_id(app, "manual")
       IN  /\ k # NoKey
           /\ Pop({k})
           /\ exclusions' = remove_exclusion(exclusions, k)
           /\ Continue(t, "lift_manual",
                 [NoOp EXCEPT !.app = app, !.key = k, !.targets = registry[k].cgroups,
                              !.parts = registry[k].parts])
    /\ UNCHANGED <<worldVars, cap, oplock, chan, closed>>

LiftManual(t) ==
    /\ pc[t] = "lift_manual"
    /\ \E W \in Succeed(op[t].targets) : Write(W, op[t].parts, "none")
    /\ Return(t)
    /\ UNCHANGED <<registryVars, worldVars, chan, closed>>

\* restore_auto_limited: find the app's auto entry under the lock ...
UserRestore(t, ident) ==
    /\ MayStart(t, "user_restore")
    /\ LET public == by_public_id(ident, "auto")
           k == IF public # NoKey THEN public ELSE by_any_id(ident, "auto")
       IN  /\ k # NoKey
           /\ Continue(t, "lift_user",
                 [NoOp EXCEPT !.app = registry[k].app, !.key = k, !.id = registry[k].id,
                              !.targets = registry[k].cgroups, !.parts = registry[k].parts,
                              !.controlled = registry[k].controlled])
    /\ UNCHANGED <<registryVars, worldVars, cap, oplock, chan, closed>>

\* The outcome of _restore_entry, and a mutant that ignores it.
LiftedAlways(l, W) == TRUE
Lifted(l, W) == l.key \in W \cup (Cgroups \ exists)

\* ... lift its caps with no lock held (a cgroup that is gone needs nothing, a failure
\* leaves the entry) ...
LiftUser(t) ==
    /\ pc[t] = "lift_user"
    /\ LET l == op[t]
       IN  \E W \in Succeed(l.targets) :
              /\ Write(W, l.parts, "none")
              /\ IF Lifted(l, W)
                 THEN Goto(t, "pop_user") /\ UNCHANGED <<op, oplock>>
                 ELSE Return(t)
    /\ UNCHANGED <<registryVars, worldVars, chan, closed>>

\* ... and pop it, if the key still holds the same object, and exclude the app.
PopUser(t) ==
    /\ pc[t] = "pop_user"
    /\ LET l == op[t]
           same == l.key \in Keys /\ registry[l.key].id = l.id
       IN  /\ IF same THEN Pop({l.key}) ELSE UNCHANGED <<registry, order>>
           /\ exclusions' = add_exclusion(exclusions, l.key,
                 [app |-> l.app, controlled |-> l.controlled, cgroups |-> l.targets],
                 "user_restore")
    /\ Return(t)
    /\ UNCHANGED <<worldVars, cap, chan, closed>>

(***************************************************************************)
(* A limit changes hands, with no cgroup written.                          *)
(***************************************************************************)
\* The entry at k becomes app's, and the user's, and app is excluded.
FlipToManual(k, app) ==
    LET entry == [registry[k] EXCEPT !.source = "manual", !.adopted = TRUE,
                                     !.controlled = TRUE, !.app = app]
    IN  /\ registry' = [registry EXCEPT ![k] = entry]
        /\ op' = [t \in Threads |->
                    Shared(k, op[t], [op[t] EXCEPT !.app = app, !.controlled = TRUE])]
        /\ exclusions' = add_exclusion(exclusions, k, entry, "manual_limit")

\* lock_to_manual, from a REST thread or, for the controlled entries, from the
\* monitor when passive control is switched off.  An app's DB row must show the
\* limit: the entry says that there is one, or the identifier is found to have one.
LockToManual(t, ident) ==
    /\ MayStart(t, "handoff")
    /\ LET public == by_public_id(ident, "auto")
           k == IF public # NoKey THEN public ELSE by_any_id(ident, "auto")
       IN  /\ k # NoKey
           /\ Owner[k] \in controlled
           /\ ident \in Apps \/ registry[k].controlled
           /\ t = Monitor => registry[k].controlled
           /\ FlipToManual(k, Owner[k])
    /\ UNCHANGED <<order, worldVars, cap, oplock, pc, chan, closed>>

\* adopt_auto_limit ("Take Control"): the app gets its DB row and the limit.
AdoptAutoLimit(t, k) ==
    /\ MayStart(t, "handoff")
    /\ k \in Keys
    /\ registry[k].source = "auto"
    /\ controlled' = controlled \cup {Owner[k]}
    /\ FlipToManual(k, Owner[k])
    /\ UNCHANGED <<order, running, live, exists, cap, oplock, pc, chan, closed>>

\* remove_auto_limit_exclusion: the user drops one record.
Unexclude(t) ==
    /\ MayStart(t, "unexclude")
    /\ \E x \in Excluded(exclusions) : exclusions' = DropExclusions(exclusions, {x})
    /\ UNCHANGED <<registry, order, worldVars, cap, oplock, pc, op, chan, closed>>

(***************************************************************************)
(* Shutdown.                                                               *)
(***************************************************************************)
StopRunning ==
    /\ MayStart(Main, "shutdown")
    /\ running' = FALSE
    /\ Goto(Main, "sweep")
    /\ UNCHANGED <<registryVars, live, exists, controlled, cap, oplock, op, chan, closed>>

\* The entries the sweep takes, and a mutant that leaves the manual limits.
SweptAuto == {k \in Keys : registry[k].source = "auto"}
Swept == Keys

\* restore_all_limited_apps_resources, under the registry's lock: pop every
\* entry and lift its caps.
Sweep ==
    /\ pc[Main] = "sweep"
    /\ \E W \in Succeed(Cgroups) :
          cap' = [c \in Cgroups |-> [p \in Parts |->
                    IF c \in W /\ \E k \in Swept : c \in registry[k].cgroups /\ p \in registry[k].parts
                    THEN "none" ELSE cap[c][p]]]
    /\ Pop(Swept)
    /\ Goto(Main, "stopped")
    /\ UNCHANGED <<exclusions, worldVars, oplock, op, chan, closed>>

-----------------------------------------------------------------------------
MonitorNext ==
    \/ \E app \in Apps, c \in Cgroups, part \in Parts : SelectTarget(app, c, part)
    \/ BeginApply
    \/ YieldIo
    \/ WriteAuto
    \/ Upsert
    \/ \E part \in Parts, stage \in {"partial", "full"} : StartRestore(part, stage)
    \/ Lift
    \/ Account
    \/ Reap
    \/ ReapOne
    \/ \E app \in Apps : LockToManual(Monitor, app)

RestNext(t) ==
    \/ \E app \in Apps, T \in SUBSET Cgroups, want \in SUBSET Parts : Limit(t, app, T, want)
    \/ WriteSys(t)
    \/ WriteIo(t)
    \/ Record(t)
    \/ Deferred(t)
    \/ DeferWrite(t)
    \/ DeferRecord(t)
    \/ \E app \in Apps : Restore(t, app)
    \/ LiftManual(t)
    \/ \E ident \in Ids : UserRestore(t, ident)
    \/ LiftUser(t)
    \/ PopUser(t)
    \/ \E ident \in Ids : LockToManual(t, ident)
    \/ \E k \in Cgroups : AdoptAutoLimit(t, k)
    \/ Unexclude(t)

Next ==
    \/ MonitorNext
    \/ \E t \in Rest : RestNext(t)
    \/ StopRunning
    \/ Sweep
    \/ \E c \in Cgroups : Exit(c) \/ Launch(c)

Spec == Init /\ [][Next]_vars

-----------------------------------------------------------------------------
(***************************************************************************)
(* Ownership                                                               *)
(***************************************************************************)
\* The pressure loop and a user-installed limit never own the same cgroup:
\* each applier checks the other's entries and keeps operation_lock until its
\* own entry is recorded, so neither caps over the other.  (An adopted limit
\* is one the pressure loop itself installed and handed over.)
OwnersDisjoint ==
    \A j, k \in Keys :
        registry[j].source = "auto" /\ registry[k].source = "manual" /\ ~registry[k].adopted
            => registry[j].cgroups \cap registry[k].cgroups = {}

(***************************************************************************)
(* The kernel and the registry agree                                       *)
(***************************************************************************)
Quiet == \A t \in Threads : pc[t] \in {"idle", "stopped"}

\* No cap is forgotten: between operations, every cap in the kernel is claimed
\* by an entry whose restore will lift it.
NoOrphanCap ==
    Quiet => \A c \in Cgroups, p \in Parts :
                cap[c][p] # "none" =>
                    \E k \in Keys : c \in registry[k].cgroups /\ p \in registry[k].parts

\* No limit is imagined: between operations, an entry's primary cgroup really
\* carries every cap the entry claims, as long as the app runs there.
NoPhantomCap ==
    Quiet => \A k \in Keys : \A p \in registry[k].parts :
                cap[k][p] # "none" \/ k \notin live

\* The stage agrees too: the channels an entry has marked as relaxed are exactly
\* those whose cap is the relaxed one, so the staged restore neither skips a
\* full cap nor relaxes one twice.
StageMatchesCap ==
    Quiet => \A k \in Keys, p \in Parts :
                p \in registry[k].partial <=> cap[k][p] = "half"

\* Shutdown undoes what the service did: once every thread has ended, no cap
\* is left in the kernel.
StoppedClean ==
    Quiet /\ pc[Main] = "stopped" => \A c \in Cgroups, p \in Parts : cap[c][p] = "none"

(***************************************************************************)
(* Exclusions                                                              *)
(***************************************************************************)
\* An exemption ends with the limit that it is for: an app that the pressure loop
\* passes over because the user has limited it is under such a limit.  The record
\* is the app's and names the cgroups of its last limit, while a restore, the
\* reaper and a hand-over know an entry's key; instances, and with them keys, come
\* and go.  (remove_exclusion.)  It is stated of apps that have been controlled
\* from the start, whose exclusions are all under one key.
ExemptionEndsWithLimit ==
    running =>
        \A x \in Excluded(exclusions) :
            LET r == exclusions.rec[x]
            IN  r.reason = "manual_limit" /\ r.app \in Controlled =>
                    \E k \in Keys : registry[k].source = "manual" /\ registry[k].app = r.app

=============================================================================
