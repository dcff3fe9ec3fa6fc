---------------------------- MODULE CpuAffinity ----------------------------
(***************************************************************************)
(* Core affinity: cpuset.cpus is written for each cgroup of an app, with   *)
(* its original value on record, and put back by the user, by the reaper   *)
(* when the app has exited, before the app leaves control, or at shutdown. *)
(* _affinity_op_lock serialises all of these but the last; that a release  *)
(* forgets what it has unpinned comes after it.                            *)
(*                                                                         *)
(* Which cores are chosen does not matter, so that a cgroup is pinned or   *)
(* not.  Two apps may share a cgroup, such as a terminal's scope.          *)
(***************************************************************************)
CONSTANTS Apps, Dirs,
          Home,  \* the cgroups of each app
          Ops    \* what may happen besides: "exit", "administer", "stop"

VARIABLES
  cpus,     \* cpuset.cpus: "" (inherit), "all" (the parent's), "ext" (somebody else's), "pin"
  original, \* _originals, or "unknown"
  exists,   \* the cgroups that exist
  alive,    \* the apps that run
  tracked,  \* _affinity_apps[app]["dirs"]
  op,       \* the operation that holds _affinity_op_lock
  waiting,  \* the reaper or a release, with what it is about to unpin
  leaving,  \* releases that have dropped the lock, with what they are about to forget
  stop,     \* shutdown: "no", "restoring", "done"; and the cgroups left to restore
  failed,   \* history: cgroups whose restore failed
  raced,    \* history: a binding overlapped the shutdown
  slipped   \* history: cgroups that were pinned again while a release was leaving

vars == <<cpus, original, exists, alive, tracked, op, waiting, leaving, stop, failed, raced, slipped>>

Idle == [pc |-> "idle", app |-> "", todo |-> {}, done |-> {}, seen |-> ""]

Init ==
    /\ cpus = [d \in Dirs |-> ""]
    /\ original = [d \in Dirs |-> "unknown"]
    /\ exists = Dirs
    /\ alive = Apps
    /\ tracked = [a \in Apps |-> {}]
    /\ op = Idle
    /\ waiting = Idle
    /\ stop = [pc |-> "no", todo |-> {}]
    /\ leaving = {}
    /\ failed = {} /\ raced = FALSE /\ slipped = {}

\* The shape of the state; also, a binding that reads or writes has a cgroup to do it for.
TypeOK ==
    /\ cpus \in [Dirs -> {"", "all", "ext", "pin"}]
    /\ original \in [Dirs -> {"unknown", "", "ext", "pin"}]
    /\ exists \cup failed \cup slipped \subseteq Dirs /\ alive \subseteq Apps
    /\ tracked \in [Apps -> SUBSET Dirs]
    /\ op.pc \in {"idle", "read", "write", "track", "rollback", "restore", "release", "reaper"}
    /\ op.todo \cup op.done \subseteq Dirs
    /\ op.pc \in {"read", "write"} => op.todo # {}
    /\ waiting.todo \subseteq Dirs /\ leaving \subseteq [app : Apps, done : SUBSET Dirs]
    /\ stop.pc \in {"no", "restoring", "done"} /\ stop.todo \subseteq Dirs

env == <<exists, alive>>
late == <<leaving, slipped>>

-----------------------------------------------------------------------------
(* CPUController *)

Bound(d) == original[d] # "unknown"

\* a list that covers the parent's restricts nothing
Restriction(v) == IF v = "all" THEN "" ELSE v

\* What restore may put into a cgroup that is pinned: its original, or the parent's cpus where
\* the kernel refuses to clear a populated cgroup.
Undo(d) == {original[d]} \cup (IF original[d] = "" THEN {"all"} ELSE {})

\* restore: a value that is not ours is left alone
Restored(d) ==
    /\ original' = [original EXCEPT ![d] = "unknown"]
    /\ IF Bound(d) /\ d \in exists /\ cpus[d] = "pin"
       THEN \E v \in Undo(d) : cpus' = [cpus EXCEPT ![d] = v]
       ELSE UNCHANGED cpus
    /\ slipped' = slipped \ {d}
    /\ UNCHANGED failed

RestoreFails(d) ==
    /\ Bound(d) /\ d \in exists /\ cpus[d] = "pin"
    /\ failed' = failed \cup {d}
    /\ UNCHANGED <<cpus, original, slipped>>

-----------------------------------------------------------------------------
(* set_cpu_affinity: bind *)

\* the cgroups are taken in order; nothing depends on which
Pick(s) == CHOOSE d \in s : TRUE

Bind(a) ==
    /\ op.pc = "idle" /\ stop.pc # "done"
    /\ a \in alive /\ Home[a] \cap exists # {}
    /\ op' = [Idle EXCEPT !.pc = "read", !.app = a, !.todo = Home[a] \cap exists]
    /\ raced' = (raced \/ stop.pc = "restoring")
    /\ UNCHANGED <<cpus, original, env, tracked, waiting, stop, failed, late>>

\* a cgroup that is bound, by this operation or before, is rolled back as well
Rollback(d) ==
    op' = [op EXCEPT !.pc = "rollback", !.done = {},
                     !.todo = op.done \cup (IF original'[d] = "unknown" THEN {} ELSE {d})]

\* set_cpus until the original is read; the cgroup or the cpuset controller may be missing
SetRead(d) ==
    /\ op.pc = "read" /\ d = Pick(op.todo)
    /\ \/ /\ d \in exists
          /\ op' = [op EXCEPT !.pc = "write", !.seen = Restriction(cpus[d])]
          /\ UNCHANGED original
       \/ UNCHANGED original /\ Rollback(d)
    /\ UNCHANGED <<cpus, env, tracked, waiting, stop, failed, raced, late>>

\* mutant: a second binding takes the first one's value for the original
RecordLast(d) == original' = [original EXCEPT ![d] = op.seen]

\* a second binding keeps the first one's original
Record(d) == original' = [original EXCEPT ![d] = IF @ = "unknown" THEN op.seen ELSE @]

\* the write may be refused, or the cgroup's effective cpus may differ from it
SetWrite(d) ==
    /\ op.pc = "write" /\ d = Pick(op.todo)
    /\ \/ /\ d \in exists
          /\ cpus' = [cpus EXCEPT ![d] = "pin"]
          /\ Record(d)
          /\ \/ Rollback(d)
             \/ op' = [op EXCEPT !.pc = IF op.todo = {d} THEN "track" ELSE "read",
                                 !.todo = @ \ {d}, !.done = @ \cup {d}]
       \/ UNCHANGED <<cpus, original>> /\ Rollback(d)
    /\ UNCHANGED <<env, tracked, waiting, stop, failed, raced, late>>

Track ==
    /\ op.pc = "track"
    /\ tracked' = [tracked EXCEPT ![op.app] = @ \cup op.done]
    /\ slipped' = (slipped \ op.done) \cup
                    {d \in op.done : \E l \in leaving : l.app = op.app /\ d \in l.done}
    /\ op' = Idle
    /\ UNCHANGED <<cpus, original, env, waiting, leaving, stop, failed, raced>>

-----------------------------------------------------------------------------
(* Unpinning: by the user, before release from control, by the reaper *)

\* an exited app has no cgroups of its own any more, but those on record
Live(a) == IF a \in alive THEN Home[a] \cap exists ELSE {}

Restore(a) ==
    /\ op.pc = "idle" /\ stop.pc # "done"
    /\ LET dirs == IF Live(a) # {} THEN Live(a) ELSE tracked[a]
       IN dirs # {} /\ op' = [Idle EXCEPT !.pc = "restore", !.app = a, !.todo = dirs]
    /\ UNCHANGED <<cpus, original, env, tracked, waiting, stop, failed, raced, late>>

\* release_cpu_affinity reads what to unpin before it takes the lock (bound: one at a time)
Release(a) ==
    /\ waiting = Idle /\ op.pc # "release" /\ leaving = {} /\ tracked[a] # {} /\ stop.pc # "done"
    /\ waiting' = [Idle EXCEPT !.pc = "release", !.app = a, !.todo = tracked[a]]
    /\ UNCHANGED <<cpus, original, env, tracked, op, stop, failed, raced, late>>

\* _reap_closed_affinity forgets the app first
Reap(a) ==
    /\ waiting = Idle /\ stop.pc # "done"
    /\ a \notin alive /\ tracked[a] # {}
    /\ tracked' = [tracked EXCEPT ![a] = {}]
    /\ waiting' = [Idle EXCEPT !.pc = "reaper", !.app = a, !.todo = tracked[a]]
    /\ UNCHANGED <<cpus, original, env, op, stop, failed, raced, late>>

Lock ==
    /\ op.pc = "idle" /\ waiting # Idle
    /\ op' = waiting /\ waiting' = Idle
    /\ UNCHANGED <<cpus, original, env, tracked, stop, failed, raced, late>>

Unpin(d) ==
    /\ op.pc \in {"rollback", "restore", "release", "reaper"} /\ op.todo # {} /\ d = Pick(op.todo)
    /\ \/ Restored(d) /\ op' = [op EXCEPT !.todo = @ \ {d}, !.done = @ \cup {d}]
       \/ RestoreFails(d) /\ op' = [op EXCEPT !.todo = @ \ {d}, !.seen = "failed"]
    /\ UNCHANGED <<env, tracked, waiting, stop, raced, leaving>>

\* mutant: the whole app is forgotten
UnpinnedForgetsApp ==
    /\ op.pc \in {"rollback", "restore", "release", "reaper"} /\ op.todo = {}
    /\ tracked' = [tracked EXCEPT ![op.app] = {}]
    /\ op' = Idle
    /\ UNCHANGED <<cpus, original, env, waiting, stop, failed, raced, late>>

\* The operation ends.  A restore that failed for one cgroup forgets none; the reaper has forgotten
\* the app before; a release drops the lock first.
Unpinned ==
    /\ op.pc \in {"rollback", "restore", "release", "reaper"} /\ op.todo = {}
    /\ tracked' = IF op.pc = "rollback" \/ (op.pc = "restore" /\ op.seen # "failed")
                  THEN [tracked EXCEPT ![op.app] = @ \ op.done] ELSE tracked
    /\ leaving' = IF op.pc = "release" /\ op.done # {}
                  THEN leaving \cup {[app |-> op.app, done |-> op.done]} ELSE leaving
    /\ op' = Idle
    /\ UNCHANGED <<cpus, original, env, waiting, stop, failed, raced, slipped>>

\* release_cpu_affinity forgets what it has unpinned, whatever was bound since
Forget ==
    /\ \E l \in leaving : /\ leaving' = leaving \ {l}
                          /\ tracked' = [tracked EXCEPT ![l.app] = @ \ l.done]
    /\ UNCHANGED <<cpus, original, env, op, waiting, stop, failed, raced, slipped>>

\* shutdown: restore_all takes no lock
Shutdown ==
    /\ "stop" \in Ops /\ stop.pc = "no"
    /\ stop' = [pc |-> "restoring", todo |-> {d \in Dirs : Bound(d)}]
    /\ raced' = (raced \/ op.pc \in {"read", "write", "track"})
    /\ UNCHANGED <<cpus, original, env, tracked, op, waiting, failed, late>>

StopRestore(d) ==
    /\ stop.pc = "restoring" /\ stop.todo # {} /\ d = Pick(stop.todo)
    /\ stop' = [stop EXCEPT !.todo = @ \ {d}]
    /\ Restored(d) \/ RestoreFails(d)
    /\ UNCHANGED <<env, tracked, op, waiting, raced, leaving>>

Stopped ==
    /\ stop.pc = "restoring" /\ stop.todo = {}
    /\ stop' = [stop EXCEPT !.pc = "done"]
    /\ UNCHANGED <<cpus, original, env, tracked, op, waiting, failed, raced, late>>

-----------------------------------------------------------------------------
(* Apps and administrators *)

Exit(a) ==
    /\ "exit" \in Ops /\ a \in alive
    /\ alive' = alive \ {a}
    /\ UNCHANGED <<cpus, original, exists, tracked, op, waiting, stop, failed, raced, late>>

Vanish(d) ==
    /\ d \in exists /\ \A a \in alive : d \notin Home[a]
    /\ exists' = exists \ {d}
    /\ cpus' = [cpus EXCEPT ![d] = ""] /\ slipped' = slipped \ {d}
    /\ UNCHANGED <<original, alive, tracked, op, waiting, stop, failed, raced, leaving>>

Launch(a) ==
    /\ a \notin alive
    /\ alive' = alive \cup {a} /\ exists' = exists \cup Home[a]
    /\ UNCHANGED <<cpus, original, tracked, op, waiting, stop, failed, raced, late>>

Administer(d) ==
    /\ "administer" \in Ops /\ d \in exists
    /\ cpus' = [cpus EXCEPT ![d] = "ext"] /\ slipped' = slipped \ {d}
    /\ UNCHANGED <<original, env, tracked, op, waiting, stop, failed, raced, leaving>>

Next ==
    \/ \E a \in Apps : Bind(a) \/ Restore(a) \/ Release(a) \/ Reap(a) \/ Exit(a) \/ Launch(a)
    \/ \E d \in Dirs : SetRead(d) \/ SetWrite(d) \/ Unpin(d) \/ StopRestore(d) \/ Vanish(d)
         \/ Administer(d)
    \/ Lock \/ Track \/ Unpinned \/ Forget \/ Shutdown \/ Stopped

Spec == Init /\ [][Next]_vars

-----------------------------------------------------------------------------
\* A cgroup that is pinned can be put back: what is on record for it is what others had set,
\* never a value of ours, and shutdown leaves none pinned but those whose restore failed,
\* unless a binding overlaps it.  (set_cpus, restore, restore_all.)
PinCanBeUndone ==
    ~raced => \A d \in Dirs : cpus[d] = "pin" =>
                 /\ original[d] \in {"", "ext"}
                 /\ stop.pc = "done" => d \in failed

\* A pinned cgroup is on record for some app, or being dealt with, so that the user, a release
\* or the reaper can unpin it; the exceptions are those whose restore has failed, and those that
\* were bound anew between a release's unpinning and its forgetting them.
\* (_affinity_apps, release_cpu_affinity, _forget_affinity.)
PinIsTracked ==
    ~raced => \A d \in Dirs : cpus[d] = "pin" =>
        \/ d \in failed \cup op.todo \cup op.done \cup stop.todo \cup slipped
        \/ \E a \in Apps : d \in tracked[a]
        \/ d \in waiting.todo
=============================================================================
