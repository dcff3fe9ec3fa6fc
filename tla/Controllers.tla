---------------------------- MODULE Controllers ----------------------------
(***************************************************************************)
(* The balancer's controllers, one at a time: part names the one that a    *)
(* behaviour is about, and the variables of the others rest.  Each owns    *)
(* its own files of the kernel, so that none of them could disturb         *)
(* another.                                                                *)
(***************************************************************************)
EXTENDS Naturals

CONSTANTS
  Own, Foreign, Clients,  \* of the freezer
  Pinned, Slices, Home,   \* of pinning: the apps, the cgroups and which app has which, where
                          \* apps come and go ("shared") and where the balancer ends ("ending")
  Shaped,                 \* of the network: the applications on the NIC
  PoolSize, MaxFaults,      \* and the marks that are ready for them; steps that fail
  Files, MaxSwap          \* of swap

ASSUME OwnIsNotForeign == Own \cap Foreign = {}
ASSUME HomesAreSlices ==
    \A p \in {"shared", "ending"} : Home[p] \in [Pinned[p] -> SUBSET Slices[p]]
ASSUME PoolIsCounted == PoolSize \in Nat
ASSUME FilesAreNumbered == Files \subseteq Nat \ {0}

VARIABLES
  part,
  want, frozen, alive, record, entry, th, phase, boot, doubt, lost,
  cpus, original, exists, running, tracked, op, waiting, leaving, stop, failed, raced, slipped,
  listed, config, pending, control, shaped, info, pool, caps, stage, cool, saved, kernel,
  cycle, gone, faults, left, astray, unsure,
  mem, tight, file, on, ghost, service, enabled, relaxed, jobs, at, path, rel, req, crossed

freezer  == <<want, frozen, alive, record, entry, th, phase, boot, doubt, lost>>
affinity == <<cpus, original, exists, running, tracked, op, waiting, leaving, stop, failed, raced,
              slipped>>
network  == <<listed, config, pending, control, shaped, info, pool, caps, stage, cool, saved,
              kernel, cycle, gone, faults, left, astray, unsure>>
swap     == <<mem, tight, file, on, ghost, service, enabled, relaxed, jobs, at, path, rel, req,
              crossed>>

vars == <<part, freezer, affinity, network, swap>>

F == INSTANCE Freezer

\* apps that exit beside other writers; and apps that meet the shutdown
Shared == INSTANCE CpuAffinity
            WITH Apps <- Pinned["shared"], Dirs <- Slices["shared"], Home <- Home["shared"],
                 Ops <- {"exit", "administer"}, alive <- running
Ending == INSTANCE CpuAffinity
            WITH Apps <- Pinned["ending"], Dirs <- Slices["ending"], Home <- Home["ending"],
                 Ops <- {"stop"}, alive <- running

\* applications that come and go, with every tier; the same where commands may fail; and
\* pressure on a NIC without applications, where they may fail as well
Marking == INSTANCE NetworkShaping
             WITH Apps <- Shaped, Tiers <- {"low", "high", "system"}, MaxFaults <- 0,
                  Ops <- {"apps", "reload"}
Failing == INSTANCE NetworkShaping
             WITH Apps <- Shaped, Tiers <- {"low", "high"}, Ops <- {"apps"}
Pressed == INSTANCE NetworkShaping
             WITH Apps <- {}, Tiers <- {}, Ops <- {"pressure", "reload", "exit"}

S == INSTANCE SwapLadder
       WITH Ops <- {"restart"}, phase <- service, raced <- crossed

Init ==
    /\ part \in {"freezer", "shared", "ending", "marking", "failing", "pressed", "swap"}
    /\ F!Init
    /\ IF part = "ending" THEN Ending!Init ELSE Shared!Init
    /\ IF part = "pressed" THEN Pressed!Init ELSE Marking!Init
    /\ S!Init

Next ==
    /\ UNCHANGED part
    /\ \/ part = "freezer" /\ F!Next /\ UNCHANGED <<affinity, network, swap>>
       \/ part = "shared" /\ Shared!Next /\ UNCHANGED <<freezer, network, swap>>
       \/ part = "ending" /\ Ending!Next /\ UNCHANGED <<freezer, network, swap>>
       \/ part = "marking" /\ Marking!Next /\ UNCHANGED <<freezer, affinity, swap>>
       \/ part = "failing" /\ Failing!Next /\ UNCHANGED <<freezer, affinity, swap>>
       \/ part = "pressed" /\ Pressed!Next /\ UNCHANGED <<freezer, affinity, swap>>
       \/ part = "swap" /\ S!Next /\ UNCHANGED <<freezer, affinity, network>>

Spec == Init /\ [][Next]_vars

\* The shape of every controller's state.
TypeOK ==
    /\ F!TypeOK
    /\ IF part = "ending" THEN Ending!TypeOK ELSE Shared!TypeOK
    /\ IF part = "pressed" THEN Pressed!TypeOK ELSE Marking!TypeOK
    /\ S!TypeOK

\* What a controller has changed in the machine can be put back, whatever happens: a frozen
\* cgroup is in the file that the next start reads, a pinned one has its original on record,
\* so has a widened RPS mask, and swap is never left without the file it is found by.
\* (freeze_cgroup, set_cpus, _escalate_rx, release.)
ChangesCanBeUndone ==
    /\ F!FrozenIsRecorded
    /\ IF part = "ending" THEN Ending!PinCanBeUndone ELSE Shared!PinCanBeUndone
    /\ Pressed!BumpCanBeUndone
    /\ S!NoSwapWithoutFile

\* What a controller believes is what the kernel holds: the entry's flag and the cgroups'
\* freeze, the tracked apps and the pins, the marks and whom they stand for, the stage and the
\* rates.  (set_freeze, _affinity_apps, app_filter_info, handle_network_pressure.)
RecordsMatchKernel ==
    /\ F!FlagMatchesKernel
    /\ IF part = "ending" THEN Ending!PinIsTracked ELSE Shared!PinIsTracked
    /\ Marking!MarksIdentifyApps
    /\ Pressed!RatesFollowStage

\* What somebody else froze is never thawed, not even by the sweep at start.
\* (thaw_recorded goes by the state file, not by cgroup.freeze.)
ForeignStaysFrozen == F!ForeignStaysFrozen
=============================================================================
