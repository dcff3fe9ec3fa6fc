----------------------- MODULE ControllerParts_proofs ------------------------
(***************************************************************************)
(* Theorems about the balancer's controllers: the freezer (F), the pinning *)
(* of cpus (A), network shaping (N) and the swap ladder (S), each for any  *)
(* values of its own constants.  They have no state in common; the         *)
(* definitions of each carry the name of its instance.                     *)
(*                                                                         *)
(* Freezer: a request about to write a freeze has recorded it, a thaw that *)
(* has landed finds its cgroup told to thaw, the sweep at start still has  *)
(* what it must thaw, and two requests of which one freezes share only     *)
(* cgroups that are given up as lost.  The flag rests on the record, and   *)
(* on what each request has done so far.                                   *)
(* Pinning rests on the lock: between the read and the write of a binding  *)
(* only the shutdown could change what is on record, and that sets raced;  *)
(* what a release forgets after it has dropped the lock is in slipped.     *)
(* Shaping: no mark is two applications', or held and free, and each rule  *)
(* and filter that no failed command has left is of an application on      *)
(* record; a class whose last command failed is in astray.                 *)
(* Swap: a sweep deletes what was not swapped on when it looked; nothing   *)
(* is swapped on between the look and the deletion, for the worker does    *)
(* not grow while it releases, and the main thread releases while no       *)
(* growth is past its allocation, or crossed says that one was.            *)
(***************************************************************************)
EXTENDS Integers, SequencesExt, FiniteSetTheorems, WellFoundedInduction, TLAPS

CONSTANTS
  Own, Foreign, Clients,              \* the freezer's
  Pinned, Slices, Home, PinOps,       \* of the cpus: apps, cgroups, which has which, what may happen
  Shaped, NetTiers, PoolSize,         \* the network's apps, their tiers and marks,
  MaxFaults, NetOps,                  \* its bound, and what may happen
  Files, MaxSwap, SwapOps             \* of swap

VARIABLES
  want, frozen, alive, record, entry, th, phase, boot, doubt, lost,
  cpus, original, exists, running, tracked, held, waiting, leaving, stop, failed, raced, slipped,
  listed, config, pending, control, shaped, info, pool, caps, stage, cool, saved, kernel,
  cycle, gone, faults, left, astray, unsure,
  mem, tight, file, on, ghost, service, enabled, relaxed, jobs, at, path, rel, req, crossed

F == INSTANCE Freezer
A == INSTANCE CpuAffinity WITH Apps <- Pinned, Dirs <- Slices, Ops <- PinOps, alive <- running,
        op <- held
N == INSTANCE NetworkShaping WITH Apps <- Shaped, Tiers <- NetTiers, Ops <- NetOps
S == INSTANCE SwapLadder WITH Ops <- SwapOps, phase <- service, raced <- crossed

-----------------------------------------------------------------------------
(***************************************************************************)
(* The freezer.                                                            *)
(***************************************************************************)

RequestPcs == {"idle", "begin", "write", "confirm", "landed", "failed", "flag"}
Requests == [pc : RequestPcs, op : {"none", "freeze", "unfreeze", "lift", "rollback"}, dir : BOOLEAN,
             scope : SUBSET Own, todo : SUBSET Own, done : SUBSET Own]

\* What holds of a request, whatever the others do.
SoundRequest(r) ==
           /\ r.pc \notin {"idle", "flag"} => r.todo # {}
           /\ r.todo \cup r.done \subseteq r.scope
           /\ r.dir <=> r.op = "freeze"
           /\ r.pc = "flag" => r.done # {}

FreezerShape ==
           /\ want \in [F!Cgs -> BOOLEAN] /\ frozen \in [F!Cgs -> BOOLEAN]
           /\ alive \subseteq F!Cgs /\ record \subseteq Own
           /\ entry \in [limited : BOOLEAN, frozen : BOOLEAN, cgroups : SUBSET Own]
           /\ IF entry.limited THEN entry.cgroups # {} ELSE entry = F!None
           /\ th \in [Clients -> Requests]
           /\ \A t \in Clients : SoundRequest(th[t])
           /\ phase \in {"down", "boot", "up"}
           /\ boot \in [todo : SUBSET Own, keep : SUBSET Own]
           /\ lost \subseteq doubt

-----------------------------------------------------------------------------
(* What a step does to the request that takes it *)

\* t's request goes on within its scope, and a thaw does not become a freeze
GoesOn(t) ==
    /\ th' \in [Clients -> Requests] /\ SoundRequest(th'[t])
    /\ \A u \in Clients \ {t} : th'[u] = th[u]
    /\ th'[t].scope \subseteq th[t].scope
    /\ th'[t].op = "freeze" => th[t].op = "freeze"
    /\ th[t].pc # "idle"

LEMMA GoEffect ==
    ASSUME FreezerShape, NEW t \in Clients, NEW pc \in RequestPcs \ {"idle", "flag"}, F!Go(t, pc),
           th[t].pc \notin {"idle", "flag"}
    PROVE  /\ GoesOn(t)
           /\ th'[t].pc = pc /\ th'[t].todo = th[t].todo /\ th'[t].dir = th[t].dir
<1>1. th[t] \in Requests /\ SoundRequest(th[t])
  BY DEF FreezerShape
<1>2. th' = [th EXCEPT ![t] = [th[t] EXCEPT !.pc = pc]]
  BY DEF F!Go
<1>3. ASSUME NEW r \in Requests
      PROVE  LET n == [r EXCEPT !.pc = pc]
             IN  /\ n \in Requests /\ n.pc = pc /\ n.todo = r.todo /\ n.done = r.done
                 /\ n.dir = r.dir /\ n.op = r.op /\ n.scope = r.scope
  BY DEF Requests
<1>4. /\ th'[t] \in Requests /\ th'[t].pc = pc /\ th'[t].todo = th[t].todo /\ th'[t].done = th[t].done
      /\ th'[t].dir = th[t].dir /\ th'[t].op = th[t].op /\ th'[t].scope = th[t].scope
  BY <1>1, <1>2, <1>3 DEF FreezerShape
<1>5. th' \in [Clients -> Requests] /\ \A u \in Clients \ {t} : th'[u] = th[u]
  BY <1>2, <1>4 DEF FreezerShape
<1> QED BY <1>1, <1>4, <1>5 DEF GoesOn, SoundRequest

\* Roll back from a request that has frozen something.
LEMMA UndoEffect ==
    ASSUME NEW r \in Requests, SoundRequest(r), r.done # {}
    PROVE  /\ F!Undo(r) \in Requests /\ SoundRequest(F!Undo(r))
           /\ F!Undo(r).pc = "begin" /\ F!Undo(r).op = "rollback" /\ F!Undo(r).scope = r.scope
<1>1. /\ F!Undo(r) \in Requests /\ F!Undo(r).pc = "begin" /\ F!Undo(r).op = "rollback"
      /\ F!Undo(r).dir = FALSE /\ F!Undo(r).todo = r.done /\ F!Undo(r).done = r.done
      /\ F!Undo(r).scope = r.scope
  BY DEF F!Undo, Requests, RequestPcs
<1>2. ~F!Undo(r).dir
  BY <1>1
<1>3. r.done \subseteq r.scope
  BY DEF SoundRequest
<1>4. SoundRequest(F!Undo(r))
  BY <1>1, <1>2, <1>3 DEF SoundRequest
<1> QED BY <1>1, <1>4

LEMMA IdleEffect == F!Idle \in Requests /\ SoundRequest(F!Idle) /\ F!Idle.pc = "idle" /\ F!Idle.scope = {} /\ F!Idle.op = "none"
  BY DEF F!Idle, Requests, RequestPcs, SoundRequest

LEMMA AdvanceEffect ==
    ASSUME FreezerShape, NEW t \in Clients, NEW c \in th[t].todo, NEW ok \in BOOLEAN, F!Advance(t, c, ok),
           th[t].pc # "idle"
    PROVE  GoesOn(t) /\ th'[t].pc \in {"idle", "begin", "flag"}
<1> DEFINE s == th[t]
           rest == s.todo \ {c}
           over == s.op \in {"lift", "rollback"}
           pc == IF rest # {} THEN "begin" ELSE IF over THEN "idle" ELSE "flag"
           done == IF ok THEN s.done \cup {c} ELSE s.done
           next == [s EXCEPT !.pc = pc, !.todo = rest, !.done = IF ok THEN @ \cup {c} ELSE @]
           new == IF ok \/ over
                  THEN IF next.pc = "idle" THEN F!Idle ELSE next
                  ELSE IF s.op = "freeze" /\ s.done # {} THEN F!Undo(s) ELSE F!Idle
<1>1. s \in Requests /\ SoundRequest(s)
  BY DEF FreezerShape
<1>2. th' = [th EXCEPT ![t] = new]
  BY DEF F!Advance
<1>3. /\ next \in Requests /\ next.pc = pc /\ next.todo = rest /\ next.done = done
      /\ next.dir = s.dir /\ next.op = s.op /\ next.scope = s.scope
  <2>1. pc \in RequestPcs /\ rest \in SUBSET Own /\ done \in SUBSET Own
    BY <1>1 DEF RequestPcs, Requests
  <2>2. next = [s EXCEPT !.pc = pc, !.todo = rest, !.done = done]
    OBVIOUS
  <2> HIDE DEF pc, rest, done, next
  <2> QED BY <1>1, <2>1, <2>2 DEF Requests
<1>4. /\ new \in Requests /\ SoundRequest(new) /\ new.pc \in {"idle", "begin", "flag"}
      /\ new.scope \subseteq s.scope /\ (new.op = "freeze" => s.op = "freeze")
  <2>1. CASE ok \/ over
    <3>1. CASE pc = "idle"
      BY <1>3, <2>1, <3>1, IdleEffect
    <3>2. CASE pc # "idle"
      <4>1. new = next
        BY <1>3, <2>1, <3>2
      <4>2. next.pc = "flag" => ok
        BY <1>3, <2>1
      <4>3. SoundRequest(next)
        <5>1. next.pc \notin {"idle", "flag"} => next.todo # {}
          BY <1>3
        <5>2. next.todo \cup next.done \subseteq next.scope
          BY <1>1, <1>3 DEF SoundRequest
        <5>3. next.dir <=> next.op = "freeze"
          <6>1. s.dir <=> s.op = "freeze"
            BY <1>1 DEF SoundRequest
          <6> HIDE DEF next, s
          <6> QED BY <1>3, <6>1
        <5>4. next.pc = "flag" => next.done # {}
          BY <1>3, <4>2
        <5> HIDE DEF next
        <5> QED BY <5>1, <5>2, <5>3, <5>4 DEF SoundRequest
      <4>4. next.pc \in {"begin", "flag"}
        BY <1>3, <3>2
      <4> HIDE DEF next, new
      <4> QED BY <1>3, <4>1, <4>3, <4>4
    <3> QED BY <3>1, <3>2
  <2>2. CASE ~ok /\ ~over /\ s.op = "freeze" /\ s.done # {}
    BY <1>1, <2>2, UndoEffect
  <2>3. CASE ~ok /\ ~over /\ ~(s.op = "freeze" /\ s.done # {})
    BY <2>3, IdleEffect
  <2> QED BY <2>1, <2>2, <2>3
<1> HIDE DEF new
<1>5. th'[t] = new /\ th' \in [Clients -> Requests] /\ \A u \in Clients \ {t} : th'[u] = th[u]
  BY <1>2, <1>4 DEF FreezerShape
<1> QED BY <1>4, <1>5 DEF GoesOn

\* set_freeze's last step ends the request or rolls it back.
LEMMA FlagEffect ==
    ASSUME FreezerShape, NEW t \in Clients, F!Flag(t)
    PROVE  GoesOn(t) /\ th'[t].pc \in {"idle", "begin"}
<1>1. th[t] \in Requests /\ SoundRequest(th[t]) /\ th[t].pc = "flag" /\ th[t].done # {}
  BY DEF FreezerShape, F!Flag, SoundRequest
<1>2. PICK new \in {F!Idle, F!Undo(th[t])} : th' = [th EXCEPT ![t] = new]
  BY DEF F!Flag
<1>3. /\ new \in Requests /\ SoundRequest(new) /\ new.pc \in {"idle", "begin"}
      /\ new.scope \subseteq th[t].scope /\ new.op # "freeze"
  BY <1>1, UndoEffect, IdleEffect
<1>4. th'[t] = new /\ th' \in [Clients -> Requests] /\ \A u \in Clients \ {t} : th'[u] = th[u]
  BY <1>2, <1>3 DEF FreezerShape
<1> QED BY <1>1, <1>3, <1>4 DEF GoesOn

\* A request begins, and what it shares with a freezing one, or a freezing one with it, is lost.
LEMMA StartEffect ==
    ASSUME FreezerShape, NEW t \in Clients, NEW op \in {"freeze", "unfreeze", "lift"}, NEW dir \in BOOLEAN,
           dir <=> op = "freeze", NEW cs \in SUBSET Own, cs # {}, F!Start(t, op, dir, cs), ~F!Busy(t)
    PROVE  /\ th' \in [Clients -> Requests] /\ SoundRequest(th'[t])
           /\ \A u \in Clients \ {t} : th'[u] = th[u]
           /\ th'[t].pc = "begin" /\ th'[t].op = op /\ th'[t].scope = cs
           /\ lost \subseteq lost' /\ lost' \subseteq doubt'
           /\ \A u \in Clients \ {t} : F!Busy(u) /\ (op = "freeze" \/ th[u].op = "freeze")
                  => cs \cap th[u].scope \subseteq lost'
<1> DEFINE new == [pc |-> "begin", op |-> op, dir |-> dir, scope |-> cs, todo |-> cs, done |-> {}]
<1>1. new \in Requests /\ SoundRequest(new) /\ new.pc = "begin" /\ new.op = op /\ new.scope = cs
  BY DEF Requests, RequestPcs, SoundRequest
<1>2. th' = [th EXCEPT ![t] = new] /\ lost' = lost \cup F!Overlaps(t, op, cs)
      /\ doubt' = doubt \cup F!Overlaps(t, op, cs)
  BY DEF F!Start, F!Lose
<1> HIDE DEF new
<1>3. th'[t] = new /\ th' \in [Clients -> Requests] /\ \A u \in Clients \ {t} : th'[u] = th[u]
  BY <1>1, <1>2 DEF FreezerShape
<1>4. \A u \in Clients \ {t} : F!Busy(u) /\ (op = "freeze" \/ th[u].op = "freeze")
         => cs \cap th[u].scope \subseteq F!Overlaps(t, op, cs)
  BY DEF F!Overlaps
<1>5. lost \subseteq lost' /\ lost' \subseteq doubt'
  BY <1>2 DEF FreezerShape
<1> QED BY <1>1, <1>2, <1>3, <1>4, <1>5

\* A new request is one of these.
Starts(t, op, dir) ==
    /\ ~F!Busy(t) /\ phase = "up" /\ (dir <=> op = "freeze")
    /\ F!Start(t, op, dir, entry.cgroups)
    /\ entry.limited
    /\ entry' \in {entry, F!None}
    /\ UNCHANGED <<F!kernel, record, phase, boot>>

LEMMA Beginnings ==
    ASSUME FreezerShape, NEW t \in Clients, F!Lift(t) \/ \E f \in BOOLEAN : F!Freeze(t, f)
    PROVE  \/ \E op \in {"freeze", "unfreeze", "lift"}, dir \in BOOLEAN : Starts(t, op, dir)
           \/ entry' = F!None /\ UNCHANGED <<F!kernel, record, th, phase, boot, F!history>>
<1>1. CASE F!Lift(t)
  <2>1. CASE entry.frozen
    <3>1. Starts(t, "lift", FALSE)
      BY <1>1, <2>1 DEF F!Lift, Starts
    <3> QED BY <3>1
  <2> QED BY <1>1, <2>1 DEF F!Lift
<1>2. ASSUME NEW f \in BOOLEAN, F!Freeze(t, f)
      PROVE  \E op \in {"freeze", "unfreeze", "lift"}, dir \in BOOLEAN : Starts(t, op, dir)
  <2>1. CASE f
    <3>1. Starts(t, "freeze", f)
      BY <1>2, <2>1 DEF F!Freeze, Starts
    <3> QED BY <3>1
  <2>2. CASE ~f
    <3>1. Starts(t, "unfreeze", f)
      BY <1>2, <2>2 DEF F!Freeze, Starts
    <3> QED BY <3>1
  <2> QED BY <2>1, <2>2
<1> QED BY <1>1, <1>2

\* What a step on one cgroup does to its request, whatever it is.
Steps(t, c) ==
    \/ F!BeginGone(t, c) \/ F!Begin(t, c) \/ F!Write(t, c)
    \/ F!Confirm(t, c) \/ F!Landed(t, c) \/ F!Failed(t, c)

LEMMA StepEffect ==
    ASSUME FreezerShape, NEW t \in Clients, NEW c \in Own, Steps(t, c)
    PROVE  /\ GoesOn(t) /\ c \in th[t].todo /\ c \in th[t].scope /\ c = CHOOSE x \in th[t].todo : TRUE
           /\ F!BeginGone(t, c) \/ F!Landed(t, c) \/ F!Failed(t, c) => th'[t].pc \in {"idle", "begin", "flag"}
           /\ F!Begin(t, c) \/ F!Write(t, c) \/ F!Confirm(t, c)
                   => th'[t].todo = th[t].todo /\ th'[t].dir = th[t].dir
           /\ F!Begin(t, c) => th'[t].pc = "write"
           /\ F!Write(t, c) => th'[t].pc \in {"confirm", "failed"}
           /\ F!Confirm(t, c) => th'[t].pc \in {"landed", "failed"}
<1>1. th[t].pc \in {"begin", "write", "confirm", "landed", "failed"} /\ c = CHOOSE x \in th[t].todo : TRUE
  BY DEF Steps, F!BeginGone, F!Begin, F!Write, F!Confirm, F!Landed, F!Failed, F!At
<1>2. th[t] \in Requests /\ SoundRequest(th[t]) /\ th[t].todo # {}
  BY <1>1 DEF FreezerShape, SoundRequest
<1>3. c \in th[t].todo /\ c \in th[t].scope
  BY <1>1, <1>2 DEF SoundRequest
<1>4. ASSUME F!BeginGone(t, c) \/ F!Landed(t, c) \/ F!Failed(t, c)
      PROVE  GoesOn(t) /\ th'[t].pc \in {"idle", "begin", "flag"}
  <2>1. PICK ok \in BOOLEAN : F!Advance(t, c, ok)
    <3>1. (~th[t].dir) \in BOOLEAN
      OBVIOUS
    <3> QED BY <1>4, <3>1 DEF F!BeginGone, F!Landed, F!Failed
  <2> QED BY <1>1, <1>3, <2>1, AdvanceEffect
<1>5. ASSUME F!Begin(t, c) \/ F!Write(t, c) \/ F!Confirm(t, c)
      PROVE  /\ GoesOn(t) /\ th'[t].todo = th[t].todo /\ th'[t].dir = th[t].dir
             /\ F!Begin(t, c) => th'[t].pc = "write"
             /\ F!Write(t, c) => th'[t].pc \in {"confirm", "failed"}
             /\ F!Confirm(t, c) => th'[t].pc \in {"landed", "failed"}
  <2>1. /\ F!Begin(t, c) => F!Go(t, "write")
        /\ F!Write(t, c) => F!Go(t, "confirm") \/ F!Go(t, "failed")
        /\ F!Confirm(t, c) => F!Go(t, "landed") \/ F!Go(t, "failed")
    BY DEF F!Begin, F!Write, F!Confirm
  <2>2. ASSUME NEW pc \in {"write", "confirm", "landed", "failed"}, F!Go(t, pc)
        PROVE  GoesOn(t) /\ th'[t].pc = pc /\ th'[t].todo = th[t].todo /\ th'[t].dir = th[t].dir
    <3>1. pc \in RequestPcs \ {"idle", "flag"}
      BY DEF RequestPcs
    <3> QED BY <1>1, <2>2, <3>1, GoEffect
  <2>3. \A pc \in {"write", "confirm", "landed", "failed"} : F!Go(t, pc) =>
           GoesOn(t) /\ th'[t].pc = pc /\ th'[t].todo = th[t].todo /\ th'[t].dir = th[t].dir
    BY <2>2
  <2>4. CASE F!Begin(t, c)
    <3>1. ~F!Write(t, c) /\ ~F!Confirm(t, c)
      BY <2>4 DEF F!Begin, F!Write, F!Confirm, F!At
    <3> QED BY <2>1, <2>3, <2>4, <3>1
  <2>5. CASE F!Write(t, c)
    <3>1. ~F!Begin(t, c) /\ ~F!Confirm(t, c)
      BY <2>5 DEF F!Begin, F!Write, F!Confirm, F!At
    <3> QED BY <2>1, <2>3, <2>5, <3>1
  <2>6. CASE F!Confirm(t, c)
    <3>1. ~F!Begin(t, c) /\ ~F!Write(t, c)
      BY <2>6 DEF F!Begin, F!Write, F!Confirm, F!At
    <3> QED BY <2>1, <2>3, <2>6, <3>1
  <2> QED BY <1>5, <2>4, <2>5, <2>6
<1> QED BY <1>1, <1>3, <1>4, <1>5 DEF Steps

-----------------------------------------------------------------------------
LEMMA FreezerShapeInit == F!Init => FreezerShape
<1> SUFFICES ASSUME F!Init PROVE FreezerShape
  OBVIOUS
<1>1. F!None \in [limited : BOOLEAN, frozen : BOOLEAN, cgroups : SUBSET Own] /\ ~F!None.limited
  BY DEF F!None
<1> QED BY <1>1, IdleEffect DEF F!Init, FreezerShape, F!Cgs

LEMMA FreezerShapeStep == FreezerShape /\ [F!Next]_F!vars => FreezerShape'
<1> SUFFICES ASSUME FreezerShape, [F!Next]_F!vars PROVE FreezerShape'
  OBVIOUS
<1>a. F!None \in [limited : BOOLEAN, frozen : BOOLEAN, cgroups : SUBSET Own] /\ ~F!None.limited
  BY DEF F!None
<1>1. ASSUME NEW c \in F!Cgs, F!Settle(c) PROVE FreezerShape'
  BY <1>1 DEF F!Settle, FreezerShape, F!history
<1>2. ASSUME NEW c \in F!Cgs, F!Vanish(c) PROVE FreezerShape'
  BY <1>2 DEF F!Vanish, F!Settled, FreezerShape
<1>3. CASE F!Limit
  <2>1. entry' \in [limited : BOOLEAN, frozen : BOOLEAN, cgroups : SUBSET Own]
        /\ entry'.limited /\ entry'.cgroups # {}
    BY <1>3 DEF F!Limit
  <2>2. lost' \subseteq doubt'
    BY <1>3 DEF F!Limit, F!Doubt, FreezerShape
  <2> QED BY <1>3, <2>1, <2>2 DEF F!Limit, FreezerShape, F!kernel
<1>4. ASSUME NEW t \in Clients, F!Lift(t) \/ \E f \in BOOLEAN : F!Freeze(t, f) PROVE FreezerShape'
  <2>1. ASSUME NEW op \in {"freeze", "unfreeze", "lift"}, NEW dir \in BOOLEAN, Starts(t, op, dir)
        PROVE  FreezerShape'
    <3>1. entry.cgroups \in SUBSET Own /\ entry.cgroups # {}
      BY <2>1 DEF Starts, FreezerShape
    <3>2. /\ th' \in [Clients -> Requests] /\ SoundRequest(th'[t]) /\ lost' \subseteq doubt'
          /\ \A u \in Clients \ {t} : th'[u] = th[u]
      BY <2>1, <3>1, StartEffect DEF Starts
    <3>3. entry' \in [limited : BOOLEAN, frozen : BOOLEAN, cgroups : SUBSET Own]
          /\ IF entry'.limited THEN entry'.cgroups # {} ELSE entry' = F!None
      BY <1>a, <2>1 DEF Starts, FreezerShape
    <3> QED BY <2>1, <3>2, <3>3 DEF Starts, FreezerShape, F!kernel
  <2>2. CASE entry' = F!None /\ UNCHANGED <<F!kernel, record, th, phase, boot, F!history>>
    BY <1>a, <2>2 DEF FreezerShape, F!kernel, F!history
  <2> QED BY <1>4, <2>1, <2>2, Beginnings
<1>5. ASSUME NEW t \in Clients, F!Flag(t) PROVE FreezerShape'
  <2>1. th' \in [Clients -> Requests] /\ \A u \in Clients : SoundRequest(th'[u])
    BY <1>5, FlagEffect DEF GoesOn, FreezerShape
  <2>2. th[t].dir \in BOOLEAN
    BY DEF FreezerShape, Requests
  <2>3. entry' \in [limited : BOOLEAN, frozen : BOOLEAN, cgroups : SUBSET Own]
        /\ IF entry'.limited THEN entry'.cgroups # {} ELSE entry' = F!None
    <3>1. CASE entry.limited /\ entry' = [entry EXCEPT !.frozen = th[t].dir]
      BY <2>2, <3>1 DEF FreezerShape
    <3>2. CASE UNCHANGED entry
      BY <3>2 DEF FreezerShape
    <3> QED BY <1>5, <3>1, <3>2 DEF F!Flag
  <2> QED BY <1>5, <2>1, <2>3 DEF F!Flag, FreezerShape, F!kernel, F!history
<1>6. ASSUME NEW t \in Clients, NEW c \in Own, Steps(t, c) PROVE FreezerShape'
  <2>1. th' \in [Clients -> Requests] /\ \A u \in Clients : SoundRequest(th'[u])
    BY <1>6, StepEffect DEF GoesOn, FreezerShape
  <2>2. record' \subseteq Own /\ lost' \subseteq doubt' /\ UNCHANGED <<entry, phase, boot, alive, frozen>>
    BY <1>6 DEF Steps, F!Forgets, F!BeginGone, F!Begin, F!Write, F!Confirm, F!Landed, F!Failed, FreezerShape, F!kernel, F!history, F!Lose, F!Doubt
  <2>3. want' \in [F!Cgs -> BOOLEAN]
    <3>1. th[t].dir \in BOOLEAN
      BY DEF FreezerShape, Requests
    <3> QED BY <1>6, <3>1 DEF Steps, F!Forgets, F!BeginGone, F!Begin, F!Write, F!Confirm, F!Landed, F!Failed, FreezerShape, F!kernel
  <2> QED BY <2>1, <2>2, <2>3 DEF FreezerShape
<1>7. CASE F!Crash
  <2>1. th' \in [Clients -> Requests] /\ \A u \in Clients : SoundRequest(th'[u])
    BY <1>7, IdleEffect DEF F!Crash
  <2> QED BY <1>7, <1>a, <2>1 DEF F!Crash, FreezerShape, F!kernel, F!history
<1>8. CASE F!BootRead \/ F!BootDone
  BY <1>8 DEF F!BootRead, F!BootDone, FreezerShape, F!kernel, F!history
<1>9. ASSUME NEW c \in F!Cgs, F!BootThaw(c) PROVE FreezerShape'
  <2>1. boot' \in [todo : SUBSET Own, keep : SUBSET Own]
    <3>1. c \in boot.todo /\ boot.todo \subseteq Own /\ boot.keep \subseteq Own
      BY <1>9 DEF F!BootThaw, FreezerShape
    <3>2. \/ boot' = [boot EXCEPT !.todo = @ \ {c}]
          \/ boot' = [todo |-> boot.todo \ {c}, keep |-> boot.keep \cup {c}]
      BY <1>9 DEF F!BootThaw
    <3> QED BY <3>1, <3>2 DEF FreezerShape
  <2>2. want' \in [F!Cgs -> BOOLEAN] /\ frozen' \in [F!Cgs -> BOOLEAN] /\ lost' \subseteq doubt'
    BY <1>9 DEF F!BootThaw, FreezerShape, F!history, F!Settled, F!Doubt
  <2> QED BY <1>9, <2>1, <2>2 DEF F!BootThaw, FreezerShape
<1>10. CASE UNCHANGED F!vars
  BY <1>10 DEF F!vars, F!kernel, F!history, FreezerShape
<1> QED BY <1>1, <1>2, <1>3, <1>4, <1>5, <1>6, <1>7, <1>8, <1>9, <1>10 DEF F!Next, Steps

\* The shape of the state: a request that handles a cgroup has one to handle, and only the app's
\* own cgroups are ever recorded, whatever is rolled back or cut off by a crash.
THEOREM FreezerTypeCorrect == F!Spec => []F!TypeOK
<1>1. FreezerShape => F!TypeOK
  BY DEF FreezerShape, F!TypeOK, SoundRequest, Requests, RequestPcs
<1> QED BY <1>1, FreezerShapeInit, FreezerShapeStep, PTL DEF F!Spec

LEMMA ForeignUntouched ==
    ASSUME Own \cap Foreign = {}, FreezerShape, [F!Next]_F!vars
    PROVE  \A f \in Foreign : want'[f] = want[f]
<1>1. ASSUME FreezerShape, [F!Next]_F!vars, NEW f \in Foreign PROVE want'[f] = want[f]
  <2>1. f \in F!Cgs /\ f \notin Own
    BY DEF F!Cgs
  <2>a. ASSUME NEW c, c # f, NEW v, want' = [want EXCEPT ![c] = v] PROVE want'[f] = want[f]
    BY <2>1, <2>a DEF FreezerShape
  <2>2. ASSUME NEW c \in F!Cgs, F!Settle(c) \/ F!Vanish(c) PROVE want'[f] = want[f]
    <3>1. CASE F!Settle(c)
      BY <3>1 DEF F!Settle
    <3>2. CASE F!Vanish(c)
      BY <2>1, <2>a, <3>2 DEF F!Vanish
    <3> QED BY <2>2, <3>1, <3>2
  <2>3. ASSUME NEW t \in Clients, NEW c \in Own, Steps(t, c) PROVE want'[f] = want[f]
    <3>1. UNCHANGED want \/ want' = [want EXCEPT ![c] = th[t].dir]
      BY <2>3 DEF Steps, F!BeginGone, F!Begin, F!Write, F!Confirm, F!Landed, F!Failed, F!kernel
    <3> QED BY <2>1, <2>a, <3>1
  <2>4. ASSUME NEW c \in F!Cgs, F!BootThaw(c) PROVE want'[f] = want[f]
    <3>1. c # f
      BY <1>1, <2>1, <2>4 DEF F!BootThaw, FreezerShape
    <3>2. UNCHANGED want \/ want' = [want EXCEPT ![c] = FALSE]
      BY <2>4 DEF F!BootThaw, F!history
    <3> QED BY <2>a, <3>1, <3>2
  <2>5. ASSUME NEW t \in Clients, F!Lift(t) \/ F!Flag(t) \/ \E b \in BOOLEAN : F!Freeze(t, b)
        PROVE  want'[f] = want[f]
    BY <2>5 DEF F!Lift, F!Flag, F!Freeze, F!kernel
  <2>6. CASE F!Limit \/ F!Crash \/ F!BootRead \/ F!BootDone \/ UNCHANGED F!vars
    BY <2>6 DEF F!Limit, F!Crash, F!BootRead, F!BootDone, F!vars, F!kernel
  <2> QED BY <1>1, <2>2, <2>3, <2>4, <2>5, <2>6 DEF F!Next, Steps
<1> QED BY <1>1

\* What somebody else froze is never thawed: requests write the app's own cgroups and the sweep
\* at start only what the state file names (thaw_recorded).
THEOREM ForeignIsLeftAlone == Own \cap Foreign = {} /\ F!Spec => F!ForeignStaysFrozen
<1> SUFFICES ASSUME Own \cap Foreign = {} PROVE F!Spec => F!ForeignStaysFrozen
  OBVIOUS
<1>2. FreezerShape /\ [F!Next]_F!vars => [\A c \in Foreign : want'[c] = want[c]]_F!vars
  BY ForeignUntouched
<1> QED BY <1>2, FreezerShapeInit, FreezerShapeStep, PTL DEF F!Spec, F!ForeignStaysFrozen, F!vars

-----------------------------------------------------------------------------
(* The record.  A cgroup is accounted for if it is recorded or given up.     *)

Current(t) == CHOOSE x \in th[t].todo : TRUE
Kept(c) == c \in record \cup lost

SharedIsLost ==
    \A t, u \in Clients : t # u /\ F!Busy(t) /\ F!Busy(u) /\ th[t].op = "freeze"
        => th[t].scope \cap th[u].scope \cap alive \subseteq lost
RecordedFirst ==
    \A t \in Clients : th[t].pc = "write" /\ th[t].op = "freeze" /\ Current(t) \in alive
        => Kept(Current(t))
ThawedFirst ==
    \A t \in Clients : th[t].pc \in {"confirm", "landed"} /\ th[t].op # "freeze" /\ Current(t) \in alive
        => ~want[Current(t)] \/ Current(t) \in lost
NobodyBusy == phase # "up" => \A t \in Clients : ~F!Busy(t)
SweepHasIt ==
    phase = "boot" => \A c \in Own \cap alive : want[c] => c \in boot.todo \cup boot.keep \cup lost

RecInv == SharedIsLost /\ RecordedFirst /\ ThawedFirst /\ F!FrozenIsRecorded /\ NobodyBusy /\ SweepHasIt

LEMMA RecInvInit == Own \cap Foreign = {} /\ F!Init => RecInv
<1> SUFFICES ASSUME Own \cap Foreign = {}, F!Init PROVE RecInv
  OBVIOUS
<1>1. \A t \in Clients : th[t].pc = "idle"
  BY IdleEffect DEF F!Init
<1>2. F!FrozenIsRecorded
  <2>1. \A c \in Own : ~want[c]
    BY DEF F!Init, F!Cgs
  <2> QED BY <2>1 DEF F!FrozenIsRecorded
<1>3. phase = "up"
  BY DEF F!Init
<1> QED
  BY <1>1, <1>2, <1>3
  DEF RecInv, SharedIsLost, RecordedFirst, ThawedFirst, NobodyBusy, SweepHasIt, F!Busy

\* A step of t's own request that keeps what others rely on.
LEMMA OthersStay ==
    ASSUME FreezerShape, RecInv, NEW t \in Clients, GoesOn(t), lost \subseteq lost', alive' = alive,
           UNCHANGED <<phase, boot>>
    PROVE  SharedIsLost' /\ NobodyBusy'
<1>1. \A u \in Clients :
         /\ F!Busy(u)' => F!Busy(u)
         /\ th'[u].scope \subseteq th[u].scope
         /\ th'[u].op = "freeze" => th[u].op = "freeze"
  BY DEF GoesOn, F!Busy
<1>2. NobodyBusy'
  BY <1>1 DEF RecInv, NobodyBusy, F!Busy
<1>3. SharedIsLost'
  <2>1. ASSUME NEW u \in Clients, NEW v \in Clients, u # v, F!Busy(u)', F!Busy(v)', th'[u].op = "freeze"
        PROVE  th[u].scope \cap th[v].scope \cap alive \subseteq lost
    BY <1>1, <2>1 DEF RecInv, SharedIsLost, F!Busy
  <2> QED BY <1>1, <2>1 DEF SharedIsLost, F!Busy
<1> QED BY <1>2, <1>3

\* Who shares a cgroup with t's request, one of the two freezing, shares a lost one.
LEMMA Shares ==
    ASSUME FreezerShape, RecInv, NEW t \in Clients, NEW u \in Clients \ {t}, NEW c \in alive,
           F!Busy(t), F!Busy(u), c \in th[t].scope, c \in th[u].scope,
           th[t].op = "freeze" \/ th[u].op = "freeze"
    PROVE  c \in lost
  BY DEF RecInv, SharedIsLost

\* The cgroup a request is handling is in its scope.
LEMMA CurrentInScope ==
    ASSUME FreezerShape, NEW t \in Clients, th[t].pc \notin {"idle", "flag"}
    PROVE  Current(t) \in th[t].todo /\ Current(t) \in th[t].scope /\ Current(t) \in Own /\ F!Busy(t)
<1>1. th[t] \in Requests /\ SoundRequest(th[t]) /\ th[t].todo # {}
  BY DEF FreezerShape, SoundRequest
<1> QED BY <1>1 DEF Current, SoundRequest, Requests, F!Busy

LEMMA StepKeepsRecord ==
    ASSUME FreezerShape, RecInv, NEW t \in Clients, NEW c \in Own, Steps(t, c)
    PROVE  RecInv'
<1>1. /\ GoesOn(t) /\ c \in th[t].scope /\ c = Current(t) /\ F!Busy(t)
      /\ UNCHANGED <<alive, phase, boot>> /\ lost \subseteq lost'
  BY StepEffect DEF Current, GoesOn, F!Busy, Steps, F!BeginGone, F!Begin, F!Write, F!Confirm, F!Landed, F!Failed,
                    F!kernel, F!history, F!Lose, F!Doubt
<1>2. SharedIsLost' /\ NobodyBusy'
  BY <1>1, OthersStay
<1>3. phase = "up" /\ SweepHasIt'
  BY <1>1 DEF RecInv, NobodyBusy, SweepHasIt, FreezerShape
<1>4. \A u \in Clients \ {t} : th'[u] = th[u] /\ Current(u)' = Current(u)
  BY <1>1 DEF GoesOn, Current
<1>d. th[t].dir <=> th[t].op = "freeze"
  BY DEF FreezerShape, SoundRequest
<1>5. CASE F!BeginGone(t, c) \/ F!Landed(t, c)
  <2>1. /\ th'[t].pc \in {"idle", "begin", "flag"} /\ UNCHANGED <<want, lost>>
        /\ th[t].op = "freeze" => UNCHANGED record
        /\ record \ {c} \subseteq record'
    BY <1>5, <1>d, StepEffect DEF F!Forgets, F!BeginGone, F!Landed, F!kernel, F!history
  <2>2. c \in alive => th[t].op = "freeze" \/ ~want[c] \/ c \in lost
    BY <1>1, <1>5 DEF F!BeginGone, F!Landed, F!At, RecInv, ThawedFirst
  <2>3. F!FrozenIsRecorded'
    BY <1>1, <2>1, <2>2 DEF RecInv, F!FrozenIsRecorded
  <2>4. RecordedFirst'
    <3>1. ASSUME NEW u \in Clients, th'[u].pc = "write", th'[u].op = "freeze", Current(u)' \in alive
          PROVE  Kept(Current(u))'
      <4>1. u # t /\ th[u].pc = "write" /\ th[u].op = "freeze" /\ Current(u)' = Current(u)
        BY <1>4, <2>1, <3>1
      <4>2. Kept(Current(u)) /\ F!Busy(u) /\ Current(u) \in th[u].scope
        BY <1>1, <3>1, <4>1, CurrentInScope DEF RecInv, RecordedFirst
      <4>3. CASE Current(u) = c
        BY <1>1, <3>1, <4>1, <4>2, <4>3, <2>1, Shares DEF Kept
      <4>4. CASE Current(u) # c
        BY <2>1, <4>1, <4>2, <4>4 DEF Kept
      <4> QED BY <4>3, <4>4
    <3> QED BY <1>1, <3>1 DEF RecordedFirst
  <2>5. ThawedFirst'
    BY <1>1, <1>4, <2>1 DEF RecInv, ThawedFirst
  <2> QED BY <1>2, <1>3, <2>3, <2>4, <2>5 DEF RecInv
<1>6. CASE F!Begin(t, c)
  <2>1. /\ th'[t].pc = "write" /\ th'[t].todo = th[t].todo /\ UNCHANGED want
        /\ record \subseteq record' /\ (th[t].op = "freeze" => c \in record' \cup lost')
    BY <1>6, <1>d, StepEffect DEF F!Begin, F!kernel, F!history, F!Lose
  <2>2. Current(t)' = c
    BY <1>1, <2>1 DEF Current
  <2>3. F!FrozenIsRecorded'
    BY <1>1, <2>1 DEF RecInv, F!FrozenIsRecorded
  <2>4. RecordedFirst'
    BY <1>1, <1>4, <2>1, <2>2 DEF RecInv, RecordedFirst, Kept, GoesOn
  <2>5. ThawedFirst'
    BY <1>1, <1>4, <2>1 DEF RecInv, ThawedFirst
  <2> QED BY <1>2, <1>3, <2>3, <2>4, <2>5 DEF RecInv
<1>7. CASE F!Write(t, c)
  <2>1. /\ th'[t].pc \in {"confirm", "failed"} /\ th'[t].todo = th[t].todo /\ th'[t].dir = th[t].dir
        /\ th[t].pc = "write" /\ UNCHANGED <<lost, record>>
        /\ th'[t].pc = "confirm" => want' = [want EXCEPT ![c] = th[t].dir]
        /\ \/ UNCHANGED want
           \/ c \in alive /\ want' = [want EXCEPT ![c] = th[t].dir]
    <3>1. \/ UNCHANGED want /\ F!Go(t, "failed")
          \/ c \in alive /\ want' = [want EXCEPT ![c] = th[t].dir]
      BY <1>7 DEF F!Write
    <3>2. th[t] \in Requests /\ t \in DOMAIN th
      BY DEF FreezerShape
    <3>3. F!Go(t, "failed") => th'[t].pc = "failed"
      BY <3>2 DEF F!Go, Requests
    <3> QED BY <1>7, <3>1, <3>3, StepEffect DEF F!Write, F!At, F!history
  <2>a. th'[t].dir <=> th'[t].op = "freeze"
    BY <1>1 DEF GoesOn, SoundRequest
  <2>2. Current(t)' = c /\ (th'[t].op = "freeze" <=> th[t].op = "freeze")
    BY <1>1, <1>d, <2>1, <2>a DEF Current
  <2>3. \A x \in Own : x # c => want'[x] = want[x]
    BY <2>1 DEF FreezerShape, F!Cgs
  <2>4. F!FrozenIsRecorded'
    <3>1. c \in alive /\ want'[c] => Kept(c)
      BY <1>1, <1>d, <2>1 DEF RecInv, RecordedFirst, F!FrozenIsRecorded, Kept, FreezerShape, F!Cgs
    <3> QED BY <1>1, <2>1, <2>3, <3>1 DEF RecInv, F!FrozenIsRecorded, Kept
  <2>5. RecordedFirst'
    BY <1>1, <1>4, <2>1 DEF RecInv, RecordedFirst, Kept
  <2>6. ThawedFirst'
    <3>1. ASSUME NEW u \in Clients, th'[u].pc \in {"confirm", "landed"}, th'[u].op # "freeze",
                 Current(u)' \in alive, Current(u)' \notin lost, want'[Current(u)']
          PROVE  FALSE
      <4>1. CASE u = t
        <5>1. th'[t].pc = "confirm" /\ ~th[t].dir
          BY <1>d, <2>1, <2>2, <3>1, <4>1
        <5> QED BY <1>1, <2>1, <2>2, <3>1, <4>1, <5>1 DEF FreezerShape, F!Cgs
      <4>2. CASE u # t
        <5>1. /\ Current(u)' = Current(u) /\ th[u].op # "freeze" /\ th[u].pc \in {"confirm", "landed"}
              /\ Current(u) \in Own /\ Current(u) \in th[u].scope /\ F!Busy(u)
          BY <1>4, <3>1, <4>2, CurrentInScope
        <5>2. ~want[Current(u)]
          BY <3>1, <5>1 DEF RecInv, ThawedFirst
        <5>3. Current(u) = c /\ th[t].op = "freeze"
          BY <1>d, <2>1, <2>3, <3>1, <5>1, <5>2 DEF FreezerShape, F!Cgs
        <5> QED BY <1>1, <3>1, <4>2, <5>1, <5>3, Shares
      <4> QED BY <4>1, <4>2
    <3> QED BY <1>1, <2>1, <3>1 DEF ThawedFirst
  <2> QED BY <1>2, <1>3, <2>4, <2>5, <2>6 DEF RecInv
<1>8. CASE F!Confirm(t, c)
  <2>1. /\ th'[t].pc \in {"landed", "failed"} /\ th'[t].todo = th[t].todo /\ th'[t].dir = th[t].dir
        /\ th[t].pc = "confirm" /\ UNCHANGED <<want, lost, record>>
    BY <1>8, StepEffect DEF F!Confirm, F!At, F!kernel, F!history
  <2>a. th'[t].dir <=> th'[t].op = "freeze"
    BY <1>1 DEF GoesOn, SoundRequest
  <2>2. Current(t)' = Current(t) /\ (th'[t].op = "freeze" <=> th[t].op = "freeze")
    BY <1>1, <1>d, <2>1, <2>a DEF Current
  <2>3. F!FrozenIsRecorded' /\ RecordedFirst'
    BY <1>1, <1>4, <2>1 DEF RecInv, F!FrozenIsRecorded, RecordedFirst, Kept
  <2>4. ThawedFirst'
    BY <1>1, <1>4, <2>1, <2>2 DEF RecInv, ThawedFirst
  <2> QED BY <1>2, <1>3, <2>3, <2>4 DEF RecInv
<1>9. CASE F!Failed(t, c)
  <2>1. /\ th'[t].pc \in {"idle", "begin", "flag"} /\ UNCHANGED want
        /\ record \ {c} \subseteq record' /\ (c \notin record' => UNCHANGED record \/ c \in lost')
    BY <1>9, StepEffect DEF F!Forgets, F!Failed, F!kernel, F!Lose, F!Doubt
  <2>2. F!FrozenIsRecorded' /\ RecordedFirst' /\ ThawedFirst'
    BY <1>1, <1>4, <2>1 DEF RecInv, F!FrozenIsRecorded, RecordedFirst, ThawedFirst, Kept
  <2> QED BY <1>2, <1>3, <2>2 DEF RecInv
<1> QED BY <1>5, <1>6, <1>7, <1>8, <1>9 DEF Steps

LEMMA RecInvStep == FreezerShape /\ RecInv /\ [F!Next]_F!vars => RecInv'
<1> SUFFICES ASSUME FreezerShape, RecInv, [F!Next]_F!vars PROVE RecInv'
  OBVIOUS
<1>1. ASSUME UNCHANGED <<want, alive, record, th, phase, boot>>, lost \subseteq lost' PROVE RecInv'
  BY <1>1 DEF RecInv, SharedIsLost, RecordedFirst, ThawedFirst, F!FrozenIsRecorded, NobodyBusy,
              SweepHasIt, F!Busy, Current, Kept
<1>2. ASSUME NEW c \in F!Cgs, F!Settle(c) PROVE RecInv'
  BY <1>1, <1>2 DEF F!Settle, F!history
<1>3. ASSUME NEW c \in F!Cgs, F!Vanish(c) PROVE RecInv'
  <2>1. /\ alive' = alive \ {c} /\ lost \ {c} \subseteq lost'
        /\ \A x \in F!Cgs \ {c} : want'[x] = want[x]
        /\ UNCHANGED <<record, th, phase, boot>>
    BY <1>3 DEF F!Vanish, F!Settled, FreezerShape
  <2>2. SharedIsLost' /\ NobodyBusy'
    BY <2>1 DEF RecInv, SharedIsLost, NobodyBusy, F!Busy
  <2>3. RecordedFirst'
    BY <2>1 DEF RecInv, RecordedFirst, Current, Kept
  <2>4. ThawedFirst'
    BY <2>1 DEF RecInv, ThawedFirst, Current, FreezerShape
  <2>5. F!FrozenIsRecorded' /\ SweepHasIt'
    BY <2>1 DEF RecInv, F!FrozenIsRecorded, SweepHasIt, F!Cgs
  <2> QED BY <2>2, <2>3, <2>4, <2>5 DEF RecInv
<1>4. CASE F!Limit
  BY <1>1, <1>4 DEF F!Limit, F!Doubt, F!kernel
<1>5. ASSUME NEW t \in Clients, F!Lift(t) \/ \E f \in BOOLEAN : F!Freeze(t, f) PROVE RecInv'
  <2>1. ASSUME NEW op \in {"freeze", "unfreeze", "lift"}, NEW dir \in BOOLEAN, Starts(t, op, dir)
        PROVE  RecInv'
    <3>1. /\ \A u \in Clients \ {t} : th'[u] = th[u]
          /\ th'[t].pc = "begin" /\ th'[t].op = op /\ th'[t].scope = entry.cgroups
          /\ lost \subseteq lost' /\ phase = "up"
          /\ \A u \in Clients \ {t} : F!Busy(u) /\ (op = "freeze" \/ th[u].op = "freeze")
                => entry.cgroups \cap th[u].scope \subseteq lost'
          /\ UNCHANGED <<want, frozen, alive, record, phase, boot>>
      <4>1. entry.cgroups \in SUBSET Own /\ entry.cgroups # {}
        BY <2>1 DEF Starts, FreezerShape
      <4> QED BY <2>1, <4>1, StartEffect DEF Starts, F!kernel
    <3>2. SharedIsLost'
      <4>1. ASSUME NEW u \in Clients, NEW v \in Clients, u # v, F!Busy(u)', F!Busy(v)', th'[u].op = "freeze"
            PROVE  th'[u].scope \cap th'[v].scope \cap alive \subseteq lost'
        <5>1. CASE u = t
          BY <3>1, <4>1, <5>1 DEF F!Busy
        <5>2. CASE v = t
          BY <3>1, <4>1, <5>2 DEF F!Busy
        <5>3. CASE u # t /\ v # t
          BY <3>1, <4>1, <5>3 DEF RecInv, SharedIsLost, F!Busy
        <5> QED BY <5>1, <5>2, <5>3
      <4> QED BY <3>1, <4>1 DEF SharedIsLost
    <3>3. NobodyBusy' /\ SweepHasIt' /\ F!FrozenIsRecorded'
      BY <3>1 DEF RecInv, NobodyBusy, SweepHasIt, F!FrozenIsRecorded
    <3>4. RecordedFirst' /\ ThawedFirst'
      BY <3>1 DEF RecInv, RecordedFirst, ThawedFirst, Current, Kept
    <3> QED BY <3>2, <3>3, <3>4 DEF RecInv
  <2>2. CASE entry' = F!None /\ UNCHANGED <<F!kernel, record, th, phase, boot, F!history>>
    BY <1>1, <2>2 DEF F!kernel, F!history
  <2> QED BY <1>5, <2>1, <2>2, Beginnings
<1>6. ASSUME NEW t \in Clients, F!Flag(t) PROVE RecInv'
  <2>1. /\ GoesOn(t) /\ th'[t].pc \in {"idle", "begin"}
        /\ UNCHANGED <<want, alive, record, phase, boot, lost>>
    BY <1>6, FlagEffect DEF F!Flag, F!kernel, F!history
  <2>2. SharedIsLost' /\ NobodyBusy'
    BY <2>1, OthersStay
  <2>3. RecordedFirst' /\ ThawedFirst'
    BY <2>1 DEF GoesOn, RecInv, RecordedFirst, ThawedFirst, Current, Kept
  <2>4. F!FrozenIsRecorded' /\ SweepHasIt'
    BY <2>1 DEF RecInv, F!FrozenIsRecorded, SweepHasIt
  <2> QED BY <2>2, <2>3, <2>4 DEF RecInv
<1>7. ASSUME NEW t \in Clients, NEW c \in Own, Steps(t, c) PROVE RecInv'
  BY <1>7, StepKeepsRecord
<1>8. CASE F!Crash \/ F!BootRead
  <2>1. \A t \in Clients : th'[t].pc = "idle"
    BY <1>8, IdleEffect DEF F!Crash, F!BootRead, RecInv, NobodyBusy, F!Busy, FreezerShape
  <2>2. F!FrozenIsRecorded' /\ SweepHasIt'
    BY <1>8 DEF F!Crash, F!BootRead, RecInv, F!FrozenIsRecorded, SweepHasIt, F!kernel, F!history
  <2> QED
    BY <2>1, <2>2 DEF RecInv, SharedIsLost, RecordedFirst, ThawedFirst, NobodyBusy, F!Busy
<1>9. CASE F!BootDone
  <2>1. \A t \in Clients : th'[t].pc = "idle"
    BY <1>9 DEF F!BootDone, RecInv, NobodyBusy, F!Busy
  <2>2. F!FrozenIsRecorded' /\ SweepHasIt'
    BY <1>9 DEF F!BootDone, RecInv, F!FrozenIsRecorded, SweepHasIt, F!kernel, F!history
  <2> QED
    BY <2>1, <2>2 DEF RecInv, SharedIsLost, RecordedFirst, ThawedFirst, NobodyBusy, F!Busy
<1>10. ASSUME NEW c \in F!Cgs, F!BootThaw(c) PROVE RecInv'
  <2>1. \A t \in Clients : th'[t].pc = "idle"
    BY <1>10 DEF F!BootThaw, RecInv, NobodyBusy, F!Busy
  <2>2. /\ \A x \in F!Cgs \ {c} : want'[x] = want[x]
        /\ want'[c] => want[c] /\ c \in F!Cgs
        /\ lost \ {c} \subseteq lost' /\ (want'[c] /\ c \in alive => lost \subseteq lost')
        /\ UNCHANGED <<alive, record, phase>>
    BY <1>10 DEF F!BootThaw, F!Settled, F!Doubt, FreezerShape, F!history
  <2>3. c \in alive /\ want'[c] => c \in boot'.keep
    BY <1>10 DEF F!BootThaw, FreezerShape
  <2>4. boot.todo \ {c} \subseteq boot'.todo /\ boot.keep \subseteq boot'.keep
    <3>1. \/ boot' = [boot EXCEPT !.todo = @ \ {c}]
          \/ boot' = [todo |-> boot.todo \ {c}, keep |-> boot.keep \cup {c}]
      BY <1>10 DEF F!BootThaw
    <3> QED BY <3>1 DEF FreezerShape
  <2>5. F!FrozenIsRecorded' /\ SweepHasIt'
    BY <2>2, <2>3, <2>4 DEF RecInv, F!FrozenIsRecorded, SweepHasIt, F!Cgs
  <2> QED
    BY <2>1, <2>5 DEF RecInv, SharedIsLost, RecordedFirst, ThawedFirst, NobodyBusy, F!Busy
<1>11. CASE UNCHANGED F!vars
  BY <1>1, <1>11 DEF F!vars, F!kernel, F!history
<1> QED BY <1>2, <1>3, <1>4, <1>5, <1>6, <1>7, <1>8, <1>9, <1>10, <1>11 DEF F!Next, Steps

\* Whatever requests overlap and wherever the process ends, a cgroup of the app that has been
\* told to freeze is in the state file for the next start to thaw, or was given up as lost
\* (freeze_cgroup, freeze.record and forget, thaw_recorded).
THEOREM FreezesAreRecorded == Own \cap Foreign = {} /\ F!Spec => []F!FrozenIsRecorded
<1> SUFFICES ASSUME Own \cap Foreign = {} PROVE F!Spec => []F!FrozenIsRecorded
  OBVIOUS
<1>1. F!Init => FreezerShape /\ RecInv
  BY FreezerShapeInit, RecInvInit
<1>2. FreezerShape /\ RecInv /\ [F!Next]_F!vars => FreezerShape' /\ RecInv'
  BY FreezerShapeStep, RecInvStep
<1>3. RecInv => F!FrozenIsRecorded
  BY DEF RecInv
<1> QED BY <1>1, <1>2, <1>3, PTL DEF F!Spec

-----------------------------------------------------------------------------
(***************************************************************************)
(* The flag.  For each cgroup that is not in doubt, every request answers  *)
(* for what it has done so far: a freeze for the cgroups it has frozen, a  *)
(* thaw for those it has passed.  No two requests of which one freezes     *)
(* share such a cgroup, and every request covers all the cgroups that      *)
(* still exist, so that a freeze works on it alone.                        *)
(***************************************************************************)

Sure == (Own \cap alive) \ doubt

\* t has written what it wants for c, and waits for the kernel or for its own bookkeeping;
\* or has tried to
Written(t, c) == th[t].pc \in {"confirm", "landed"} /\ c = Current(t)
Touched(t, c) == th[t].pc \in {"confirm", "landed", "failed"} /\ c = Current(t)

Covered ==
    /\ entry.limited => Own \cap alive \subseteq entry.cgroups
    /\ \A t \in Clients : F!Busy(t) => Own \cap alive \subseteq th[t].scope
Whole ==
    \A t \in Clients : /\ th[t].pc = "flag" => th[t].todo = {}
                       /\ th[t].op = "freeze" => th[t].scope \subseteq th[t].todo \cup th[t].done
Unlimited == phase # "up" => entry = F!None

Froze(t, c) ==
    F!Busy(t) /\ th[t].op = "freeze" => /\ c \in th[t].done \/ Written(t, c) => want[c]
                                        /\ want[c] => c \in th[t].done \/ Touched(t, c)
Thawed(t, c) ==
    F!Busy(t) /\ th[t].op # "freeze" => (c \notin th[t].todo \/ Written(t, c) => ~want[c])
WhileFrozen(c) ==
    entry.frozen => /\ \A t \in Clients : F!Busy(t) => th[t].op = "unfreeze"
                    /\ ~want[c] => \E t \in Clients : F!Busy(t) /\ (c \in th[t].done \/ Touched(t, c))
\* t has c to thaw, or will have
Owes(t, c) == F!Busy(t) /\ (th[t].op = "freeze" \/ (th[t].op \in {"lift", "rollback"} /\ c \in th[t].todo))
WhileFree(c) == phase = "up" /\ ~entry.frozen /\ want[c] => \E t \in Clients : Owes(t, c)
SweepHas(c) == phase = "boot" /\ want[c] => c \in boot.todo

Followed(c) ==
    /\ \A t \in Clients : Froze(t, c) /\ Thawed(t, c)
    /\ WhileFrozen(c) /\ WhileFree(c) /\ SweepHas(c)

FlagInv == Covered /\ Whole /\ Unlimited /\ \A c \in Sure : Followed(c)

\* All that is known of a state.
FreezerKnown == FreezerShape /\ RecInv /\ FlagInv

\* A freeze of a cgroup that is not in doubt is the only request there is.
LEMMA FreezesAlone ==
    ASSUME FreezerKnown, NEW c \in Sure, NEW t \in Clients, F!Busy(t), th[t].op = "freeze",
           NEW u \in Clients, F!Busy(u)
    PROVE  u = t
<1>1. c \in th[t].scope /\ c \in th[u].scope /\ c \in alive /\ c \notin lost
  BY DEF FreezerKnown, FlagInv, Covered, Sure, FreezerShape
<1> QED BY <1>1 DEF FreezerKnown, RecInv, SharedIsLost

\* What becomes of the request whose c has been dealt with.
Remains(t, c, ok) ==
    /\ th'[t].op = th[t].op /\ th'[t].scope = th[t].scope /\ th'[t].todo = th[t].todo \ {c}
    /\ th'[t].done = IF ok THEN th[t].done \cup {c} ELSE th[t].done
    /\ th'[t].pc \in {"begin", "flag"} /\ (th'[t].pc = "flag" => th[t].todo \ {c} = {})
    /\ ok \/ th[t].op \in {"lift", "rollback"}
Ends(t, c) == th'[t] = F!Idle /\ th[t].op \in {"lift", "rollback"} /\ th[t].todo \subseteq {c}
TurnsBack(t) ==
    /\ th[t].op = "freeze" /\ th'[t].op = "rollback" /\ th'[t].scope = th[t].scope
    /\ th'[t].todo = th[t].done /\ th'[t].done = th[t].done /\ th'[t].pc = "begin"
GivesUp(t) == th'[t] = F!Idle /\ th[t].op \notin {"lift", "rollback"} /\ (th[t].op = "freeze" => th[t].done = {})

LEMMA AdvanceOutcome ==
    ASSUME FreezerShape, NEW t \in Clients, NEW c \in th[t].todo, NEW ok \in BOOLEAN, F!Advance(t, c, ok)
    PROVE  \/ Remains(t, c, ok)
           \/ Ends(t, c)
           \/ ~ok /\ TurnsBack(t)
           \/ ~ok /\ GivesUp(t)
<1> DEFINE s == th[t]
           rest == s.todo \ {c}
           over == s.op \in {"lift", "rollback"}
           pc == IF rest # {} THEN "begin" ELSE IF over THEN "idle" ELSE "flag"
           done == IF ok THEN s.done \cup {c} ELSE s.done
           next == [s EXCEPT !.pc = pc, !.todo = rest, !.done = IF ok THEN @ \cup {c} ELSE @]
           new == IF ok \/ over
                  THEN IF next.pc = "idle" THEN F!Idle ELSE next
                  ELSE IF s.op = "freeze" /\ s.done # {} THEN F!Undo(s) ELSE F!Idle
<1>1. s \in Requests
  BY DEF FreezerShape
<1>2. th'[t] = new
  BY DEF F!Advance, FreezerShape
<1>3. /\ next.pc = pc /\ next.todo = rest /\ next.done = done /\ next.op = s.op /\ next.scope = s.scope
  <2>1. next = [s EXCEPT !.pc = pc, !.todo = rest, !.done = done]
    OBVIOUS
  <2> HIDE DEF pc, rest, done, next
  <2> QED BY <1>1, <2>1 DEF Requests
<1>4. CASE (ok \/ over) /\ pc = "idle"
  BY <1>2, <1>3, <1>4 DEF Ends
<1>5. CASE (ok \/ over) /\ pc # "idle"
  <2>1. new = next /\ pc \in {"begin", "flag"} /\ (pc = "flag" => rest = {})
    BY <1>3, <1>5
  <2> HIDE DEF next, new
  <2> QED BY <1>2, <1>3, <1>5, <2>1 DEF Remains
<1>6. CASE ~(ok \/ over) /\ s.op = "freeze" /\ s.done # {}
  <2>1. th'[t] = [s EXCEPT !.pc = "begin", !.op = "rollback", !.dir = FALSE, !.todo = s.done]
    BY <1>2, <1>6 DEF F!Undo
  <2> QED BY <1>1, <1>6, <2>1 DEF TurnsBack, Requests
<1>7. CASE ~(ok \/ over) /\ ~(s.op = "freeze" /\ s.done # {})
  BY <1>2, <1>7 DEF GivesUp
<1> QED BY <1>4, <1>5, <1>6, <1>7

\* A request that only moves on to another place.
LEMMA GoExact ==
    ASSUME FreezerShape, NEW t \in Clients, NEW pc \in RequestPcs, F!Go(t, pc)
    PROVE  /\ th'[t].pc = pc /\ th'[t].op = th[t].op /\ th'[t].scope = th[t].scope
           /\ th'[t].todo = th[t].todo /\ th'[t].done = th[t].done
           /\ \A u \in Clients \ {t} : th'[u] = th[u]
<1>1. th[t] \in Requests /\ t \in DOMAIN th /\ th'[t] = [th[t] EXCEPT !.pc = pc]
  BY DEF F!Go, FreezerShape
<1>2. \A u \in Clients \ {t} : th'[u] = th[u]
  BY DEF F!Go, FreezerShape
<1> QED BY <1>1, <1>2 DEF Requests

\* Once c is dealt with, or given up, the others are still followed.
LEMMA AdvanceFollows ==
    ASSUME FreezerKnown, NEW t \in Clients, NEW c \in th[t].todo, NEW ok \in BOOLEAN, F!Advance(t, c, ok),
           F!Busy(t), UNCHANGED <<want, entry, phase, boot>>, \A u \in Clients \ {t} : th'[u] = th[u],
           NEW x \in Sure, Followed(x),
           ok => (x = c => (want[c] <=> th[t].op = "freeze")),
           ~ok => x # c /\ (th[t].op # "freeze" => x \notin th[t].done),
           Touched(t, x) => x = c
    PROVE  Followed(x)'
<1>1. \A u \in Clients \ {t} : /\ th'[u] = th[u] /\ Current(u)' = Current(u)
                               /\ F!Busy(u)' = F!Busy(u) /\ Written(u, x)' = Written(u, x)
                               /\ Touched(u, x)' = Touched(u, x)
  BY DEF F!Busy, Written, Touched, Current
<1>2. \A u \in Clients \ {t} : Froze(u, x)' /\ Thawed(u, x)'
  BY <1>1 DEF Followed, Froze, Thawed
<1>3. SweepHas(x)'
  BY DEF Followed, SweepHas
<1>4. x \in th[t].scope /\ Froze(t, x) /\ Thawed(t, x)
  BY DEF FreezerKnown, FlagInv, Covered, Sure, Followed
<1>5. CASE Remains(t, c, ok)
  <2>1. F!Busy(t)' /\ ~Written(t, x)' /\ ~Touched(t, x)'
    BY <1>5 DEF Remains, F!Busy, Written, Touched
  <2>2. Froze(t, x)'
    BY <1>4, <1>5, <2>1 DEF Remains, Froze
  <2>3. Thawed(t, x)'
    BY <1>4, <1>5, <2>1 DEF Remains, Thawed
  <2>4. WhileFrozen(x)'
    <3>1. ASSUME entry.frozen
          PROVE  /\ \A u \in Clients : F!Busy(u)' => th'[u].op = "unfreeze"
                 /\ ~want[x] => \E u \in Clients : F!Busy(u) /\ (x \in th[u].done \/ Touched(u, x))
      BY <1>1, <1>5, <3>1 DEF Remains, Followed, WhileFrozen
    <3>2. ASSUME entry.frozen, NEW u \in Clients, F!Busy(u), x \in th[u].done \/ Touched(u, x)
          PROVE  F!Busy(u)' /\ (x \in th'[u].done \/ Touched(u, x)')
      <4>1. CASE u # t
        BY <1>1, <3>2, <4>1
      <4>2. CASE u = t
        <5>1. th[t].op = "unfreeze"
          BY <3>2 DEF Followed, WhileFrozen
        <5>2. ok
          BY <1>5, <5>1 DEF Remains
        <5> QED BY <1>5, <2>1, <3>2, <4>2, <5>2 DEF Remains
      <4> QED BY <4>1, <4>2
    <3> QED BY <3>1, <3>2 DEF WhileFrozen
  <2>5. WhileFree(x)'
    <3>1. ASSUME phase = "up", ~entry.frozen, want[x] PROVE \E u \in Clients : Owes(u, x)'
      <4>1. PICK u \in Clients : Owes(u, x)
        BY <3>1 DEF Followed, WhileFree
      <4>2. CASE u # t
        BY <1>1, <4>1, <4>2 DEF Owes
      <4>3. CASE u = t
        <5>1. th[t].op # "freeze" => x # c
          BY <1>4, <3>1
        <5> QED BY <1>5, <2>1, <4>1, <4>3, <5>1 DEF Remains, Owes
      <4> QED BY <4>2, <4>3
    <3> QED BY <3>1 DEF WhileFree
  <2> QED BY <1>2, <1>3, <2>2, <2>3, <2>4, <2>5 DEF Followed
<1>6. CASE th'[t] = F!Idle
  <2>1. ~F!Busy(t)'
    BY <1>6, IdleEffect DEF F!Busy
  <2>2. Froze(t, x)' /\ Thawed(t, x)'
    BY <2>1 DEF Froze, Thawed
  <2>3. Ends(t, c) \/ (~ok /\ GivesUp(t))
    <3>1. ~Remains(t, c, ok) /\ ~TurnsBack(t)
      BY <1>6, IdleEffect DEF Remains, TurnsBack
    <3> QED BY <3>1, AdvanceOutcome DEF FreezerKnown
  <2>4. WhileFrozen(x)'
    <3>1. ASSUME entry.frozen
          PROVE  /\ \A u \in Clients : F!Busy(u)' => th'[u].op = "unfreeze"
                 /\ th[t].op = "unfreeze"
      BY <1>1, <2>1, <3>1 DEF Followed, WhileFrozen
    <3>2. ASSUME entry.frozen, ~want[x]
          PROVE  \E u \in Clients : F!Busy(u)' /\ (x \in th'[u].done \/ Touched(u, x)')
      <4>1. PICK u \in Clients : F!Busy(u) /\ (x \in th[u].done \/ Touched(u, x))
        BY <3>2 DEF Followed, WhileFrozen
      <4>2. u # t
        BY <2>3, <3>1, <3>2, <4>1 DEF Ends
      <4> QED BY <1>1, <4>1, <4>2
    <3> QED BY <3>1, <3>2 DEF WhileFrozen
  <2>5. WhileFree(x)'
    <3>1. ASSUME phase = "up", ~entry.frozen, want[x] PROVE \E u \in Clients : Owes(u, x)'
      <4>1. PICK u \in Clients : Owes(u, x)
        BY <3>1 DEF Followed, WhileFree
      <4>2. u # t
        <5>1. ASSUME u = t PROVE FALSE
          <6>1. CASE th[t].op = "freeze"
            <7>1. ~ok /\ th[t].done = {}
              BY <2>3, <6>1 DEF Ends, GivesUp
            <7> QED BY <1>4, <3>1, <6>1, <7>1 DEF Froze
          <6>2. CASE th[t].op # "freeze"
            BY <1>4, <2>3, <3>1, <4>1, <5>1, <6>2 DEF Owes, Ends, GivesUp
          <6> QED BY <6>1, <6>2
        <5> QED BY <5>1
      <4> QED BY <1>1, <4>1, <4>2 DEF Owes
    <3> QED BY <3>1 DEF WhileFree
  <2> QED BY <1>2, <1>3, <2>2, <2>4, <2>5 DEF Followed
<1>7. CASE ~ok /\ TurnsBack(t)
  <2>1. F!Busy(t)' /\ ~Written(t, x)' /\ ~Touched(t, x)' /\ ~Touched(t, x)
    BY <1>7 DEF TurnsBack, F!Busy, Written, Touched
  <2>2. Froze(t, x)'
    BY <1>7 DEF TurnsBack, Froze
  <2>3. want[x] => x \in th[t].done
    BY <1>4, <1>7, <2>1 DEF TurnsBack, Froze
  <2>4. Thawed(t, x)'
    BY <1>7, <2>1, <2>3 DEF TurnsBack, Thawed
  <2>5. ~entry.frozen
    BY <1>7 DEF TurnsBack, Followed, WhileFrozen
  <2>6. WhileFrozen(x)'
    BY <2>5 DEF WhileFrozen
  <2>7. WhileFree(x)'
    <3>1. want[x] => Owes(t, x)'
      BY <1>7, <2>1, <2>3 DEF TurnsBack, Owes
    <3> QED BY <3>1 DEF WhileFree
  <2> QED BY <1>2, <1>3, <2>2, <2>4, <2>6, <2>7 DEF Followed
<1> QED BY <1>5, <1>6, <1>7, AdvanceOutcome DEF FreezerKnown, Ends, GivesUp

\* The requests that do not move are as they were.
LEMMA OthersFollowed ==
    ASSUME FreezerShape, NEW t \in Clients, \A u \in Clients \ {t} : th'[u] = th[u]
    PROVE  \A u \in Clients \ {t} :
               /\ Current(u)' = Current(u) /\ F!Busy(u)' = F!Busy(u)
               /\ \A x : /\ Written(u, x)' = Written(u, x) /\ Touched(u, x)' = Touched(u, x)
                         /\ Owes(u, x)' = Owes(u, x)
  BY DEF F!Busy, Written, Touched, Current, Owes

\* A step that leaves its request and the kernel's files as they are, but for its place.
LEMMA MoveFollows ==
    ASSUME FreezerKnown, NEW t \in Clients, NEW pc \in {"write", "landed", "failed"}, F!Go(t, pc),
           \/ th[t].pc = "begin" /\ pc = "write"
           \/ th[t].pc = "write" /\ pc = "failed"
           \/ th[t].pc = "confirm" /\ pc \in {"landed", "failed"},
           UNCHANGED <<want, entry, phase, boot>>, NEW x \in Sure, Followed(x)
    PROVE  Followed(x)'
<1>1. /\ th'[t].pc = pc /\ th'[t].op = th[t].op /\ th'[t].todo = th[t].todo /\ th'[t].done = th[t].done
      /\ \A u \in Clients \ {t} : th'[u] = th[u]
  BY GoExact DEF FreezerKnown, RequestPcs
<1>2. Current(t)' = Current(t) /\ F!Busy(t)' /\ F!Busy(t)
  BY <1>1 DEF Current, F!Busy
<1>3. /\ Written(t, x)' => Written(t, x)
      /\ Touched(t, x) => Touched(t, x)'
  BY <1>1, <1>2 DEF Written, Touched
<1>4. \A u \in Clients \ {t} : /\ F!Busy(u)' = F!Busy(u) /\ Owes(u, x)' = Owes(u, x)
                               /\ Written(u, x)' = Written(u, x) /\ Touched(u, x)' = Touched(u, x)
  BY <1>1, OthersFollowed DEF FreezerKnown
<1>5. \A u \in Clients : Froze(u, x)' /\ Thawed(u, x)'
  <2>1. Froze(t, x)' /\ Thawed(t, x)'
    BY <1>1, <1>2, <1>3 DEF Followed, Froze, Thawed
  <2>2. \A u \in Clients \ {t} : Froze(u, x)' /\ Thawed(u, x)'
    BY <1>1, <1>4 DEF Followed, Froze, Thawed
  <2> QED BY <2>1, <2>2
<1>6. WhileFrozen(x)'
  <2>1. \A u \in Clients : /\ F!Busy(u)' = F!Busy(u) /\ th'[u].op = th[u].op
                           /\ x \in th[u].done \/ Touched(u, x) => x \in th'[u].done \/ Touched(u, x)'
    <3>1. \A u \in Clients \ {t} : /\ F!Busy(u)' = F!Busy(u) /\ th'[u] = th[u]
                                   /\ Touched(u, x)' = Touched(u, x)
      BY <1>1, <1>4
    <3>2. F!Busy(t)' = F!Busy(t)
      BY <1>2 DEF F!Busy
    <3>3. /\ th'[t].op = th[t].op
          /\ x \in th[t].done \/ Touched(t, x) => x \in th'[t].done \/ Touched(t, x)'
      BY <1>1, <1>3
    <3> HIDE DEF F!Busy, Touched
    <3> QED BY <3>1, <3>2, <3>3
  <2> QED BY <2>1 DEF Followed, WhileFrozen
<1>7. WhileFree(x)'
  <2>1. \A u \in Clients : Owes(u, x)' = Owes(u, x)
    BY <1>1, <1>2, <1>4 DEF Owes
  <2> QED BY <2>1 DEF Followed, WhileFree
<1>8. SweepHas(x)'
  BY DEF Followed, SweepHas
<1> QED BY <1>5, <1>6, <1>7, <1>8 DEF Followed

\* A write that gets through: a freeze is alone, and a thaw takes nothing from another thaw.
LEMMA WriteFollows ==
    ASSUME FreezerKnown, NEW t \in Clients, NEW c \in Own, c = Current(t), th[t].pc = "write", F!Go(t, "confirm"),
           want' = [want EXCEPT ![c] = th[t].dir],
           UNCHANGED <<entry, phase, boot>>, NEW x \in Sure, Followed(x)
    PROVE  Followed(x)'
<1>1. /\ th'[t].pc = "confirm" /\ th'[t].op = th[t].op /\ th'[t].todo = th[t].todo /\ th'[t].done = th[t].done
      /\ \A u \in Clients \ {t} : th'[u] = th[u]
  BY GoExact DEF FreezerKnown, RequestPcs
<1>2. Current(t)' = c /\ F!Busy(t)' /\ F!Busy(t) /\ ~Written(t, x) /\ ~Touched(t, x)
      /\ (Written(t, x)' <=> x = c) /\ (Touched(t, x)' <=> x = c)
  BY <1>1 DEF Current, F!Busy, Written, Touched
<1>4. \A u \in Clients \ {t} : /\ F!Busy(u)' = F!Busy(u) /\ Owes(u, x)' = Owes(u, x)
                               /\ Written(u, x)' = Written(u, x) /\ Touched(u, x)' = Touched(u, x)
  BY <1>1, OthersFollowed DEF FreezerKnown
<1>5. /\ x # c => want'[x] = want[x]
      /\ x = c => (want'[x] <=> th[t].op = "freeze")
  BY DEF FreezerKnown, FreezerShape, SoundRequest, Sure, F!Cgs
<1>6. \A u \in Clients \ {t} : F!Busy(u) => th[t].op # "freeze" /\ th[u].op # "freeze"
  BY <1>2, FreezesAlone
<1>7. \A u \in Clients : Froze(u, x)' /\ Thawed(u, x)'
  <2>1. Froze(t, x)' /\ Thawed(t, x)'
    <3>1. Froze(t, x) /\ Thawed(t, x)
      BY DEF Followed
    <3>2. x \notin th[t].todo => x # c
      BY CurrentInScope DEF FreezerKnown
    <3> QED BY <1>1, <1>2, <1>5, <3>1, <3>2 DEF Froze, Thawed
  <2>2. ASSUME NEW u \in Clients \ {t} PROVE Froze(u, x)' /\ Thawed(u, x)'
    <3>1. Froze(u, x) /\ Thawed(u, x)
      BY DEF Followed
    <3> QED BY <1>1, <1>4, <1>5, <1>6, <3>1 DEF Froze, Thawed
  <2> QED BY <2>1, <2>2
<1>8. WhileFrozen(x)'
  <2>1. ASSUME entry.frozen, ~want'[x]
        PROVE  \E u \in Clients : F!Busy(u)' /\ (x \in th'[u].done \/ Touched(u, x)')
    <3>1. CASE x = c
      BY <1>2, <3>1
    <3>2. CASE x # c
      <4>1. PICK u \in Clients : F!Busy(u) /\ (x \in th[u].done \/ Touched(u, x))
        BY <1>5, <2>1, <3>2 DEF Followed, WhileFrozen
      <4>2. CASE u = t
        BY <1>1, <1>2, <4>1, <4>2
      <4>3. CASE u # t
        BY <1>1, <1>4, <4>1, <4>3
      <4> QED BY <4>2, <4>3
    <3> QED BY <3>1, <3>2
  <2>2. entry.frozen => \A u \in Clients : F!Busy(u)' => th'[u].op = "unfreeze"
    BY <1>1, <1>2, <1>4 DEF Followed, WhileFrozen
  <2> QED BY <2>1, <2>2 DEF WhileFrozen
<1>9. WhileFree(x)'
  <2>1. ASSUME phase = "up", ~entry.frozen, want'[x] PROVE \E u \in Clients : Owes(u, x)'
    <3>1. CASE x = c
      BY <1>1, <1>2, <1>5, <2>1, <3>1 DEF Owes
    <3>2. CASE x # c
      <4>1. PICK u \in Clients : Owes(u, x)
        BY <1>5, <2>1, <3>2 DEF Followed, WhileFree
      <4> QED BY <1>1, <1>2, <1>4, <4>1 DEF Owes
    <3> QED BY <3>1, <3>2
  <2> QED BY <2>1 DEF WhileFree
<1>10. SweepHas(x)'
  <2>1. phase = "up"
    BY <1>2 DEF FreezerKnown, RecInv, NobodyBusy
  <2> QED BY <2>1 DEF SweepHas
<1> QED BY <1>7, <1>8, <1>9, <1>10 DEF Followed

\* A request stays on the cgroups it began with, or ends.
Stays(t) ==
    /\ th'[t].pc = "idle" \/ th'[t].scope = th[t].scope
    /\ th'[t].pc = "flag" => th'[t].todo = {}
    /\ th'[t].op = "freeze" => th'[t].scope \subseteq th'[t].todo \cup th'[t].done

LEMMA StaysCovered ==
    ASSUME FreezerKnown, NEW t \in Clients, Stays(t), \A u \in Clients \ {t} : th'[u] = th[u], F!Busy(t),
           alive' = alive, entry'.limited => entry.limited /\ entry'.cgroups = entry.cgroups,
           phase = "up", UNCHANGED phase
    PROVE  Covered' /\ Whole' /\ Unlimited'
<1>1. \A u \in Clients : F!Busy(u)' => F!Busy(u) /\ th'[u].scope = th[u].scope
  BY DEF Stays, F!Busy
<1>2. Covered'
  BY <1>1 DEF FreezerKnown, FlagInv, Covered
<1>3. Whole'
  BY DEF Stays, FreezerKnown, FlagInv, Whole
<1> QED BY <1>2, <1>3 DEF Unlimited

LEMMA StepKeepsFlag ==
    ASSUME FreezerKnown, NEW t \in Clients, NEW c \in Own, Steps(t, c)
    PROVE  FlagInv'
<1>1. /\ c \in th[t].todo /\ c = Current(t) /\ F!Busy(t) /\ phase = "up"
      /\ UNCHANGED <<alive, entry, phase, boot>> /\ doubt \subseteq doubt'
      /\ \A u \in Clients \ {t} : th'[u] = th[u]
  BY StepEffect DEF FreezerKnown, Current, GoesOn, F!Busy, Steps, F!BeginGone, F!Begin, F!Write, F!Confirm, F!Landed,
                    F!Failed, F!kernel, F!history, F!Lose, F!Doubt, RecInv, NobodyBusy
<1>2. th[t] \in Requests /\ SoundRequest(th[t])
  BY DEF FreezerKnown, FreezerShape
<1>a. th[t].dir <=> th[t].op = "freeze"
  BY <1>2 DEF SoundRequest
<1>3. ASSUME NEW ok \in BOOLEAN, F!Advance(t, c, ok) PROVE Stays(t)
  <2>1. CASE Remains(t, c, ok)
    BY <1>2, <2>1 DEF Remains, Stays, FreezerKnown, FlagInv, Whole
  <2>2. CASE th'[t] = F!Idle
    BY <2>2, IdleEffect DEF Stays
  <2>3. CASE TurnsBack(t)
    BY <2>3 DEF TurnsBack, Stays
  <2> QED BY <1>1, <1>3, <2>1, <2>2, <2>3, AdvanceOutcome DEF FreezerKnown, Ends, GivesUp
<1>4. ASSUME NEW pc \in {"write", "confirm", "landed", "failed"}, F!Go(t, pc) PROVE Stays(t)
  BY <1>2, <1>4, GoExact DEF FreezerKnown, Stays, RequestPcs, FlagInv, Whole
<1>5. Stays(t)
  <2>1. (~th[t].dir) \in BOOLEAN
    OBVIOUS
  <2>2. \/ \E ok \in BOOLEAN : F!Advance(t, c, ok)
        \/ \E pc \in {"write", "confirm", "landed", "failed"} : F!Go(t, pc)
    BY <2>1 DEF Steps, F!BeginGone, F!Begin, F!Write, F!Confirm, F!Landed, F!Failed
  <2> QED BY <1>3, <1>4, <2>2
<1>6. Covered' /\ Whole' /\ Unlimited'
  BY <1>1, <1>5, StaysCovered
<1>7. ASSUME NEW x \in Sure' PROVE Followed(x)'
  <2>1. x \in Sure /\ Followed(x)
    BY <1>1, <1>7 DEF Sure, FreezerKnown, FlagInv
  <2>2. x \in th[t].scope /\ x \in alive
    BY <1>1, <2>1 DEF FreezerKnown, FlagInv, Covered, Sure
  <2>3. CASE F!BeginGone(t, c)
    <3>1. F!Advance(t, c, ~th[t].dir) /\ x # c /\ th[t].pc = "begin" /\ UNCHANGED want
      BY <2>2, <2>3 DEF F!BeginGone, F!At, F!kernel
    <3>2. ~Touched(t, x)
      BY <3>1 DEF Touched
    <3>3. PICK ok \in BOOLEAN : F!Advance(t, c, ok) /\ (ok <=> ~th[t].dir)
      BY <1>2, <3>1 DEF Requests
    <3> QED BY <1>1, <1>a, <2>1, <3>1, <3>2, <3>3, AdvanceFollows
  <2>4. CASE F!Landed(t, c)
    <3>1. F!Advance(t, c, TRUE) /\ th[t].pc = "landed" /\ UNCHANGED want
      BY <2>4 DEF F!Landed, F!At, F!kernel
    <3>2. x = c => Written(t, x)
      BY <1>1, <3>1 DEF Written
    <3>3. x = c => (want[c] <=> th[t].op = "freeze")
      BY <1>1, <2>1, <3>2 DEF Followed, Froze, Thawed
    <3>4. Touched(t, x) => x = c
      BY <1>1 DEF Touched
    <3> QED BY <1>1, <2>1, <3>1, <3>3, <3>4, AdvanceFollows
  <2>5. CASE F!Failed(t, c)
    <3>1. F!Advance(t, c, FALSE) /\ UNCHANGED want
      BY <2>5 DEF F!Failed, F!kernel
    <3>2. x # c /\ (th[t].op # "freeze" => x \notin th[t].done)
      BY <1>7, <1>a, <2>5 DEF F!Failed, F!Lose, F!Doubt, Sure
    <3>3. Touched(t, x) => x = c
      BY <1>1 DEF Touched
    <3> QED BY <1>1, <2>1, <3>1, <3>2, <3>3, AdvanceFollows
  <2>6. CASE F!Begin(t, c)
    <3>1. F!Go(t, "write") /\ th[t].pc = "begin" /\ UNCHANGED want
      BY <2>6 DEF F!Begin, F!At, F!kernel
    <3> QED BY <1>1, <2>1, <3>1, MoveFollows
  <2>7. CASE F!Write(t, c)
    <3>1. th[t].pc = "write"
      BY <2>7 DEF F!Write, F!At
    <3>2. CASE F!Go(t, "failed") /\ UNCHANGED want
      BY <1>1, <2>1, <3>1, <3>2, MoveFollows
    <3>3. CASE F!Go(t, "confirm") /\ want' = [want EXCEPT ![c] = th[t].dir]
      BY <1>1, <2>1, <3>1, <3>3, WriteFollows
    <3> QED BY <2>7, <3>2, <3>3 DEF F!Write
  <2>8. CASE F!Confirm(t, c)
    <3>1. PICK pc \in {"landed", "failed"} : F!Go(t, pc)
      BY <2>8 DEF F!Confirm
    <3>2. th[t].pc = "confirm" /\ UNCHANGED want
      BY <2>8 DEF F!Confirm, F!At, F!kernel
    <3> QED BY <1>1, <2>1, <3>1, <3>2, MoveFollows
  <2> QED BY <2>3, <2>4, <2>5, <2>6, <2>7, <2>8 DEF Steps
<1> QED BY <1>6, <1>7 DEF FlagInv

\* The last step of a request sets the flag to what the request has made of every cgroup, or
\* turns a freeze back whose entry has gone.
LEMMA FlagKeepsFlag ==
    ASSUME FreezerKnown, NEW t \in Clients, F!Flag(t)
    PROVE  FlagInv'
<1>1. /\ th[t].pc = "flag" /\ F!Busy(t) /\ phase = "up" /\ th[t].todo = {}
      /\ UNCHANGED <<want, alive, doubt, phase, boot>>
  BY DEF F!Flag, F!Busy, FreezerKnown, RecInv, NobodyBusy, FlagInv, Whole, F!kernel, F!history
<1>2. \A u \in Clients \ {t} : th'[u] = th[u]
  BY FlagEffect DEF FreezerKnown, GoesOn
<1>3. th[t] \in Requests /\ SoundRequest(th[t]) /\ (th[t].dir <=> th[t].op = "freeze")
  BY DEF FreezerKnown, FreezerShape, SoundRequest
<1>4. \/ entry.limited /\ entry' = [entry EXCEPT !.frozen = th[t].dir] /\ th'[t] = F!Idle
      \/ ~entry.limited /\ UNCHANGED entry /\ th[t].op # "freeze" /\ th'[t] = F!Idle
      \/ ~entry.limited /\ UNCHANGED entry /\ th[t].op = "freeze" /\ TurnsBack(t)
  <2>1. CASE entry.limited
    BY <2>1 DEF F!Flag, FreezerKnown, FreezerShape
  <2>2. CASE ~entry.limited /\ th[t].op # "freeze"
    BY <2>2 DEF F!Flag, FreezerKnown, FreezerShape
  <2>3. CASE ~entry.limited /\ th[t].op = "freeze"
    <3>1. th'[t] = [th[t] EXCEPT !.pc = "begin", !.op = "rollback", !.dir = FALSE, !.todo = th[t].done]
      BY <2>3 DEF F!Flag, F!Undo, FreezerKnown, FreezerShape
    <3> QED BY <1>3, <2>3, <3>1 DEF F!Flag, TurnsBack, Requests
  <2> QED BY <2>1, <2>2, <2>3
<1>5. /\ entry'.limited = entry.limited /\ entry'.cgroups = entry.cgroups
      /\ entry.limited => entry'.frozen = th[t].dir
      /\ ~entry.limited => ~entry'.frozen
  <2>1. ~entry.limited => ~entry.frozen
    BY DEF FreezerKnown, FreezerShape, F!None
  <2> QED BY <1>4, <2>1 DEF FreezerKnown, FreezerShape
<1>6. Stays(t)
  BY <1>4, IdleEffect DEF Stays, TurnsBack
<1>7. Covered' /\ Whole' /\ Unlimited'
  BY <1>1, <1>2, <1>5, <1>6, StaysCovered
<1>8. ASSUME NEW x \in Sure' PROVE Followed(x)'
  <2>1. x \in Sure /\ Followed(x)
    BY <1>1, <1>8 DEF Sure, FreezerKnown, FlagInv
  <2>2. x \in th[t].scope
    BY <1>1, <2>1 DEF FreezerKnown, FlagInv, Covered, Sure
  <2>3. \A u \in Clients \ {t} : /\ F!Busy(u)' = F!Busy(u) /\ Owes(u, x)' = Owes(u, x) /\ th'[u] = th[u]
                                 /\ Written(u, x)' = Written(u, x) /\ Touched(u, x)' = Touched(u, x)
    BY <1>2, OthersFollowed DEF FreezerKnown
  <2>4. \A u \in Clients \ {t} : Froze(u, x)' /\ Thawed(u, x)'
    BY <1>1, <2>1, <2>3 DEF Followed, Froze, Thawed
  <2>5. SweepHas(x)'
    BY <1>1 DEF SweepHas
  <2>6. ~Written(t, x) /\ ~Touched(t, x)
    BY <1>1 DEF Written, Touched
  <2>7. th[t].op = "freeze" => (want[x] <=> x \in th[t].done) /\ (\A u \in Clients \ {t} : ~F!Busy(u))
    BY <1>1, <2>1, <2>6, FreezesAlone DEF Followed, Froze
  <2>8. th[t].op # "freeze" => ~want[x]
    BY <1>1, <2>1 DEF Followed, Thawed
  <2>9. CASE TurnsBack(t)
    <3>1. F!Busy(t)' /\ ~Written(t, x)' /\ ~entry'.frozen
      BY <1>4, <1>5, <2>9, IdleEffect DEF TurnsBack, F!Busy, Written
    <3>2. Froze(t, x)' /\ Thawed(t, x)'
      BY <1>1, <2>7, <2>9, <3>1 DEF TurnsBack, Froze, Thawed
    <3>3. WhileFrozen(x)'
      BY <3>1 DEF WhileFrozen
    <3>4. want[x] => Owes(t, x)'
      BY <2>7, <2>9, <3>1 DEF TurnsBack, Owes
    <3>5. WhileFree(x)'
      BY <1>1, <3>4 DEF WhileFree
    <3> QED BY <2>4, <2>5, <3>2, <3>3, <3>5 DEF Followed
  <2>10. CASE th'[t] = F!Idle
    <3>1. ~F!Busy(t)'
      BY <2>10, IdleEffect DEF F!Busy
    <3>2. Froze(t, x)' /\ Thawed(t, x)'
      BY <3>1 DEF Froze, Thawed
    <3>3. th[t].op = "freeze" => want[x] /\ entry.limited
      <4>1. th[t].op = "freeze" => x \in th[t].done
        BY <1>1, <2>2 DEF FreezerKnown, FlagInv, Whole
      <4>2. ~TurnsBack(t)
        BY <2>10, IdleEffect DEF TurnsBack
      <4> QED BY <1>4, <2>7, <4>1, <4>2
    <3>4. WhileFrozen(x)'
      <4>1. entry'.frozen => th[t].op = "freeze"
        BY <1>3, <1>5
      <4> QED BY <1>1, <2>3, <2>7, <3>1, <3>3, <4>1 DEF WhileFrozen
    <3>5. WhileFree(x)'
      <4>1. ~entry'.frozen => th[t].op # "freeze"
        BY <1>3, <1>5, <3>3
      <4> QED BY <1>1, <2>8, <4>1 DEF WhileFree
    <3> QED BY <2>4, <2>5, <3>2, <3>4, <3>5 DEF Followed
  <2> QED BY <1>4, <2>9, <2>10
<1> QED BY <1>7, <1>8 DEF FlagInv

\* A request begins: a freeze on an entry that is free, the others on one that is frozen.
LEMMA StartKeepsFlag ==
    ASSUME FreezerKnown, NEW t \in Clients, ~F!Busy(t), phase = "up", entry.limited,
           NEW op \in {"freeze", "unfreeze", "lift"}, NEW dir \in BOOLEAN,
           F!Start(t, op, dir, entry.cgroups),
           op = "freeze" <=> ~entry.frozen,
           entry' = IF op = "lift" THEN F!None ELSE entry,
           UNCHANGED <<F!kernel, phase, boot>>
    PROVE  FlagInv'
<1> DEFINE cs == entry.cgroups
           new == [pc |-> "begin", op |-> op, dir |-> dir, scope |-> cs, todo |-> cs, done |-> {}]
<1>1. /\ th'[t] = new /\ \A u \in Clients \ {t} : th'[u] = th[u]
      /\ doubt' = doubt \cup F!Overlaps(t, op, cs) /\ UNCHANGED <<want, alive>>
  BY DEF F!Start, F!Lose, FreezerKnown, FreezerShape, F!kernel
<1>2. /\ th'[t].pc = "begin" /\ th'[t].op = op /\ th'[t].scope = cs /\ th'[t].todo = cs /\ th'[t].done = {}
  BY <1>1
<1> HIDE DEF new
<1>3. F!Busy(t)' /\ \A x : ~Written(t, x)' /\ ~Touched(t, x)'
  BY <1>2 DEF F!Busy, Written, Touched
<1>4. ~F!None.limited /\ ~F!None.frozen
  BY DEF F!None
<1>5. Own \cap alive \subseteq cs
  BY DEF FreezerKnown, FlagInv, Covered
<1>6. Covered'
  BY <1>1, <1>2, <1>4, <1>5 DEF FreezerKnown, FlagInv, Covered, F!Busy
<1>7. Whole' /\ Unlimited'
  BY <1>1, <1>2 DEF FreezerKnown, FlagInv, Whole, Unlimited
<1>8. ASSUME NEW x \in Sure' PROVE Followed(x)'
  <2>1. x \in Sure /\ Followed(x) /\ x \in cs /\ x \notin F!Overlaps(t, op, cs)
    BY <1>1, <1>5, <1>8 DEF Sure, FreezerKnown, FlagInv
  <2>2. \A u \in Clients \ {t} : /\ F!Busy(u)' = F!Busy(u) /\ Owes(u, x)' = Owes(u, x) /\ th'[u] = th[u]
                                 /\ Written(u, x)' = Written(u, x) /\ Touched(u, x)' = Touched(u, x)
    BY <1>1, OthersFollowed DEF FreezerKnown
  <2>3. \A u \in Clients \ {t} : Froze(u, x)' /\ Thawed(u, x)'
    BY <1>1, <2>1, <2>2 DEF Followed, Froze, Thawed
  <2>4. op = "freeze" => \A u \in Clients \ {t} : ~F!Busy(u)
    <3>1. ASSUME op = "freeze", NEW u \in Clients \ {t}, F!Busy(u) PROVE FALSE
      <4>1. x \in th[u].scope
        BY <2>1, <3>1 DEF FreezerKnown, FlagInv, Covered, Sure
      <4> QED BY <2>1, <3>1, <4>1 DEF F!Overlaps
    <3> QED BY <3>1
  <2>5. op = "freeze" => ~want[x]
    <3>1. ASSUME op = "freeze", want[x] PROVE FALSE
      <4>1. PICK u \in Clients : Owes(u, x)
        BY <2>1, <3>1 DEF Followed, WhileFree
      <4> QED BY <2>4, <3>1, <4>1 DEF Owes
    <3> QED BY <3>1
  <2>6. Froze(t, x)' /\ Thawed(t, x)'
    BY <1>1, <1>2, <1>3, <2>1, <2>5 DEF Froze, Thawed
  <2>7. WhileFrozen(x)'
    <3>1. CASE op = "unfreeze"
      <4>1. \A u \in Clients : F!Busy(u)' => th'[u].op = "unfreeze"
        BY <1>2, <2>1, <2>2, <3>1 DEF Followed, WhileFrozen
      <4>2. ASSUME ~want[x] PROVE \E u \in Clients : F!Busy(u)' /\ (x \in th'[u].done \/ Touched(u, x)')
        <5>1. PICK u \in Clients : F!Busy(u) /\ (x \in th[u].done \/ Touched(u, x))
          BY <2>1, <3>1, <4>2 DEF Followed, WhileFrozen
        <5> QED BY <2>2, <5>1
      <4> QED BY <1>1, <4>1, <4>2 DEF WhileFrozen
    <3>2. CASE op # "unfreeze"
      <4>1. ~entry'.frozen
        BY <1>4, <3>2
      <4> QED BY <4>1 DEF WhileFrozen
    <3> QED BY <3>1, <3>2
  <2>8. WhileFree(x)'
    <3>1. CASE op = "unfreeze"
      BY <3>1 DEF WhileFree
    <3>2. CASE op # "unfreeze"
      <4>1. Owes(t, x)'
        BY <1>2, <1>3, <2>1, <3>2 DEF Owes
      <4> QED BY <4>1 DEF WhileFree
    <3> QED BY <3>1, <3>2
  <2>9. SweepHas(x)'
    BY DEF SweepHas
  <2> QED BY <2>3, <2>6, <2>7, <2>8, <2>9 DEF Followed
<1> QED BY <1>6, <1>7, <1>8 DEF FlagInv

\* Nothing happens to the cgroups that are followed.
LEMMA SameFollowed ==
    ASSUME NEW x, Followed(x), want'[x] = want[x], UNCHANGED <<entry, th>>,
           UNCHANGED phase, phase = "boot" /\ x \in boot.todo => x \in boot'.todo
    PROVE  Followed(x)'
  BY DEF Followed, Froze, Thawed, WhileFrozen, WhileFree, SweepHas, Written, Touched, Owes, F!Busy, Current

\* Nothing is under way, and nothing is limited.
LEMMA AtRest ==
    ASSUME \A t \in Clients : ~F!Busy(t)', entry' = F!None,
           Whole', \A x \in Sure' : phase' # "down" /\ want'[x] => phase' = "boot" /\ x \in boot'.todo,
           phase' \in {"down", "boot", "up"}
    PROVE  FlagInv'
<1>1. ~F!None.limited /\ ~F!None.frozen
  BY DEF F!None
<1>2. Covered' /\ Whole' /\ Unlimited'
  BY <1>1 DEF Covered, Unlimited
<1>3. ASSUME NEW x \in Sure' PROVE Followed(x)'
  <2>1. \A t \in Clients : Froze(t, x)' /\ Thawed(t, x)'
    BY DEF Froze, Thawed
  <2>2. WhileFrozen(x)'
    BY <1>1 DEF WhileFrozen
  <2>3. WhileFree(x)' /\ SweepHas(x)'
    BY <1>3 DEF WhileFree, SweepHas
  <2> QED BY <2>1, <2>2, <2>3 DEF Followed
<1> QED BY <1>2, <1>3 DEF FlagInv

LEMMA FlagInvInit == Own \cap Foreign = {} /\ F!Init => FlagInv
<1> SUFFICES ASSUME Own \cap Foreign = {}, F!Init PROVE FlagInv
  OBVIOUS
<1>1. ~F!None.limited /\ ~F!None.frozen
  BY DEF F!None
<1>2. \A t \in Clients : th[t].pc = "idle" /\ th[t].op = "none" /\ ~F!Busy(t)
  BY IdleEffect DEF F!Init, F!Busy
<1>3. Covered /\ Whole /\ Unlimited
  BY <1>1, <1>2 DEF F!Init, Covered, Whole, Unlimited
<1>4. ASSUME NEW x \in Sure PROVE Followed(x)
  <2>1. ~want[x] /\ entry = F!None /\ phase = "up"
    BY <1>4 DEF F!Init, Sure, F!Cgs
  <2> QED BY <1>1, <1>2, <2>1 DEF Followed, Froze, Thawed, WhileFrozen, WhileFree, SweepHas
<1> QED BY <1>3, <1>4 DEF FlagInv

LEMMA FlagInvStep == FreezerKnown /\ [F!Next]_F!vars => FlagInv'
<1> SUFFICES ASSUME FreezerKnown, [F!Next]_F!vars PROVE FlagInv'
  OBVIOUS
<1>a. ASSUME alive' \subseteq alive, UNCHANGED <<entry, th, phase, boot>>,
             \A x \in Sure' : x \in Sure /\ want'[x] = want[x]
      PROVE  FlagInv'
  <2>1. Covered' /\ Whole' /\ Unlimited'
    BY <1>a DEF FreezerKnown, FlagInv, Covered, Whole, Unlimited, F!Busy
  <2>2. \A x \in Sure' : Followed(x)'
    BY <1>a, SameFollowed DEF FreezerKnown, FlagInv
  <2> QED BY <2>1, <2>2 DEF FlagInv
<1>1. ASSUME NEW c \in F!Cgs, F!Settle(c) PROVE FlagInv'
  BY <1>1, <1>a DEF F!Settle, F!history, Sure
<1>2. ASSUME NEW c \in F!Cgs, F!Vanish(c) PROVE FlagInv'
  <2>1. alive' = alive \ {c} /\ doubt' = doubt \ {c} /\ UNCHANGED <<entry, th, phase, boot>>
        /\ \A x \in F!Cgs \ {c} : want'[x] = want[x]
    BY <1>2 DEF F!Vanish, F!Settled, FreezerKnown, FreezerShape
  <2>2. \A x \in Sure' : x \in Sure /\ x \in F!Cgs \ {c}
    BY <2>1 DEF Sure, F!Cgs
  <2> QED BY <1>a, <2>1, <2>2
<1>3. CASE F!Limit
  <2>1. /\ entry'.limited /\ ~entry'.frozen /\ entry'.cgroups = alive \cap Own
        /\ UNCHANGED <<want, alive, th, phase, boot>> /\ phase = "up"
        /\ doubt \subseteq doubt' /\ (entry.frozen => Own \subseteq doubt')
    BY <1>3 DEF F!Limit, F!Doubt, F!kernel
  <2>2. Covered' /\ Whole' /\ Unlimited'
    BY <2>1 DEF FreezerKnown, FlagInv, Covered, Whole, Unlimited, F!Busy
  <2>3. ASSUME NEW x \in Sure' PROVE Followed(x)'
    <3>1. x \in Sure /\ ~entry.frozen /\ Followed(x)
      BY <2>1, <2>3 DEF Sure, FreezerKnown, FlagInv
    <3> QED BY <2>1, <3>1 DEF Followed, Froze, Thawed, WhileFrozen, WhileFree, SweepHas, Written, Touched,
                              Owes, F!Busy, Current
  <2> QED BY <2>2, <2>3 DEF FlagInv
<1>4. ASSUME NEW t \in Clients, NEW f \in BOOLEAN, F!Freeze(t, f) PROVE FlagInv'
  <2>1. entry.frozen \in BOOLEAN
    BY DEF FreezerKnown, FreezerShape
  <2>2. CASE f
    <3>1. F!Start(t, "freeze", f, entry.cgroups) /\ ~entry.frozen
      BY <1>4, <2>1, <2>2 DEF F!Freeze
    <3> QED BY <1>4, <3>1, StartKeepsFlag DEF F!Freeze
  <2>3. CASE ~f
    <3>1. F!Start(t, "unfreeze", f, entry.cgroups) /\ entry.frozen
      BY <1>4, <2>1, <2>3 DEF F!Freeze
    <3> QED BY <1>4, <3>1, StartKeepsFlag DEF F!Freeze
  <2> QED BY <2>2, <2>3
<1>5. ASSUME NEW t \in Clients, F!Lift(t) PROVE FlagInv'
  <2>1. CASE entry.frozen
    <3>1. F!Start(t, "lift", FALSE, entry.cgroups)
      BY <1>5, <2>1 DEF F!Lift
    <3> QED BY <1>5, <2>1, <3>1, StartKeepsFlag DEF F!Lift
  <2>2. CASE ~entry.frozen
    <3>1. /\ entry' = F!None /\ ~F!None.limited /\ ~F!None.frozen /\ ~entry.frozen
          /\ UNCHANGED <<want, alive, doubt, th, phase, boot>>
      BY <1>5, <2>2 DEF F!Lift, F!kernel, F!history, F!None
    <3>2. Covered' /\ Whole' /\ Unlimited'
      BY <3>1 DEF FreezerKnown, FlagInv, Covered, Whole, Unlimited, F!Busy
    <3>3. ASSUME NEW x \in Sure' PROVE Followed(x)'
      <4>1. Followed(x)
        BY <3>1, <3>3 DEF Sure, FreezerKnown, FlagInv
      <4> QED BY <3>1, <4>1 DEF Followed, Froze, Thawed, WhileFrozen, WhileFree, SweepHas, Written, Touched,
                                Owes, F!Busy, Current
    <3> QED BY <3>2, <3>3 DEF FlagInv
  <2> QED BY <2>1, <2>2
<1>6. ASSUME NEW t \in Clients, F!Flag(t) PROVE FlagInv'
  BY <1>6, FlagKeepsFlag
<1>7. ASSUME NEW t \in Clients, NEW c \in Own, Steps(t, c) PROVE FlagInv'
  BY <1>7, StepKeepsFlag
<1>8. CASE F!Crash
  <2>1. \A t \in Clients : th'[t] = F!Idle
    BY <1>8 DEF F!Crash
  <2>2. \A t \in Clients : ~F!Busy(t)' /\ th'[t].pc # "flag" /\ th'[t].op # "freeze"
    BY <2>1, IdleEffect DEF F!Busy
  <2>3. Whole'
    BY <2>2 DEF Whole
  <2> QED BY <1>8, <2>2, <2>3, AtRest DEF F!Crash
<1>9. CASE F!BootRead \/ F!BootDone \/ \E c \in F!Cgs : F!BootThaw(c)
  <2>1. /\ phase # "up" /\ entry = F!None /\ UNCHANGED <<entry, th, alive>>
        /\ phase' \in {"down", "boot", "up"}
    BY <1>9 DEF F!BootRead, F!BootDone, F!BootThaw, F!kernel, FreezerKnown, FlagInv, Unlimited, FreezerShape
  <2>2. \A t \in Clients : ~F!Busy(t)'
    BY <2>1 DEF FreezerKnown, RecInv, NobodyBusy, F!Busy
  <2>a. Whole'
    BY <2>1 DEF FreezerKnown, FlagInv, Whole
  <2>3. CASE F!BootRead
    <3>1. \A x \in Sure' : want'[x] => x \in boot'.todo
      BY <2>3 DEF F!BootRead, Sure, FreezerKnown, RecInv, F!FrozenIsRecorded, FreezerShape, F!kernel, F!history
    <3> QED BY <2>1, <2>2, <2>3, <2>a, <3>1, AtRest DEF F!BootRead
  <2>4. CASE F!BootDone
    <3>1. \A x \in Sure' : ~want'[x]
      BY <2>4 DEF F!BootDone, Sure, FreezerKnown, FlagInv, Followed, SweepHas, F!kernel, F!history
    <3> QED BY <2>1, <2>2, <2>4, <2>a, <3>1, AtRest DEF F!BootDone
  <2>5. ASSUME NEW c \in F!Cgs, F!BootThaw(c) PROVE FlagInv'
    <3>0. ASSUME NEW x \in Sure', want'[x] PROVE x \in boot'.todo
      <4>1. phase = "boot" /\ c \in boot.todo
        BY <2>5 DEF F!BootThaw
      <4>2. x # c
        BY <2>1, <2>5, <3>0 DEF F!BootThaw, Sure, F!Doubt, FreezerKnown, FreezerShape
      <4>3. x \in Sure /\ want[x]
        BY <2>1, <2>5, <3>0, <4>2 DEF F!BootThaw, Sure, F!Doubt, F!Settled, F!history, FreezerKnown, FreezerShape, F!Cgs
      <4>4. x \in boot.todo
        BY <4>1, <4>3 DEF FreezerKnown, FlagInv, Followed, SweepHas
      <4>5. boot'.todo = boot.todo \ {c}
        <5>1. \/ boot' = [boot EXCEPT !.todo = @ \ {c}]
              \/ boot' = [todo |-> boot.todo \ {c}, keep |-> boot.keep \cup {c}]
          BY <2>5 DEF F!BootThaw
        <5> QED BY <5>1 DEF FreezerKnown, FreezerShape
      <4> QED BY <4>2, <4>4, <4>5
    <3>1. \A x \in Sure' : want'[x] => x \in boot'.todo
      BY <3>0
    <3> QED BY <2>1, <2>2, <2>5, <2>a, <3>1, AtRest DEF F!BootThaw
  <2> QED BY <1>9, <2>3, <2>4, <2>5
<1>10. CASE UNCHANGED F!vars
  BY <1>10, <1>a DEF F!vars, F!kernel, F!history, Sure
<1> QED BY <1>1, <1>2, <1>3, <1>4, <1>5, <1>6, <1>7, <1>8, <1>9, <1>10 DEF F!Next, Steps

LEMMA FreezerStart == Own \cap Foreign = {} /\ F!Init => FreezerKnown
BY FreezerShapeInit, RecInvInit, FlagInvInit DEF FreezerKnown

LEMMA FreezerKept == Own \cap Foreign = {} /\ FreezerKnown /\ [F!Next]_F!vars => FreezerKnown'
BY FreezerShapeStep, RecInvStep, FlagInvStep DEF FreezerKnown

LEMMA FreezerShows == FreezerKnown => F!TypeOK /\ F!FrozenIsRecorded /\ F!FlagMatchesKernel
<1> SUFFICES ASSUME FreezerKnown PROVE F!TypeOK /\ F!FrozenIsRecorded /\ F!FlagMatchesKernel
  OBVIOUS
<1>1. F!TypeOK
  BY DEF FreezerKnown, FreezerShape, F!TypeOK, SoundRequest, Requests, RequestPcs
<1>2. F!FrozenIsRecorded
  BY DEF FreezerKnown, RecInv
<1>3. ASSUME phase = "up", \A t \in Clients : ~F!Busy(t), NEW c \in Sure
      PROVE  want[c] = (entry.limited /\ entry.frozen)
  <2>1. Followed(c)
    BY DEF FreezerKnown, FlagInv
  <2>2. want[c] \in BOOLEAN /\ entry.frozen \in BOOLEAN /\ entry.limited \in BOOLEAN
        /\ (entry.frozen => entry.limited)
    BY DEF FreezerKnown, FreezerShape, Sure, F!Cgs, F!None
  <2>3. entry.frozen <=> want[c]
    BY <1>3, <2>1 DEF Followed, WhileFrozen, WhileFree, Owes
  <2> QED BY <2>2, <2>3
<1> QED BY <1>1, <1>2, <1>3 DEF F!FlagMatchesKernel, Sure

\* When no request is under way, the app's cgroups are frozen exactly if its entry says so, whatever
\* was rolled back, overtaken by a restore, cut off by a crash or thawed at the next start; what the
\* code has lost track of is in doubt (set_freeze, set_restore_resource, thaw_recorded).
THEOREM FlagTellsTheTruth == Own \cap Foreign = {} /\ F!Spec => []F!FlagMatchesKernel
<1> SUFFICES ASSUME Own \cap Foreign = {} PROVE F!Spec => []F!FlagMatchesKernel
  OBVIOUS
<1>1. F!Init => FreezerKnown
  BY FreezerStart
<1>2. FreezerKnown /\ [F!Next]_F!vars => FreezerKnown'
  BY FreezerKept
<1>3. FreezerKnown => F!FlagMatchesKernel
  BY FreezerShows
<1> QED BY <1>1, <1>2, <1>3, PTL DEF F!Spec

-----------------------------------------------------------------------------
(***************************************************************************)
(* The pinning of cpus.                                                    *)
(***************************************************************************)

PinPcs == {"idle", "read", "write", "track", "rollback", "restore", "release", "reaper"}
Seens == {"", "ext", "pin", "failed"}
Operations == [pc : PinPcs, app : Pinned \cup {""}, todo : SUBSET Slices, done : SUBSET Slices, seen : Seens]

Binding == held.pc \in {"read", "write", "track"}
Unpinning == held.pc \in {"rollback", "restore", "release", "reaper"}

PinCore ==
       /\ cpus \in [Slices -> {"", "all", "ext", "pin"}]
       /\ original \in [Slices -> {"unknown", "", "ext", "pin"}]
       /\ exists \subseteq Slices /\ failed \subseteq Slices /\ running \subseteq Pinned
       /\ tracked \in [Pinned -> SUBSET Slices]
       /\ held \in Operations /\ waiting \in Operations
       /\ held.pc # "idle" => held.app \in Pinned
       /\ held.pc \in {"read", "write"} => held.todo # {} /\ held.seen # "failed"
       /\ waiting.pc \in {"idle", "release", "reaper"} /\ waiting.done = {}
       /\ waiting # A!Idle => waiting.app \in Pinned /\ waiting.pc # "idle"
       /\ stop \in [pc : {"no", "restoring", "done"}, todo : SUBSET Slices]
       /\ \A d \in Slices : cpus[d] # "" => d \in exists
       /\ raced \in BOOLEAN

\* The releases that have dropped the lock.
LateShape == slipped \subseteq Slices /\ leaving \subseteq [app : Pinned, done : SUBSET Slices]

PinShape == PinCore /\ LateShape

-----------------------------------------------------------------------------
\* Nobody holds the lock, or waits for it.
LEMMA IdleOp == A!Idle \in Operations /\ A!Idle.pc = "idle" /\ A!Idle.todo = {} /\ A!Idle.done = {} /\ A!Idle.seen = ""
BY DEF A!Idle, Operations, PinPcs, Seens

-----------------------------------------------------------------------------
(* What the steps of the operation in progress do to it.                     *)

RolledBack(d) ==
    /\ held'.pc = "rollback" /\ held'.done = {}
    /\ held'.todo = held.done \cup (IF original'[d] = "unknown" THEN {} ELSE {d})

LEMMA RollbackEffect ==
    ASSUME PinCore, NEW d \in Slices, A!Rollback(d)
    PROVE  held' \in Operations /\ held'.app = held.app /\ RolledBack(d)
<1>1. held \in Operations /\ held.done \subseteq Slices
  BY DEF PinCore, Operations
<1> DEFINE todo == held.done \cup (IF original'[d] = "unknown" THEN {} ELSE {d})
<1>2. todo \in SUBSET Slices /\ {} \in SUBSET Slices /\ "rollback" \in PinPcs
  BY <1>1 DEF PinPcs
<1>3. held' = [held EXCEPT !.pc = "rollback", !.done = {}, !.todo = todo]
  BY DEF A!Rollback
<1>4. RolledBack(d) <=> held'.pc = "rollback" /\ held'.done = {} /\ held'.todo = todo
  BY DEF RolledBack
<1> HIDE DEF todo
<1> QED BY <1>1, <1>2, <1>3, <1>4 DEF Operations

LEMMA ReadEffect ==
    ASSUME PinCore, NEW d \in Slices, A!SetRead(d)
    PROVE  /\ held' \in Operations /\ held'.app = held.app /\ d \in held.todo /\ held.pc = "read" /\ UNCHANGED original
           /\ \/ RolledBack(d)
              \/ /\ held'.pc = "write" /\ held'.todo = held.todo /\ held'.done = held.done
                 /\ held'.seen = A!Restriction(cpus[d]) /\ held'.seen \in {"", "ext", "pin"}
                 /\ d = A!Pick(held.todo)
<1>1. held \in Operations /\ held.pc = "read" /\ held.todo # {} /\ d = A!Pick(held.todo) /\ d \in held.todo
  BY DEF PinCore, A!SetRead, A!Pick
<1>2. A!Restriction(cpus[d]) \in {"", "ext", "pin"}
  BY DEF PinCore, A!Restriction
<1>3. CASE A!Rollback(d)
  BY <1>1, <1>3, RollbackEffect DEF A!SetRead
<1>4. CASE held' = [held EXCEPT !.pc = "write", !.seen = A!Restriction(cpus[d])] /\ UNCHANGED original
  <2>1. A!Restriction(cpus[d]) \in Seens /\ "write" \in PinPcs
    BY <1>2 DEF Seens, PinPcs
  <2> QED BY <1>1, <1>2, <1>4, <2>1 DEF Operations
<1> QED BY <1>3, <1>4 DEF A!SetRead

LEMMA WriteEffect ==
    ASSUME PinCore, NEW d \in Slices, A!SetWrite(d)
    PROVE  /\ held' \in Operations /\ held'.app = held.app /\ held.pc = "write" /\ d = A!Pick(held.todo) /\ d \in held.todo
           /\ \/ /\ d \in exists /\ cpus' = [cpus EXCEPT ![d] = "pin"] /\ A!Record(d)
                 /\ \/ RolledBack(d)
                    \/ /\ held'.pc \in {"track", "read"} /\ held'.done = held.done \cup {d}
                       /\ held'.todo = held.todo \ {d} /\ held'.seen = held.seen
                       /\ held'.pc = "read" => held'.todo # {}
              \/ UNCHANGED <<cpus, original>> /\ RolledBack(d)
<1>1. held \in Operations /\ held.pc = "write" /\ held.todo # {} /\ d = A!Pick(held.todo) /\ d \in held.todo
  BY DEF PinCore, A!SetWrite, A!Pick
<1>2. CASE A!Rollback(d)
  BY <1>1, <1>2, RollbackEffect DEF A!SetWrite
<1>3. CASE /\ d \in exists /\ cpus' = [cpus EXCEPT ![d] = "pin"] /\ A!Record(d)
           /\ held' = [held EXCEPT !.pc = IF held.todo = {d} THEN "track" ELSE "read",
                                   !.todo = @ \ {d}, !.done = @ \cup {d}]
  <2> DEFINE pc == IF held.todo = {d} THEN "track" ELSE "read"
             todo == held.todo \ {d}
             done == held.done \cup {d}
  <2>1. pc \in PinPcs /\ todo \in SUBSET Slices /\ done \in SUBSET Slices
    BY <1>1 DEF PinPcs, Operations
  <2>2. held' = [held EXCEPT !.pc = pc, !.todo = todo, !.done = done]
    BY <1>3
  <2>3. held' \in Operations /\ held'.pc = pc /\ held'.todo = todo /\ held'.done = done /\ held'.app = held.app
        /\ held'.seen = held.seen
    <3> HIDE DEF pc, todo, done
    <3> QED BY <1>1, <2>1, <2>2 DEF Operations
  <2> QED BY <1>1, <1>3, <2>3
<1> QED BY <1>2, <1>3 DEF A!SetWrite

LEMMA UnpinEffect ==
    ASSUME PinCore, NEW d \in Slices, A!Unpin(d)
    PROVE  /\ held' \in Operations /\ held'.app = held.app /\ held'.pc = held.pc /\ Unpinning
           /\ held'.todo = held.todo \ {d}
           /\ \/ A!Restored(d) /\ held'.done = held.done \cup {d}
              \/ A!RestoreFails(d) /\ held'.done = held.done
<1>1. held \in Operations /\ Unpinning
  BY DEF PinCore, A!Unpin, Unpinning
<1> DEFINE todo == held.todo \ {d}
           done == held.done \cup {d}
<1>2. todo \in SUBSET Slices /\ done \in SUBSET Slices /\ "failed" \in Seens
  BY <1>1 DEF Operations, Seens
<1>3. CASE A!Restored(d) /\ held' = [held EXCEPT !.todo = @ \ {d}, !.done = @ \cup {d}]
  <2>1. held' = [held EXCEPT !.todo = todo, !.done = done]
    BY <1>3
  <2>2. held' \in Operations /\ held'.pc = held.pc /\ held'.todo = todo /\ held'.done = done /\ held'.app = held.app
    <3> HIDE DEF todo, done
    <3> QED BY <1>1, <1>2, <2>1 DEF Operations
  <2>3. A!Restored(d)
    BY <1>3
  <2>4. held'.todo = held.todo \ {d} /\ held'.done = held.done \cup {d}
    BY <2>2
  <2> QED BY <1>1, <2>2, <2>3, <2>4
<1>4. CASE A!RestoreFails(d) /\ held' = [held EXCEPT !.todo = @ \ {d}, !.seen = "failed"]
  <2>1. held' = [held EXCEPT !.todo = todo, !.seen = "failed"]
    BY <1>4
  <2>2. held' \in Operations /\ held'.pc = held.pc /\ held'.todo = todo /\ held'.done = held.done /\ held'.app = held.app
    <3> HIDE DEF todo
    <3> QED BY <1>1, <1>2, <2>1 DEF Operations
  <2> QED BY <1>1, <1>4, <2>2
<1> QED BY <1>3, <1>4 DEF A!Unpin

LEMMA BeginEffect ==
    ASSUME PinCore, NEW a \in Pinned
    PROVE  /\ A!Bind(a) => /\ held' \in Operations /\ held'.pc = "read" /\ held'.app = a
                           /\ held'.todo # {} /\ held'.done = {} /\ held'.seen = "" /\ held.pc = "idle"
                           /\ stop.pc # "done" /\ raced' = (raced \/ stop.pc = "restoring")
           /\ A!Restore(a) => /\ held' \in Operations /\ held'.pc = "restore" /\ held'.app = a
                              /\ held'.done = {} /\ held.pc = "idle"
           /\ A!Release(a) => /\ waiting' \in Operations /\ waiting'.pc = "release" /\ waiting'.app = a
                              /\ waiting'.done = {} /\ waiting = A!Idle
           /\ A!Reap(a) => /\ waiting' \in Operations /\ waiting'.pc = "reaper" /\ waiting'.app = a
                           /\ waiting'.done = {} /\ waiting'.todo = tracked[a] /\ waiting = A!Idle
<1>1. Home[a] \cap exists \in SUBSET Slices /\ tracked[a] \in SUBSET Slices
  BY DEF PinCore
<1>2. ASSUME A!Bind(a)
      PROVE  /\ held' \in Operations /\ held'.pc = "read" /\ held'.app = a
             /\ held'.todo # {} /\ held'.done = {} /\ held'.seen = "" /\ held.pc = "idle"
             /\ stop.pc # "done" /\ raced' = (raced \/ stop.pc = "restoring")
  <2> DEFINE todo == Home[a] \cap exists
  <2>1. held' = [A!Idle EXCEPT !.pc = "read", !.app = a, !.todo = todo] /\ todo # {} /\ "read" \in PinPcs
    BY <1>2 DEF A!Bind, PinPcs
  <2>2. held.pc = "idle" /\ stop.pc # "done" /\ raced' = (raced \/ stop.pc = "restoring")
    BY <1>2 DEF A!Bind
  <2>3. todo \in SUBSET Slices
    BY <1>1
  <2> HIDE DEF todo
  <2>4. held' \in Operations /\ held'.pc = "read" /\ held'.app = a /\ held'.todo = todo /\ held'.done = {}
        /\ held'.seen = ""
    BY <2>1, <2>3 DEF A!Idle, Operations, Seens
  <2>5. todo # {}
    BY <2>1
  <2> QED BY <2>2, <2>4, <2>5
<1>3. ASSUME A!Restore(a)
      PROVE  held' \in Operations /\ held'.pc = "restore" /\ held'.app = a /\ held'.done = {} /\ held.pc = "idle"
  <2> DEFINE todo == IF A!Live(a) # {} THEN A!Live(a) ELSE tracked[a]
  <2>1. held' = [A!Idle EXCEPT !.pc = "restore", !.app = a, !.todo = todo] /\ held.pc = "idle" /\ "restore" \in PinPcs
    BY <1>3 DEF A!Restore, PinPcs
  <2>2. todo \in SUBSET Slices
    BY <1>1 DEF A!Live
  <2> HIDE DEF todo
  <2> QED BY <2>1, <2>2 DEF A!Idle, Operations, Seens
<1>4. ASSUME A!Release(a)
      PROVE  waiting' \in Operations /\ waiting'.pc = "release" /\ waiting'.app = a /\ waiting'.done = {}
             /\ waiting = A!Idle
  <2>1. waiting' = [A!Idle EXCEPT !.pc = "release", !.app = a, !.todo = tracked[a]] /\ waiting = A!Idle
        /\ "release" \in PinPcs
    BY <1>4 DEF A!Release, PinPcs
  <2> QED BY <1>1, <2>1 DEF A!Idle, Operations, Seens
<1>5. ASSUME A!Reap(a)
      PROVE  waiting' \in Operations /\ waiting'.pc = "reaper" /\ waiting'.app = a /\ waiting'.done = {}
             /\ waiting'.todo = tracked[a] /\ waiting = A!Idle
  <2>1. waiting' = [A!Idle EXCEPT !.pc = "reaper", !.app = a, !.todo = tracked[a]] /\ waiting = A!Idle
        /\ "reaper" \in PinPcs
    BY <1>5 DEF A!Reap, PinPcs
  <2> QED BY <1>1, <2>1 DEF A!Idle, Operations, Seens
<1> QED BY <1>2, <1>3, <1>4, <1>5

\* What changes, and what a step of the lock's holder leaves alone, without the operation's fields.
LEMMA Restores ==
    ASSUME PinCore, NEW d \in Slices, A!Restored(d) \/ A!RestoreFails(d)
    PROVE  /\ cpus' \in [Slices -> {"", "all", "ext", "pin"}]
           /\ original' \in [Slices -> {"unknown", "", "ext", "pin"}]
           /\ failed' \subseteq Slices /\ failed \subseteq failed'
           /\ \A x \in Slices : x # d => cpus'[x] = cpus[x] /\ original'[x] = original[x]
           /\ cpus'[d] # "" => d \in exists
           /\ original'[d] \in {"unknown", original[d]}
           /\ slipped \subseteq slipped' \cup {d}
           /\ original[d] \in {"", "ext"} /\ cpus'[d] = "pin" => d \in failed' /\ original'[d] = original[d]
<1>1. CASE A!Restored(d)
  <2>1. original' = [original EXCEPT ![d] = "unknown"] /\ UNCHANGED failed /\ slipped' = slipped \ {d}
    BY <1>1 DEF A!Restored
  <2>2. CASE A!Bound(d) /\ d \in exists /\ cpus[d] = "pin"
    <3>1. PICK v \in A!Undo(d) : cpus' = [cpus EXCEPT ![d] = v]
      BY <1>1, <2>2 DEF A!Restored
    <3>2. v \in {"", "all", "ext", "pin"} /\ (original[d] \in {"", "ext"} => v # "pin")
      BY <2>2 DEF A!Undo, PinCore, A!Bound
    <3> QED BY <2>1, <2>2, <3>1, <3>2 DEF PinCore
  <2>3. CASE ~(A!Bound(d) /\ d \in exists /\ cpus[d] = "pin")
    <3>1. UNCHANGED cpus
      BY <1>1, <2>3 DEF A!Restored
    <3>2. original[d] \in {"", "ext"} => cpus[d] # "pin"
      BY <2>3 DEF PinCore, A!Bound
    <3> QED BY <2>1, <3>1, <3>2 DEF PinCore
  <2> QED BY <2>2, <2>3
<1>2. CASE A!RestoreFails(d)
  BY <1>2 DEF A!RestoreFails, PinCore
<1> QED BY <1>1, <1>2

\* Every cgroup of an app is one of Slices.
Homes == Home \in [Pinned -> SUBSET Slices]

LEMMA PinCoreStep == Homes /\ PinCore /\ [A!Next]_A!vars => PinCore'
<1> SUFFICES ASSUME Homes, PinCore, [A!Next]_A!vars PROVE PinCore'
  OBVIOUS
<1>1. held \in Operations /\ waiting \in Operations /\ held.todo \subseteq Slices /\ held.done \subseteq Slices
  BY DEF PinCore, Operations
<1>2. ASSUME NEW a \in Pinned, A!Bind(a) PROVE PinCore'
  <2>1. held' \in Operations /\ held'.pc = "read" /\ held'.app = a /\ held'.todo # {} /\ held'.seen = ""
        /\ raced' = (raced \/ stop.pc = "restoring")
    BY <1>2, BeginEffect
  <2>2. UNCHANGED <<cpus, original, exists, running, tracked, waiting, stop, failed>>
    BY <1>2 DEF A!Bind, A!env
  <2> QED BY <2>1, <2>2 DEF PinCore
<1>3. ASSUME NEW a \in Pinned, A!Restore(a) PROVE PinCore'
  <2>1. held' \in Operations /\ held'.pc = "restore" /\ held'.app = a
    BY <1>3, BeginEffect
  <2>2. UNCHANGED <<cpus, original, exists, running, tracked, waiting, stop, failed, raced>>
    BY <1>3 DEF A!Restore, A!env
  <2> QED BY <2>1, <2>2 DEF PinCore
<1>4. ASSUME NEW a \in Pinned, A!Release(a) PROVE PinCore'
  <2>1. waiting' \in Operations /\ waiting'.pc = "release" /\ waiting'.app = a /\ waiting'.done = {}
    BY <1>4, BeginEffect
  <2>2. UNCHANGED <<cpus, original, exists, running, tracked, held, stop, failed, raced>>
    BY <1>4 DEF A!Release, A!env
  <2> QED BY <2>1, <2>2 DEF PinCore
<1>5. ASSUME NEW a \in Pinned, A!Reap(a) PROVE PinCore'
  <2>1. waiting' \in Operations /\ waiting'.pc = "reaper" /\ waiting'.app = a /\ waiting'.done = {}
    BY <1>5, BeginEffect
  <2>2. /\ UNCHANGED <<cpus, original, exists, running, held, stop, failed, raced>>
        /\ tracked' = [tracked EXCEPT ![a] = {}]
    BY <1>5 DEF A!Reap, A!env
  <2> QED BY <2>1, <2>2 DEF PinCore
<1>6. ASSUME NEW d \in Slices, A!SetRead(d) PROVE PinCore'
  <2>1. /\ held' \in Operations /\ held'.app = held.app /\ held.pc = "read"
        /\ held'.pc = "rollback" \/ (held'.pc = "write" /\ held'.todo = held.todo /\ held'.seen # "failed")
    BY <1>6, ReadEffect DEF RolledBack
  <2>2. UNCHANGED <<cpus, original, exists, running, tracked, waiting, stop, failed, raced>>
    BY <1>6, ReadEffect DEF A!SetRead, A!env
  <2> QED BY <2>1, <2>2 DEF PinCore
<1>7. ASSUME NEW d \in Slices, A!SetWrite(d) PROVE PinCore'
  <2>1. /\ held' \in Operations /\ held'.app = held.app /\ held.pc = "write"
        /\ \/ held'.pc \in {"rollback", "track"}
           \/ held'.pc = "read" /\ held'.todo # {} /\ held'.seen = held.seen
    BY <1>7, WriteEffect DEF RolledBack
  <2>2. UNCHANGED <<exists, running, tracked, waiting, stop, failed, raced>>
    BY <1>7 DEF A!SetWrite, A!env
  <2>3. \/ d \in exists /\ cpus' = [cpus EXCEPT ![d] = "pin"] /\ A!Record(d)
        \/ UNCHANGED <<cpus, original>>
    BY <1>7, WriteEffect
  <2>4. A!Record(d) => original' \in [Slices -> {"unknown", "", "ext", "pin"}]
    <3>1. held.seen \in {"", "ext", "pin"}
      BY <2>1, <1>1 DEF PinCore, Operations, Seens
    <3> QED BY <3>1 DEF A!Record, PinCore
  <2> QED BY <2>1, <2>2, <2>3, <2>4 DEF PinCore
<1>8. ASSUME A!Track PROVE PinCore'
  <2>1. held.app \in Pinned
    BY <1>8 DEF A!Track, PinCore
  <2> QED BY <1>1, <1>8, <2>1, IdleOp DEF A!Track, PinCore, A!env
<1>9. ASSUME A!Lock PROVE PinCore'
  <2>1. held' = waiting /\ waiting' = A!Idle /\ waiting.pc \in {"release", "reaper"} /\ waiting.app \in Pinned
    BY <1>9 DEF A!Lock, PinCore
  <2>2. UNCHANGED <<cpus, original, exists, running, tracked, stop, failed, raced>>
    BY <1>9 DEF A!Lock, A!env
  <2> QED BY <1>1, <2>1, <2>2, IdleOp DEF PinCore
<1>10. ASSUME NEW d \in Slices, A!Unpin(d) PROVE PinCore'
  <2>1. held' \in Operations /\ held'.app = held.app /\ held'.pc = held.pc /\ Unpinning
    BY <1>10, UnpinEffect
  <2>2. UNCHANGED <<exists, running, tracked, waiting, stop, raced>>
    BY <1>10 DEF A!Unpin, A!env
  <2>3. A!Restored(d) \/ A!RestoreFails(d)
    BY <1>10, UnpinEffect
  <2> QED BY <2>1, <2>2, <2>3, Restores DEF PinCore, Unpinning
<1>11. ASSUME A!Unpinned PROVE PinCore'
  <2>1. held.app \in Pinned /\ tracked[held.app] \ held.done \in SUBSET Slices
    BY <1>11 DEF A!Unpinned, PinCore
  <2>2. tracked' = tracked \/ tracked' = [tracked EXCEPT ![held.app] = @ \ held.done]
    BY <1>11 DEF A!Unpinned
  <2>3. tracked' \in [Pinned -> SUBSET Slices]
    BY <2>1, <2>2 DEF PinCore
  <2>4. held' = A!Idle /\ UNCHANGED <<cpus, original, exists, running, waiting, stop, failed, raced>>
    BY <1>11 DEF A!Unpinned, A!env
  <2> QED BY <2>3, <2>4, IdleOp DEF PinCore
<1>12. ASSUME A!Shutdown PROVE PinCore'
  <2>1. stop' \in [pc : {"no", "restoring", "done"}, todo : SUBSET Slices]
    BY <1>12 DEF A!Shutdown
  <2>2. raced' \in BOOLEAN
    BY <1>12 DEF A!Shutdown, PinCore
  <2>3. UNCHANGED <<cpus, original, exists, running, tracked, held, waiting, failed>>
    BY <1>12 DEF A!Shutdown, A!env
  <2> QED BY <2>1, <2>2, <2>3 DEF PinCore
<1>13. ASSUME NEW d \in Slices, A!StopRestore(d) PROVE PinCore'
  <2>1. stop' \in [pc : {"no", "restoring", "done"}, todo : SUBSET Slices]
    BY <1>13 DEF A!StopRestore, PinCore
  <2>2. A!Restored(d) \/ A!RestoreFails(d)
    BY <1>13 DEF A!StopRestore
  <2>3. UNCHANGED <<exists, running, tracked, held, waiting, raced>>
    BY <1>13 DEF A!StopRestore, A!env
  <2> QED BY <2>1, <2>2, <2>3, Restores DEF PinCore
<1>14. ASSUME A!Stopped PROVE PinCore'
  <2>1. stop' \in [pc : {"no", "restoring", "done"}, todo : SUBSET Slices]
    BY <1>14 DEF A!Stopped, PinCore
  <2>2. UNCHANGED <<cpus, original, exists, running, tracked, held, waiting, failed, raced>>
    BY <1>14 DEF A!Stopped, A!env
  <2> QED BY <2>1, <2>2 DEF PinCore
<1>15. ASSUME NEW a \in Pinned, A!Exit(a) PROVE PinCore'
  BY <1>15 DEF A!Exit, PinCore
<1>16. ASSUME NEW a \in Pinned, A!Launch(a) PROVE PinCore'
  BY <1>16 DEF Homes, A!Launch, PinCore
<1>17. ASSUME NEW d \in Slices, A!Vanish(d) \/ A!Administer(d) PROVE PinCore'
  <2>1. UNCHANGED <<original, running, tracked, held, waiting, stop, failed, raced>>
    BY <1>17 DEF A!Vanish, A!Administer, A!env
  <2>2. /\ \/ cpus' = [cpus EXCEPT ![d] = ""] /\ exists' = exists \ {d}
           \/ cpus' = [cpus EXCEPT ![d] = "ext"] /\ d \in exists /\ exists' = exists
    BY <1>17 DEF A!Vanish, A!Administer, A!env
  <2>3. cpus' \in [Slices -> {"", "all", "ext", "pin"}] /\ exists' \subseteq Slices
        /\ \A x \in Slices : cpus'[x] # "" => x \in exists'
    BY <2>2 DEF PinCore
  <2> QED BY <2>1, <2>3 DEF PinCore
<1>18. ASSUME UNCHANGED A!vars PROVE PinCore'
  BY <1>18 DEF A!vars, PinCore
<1>19. ASSUME A!Forget PROVE PinCore'
  <2>1. PICK l \in leaving : tracked' = [tracked EXCEPT ![l.app] = @ \ l.done]
    BY <1>19 DEF A!Forget
  <2>2. tracked' \in [Pinned -> SUBSET Slices]
    BY <2>1 DEF PinCore
  <2> QED BY <1>19, <2>2 DEF A!Forget, PinCore, A!env
<1> QED BY <1>2, <1>3, <1>4, <1>5, <1>6, <1>7, <1>8, <1>9, <1>10, <1>11, <1>12, <1>13, <1>14, <1>15,
            <1>16, <1>17, <1>18, <1>19 DEF A!Next

LEMMA LateStep == PinCore /\ LateShape /\ [A!Next]_A!vars => LateShape'
<1> SUFFICES ASSUME PinCore, LateShape, [A!Next]_A!vars PROVE LateShape'
  OBVIOUS
<1>1. ASSUME A!Track PROVE LateShape'
  <2>1. slipped' = (slipped \ held.done) \cup
                   {d \in held.done : \E l \in leaving : l.app = held.app /\ d \in l.done}
    BY <1>1 DEF A!Track
  <2>2. held.done \subseteq Slices
    BY DEF PinCore, Operations
  <2> QED BY <1>1, <2>1, <2>2 DEF A!Track, LateShape
<1>2. ASSUME A!Unpinned PROVE LateShape'
  <2>1. [app |-> held.app, done |-> held.done] \in [app : Pinned, done : SUBSET Slices]
    BY <1>2 DEF A!Unpinned, PinCore, Operations
  <2> QED BY <1>2, <2>1 DEF A!Unpinned, LateShape
<1>3. ASSUME NEW d \in Slices, A!Unpin(d) \/ A!StopRestore(d) \/ A!Vanish(d) \/ A!Administer(d)
      PROVE  LateShape'
  BY <1>3 DEF A!Unpin, A!StopRestore, A!Restored, A!RestoreFails, A!Vanish, A!Administer, LateShape
<1>4. ASSUME NEW d \in Slices, A!SetRead(d) \/ A!SetWrite(d) PROVE LateShape'
  BY <1>4 DEF A!SetRead, A!SetWrite, A!late, LateShape
<1>5. ASSUME NEW a \in Pinned,
             A!Bind(a) \/ A!Restore(a) \/ A!Release(a) \/ A!Reap(a) \/ A!Exit(a) \/ A!Launch(a)
      PROVE  LateShape'
  BY <1>5 DEF A!Bind, A!Restore, A!Release, A!Reap, A!Exit, A!Launch, A!late, LateShape
<1>6. ASSUME A!Lock \/ A!Forget \/ A!Shutdown \/ A!Stopped \/ UNCHANGED A!vars PROVE LateShape'
  BY <1>6 DEF A!Lock, A!Forget, A!Shutdown, A!Stopped, A!vars, A!late, LateShape
<1> QED BY <1>1, <1>2, <1>3, <1>4, <1>5, <1>6 DEF A!Next

-----------------------------------------------------------------------------
(* The invariant, of the behaviours in which no binding overlaps the         *)
(* shutdown.  Freshness is what the lock is for: the value a binding has     *)
(* read is still nobody's pin when it goes on record.                        *)

NoBindingAtStop == (Binding => stop.pc = "no") /\ (stop.pc = "no" => stop.todo = {})

\* a pinned cgroup has its original, and no original is a pin
PinUndoable == \A d \in Slices : original[d] # "pin" /\ (cpus[d] = "pin" => original[d] # "unknown")

Freshness == held.pc = "write" /\ held.seen = "pin" => \A d \in held.todo : d = A!Pick(held.todo) => original[d] # "unknown"

StopIsThorough ==
    \A d \in Slices : cpus[d] = "pin" =>
        /\ stop.pc = "restoring" => d \in stop.todo \cup failed
        /\ stop.pc = "done" => d \in failed

\* d is on a's record, and no release is about to forget it
Firm(a, d) == d \in tracked[a] /\ \A l \in leaving : l.app = a => d \notin l.done

OnRecord ==
    \A d \in Slices : cpus[d] = "pin" =>
        \/ d \in failed \cup stop.todo \cup waiting.todo \cup slipped
        \/ \E a \in Pinned : Firm(a, d)
        \/ Binding /\ d \in held.done
        \/ Unpinning /\ d \in held.todo

\* what an unpinning is done with may be forgotten
DoneIsFree == Unpinning => \A d \in held.done : cpus[d] = "pin" => d \in failed

Parts == NoBindingAtStop /\ PinUndoable /\ Freshness /\ StopIsThorough /\ OnRecord /\ DoneIsFree
PinInv == ~raced => Parts

\* While the holder of the lock neither binds nor unpins, nothing else of it matters.
LEMMA HolderUnchanged ==
    ASSUME PinCore, Parts, UNCHANGED <<cpus, original, failed, stop, held>>, tracked' = tracked, waiting' = waiting,
           leaving' = leaving, slipped' = slipped
    PROVE  Parts'
BY DEF Parts, NoBindingAtStop, PinUndoable, Freshness, StopIsThorough, OnRecord, Firm, DoneIsFree, Binding,
       Unpinning

LEMMA PartsBegin ==
    ASSUME PinCore, Parts, NEW a \in Pinned, A!Bind(a) \/ A!Restore(a) \/ A!Release(a) \/ A!Reap(a), ~raced'
    PROVE  Parts'
<1>1. ASSUME A!Bind(a) PROVE Parts'
  <2>1. held'.pc = "read" /\ held'.done = {} /\ held.pc = "idle" /\ stop.pc = "no"
    BY <1>1, BeginEffect DEF PinCore
  <2>2. UNCHANGED <<cpus, original, tracked, waiting, stop, failed, leaving, slipped>>
    BY <1>1 DEF A!Bind, A!late
  <2> QED BY <2>1, <2>2 DEF Parts, NoBindingAtStop, PinUndoable, Freshness, StopIsThorough, OnRecord, Firm,
             DoneIsFree, Binding, Unpinning
<1>2. ASSUME A!Restore(a) PROVE Parts'
  <2>1. held'.pc = "restore" /\ held'.done = {} /\ held.pc = "idle"
    BY <1>2, BeginEffect
  <2>2. UNCHANGED <<cpus, original, tracked, waiting, stop, failed, leaving, slipped>>
    BY <1>2 DEF A!Restore, A!late
  <2> QED BY <2>1, <2>2 DEF Parts, NoBindingAtStop, PinUndoable, Freshness, StopIsThorough, OnRecord, Firm,
             DoneIsFree, Binding, Unpinning
<1>3. ASSUME A!Release(a) PROVE Parts'
  <2>1. waiting.todo = {}
    BY <1>3, BeginEffect, IdleOp
  <2>2. UNCHANGED <<cpus, original, tracked, held, stop, failed, leaving, slipped>>
    BY <1>3 DEF A!Release, A!late
  <2> QED BY <2>1, <2>2 DEF Parts, NoBindingAtStop, PinUndoable, Freshness, StopIsThorough, OnRecord, Firm,
             DoneIsFree, Binding, Unpinning
<1>4. ASSUME A!Reap(a) PROVE Parts'
  <2>1. waiting.todo = {} /\ waiting'.todo = tracked[a]
    BY <1>4, BeginEffect, IdleOp
  <2>2. /\ UNCHANGED <<cpus, original, held, stop, failed, leaving, slipped>>
        /\ tracked' = [tracked EXCEPT ![a] = {}]
    BY <1>4 DEF A!Reap, A!late
  <2>3. OnRecord'
    <3>1. \A d \in Slices : \A b \in Pinned : Firm(b, d) => Firm(b, d)' \/ d \in waiting'.todo
      BY <2>1, <2>2 DEF PinCore, Firm
    <3> QED BY <2>1, <2>2, <3>1 DEF Parts, OnRecord, Binding, Unpinning
  <2> QED BY <2>2, <2>3 DEF Parts, NoBindingAtStop, PinUndoable, Freshness, StopIsThorough,
             DoneIsFree, Binding, Unpinning
<1> QED BY <1>1, <1>2, <1>3, <1>4

LEMMA PartsRead ==
    ASSUME PinCore, Parts, NEW d \in Slices, A!SetRead(d)
    PROVE  Parts'
<1>1. UNCHANGED <<cpus, original, tracked, waiting, stop, failed, leaving, slipped>>
  BY ReadEffect DEF A!SetRead, A!late
<1>2. held.pc = "read" /\ d \in held.todo /\ stop.pc = "no"
  BY ReadEffect DEF Parts, NoBindingAtStop, Binding
<1>3. CASE RolledBack(d)
  BY <1>1, <1>2, <1>3 DEF Parts, RolledBack, NoBindingAtStop, PinUndoable, Freshness, StopIsThorough, OnRecord, Firm,
     DoneIsFree, Binding, Unpinning
<1>4. CASE /\ held'.pc = "write" /\ held'.todo = held.todo /\ held'.done = held.done
           /\ held'.seen = A!Restriction(cpus[d]) /\ d = A!Pick(held.todo)
  <2>1. Freshness'
    <3>1. A!Restriction(cpus[d]) = "pin" => original[d] # "unknown"
      BY DEF A!Restriction, Parts, PinUndoable
    <3> QED BY <1>1, <1>4, <3>1 DEF Freshness
  <2> QED BY <1>1, <1>2, <1>4, <2>1 DEF Parts, NoBindingAtStop, PinUndoable, StopIsThorough, OnRecord, Firm,
             DoneIsFree, Binding, Unpinning
<1> QED BY <1>3, <1>4, ReadEffect

LEMMA PartsWrite ==
    ASSUME PinCore, Parts, NEW d \in Slices, A!SetWrite(d)
    PROVE  Parts'
<1>1. UNCHANGED <<tracked, waiting, stop, failed, leaving, slipped>>
  BY DEF A!SetWrite, A!late
<1>2. held.pc = "write" /\ d \in held.todo /\ d = A!Pick(held.todo) /\ stop.pc = "no"
  BY WriteEffect DEF Parts, NoBindingAtStop, Binding
<1>3. held.seen \in {"", "ext", "pin"}
  BY <1>2 DEF PinCore, Operations, Seens
<1>4. CASE d \in exists /\ cpus' = [cpus EXCEPT ![d] = "pin"] /\ A!Record(d)
  <2>1. original'[d] \in {"", "ext"} /\ \A x \in Slices : x # d => original'[x] = original[x]
    BY <1>2, <1>3, <1>4 DEF PinCore, A!Record, Parts, Freshness, PinUndoable
  <2>2. cpus'[d] = "pin" /\ \A x \in Slices : x # d => cpus'[x] = cpus[x]
    BY <1>4 DEF PinCore
  <2>3. PinUndoable'
    BY <2>1, <2>2 DEF Parts, PinUndoable
  <2>4. \/ held'.pc = "rollback" /\ held'.done = {} /\ held'.todo = held.done \cup {d}
        \/ held'.pc \in {"track", "read"} /\ held'.done = held.done \cup {d}
    <3>1. RolledBack(d) \/ (held'.pc \in {"track", "read"} /\ held'.done = held.done \cup {d})
      BY WriteEffect
    <3>2. original'[d] # "unknown"
      BY <2>1
    <3> QED BY <3>1, <3>2 DEF RolledBack
  <2>5. StopIsThorough' /\ NoBindingAtStop' /\ DoneIsFree' /\ Freshness'
    BY <1>1, <1>2, <2>4 DEF StopIsThorough, NoBindingAtStop, Parts, DoneIsFree, Freshness, Binding, Unpinning
  <2>6. OnRecord'
    BY <1>1, <1>2, <2>2, <2>4 DEF Parts, OnRecord, Firm, Binding, Unpinning
  <2> QED BY <2>3, <2>5, <2>6 DEF Parts
<1>5. CASE UNCHANGED <<cpus, original>> /\ RolledBack(d)
  BY <1>1, <1>2, <1>5 DEF Parts, RolledBack, NoBindingAtStop, PinUndoable, Freshness, StopIsThorough, OnRecord, Firm,
     DoneIsFree, Binding, Unpinning
<1> QED BY <1>4, <1>5, WriteEffect

LEMMA PartsTrack ==
    ASSUME PinCore, Parts, A!Track
    PROVE  Parts'
<1>1. /\ held.pc = "track" /\ held.app \in Pinned /\ held'.pc = "idle"
      /\ tracked' = [tracked EXCEPT ![held.app] = @ \cup held.done]
      /\ UNCHANGED <<cpus, original, waiting, stop, failed, leaving>>
      /\ slipped' = (slipped \ held.done) \cup
                    {d \in held.done : \E l \in leaving : l.app = held.app /\ d \in l.done}
  BY IdleOp DEF A!Track, PinCore
<1>2. \A d \in Slices : \A b \in Pinned : Firm(b, d) => Firm(b, d)'
  BY <1>1 DEF PinCore, Firm
<1>3. \A d \in held.done, a \in Pinned : a = held.app => d \in slipped' \/ Firm(a, d)'
  <2> SUFFICES ASSUME NEW d \in held.done, NEW a \in Pinned, a = held.app, d \notin slipped' PROVE Firm(a, d)'
    OBVIOUS
  <2>1. d \in tracked'[a]
    BY <1>1 DEF PinCore
  <2>2. \A l \in leaving : l.app = a => d \notin l.done
    BY <1>1
  <2> QED BY <1>1, <2>1, <2>2 DEF Firm
<1>4. OnRecord'
  <2>1. \A d \in slipped : d \in slipped' \/ d \in held.done
    BY <1>1
  <2>2. held.app \in Pinned /\ ~Unpinning /\ held'.pc = "idle"
    BY <1>1 DEF Unpinning
  <2> QED BY <1>1, <1>2, <1>3, <2>1, <2>2 DEF Parts, OnRecord, Binding, Unpinning
<1> QED BY <1>1, <1>4 DEF Parts, NoBindingAtStop, PinUndoable, Freshness, StopIsThorough, DoneIsFree,
           Binding, Unpinning

LEMMA PartsLock ==
    ASSUME PinCore, Parts, A!Lock
    PROVE  Parts'
<1>1. /\ held.pc = "idle" /\ held' = waiting /\ waiting.pc \in {"release", "reaper"} /\ waiting.done = {}
      /\ UNCHANGED <<cpus, original, tracked, stop, failed, leaving, slipped>>
  BY DEF A!Lock, PinCore, A!late
<1> QED BY <1>1 DEF Parts, NoBindingAtStop, PinUndoable, Freshness, StopIsThorough, OnRecord, Firm,
           DoneIsFree, Binding, Unpinning

LEMMA PartsUnpin ==
    ASSUME PinCore, Parts, NEW d \in Slices, A!Unpin(d)
    PROVE  Parts'
<1>1. /\ held'.pc = held.pc /\ Unpinning /\ held'.todo = held.todo \ {d}
      /\ held'.done \subseteq held.done \cup {d}
  BY UnpinEffect
<1>2. UNCHANGED <<tracked, waiting, stop, leaving>> /\ (A!Restored(d) \/ A!RestoreFails(d))
  BY UnpinEffect DEF A!Unpin
<1>3. /\ failed \subseteq failed'
      /\ \A x \in Slices : x # d => cpus'[x] = cpus[x] /\ original'[x] = original[x]
      /\ original'[d] \in {"unknown", original[d]}
      /\ slipped \subseteq slipped' \cup {d}
  BY <1>2, Restores
<1>4. cpus'[d] = "pin" => cpus[d] = "pin" /\ d \in failed' /\ original'[d] = original[d]
  <2>1. CASE original[d] \in {"", "ext"}
    <3>1. cpus'[d] = "pin" => d \in failed' /\ original'[d] = original[d]
      BY <1>2, <2>1, Restores
    <3>2. cpus'[d] = "pin" => cpus[d] = "pin"
      BY <1>2, <2>1 DEF A!Restored, A!RestoreFails, A!Undo, PinCore
    <3> QED BY <3>1, <3>2
  <2>2. CASE original[d] \notin {"", "ext"}
    <3>1. original[d] = "unknown" /\ cpus[d] # "pin" /\ cpus' = cpus
      BY <1>2, <2>2 DEF Parts, PinUndoable, PinCore, A!Restored, A!RestoreFails, A!Bound
    <3> QED BY <3>1
  <2> QED BY <2>1, <2>2
<1>5. PinUndoable'
  BY <1>3, <1>4 DEF Parts, PinUndoable
<1>6. NoBindingAtStop' /\ Freshness'
  BY <1>1, <1>2 DEF Parts, NoBindingAtStop, Freshness, Binding, Unpinning
<1>7. \A x \in Slices : cpus'[x] = "pin" => cpus[x] = "pin" /\ (x = d => x \in failed')
  BY <1>3, <1>4
<1>8. StopIsThorough'
  BY <1>2, <1>3, <1>7 DEF Parts, StopIsThorough
<1>9. OnRecord'
  <2>1. \A x \in Slices : x \in held.todo => x \in held'.todo \/ x = d
    BY <1>1
  <2>2. ~Binding /\ Unpinning'
    BY <1>1 DEF Binding, Unpinning
  <2>3. \A x \in Slices : \A b \in Pinned : Firm(b, x) => Firm(b, x)'
    BY <1>2 DEF Firm
  <2> QED BY <1>2, <1>3, <1>7, <2>1, <2>2, <2>3 DEF Parts, OnRecord
<1>10. DoneIsFree'
  <2>1. \A x \in held'.done : x \in Slices /\ (x \in held.done \/ x = d)
    BY <1>1 DEF PinCore, Operations
  <2> QED BY <1>1, <1>3, <1>7, <2>1 DEF Parts, DoneIsFree
<1> QED BY <1>5, <1>6, <1>8, <1>9, <1>10 DEF Parts

LEMMA PartsUnpinned ==
    ASSUME PinCore, Parts, A!Unpinned
    PROVE  Parts'
<1>1. /\ Unpinning /\ held.todo = {} /\ held.app \in Pinned /\ held'.pc = "idle"
      /\ tracked' = tracked \/ tracked' = [tracked EXCEPT ![held.app] = @ \ held.done]
      /\ leaving' \subseteq leaving \cup {[app |-> held.app, done |-> held.done]}
      /\ UNCHANGED <<cpus, original, waiting, stop, failed, slipped>>
  BY IdleOp DEF A!Unpinned, PinCore, Unpinning
<1>2. \A d \in Slices : \A b \in Pinned : Firm(b, d) => Firm(b, d)' \/ d \in held.done
  <2> SUFFICES ASSUME NEW d \in Slices, NEW b \in Pinned, Firm(b, d), d \notin held.done PROVE Firm(b, d)'
    OBVIOUS
  <2>1. d \in tracked'[b]
    BY <1>1 DEF PinCore, Firm
  <2>2. \A l \in leaving' : l.app = b => d \notin l.done
    BY <1>1 DEF Firm
  <2> QED BY <2>1, <2>2 DEF Firm
<1>3. OnRecord'
  BY <1>1, <1>2 DEF Parts, OnRecord, DoneIsFree, Binding, Unpinning
<1> QED BY <1>1, <1>3 DEF Parts, NoBindingAtStop, PinUndoable, Freshness, StopIsThorough, DoneIsFree,
           Binding, Unpinning

LEMMA PartsForget ==
    ASSUME PinCore, Parts, A!Forget
    PROVE  Parts'
<1>1. PICK l \in leaving : leaving' = leaving \ {l} /\ tracked' = [tracked EXCEPT ![l.app] = @ \ l.done]
  BY DEF A!Forget
<1>2. UNCHANGED <<cpus, original, held, waiting, stop, failed, slipped>>
  BY DEF A!Forget
<1>3. \A d \in Slices : \A b \in Pinned : Firm(b, d) => Firm(b, d)'
  BY <1>1 DEF Firm, PinCore
<1>4. OnRecord'
  BY <1>2, <1>3 DEF Parts, OnRecord, Binding, Unpinning
<1> QED BY <1>2, <1>4 DEF Parts, NoBindingAtStop, PinUndoable, Freshness, StopIsThorough, DoneIsFree,
           Binding, Unpinning

LEMMA PartsShutdown ==
    ASSUME PinCore, Parts, A!Shutdown, ~raced'
    PROVE  Parts'
<1>1. /\ stop.pc = "no" /\ stop'.pc = "restoring" /\ stop'.todo = {d \in Slices : A!Bound(d)} /\ stop.todo = {}
      /\ ~Binding /\ UNCHANGED <<cpus, original, tracked, held, waiting, failed, leaving, slipped>>
  BY DEF A!Shutdown, Parts, NoBindingAtStop, Binding, PinCore, A!late
<1> QED BY <1>1 DEF Parts, NoBindingAtStop, PinUndoable, Freshness, StopIsThorough, OnRecord, Firm,
           DoneIsFree, Binding, Unpinning, A!Bound

LEMMA PartsStopRestore ==
    ASSUME PinCore, Parts, NEW d \in Slices, A!StopRestore(d)
    PROVE  Parts'
<1>1. /\ stop.pc = "restoring" /\ stop'.pc = "restoring" /\ stop'.todo = stop.todo \ {d}
      /\ UNCHANGED <<tracked, held, waiting, leaving>> /\ (A!Restored(d) \/ A!RestoreFails(d))
  BY DEF A!StopRestore, PinCore
<1>2. ~Binding
  BY <1>1 DEF Parts, NoBindingAtStop
<1>3. /\ failed \subseteq failed'
      /\ \A x \in Slices : x # d => cpus'[x] = cpus[x] /\ original'[x] = original[x]
      /\ original'[d] \in {"unknown", original[d]}
      /\ slipped \subseteq slipped' \cup {d}
  BY <1>1, Restores
<1>4. cpus'[d] = "pin" => cpus[d] = "pin" /\ d \in failed' /\ original'[d] = original[d]
  <2>1. CASE original[d] \in {"", "ext"}
    <3>1. cpus'[d] = "pin" => d \in failed' /\ original'[d] = original[d]
      BY <1>1, <2>1, Restores
    <3>2. cpus'[d] = "pin" => cpus[d] = "pin"
      BY <1>1, <2>1 DEF A!Restored, A!RestoreFails, A!Undo, PinCore
    <3> QED BY <3>1, <3>2
  <2>2. CASE original[d] \notin {"", "ext"}
    <3>1. original[d] = "unknown" /\ cpus[d] # "pin" /\ cpus' = cpus
      BY <1>1, <2>2 DEF Parts, PinUndoable, PinCore, A!Restored, A!RestoreFails, A!Bound
    <3> QED BY <3>1
  <2> QED BY <2>1, <2>2
<1>5. PinUndoable' /\ NoBindingAtStop' /\ Freshness'
  BY <1>1, <1>2, <1>3, <1>4 DEF Parts, PinUndoable, NoBindingAtStop, Freshness, Binding
<1>6. \A x \in Slices : cpus'[x] = "pin" => cpus[x] = "pin" /\ (x = d => x \in failed')
  BY <1>3, <1>4
<1>7. StopIsThorough'
  BY <1>1, <1>3, <1>6 DEF Parts, StopIsThorough
<1>8. OnRecord'
  BY <1>1, <1>2, <1>3, <1>6 DEF Parts, OnRecord, Firm, Binding, Unpinning
<1>9. DoneIsFree'
  <2>1. held.done \subseteq Slices
    BY DEF PinCore, Operations
  <2> QED BY <1>1, <1>3, <1>6, <2>1 DEF Parts, DoneIsFree, Unpinning
<1> QED BY <1>5, <1>7, <1>8, <1>9 DEF Parts

LEMMA PartsStopped ==
    ASSUME PinCore, Parts, A!Stopped
    PROVE  Parts'
<1>1. /\ stop.pc = "restoring" /\ stop.todo = {} /\ stop'.pc = "done" /\ stop'.todo = {}
      /\ UNCHANGED <<cpus, original, tracked, held, waiting, failed, leaving, slipped>>
  BY DEF A!Stopped, PinCore, A!late
<1> QED BY <1>1 DEF Parts, NoBindingAtStop, PinUndoable, Freshness, StopIsThorough, OnRecord, Firm,
           DoneIsFree, Binding, Unpinning

LEMMA PartsOthers ==
    ASSUME PinCore, Parts, NEW d \in Slices, A!Vanish(d) \/ A!Administer(d)
    PROVE  Parts'
<1>1. UNCHANGED <<original, tracked, held, waiting, stop, failed, leaving>> /\ slipped' = slipped \ {d}
  BY DEF A!Vanish, A!Administer
<1>2. cpus' = [cpus EXCEPT ![d] = ""] \/ cpus' = [cpus EXCEPT ![d] = "ext"]
  BY DEF A!Vanish, A!Administer
<1>3. \A x \in Slices : cpus'[x] = "pin" => cpus[x] = "pin" /\ x # d
  BY <1>2 DEF PinCore
<1>4. held.done \subseteq Slices
  BY DEF PinCore, Operations
<1>5. OnRecord' /\ DoneIsFree'
  BY <1>1, <1>3, <1>4 DEF Parts, OnRecord, Firm, DoneIsFree, Binding, Unpinning
<1> QED BY <1>1, <1>3, <1>5 DEF Parts, NoBindingAtStop, PinUndoable, Freshness, StopIsThorough, Binding

LEMMA PartsStep == PinCore /\ Parts /\ [A!Next]_A!vars /\ ~raced' => Parts'
<1> SUFFICES ASSUME PinCore, Parts, [A!Next]_A!vars, ~raced' PROVE Parts'
  OBVIOUS
<1>1. ASSUME NEW a \in Pinned, A!Exit(a) \/ A!Launch(a) PROVE Parts'
  BY <1>1, HolderUnchanged DEF A!Exit, A!Launch, A!late
<1>2. ASSUME UNCHANGED A!vars PROVE Parts'
  BY <1>2, HolderUnchanged DEF A!vars, A!late
<1> QED BY <1>1, <1>2, PartsBegin, PartsRead, PartsWrite, PartsTrack, PartsLock, PartsUnpin, PartsUnpinned, PartsForget,
           PartsShutdown, PartsStopRestore, PartsStopped, PartsOthers DEF A!Next

\* once a binding has met the shutdown, the history says so for good
LEMMA RacedStays == PinCore /\ raced /\ [A!Next]_A!vars => raced'
BY DEF PinCore, A!Next, A!vars, A!Bind, A!Restore, A!Release, A!Reap, A!Exit, A!Launch, A!SetRead, A!SetWrite, A!Unpin, A!StopRestore,
       A!Vanish, A!Administer, A!Lock, A!Track, A!Unpinned, A!Forget, A!Shutdown, A!Stopped

LEMMA PinStart == A!Init => PinShape /\ PinInv
<1> SUFFICES ASSUME A!Init PROVE PinShape /\ PinInv
  OBVIOUS
<1>1. held = A!Idle /\ waiting = A!Idle /\ held.pc = "idle"
  BY IdleOp DEF A!Init
<1>2. PinShape
  BY <1>1, IdleOp DEF A!Init, PinShape, PinCore, LateShape
<1>3. PinInv
  BY <1>1 DEF A!Init, PinInv, Parts, NoBindingAtStop, PinUndoable, Freshness, StopIsThorough, OnRecord, Firm, DoneIsFree,
     Binding, Unpinning
<1> QED BY <1>2, <1>3

LEMMA PinKept == Homes /\ PinShape /\ PinInv /\ [A!Next]_A!vars => PinShape' /\ PinInv'
<1> SUFFICES ASSUME Homes, PinShape, PinInv, [A!Next]_A!vars PROVE PinShape' /\ PinInv'
  OBVIOUS
<1>0. PinShape'
  BY PinCoreStep, LateStep DEF PinShape
<1>1. CASE raced'
  BY <1>0, <1>1 DEF PinInv
<1>2. CASE ~raced'
  <2>1. ~raced
    BY <1>2, RacedStays DEF PinShape
  <2>2. Parts
    BY <2>1 DEF PinInv
  <2>3. Parts'
    BY <1>2, <2>2, PartsStep DEF PinShape
  <2> QED BY <1>0, <2>3 DEF PinInv
<1> QED BY <1>1, <1>2

LEMMA PinShows == PinShape /\ PinInv => A!TypeOK /\ A!PinCanBeUndone /\ A!PinIsTracked
<1> SUFFICES ASSUME PinShape, PinInv PROVE A!TypeOK /\ A!PinCanBeUndone /\ A!PinIsTracked
  OBVIOUS
<1>1. A!TypeOK
  <2>1. held.pc \in PinPcs /\ held.todo \subseteq Slices /\ held.done \subseteq Slices /\ waiting.todo \subseteq Slices
    BY DEF PinShape, PinCore, Operations
  <2> QED BY <2>1 DEF PinShape, PinCore, LateShape, A!TypeOK, PinPcs
<1>2. A!PinCanBeUndone
  BY DEF PinShape, PinCore, PinInv, Parts, PinUndoable, StopIsThorough, A!PinCanBeUndone
<1>3. A!PinIsTracked
  BY DEF PinInv, Parts, OnRecord, Firm, A!PinIsTracked
<1> QED BY <1>1, <1>2, <1>3

LEMMA PinInvariant == ASSUME Homes PROVE A!Spec => [](PinShape /\ PinInv)
<1>1. PinShape /\ PinInv /\ [A!Next]_A!vars => PinShape' /\ PinInv'
  BY PinKept
<1> QED BY <1>1, PinStart, PTL DEF A!Spec

\* The state has its shape: a binding that reads or writes has a cgroup to do it for, whatever
\* the reaper, a release and the shutdown do meanwhile.  (set_cpu_affinity.)
THEOREM AffinityTypeCorrect == Homes /\ A!Spec => []A!TypeOK
<1> SUFFICES ASSUME Homes PROVE A!Spec => []A!TypeOK
  OBVIOUS
<1>1. PinShape /\ PinInv => A!TypeOK
  BY PinShows
<1>2. A!Spec => [](PinShape /\ PinInv)
  BY PinInvariant
<1> QED BY <1>1, <1>2, PTL

\* What others had set is on record for every pinned cgroup, and shutdown leaves pinned only what
\* it failed to restore, for any apps and cgroups.  (set_cpus, restore, restore_all.)
THEOREM PinsCanBeUndone == Homes /\ A!Spec => []A!PinCanBeUndone
<1> SUFFICES ASSUME Homes PROVE A!Spec => []A!PinCanBeUndone
  OBVIOUS
<1>1. PinShape /\ PinInv => A!PinCanBeUndone
  BY PinShows
<1>2. A!Spec => [](PinShape /\ PinInv)
  BY PinInvariant
<1> QED BY <1>1, <1>2, PTL

\* Every pinned cgroup is on some app's record or being dealt with, for any apps that share
\* cgroups in any way.  (_affinity_apps, _forget_affinity, _reap_closed_affinity.)
THEOREM PinsAreTracked == Homes /\ A!Spec => []A!PinIsTracked
<1> SUFFICES ASSUME Homes PROVE A!Spec => []A!PinIsTracked
  OBVIOUS
<1>1. PinShape /\ PinInv => A!PinIsTracked
  BY PinShows
<1>2. A!Spec => [](PinShape /\ PinInv)
  BY PinInvariant
<1> QED BY <1>1, <1>2, PTL

-----------------------------------------------------------------------------
(***************************************************************************)
(* Network shaping.                                                        *)
(***************************************************************************)
\* The module's own names of library operators mean what they mean here.
LEMMA SameCount == ASSUME NEW s PROVE N!Cardinality(s) = Cardinality(s)
BY DEF N!Cardinality, Cardinality

LEMMA SameRemoval == ASSUME NEW s, NEW i PROVE N!RemoveAt(s, i) = RemoveAt(s, i)
BY DEF N!RemoveAt, RemoveAt


-----------------------------------------------------------------------------
(* The shape of the state.                                                 *)

Entries == [app : Shaped, tier : NetTiers]
Classes == {"low", "high"}
Rate == {"max", "half", "min"}
Rates == [N!Dirs -> [Classes -> Rate]]
Rules == [app : Shaped, mark : Nat]
Filters == [prio : Nat, mark : Nat]
Kernels == [tree : BOOLEAN, rules : SUBSET Rules, filters : SUBSET Filters, police : SUBSET Filters,
            rate : Rates, rps : {"own", "mask", "zero"}]
\* What commands should delete, and what failed ones have left: parts of the kernel.
Leftovers == [rules : SUBSET Rules, filters : SUBSET Filters, police : SUBSET Filters]
LeftIn(k, l) == l.rules \subseteq k.rules /\ l.filters \subseteq k.filters /\ l.police \subseteq k.police
MarkRecord == [mark : Nat, tier : NetTiers, prio : Nat]
Infos(f) == IsFiniteSet(DOMAIN f) /\ \A a \in DOMAIN f : a \in Shaped /\ f[a] \in MarkRecord
Prios(f) == IsFiniteSet(DOMAIN f) /\ \A a \in DOMAIN f : a \in Shaped /\ f[a] \in Nat
Cycles == [pc : {"start", "gone", "each", "shape", "rx"}, seen : Seq(Entries), next : Nat]
Cools == [N!Dirs -> {"hot", "warm", "cold"}]

\* The shape of the state, with finite records; while the list is gone through, its index is a place.
ShapingTyped ==
           /\ listed \in Seq(Entries)
           /\ config \in BOOLEAN /\ pending \in BOOLEAN /\ control \in BOOLEAN
           /\ shaped \in BOOLEAN /\ gone \in BOOLEAN
           /\ Infos(info) /\ Prios(caps) /\ pool \subseteq Nat
           /\ stage \in [N!Dirs -> 0 .. 4] /\ cool \in Cools
           /\ saved \in {"none", "own", "mask", "zero"} /\ unsure \in BOOLEAN
           /\ kernel \in Kernels /\ left \in Leftovers /\ LeftIn(kernel, left)
           /\ astray \subseteq N!Dirs \X Classes
           /\ cycle \in Cycles
           /\ cycle.pc \in {"gone", "each"} => cycle.next >= 1

LEMMA FullIsRate == [d \in N!Dirs |-> N!Full] \in Rates /\ \A d \in N!Dirs : [x \in N!Dirs |-> N!Full][d] = N!Full
  BY DEF Rates, N!Full, Classes, Rate

LEMMA EmptyIs == DOMAIN N!Empty = {} /\ Infos(N!Empty) /\ Prios(N!Empty) /\ N!Marked(N!Empty) = {}
  BY FS_EmptySet DEF N!Empty, Infos, Prios, N!Marked

LEMMA ShapingTypedInit == N!Init => ShapingTyped
<1> SUFFICES ASSUME N!Init PROVE ShapingTyped
  OBVIOUS
<1>1. Infos(info) /\ Prios(caps) /\ pool \subseteq Nat
  BY EmptyIs DEF N!Init, N!Marks
<1>2. kernel \in Kernels
  BY FullIsRate DEF N!Init, Kernels
<1>3. cycle \in Cycles /\ cycle.pc = "start" /\ listed \in Seq(Entries)
  BY DEF N!Init, Cycles
<1>4. stage \in [N!Dirs -> 0 .. 4] /\ cool \in Cools /\ saved = "none" /\ unsure = FALSE /\ astray = {}
  BY DEF N!Init, Cools
<1>6. left \in Leftovers /\ LeftIn(kernel, left)
  BY DEF N!Init, N!Nothing, Leftovers, LeftIn
<1>5. config \in BOOLEAN /\ pending \in BOOLEAN /\ control \in BOOLEAN /\ shaped \in BOOLEAN /\ gone \in BOOLEAN
  BY DEF N!Init
<1> QED BY <1>1, <1>2, <1>3, <1>4, <1>5, <1>6 DEF ShapingTyped

\* Deleting and adding records.
LEMMA WithoutIs ==
    ASSUME NEW f, NEW a
    PROVE  /\ DOMAIN N!Without(f, a) = DOMAIN f \ {a}
           /\ \A b \in DOMAIN f \ {a} : N!Without(f, a)[b] = f[b]
  BY DEF N!Without
LEMMA WithIs ==
    ASSUME NEW f, NEW a, NEW v
    PROVE  /\ DOMAIN N!With(f, a, v) = DOMAIN f \cup {a} /\ N!With(f, a, v)[a] = v
           /\ \A b \in DOMAIN f \ {a} : N!With(f, a, v)[b] = f[b]
  BY DEF N!With

LEMMA InfosKept ==
    ASSUME NEW f, Infos(f), NEW a
    PROVE  /\ Infos(N!Without(f, a))
           /\ \A v \in MarkRecord : a \in Shaped => Infos(N!With(f, a, v))
<1>1. IsFiniteSet(DOMAIN f \ {a}) /\ IsFiniteSet(DOMAIN f \cup {a})
  BY FS_AddElement, FS_RemoveElement DEF Infos
<1>2. Infos(N!Without(f, a))
  <2> DEFINE g == N!Without(f, a)
  <2>1. DOMAIN g = DOMAIN f \ {a} /\ \A b \in DOMAIN f \ {a} : g[b] = f[b]
    BY DEF N!Without
  <2> HIDE DEF g
  <2>2. Infos(g)
    BY <1>1, <2>1 DEF Infos
  <2> QED BY <2>2 DEF g
<1>3. ASSUME NEW v \in MarkRecord, a \in Shaped PROVE Infos(N!With(f, a, v))
  <2> DEFINE g == N!With(f, a, v)
  <2>1. DOMAIN g = DOMAIN f \cup {a} /\ g[a] = v /\ \A b \in DOMAIN f \ {a} : g[b] = f[b]
    BY DEF N!With
  <2> HIDE DEF g
  <2>2. Infos(g)
    BY <1>1, <1>3, <2>1 DEF Infos
  <2> QED BY <2>2 DEF g
<1> QED BY <1>2, <1>3

LEMMA PriosKept ==
    ASSUME NEW f, Prios(f), NEW a
    PROVE  /\ Prios(N!Without(f, a))
           /\ \A v \in Nat : a \in Shaped => Prios(N!With(f, a, v))
<1>1. IsFiniteSet(DOMAIN f \ {a}) /\ IsFiniteSet(DOMAIN f \cup {a})
  BY FS_AddElement, FS_RemoveElement DEF Prios
<1>2. Prios(N!Without(f, a))
  <2> DEFINE g == N!Without(f, a)
  <2>1. DOMAIN g = DOMAIN f \ {a} /\ \A b \in DOMAIN f \ {a} : g[b] = f[b]
    BY DEF N!Without
  <2> HIDE DEF g
  <2>2. Prios(g)
    BY <1>1, <2>1 DEF Prios
  <2> QED BY <2>2 DEF g
<1>3. ASSUME NEW v \in Nat, a \in Shaped PROVE Prios(N!With(f, a, v))
  <2> DEFINE g == N!With(f, a, v)
  <2>1. DOMAIN g = DOMAIN f \cup {a} /\ g[a] = v /\ \A b \in DOMAIN f \ {a} : g[b] = f[b]
    BY DEF N!With
  <2> HIDE DEF g
  <2>2. Prios(g)
    BY <1>1, <1>3, <2>1 DEF Prios
  <2> QED BY <2>2 DEF g
<1> QED BY <1>2, <1>3

\* What a step with commands that delete does: whichever of them fail, the entries that are nobody's
\* leftovers are those there were before, without what should go.
LEMMA DeletedLeaves ==
    ASSUME NEW k \in Kernels, left \in Leftovers, LeftIn(k, left), NEW w \in Leftovers, LeftIn(k, w),
           NEW g \in N!Outcomes(w)
    PROVE  LET q == N!Deleted(k, g)  l == N!Missed(w, g)
           IN  /\ q \in Kernels /\ q.rate = k.rate /\ q.rps = k.rps /\ q.tree = k.tree
               /\ l \in Leftovers /\ LeftIn(q, l)
               /\ q.rules \ l.rules = (k.rules \ left.rules) \ w.rules
               /\ q.filters \ l.filters = (k.filters \ left.filters) \ w.filters
               /\ q.police \ l.police = (k.police \ left.police) \ w.police
<1>1. g.rules \subseteq w.rules /\ g.filters \subseteq w.filters /\ g.police \subseteq w.police
  <2>1. CASE g = w
    BY <2>1
  <2>2. ASSUME NEW r \in w.rules, g = [w EXCEPT !.rules = @ \ {r}] PROVE <1>1!:
    BY <2>2 DEF Leftovers
  <2>3. ASSUME NEW f \in w.filters, g = [w EXCEPT !.filters = @ \ {f}] PROVE <1>1!:
    BY <2>3 DEF Leftovers
  <2>4. ASSUME NEW f \in w.police, g = [w EXCEPT !.police = @ \ {f}] PROVE <1>1!:
    BY <2>4 DEF Leftovers
  <2> QED BY <2>1, <2>2, <2>3, <2>4 DEF N!Outcomes
<1> DEFINE q == N!Deleted(k, g)  l == N!Missed(w, g)
           rules == k.rules \ g.rules  filters == k.filters \ g.filters  police == k.police \ g.police
<1>2. rules \in SUBSET Rules /\ filters \in SUBSET Filters /\ police \in SUBSET Filters
  BY DEF Kernels
<1>3. q = [k EXCEPT !.rules = rules, !.filters = filters, !.police = police]
  BY DEF N!Deleted
<1>4. /\ q \in Kernels /\ q.rate = k.rate /\ q.rps = k.rps /\ q.tree = k.tree
      /\ q.rules = rules /\ q.filters = filters /\ q.police = police
  <2> HIDE DEF rules, filters, police, q
  <2> QED BY <1>2, <1>3 DEF Kernels
<1>5. /\ l.rules = (left.rules \cup w.rules) \ g.rules /\ l.filters = (left.filters \cup w.filters) \ g.filters
      /\ l.police = (left.police \cup w.police) \ g.police
  BY DEF N!Missed
<1>6. l \in Leftovers
  BY DEF N!Missed, Leftovers
<1> HIDE DEF q, l
<1>7. LeftIn(q, l)
  BY <1>4, <1>5 DEF LeftIn
<1> QED BY <1>1, <1>4, <1>5, <1>6, <1>7 DEF q, l

\* What the removal of an application is to delete, and what it gives back.
LEMMA RemovedTyped ==
    ASSUME Infos(info), Prios(caps), kernel \in Kernels, pool \subseteq Nat, NEW a \in DOMAIN info
    PROVE  /\ N!Removed(a) \in Leftovers /\ LeftIn(kernel, N!Removed(a))
           /\ N!Removed(a).police = IF a \in DOMAIN caps THEN {x \in kernel.police : x.prio = caps[a]} ELSE {}
           /\ info[a].mark # N!NoMark =>
                /\ N!Removed(a).rules = kernel.rules \cap {[app |-> a, mark |-> info[a].mark]}
                /\ N!Removed(a).filters = {x \in kernel.filters : x.prio = info[a].prio}
           /\ info[a].mark = N!NoMark => N!Removed(a).rules = {} /\ N!Removed(a).filters = {}
           /\ N!Released(a) \subseteq Nat
<1> DEFINE u == N!Uncapped(a)
           rules == kernel.rules \cap {[app |-> a, mark |-> info[a].mark]}
           filters == {x \in kernel.filters : x.prio = info[a].prio}
<1>1. u = (IF a \in DOMAIN caps THEN {x \in kernel.police : x.prio = caps[a]} ELSE {})
  BY DEF N!Uncapped
<1>2. u \subseteq kernel.police /\ rules \subseteq kernel.rules /\ filters \subseteq kernel.filters
  BY <1>1
<1>3. kernel.police \subseteq Filters /\ kernel.rules \subseteq Rules /\ kernel.filters \subseteq Filters
  BY DEF Kernels
<1>4. N!Removed(a) = IF info[a].mark = N!NoMark THEN [rules |-> {}, filters |-> {}, police |-> u]
                     ELSE [rules |-> rules, filters |-> filters, police |-> u]
  <2>1. N!Removed(a) = IF info[a].mark = N!NoMark THEN [N!Nothing EXCEPT !.police = u]
                       ELSE [rules |-> rules, filters |-> filters, police |-> u]
    BY DEF N!Removed
  <2> HIDE DEF u, rules, filters
  <2>2. [N!Nothing EXCEPT !.police = u] = [rules |-> {}, filters |-> {}, police |-> u]
    BY DEF N!Nothing
  <2> QED BY <2>1, <2>2
<1>5. N!Released(a) \subseteq Nat
  BY DEF N!Released, Infos, MarkRecord
<1> HIDE DEF u, rules, filters
<1>6. N!Removed(a) \in Leftovers /\ LeftIn(kernel, N!Removed(a))
  BY <1>2, <1>3, <1>4 DEF Leftovers, LeftIn
<1> QED BY <1>1, <1>4, <1>5, <1>6 DEF rules, filters

LEMMA AllocatedTyped ==
    ASSUME PoolSize \in Nat, NEW f, Infos(f), NEW free \in SUBSET Nat
    PROVE  /\ N!Allocated(free, N!Marked(f)) \subseteq Nat
           /\ IsFiniteSet(N!Marked(f)) /\ Cardinality(N!Marked(f)) \in Nat
<1>1. IsFiniteSet(N!Marked(f))
  BY FS_Subset DEF N!Marked, Infos
<1>2. Cardinality(N!Marked(f)) \in Nat
  BY <1>1, FS_CardinalityType
<1>3. N!Allocated(free, N!Marked(f)) \subseteq Nat
  <2> DEFINE n == Cardinality(N!Marked(f))
  <2> HIDE DEF n
  <2>1. n \in Nat => PoolSize + 1 + n \in Nat
    OBVIOUS
  <2> QED BY <1>2, <2>1, SameCount DEF N!Allocated, n
<1> QED BY <1>1, <1>2, <1>3

\* What an addition does to the kernel, with the mark it takes.
LEMMA AddMarks ==
    ASSUME NEW k \in Kernels, NEW with, Infos(with), NEW free \in SUBSET Nat, NEW e \in Entries,
           NEW idx \in Nat, NEW landed, N!Add(k, with, free, e, idx, landed), PoolSize \in Nat,
           e.tier # "system"
    PROVE  \E m \in N!Allocated(free, N!Marked(with)) :
             /\ m \in Nat
             /\ info' = N!With(with, e.app, [mark |-> m, tier |-> e.tier, prio |-> idx])
             /\ pool' = free \ {m}
             /\ kernel' \in Kernels
             /\ kernel'.rate = k.rate /\ kernel'.rps = k.rps /\ kernel'.tree = k.tree
             /\ k.rules \subseteq kernel'.rules /\ kernel'.rules \subseteq k.rules \cup {[app |-> e.app, mark |-> m]}
             /\ k.filters \subseteq kernel'.filters
             /\ kernel'.filters \subseteq k.filters \cup {[prio |-> idx, mark |-> m]}
             /\ kernel'.police = k.police
<1>1. PICK m \in N!Allocated(free, N!Marked(with)) :
         /\ info' = N!With(with, e.app, [mark |-> m, tier |-> e.tier, prio |-> idx])
         /\ pool' = free \ {m}
         /\ kernel' = [k EXCEPT
                !.rules = IF "rule" \in landed THEN @ \cup {[app |-> e.app, mark |-> m]} ELSE @,
                !.filters = IF "filter" \in landed /\ k.tree THEN @ \cup {[prio |-> idx, mark |-> m]} ELSE @]
  BY DEF N!Add
<1>2. m \in Nat
  BY AllocatedTyped
<1>3. [app |-> e.app, mark |-> m] \in Rules /\ [prio |-> idx, mark |-> m] \in Filters
  BY <1>2 DEF Entries, Rules, Filters
<1> DEFINE rules == IF "rule" \in landed THEN k.rules \cup {[app |-> e.app, mark |-> m]} ELSE k.rules
           filters == IF "filter" \in landed /\ k.tree THEN k.filters \cup {[prio |-> idx, mark |-> m]}
                      ELSE k.filters
<1>4. rules \in SUBSET Rules /\ filters \in SUBSET Filters
  BY <1>3 DEF Kernels
<1>5. kernel' = [k EXCEPT !.rules = rules, !.filters = filters]
  BY <1>1
<1>6. /\ kernel' \in Kernels /\ kernel'.rate = k.rate /\ kernel'.rps = k.rps /\ kernel'.tree = k.tree
      /\ kernel'.rules = rules /\ kernel'.filters = filters /\ kernel'.police = k.police
  <2> HIDE DEF rules, filters
  <2> QED BY <1>4, <1>5 DEF Kernels
<1>7. k.rules \subseteq rules /\ rules \subseteq k.rules \cup {[app |-> e.app, mark |-> m]}
      /\ k.filters \subseteq filters /\ filters \subseteq k.filters \cup {[prio |-> idx, mark |-> m]}
  OBVIOUS
<1> HIDE DEF rules, filters
<1> QED BY <1>1, <1>2, <1>6, <1>7

LEMMA AddTyped ==
    ASSUME NEW k \in Kernels, NEW with, Infos(with), NEW free \in SUBSET Nat, NEW e \in Entries,
           NEW idx \in Nat, NEW landed, N!Add(k, with, free, e, idx, landed), PoolSize \in Nat
    PROVE  /\ kernel' \in Kernels /\ Infos(info') /\ pool' \subseteq Nat
           /\ kernel'.rate = k.rate /\ kernel'.rps = k.rps /\ kernel'.tree = k.tree
           /\ \A l : LeftIn(k, l) => LeftIn(kernel', l)
<1>1. e.app \in Shaped /\ e.tier \in NetTiers
  BY DEF Entries
<1>2. CASE e.tier = "system"
  <2>1. info' = N!With(with, e.app, [mark |-> N!NoMark, tier |-> e.tier, prio |-> 0])
        /\ kernel' = k /\ pool' = free
    BY <1>2 DEF N!Add
  <2>2. [mark |-> N!NoMark, tier |-> e.tier, prio |-> 0] \in MarkRecord
    BY <1>1 DEF N!NoMark, MarkRecord
  <2>3. Infos(info')
    BY <1>1, <2>1, <2>2, InfosKept
  <2> QED BY <2>1, <2>3
<1>3. CASE e.tier # "system"
  <2>1. \E m \in Nat :
             /\ info' = N!With(with, e.app, [mark |-> m, tier |-> e.tier, prio |-> idx])
             /\ pool' = free \ {m}
             /\ kernel' \in Kernels
             /\ kernel'.rate = k.rate /\ kernel'.rps = k.rps /\ kernel'.tree = k.tree
             /\ k.rules \subseteq kernel'.rules /\ k.filters \subseteq kernel'.filters /\ kernel'.police = k.police
    <3>1. \E m \in N!Allocated(free, N!Marked(with)) :
             /\ m \in Nat
             /\ info' = N!With(with, e.app, [mark |-> m, tier |-> e.tier, prio |-> idx])
             /\ pool' = free \ {m}
             /\ kernel' \in Kernels
             /\ kernel'.rate = k.rate /\ kernel'.rps = k.rps /\ kernel'.tree = k.tree
             /\ k.rules \subseteq kernel'.rules /\ kernel'.rules \subseteq k.rules \cup {[app |-> e.app, mark |-> m]}
             /\ k.filters \subseteq kernel'.filters
             /\ kernel'.filters \subseteq k.filters \cup {[prio |-> idx, mark |-> m]}
             /\ kernel'.police = k.police
      BY <1>3, AddMarks
    <3> QED BY <3>1
  <2>0. PICK m \in Nat :
             /\ info' = N!With(with, e.app, [mark |-> m, tier |-> e.tier, prio |-> idx])
             /\ pool' = free \ {m}
             /\ kernel' \in Kernels
             /\ kernel'.rate = k.rate /\ kernel'.rps = k.rps /\ kernel'.tree = k.tree
             /\ k.rules \subseteq kernel'.rules /\ k.filters \subseteq kernel'.filters /\ kernel'.police = k.police
    BY <2>1
  <2>2. [mark |-> m, tier |-> e.tier, prio |-> idx] \in MarkRecord
    BY <1>1 DEF MarkRecord
  <2>3. Infos(info')
    BY <1>1, <2>0, <2>2, InfosKept
  <2>4. \A l : LeftIn(k, l) => LeftIn(kernel', l)
    BY <2>0 DEF LeftIn
  <2> QED BY <2>0, <2>3, <2>4
<1> QED BY <1>2, <1>3

-----------------------------------------------------------------------------
(* The stages.                                                             *)

Steady(k, st, as, d, class) ==
    k.tree /\ <<d, class>> \notin as => k.rate[d][class] = N!RateOf(st[d], class)
AllSteady(k, st, as) == \A d \in N!Dirs, class \in Classes : Steady(k, st, as, d, class)

\* Everything but the rates stays in the kernel.
OnlyRates == /\ kernel'.tree = kernel.tree /\ kernel'.rps = kernel.rps
             /\ kernel'.rules = kernel.rules /\ kernel'.filters = kernel.filters
             /\ kernel'.police = kernel.police

LEMMA ThrottleEffect ==
    ASSUME ShapingTyped, NEW d \in N!Dirs, NEW class \in Classes, NEW r \in Rate, NEW to \in 0 .. 4, NEW failing,
           N!Throttle(d, class, r, to, failing)
    PROVE  /\ kernel' \in Kernels /\ stage' \in [N!Dirs -> 0 .. 4] /\ cool' \in Cools /\ OnlyRates
           /\ astray' \subseteq N!Dirs \X Classes
           /\ stage'[d] = to /\ \A e \in N!Dirs \ {d} : stage'[e] = stage[e]
           /\ \A e \in N!Dirs, c \in Classes : e # d \/ c # class =>
                 kernel'.rate[e][c] = kernel.rate[e][c] /\ (<<e, c>> \in astray' <=> <<e, c>> \in astray)
           /\ <<d, class>> \in astray' \/ kernel'.rate[d][class] = r
<1>1. kernel.rate \in Rates /\ kernel.rate[d] \in [Classes -> Rate] /\ kernel \in Kernels
  BY DEF ShapingTyped, Kernels, Rates
<1>2. stage' = [stage EXCEPT ![d] = to] /\ cool' = [cool EXCEPT ![d] = "hot"]
  BY DEF N!Throttle
<1>3. stage' \in [N!Dirs -> 0 .. 4] /\ cool' \in Cools /\ stage'[d] = to /\ \A e \in N!Dirs \ {d} : stage'[e] = stage[e]
  BY <1>2 DEF ShapingTyped, Cools
<1>4. CASE failing \/ ~kernel.tree
  <2>1. astray' = astray \cup {<<d, class>>} /\ kernel' = kernel
    BY <1>4 DEF N!Throttle
  <2>2. OnlyRates /\ kernel' \in Kernels /\ astray' \subseteq N!Dirs \X Classes
    BY <1>1, <2>1 DEF OnlyRates, ShapingTyped
  <2> QED BY <1>3, <2>1, <2>2
<1>5. CASE ~(failing \/ ~kernel.tree)
  <2> DEFINE new == [kernel.rate EXCEPT ![d] = [kernel.rate[d] EXCEPT ![class] = r]]
  <2>1. astray' = astray \ {<<d, class>>} /\ kernel' = [kernel EXCEPT !.rate = new]
    BY <1>1, <1>5 DEF N!Throttle, Kernels, Rates
  <2>2. new \in Rates /\ new[d][class] = r
    <3>1. [kernel.rate[d] EXCEPT ![class] = r] \in [Classes -> Rate]
      BY <1>1
    <3> QED BY <1>1, <3>1 DEF Rates
  <2>3. \A e \in N!Dirs, c \in Classes : e # d \/ c # class => new[e][c] = kernel.rate[e][c]
    BY <1>1 DEF Rates
  <2> HIDE DEF new
  <2>4. kernel' \in Kernels /\ OnlyRates /\ kernel'.rate = new
    BY <1>1, <2>1, <2>2 DEF Kernels, OnlyRates
  <2>5. astray' \subseteq N!Dirs \X Classes
    BY <2>1 DEF ShapingTyped
  <2> QED BY <1>3, <2>1, <2>2, <2>3, <2>4, <2>5
<1> QED BY <1>4, <1>5

\* From a stage the class may get the rate and the stage become the next.
Move(st, class, r, to) ==
    \/ st = 0 /\ class = "low" /\ <<r, to>> \in {<<"min", 2>>, <<"half", 1>>}
    \/ st = 1 /\ class = "low" /\ <<r, to>> \in {<<"min", 2>>, <<"max", 0>>}
    \/ st = 2 /\ class = "high" /\ <<r, to>> \in {<<"min", 4>>, <<"half", 3>>}
    \/ st = 2 /\ class = "low" /\ <<r, to>> \in {<<"max", 0>>, <<"half", 1>>}
    \/ st = 3 /\ class = "high" /\ <<r, to>> \in {<<"min", 4>>, <<"max", 2>>}
    \/ st = 4 /\ class = "high" /\ <<r, to>> \in {<<"max", 2>>, <<"half", 3>>}

\* A move gives its class the rate of the new stage, which asks of the other class what the old one did.
LEMMA MoveRates ==
    ASSUME NEW st \in 0 .. 4, NEW class \in Classes, NEW r \in Rate, NEW to \in 0 .. 4, Move(st, class, r, to)
    PROVE  N!RateOf(to, class) = r /\ \A c \in Classes \ {class} : N!RateOf(to, c) = N!RateOf(st, c)
<1>1. CASE class = "low"
  <2>1. Classes \ {class} = {"high"} /\ st <= 2 /\ to <= 2
    BY <1>1 DEF Classes, Move
  <2>2. N!RateOf(to, "high") = "max" /\ N!RateOf(st, "high") = "max"
    BY <2>1 DEF N!RateOf
  <2>3. N!RateOf(to, "low") = r
    BY <1>1 DEF Move, N!RateOf
  <2> QED BY <1>1, <2>1, <2>2, <2>3
<1>2. CASE class = "high"
  <2>1. Classes \ {class} = {"low"} /\ st >= 2 /\ to >= 2
    BY <1>2 DEF Classes, Move
  <2>2. N!RateOf(to, "low") = "min" /\ N!RateOf(st, "low") = "min"
    BY <2>1 DEF N!RateOf
  <2>3. N!RateOf(to, "high") = r
    BY <1>2 DEF Move, N!RateOf
  <2> QED BY <1>2, <2>1, <2>2, <2>3
<1> QED BY <1>1, <1>2 DEF Classes

\* Throttling and recovering go from stage to stage with the rates, but for the classes whose command failed.
LEMMA StageEffect ==
    ASSUME ShapingTyped, NEW d \in N!Dirs, NEW failing, N!Limit(d, failing) \/ N!Recover(d, failing)
    PROVE  /\ kernel' \in Kernels /\ stage' \in [N!Dirs -> 0 .. 4] /\ cool' \in Cools /\ OnlyRates
           /\ astray' \subseteq N!Dirs \X Classes
           /\ AllSteady(kernel, stage, astray) => AllSteady(kernel', stage', astray')
<1>0. kernel.rate[d] \in [Classes -> Rate] /\ stage[d] \in 0 .. 4
  BY DEF ShapingTyped, Kernels, Rates
<1>1. CASE cool' = [cool EXCEPT ![d] = "hot"] /\ UNCHANGED <<stage, kernel, astray>>
  BY <1>1 DEF ShapingTyped, Cools, OnlyRates, AllSteady, Steady
<1>2. ASSUME NEW class \in Classes, NEW r \in Rate, NEW to \in 0 .. 4, N!Throttle(d, class, r, to, failing),
             Move(stage[d], class, r, to)
      PROVE  /\ kernel' \in Kernels /\ stage' \in [N!Dirs -> 0 .. 4] /\ cool' \in Cools /\ OnlyRates
             /\ astray' \subseteq N!Dirs \X Classes
             /\ AllSteady(kernel, stage, astray) => AllSteady(kernel', stage', astray')
  <2>1. /\ kernel' \in Kernels /\ stage' \in [N!Dirs -> 0 .. 4] /\ cool' \in Cools /\ OnlyRates
        /\ astray' \subseteq N!Dirs \X Classes
        /\ stage'[d] = to /\ \A e \in N!Dirs \ {d} : stage'[e] = stage[e]
        /\ \A e \in N!Dirs, c \in Classes : e # d \/ c # class =>
              kernel'.rate[e][c] = kernel.rate[e][c] /\ (<<e, c>> \in astray' <=> <<e, c>> \in astray)
        /\ <<d, class>> \in astray' \/ kernel'.rate[d][class] = r
    BY <1>2, ThrottleEffect
  <2>2. kernel'.tree = kernel.tree
    BY <2>1 DEF OnlyRates
  <2>3. N!RateOf(to, class) = r /\ \A c \in Classes \ {class} : N!RateOf(to, c) = N!RateOf(stage[d], c)
    BY <1>0, <1>2, MoveRates
  <2>4. ASSUME AllSteady(kernel, stage, astray), NEW e \in N!Dirs, NEW c \in Classes
        PROVE  Steady(kernel', stage', astray', e, c)
    <3>1. CASE e = d /\ c = class
      BY <2>1, <2>3, <3>1 DEF Steady
    <3>2. CASE e = d /\ c # class
      BY <2>1, <2>2, <2>3, <2>4, <3>2 DEF Steady, AllSteady
    <3>3. CASE e # d
      BY <2>1, <2>2, <2>4, <3>3 DEF Steady, AllSteady
    <3> QED BY <3>1, <3>2, <3>3
  <2> QED BY <2>1, <2>4 DEF AllSteady
<1>4. CASE ~(cool' = [cool EXCEPT ![d] = "hot"] /\ UNCHANGED <<stage, kernel, astray>>)
  <2>1. \E class \in Classes, r \in Rate, to \in 0 .. 4 :
            N!Throttle(d, class, r, to, failing) /\ Move(stage[d], class, r, to)
    <3>1. "low" \in Classes /\ "high" \in Classes /\ "min" \in Rate /\ "half" \in Rate /\ "max" \in Rate
          /\ \A to \in {0, 1, 2, 3, 4} : to \in 0 .. 4
      BY DEF Classes, Rate
    <3>2. CASE N!Limit(d, failing)
      <4>1. \/ stage[d] = 0 /\ N!Throttle(d, "low", "min", 2, failing)
            \/ stage[d] = 0 /\ N!Throttle(d, "low", "half", 1, failing)
            \/ stage[d] = 1 /\ N!Throttle(d, "low", "min", 2, failing)
            \/ stage[d] = 2 /\ N!Throttle(d, "high", "min", 4, failing)
            \/ stage[d] = 2 /\ N!Throttle(d, "high", "half", 3, failing)
            \/ stage[d] = 3 /\ N!Throttle(d, "high", "min", 4, failing)
        BY <1>4, <3>2 DEF N!Limit
      <4> QED BY <3>1, <4>1 DEF Move
    <3>3. CASE N!Recover(d, failing)
      <4>1. \/ stage[d] = 4 /\ N!Throttle(d, "high", "max", 2, failing)
            \/ stage[d] = 4 /\ N!Throttle(d, "high", "half", 3, failing)
            \/ stage[d] = 3 /\ N!Throttle(d, "high", "max", 2, failing)
            \/ stage[d] = 2 /\ N!Throttle(d, "low", "max", 0, failing)
            \/ stage[d] = 2 /\ N!Throttle(d, "low", "half", 1, failing)
            \/ stage[d] = 1 /\ N!Throttle(d, "low", "max", 0, failing)
        BY <1>4, <3>3 DEF N!Recover
      <4> QED BY <3>1, <4>1 DEF Move
    <3> QED BY <3>2, <3>3
  <2> QED BY <1>2, <2>1
<1> QED BY <1>1, <1>4

-----------------------------------------------------------------------------
(* The marks.                                                              *)

Bound(f, free) == PoolSize + Cardinality(N!Marked(f)) + Cardinality(free)

\* No mark is two applications', nor held and free; and none is beyond what the fallback has counted to.
MarksApart(f, free) ==
    /\ IsFiniteSet(free) /\ N!NoMark \notin free
    /\ \A a, b \in N!Marked(f) : f[a].mark = f[b].mark => a = b
    /\ \A a \in N!Marked(f) : f[a].mark \notin free /\ f[a].mark <= Bound(f, free)
    /\ \A m \in free : m <= Bound(f, free)

\* Every rule and filter that no failed command has left is of an application on record, with its
\* mark and under its priority.
FiltersHeld(k, l, f, c) ==
    /\ DOMAIN c \subseteq N!Marked(f)
    /\ \A r \in k.rules \ l.rules : r.app \in N!Marked(f) /\ r.mark = f[r.app].mark
    /\ \A x \in k.filters \ l.filters : \E a \in N!Marked(f) : x.prio = f[a].prio /\ x.mark = f[a].mark
    /\ \A x \in k.police \ l.police : \E a \in DOMAIN c : x.prio = c[a] /\ x.mark = f[a].mark

LEMMA RemoveKeeps ==
    ASSUME PoolSize \in Nat, ShapingTyped, NEW a \in DOMAIN info, NEW g \in N!Outcomes(N!Removed(a)),
           MarksApart(info, pool), FiltersHeld(kernel, left, info, caps)
    PROVE  /\ MarksApart(N!Without(info, a), N!Released(a))
           /\ FiltersHeld(N!Deleted(kernel, g), N!Missed(N!Removed(a), g), N!Without(info, a), N!Without(caps, a))
<1> DEFINE f == N!Without(info, a)  c == N!Without(caps, a)
           q == N!Deleted(kernel, g)  l == N!Missed(N!Removed(a), g)
<1>0. Infos(info) /\ Prios(caps) /\ pool \subseteq Nat /\ kernel \in Kernels /\ left \in Leftovers /\ LeftIn(kernel, left)
  BY DEF ShapingTyped
<1>1. DOMAIN f = DOMAIN info \ {a} /\ \A b \in DOMAIN info \ {a} : f[b] = info[b]
  BY DEF N!Without
<1>2. DOMAIN c = DOMAIN caps \ {a} /\ \A b \in DOMAIN caps \ {a} : c[b] = caps[b]
  BY DEF N!Without
<1>3. IsFiniteSet(N!Marked(info)) /\ Cardinality(N!Marked(info)) \in Nat /\ Cardinality(pool) \in Nat
  BY <1>0, AllocatedTyped, FS_CardinalityType DEF MarksApart
<1> HIDE DEF f, c
<1>4. N!Marked(f) = N!Marked(info) \ {a}
  BY <1>1 DEF N!Marked
<1>5. /\ \A x \in q.police \ l.police : x \in kernel.police \ left.police /\ (a \in DOMAIN caps => x.prio # caps[a])
      /\ \A r \in q.rules \ l.rules : r \in kernel.rules \ left.rules /\ r \in Rules
            /\ (info[a].mark # N!NoMark => r # [app |-> a, mark |-> info[a].mark])
      /\ \A x \in q.filters \ l.filters : x \in kernel.filters \ left.filters
            /\ (info[a].mark # N!NoMark => x.prio # info[a].prio)
  <2> DEFINE w == N!Removed(a)
  <2>1. /\ w \in Leftovers /\ LeftIn(kernel, w)
        /\ w.police = IF a \in DOMAIN caps THEN {x \in kernel.police : x.prio = caps[a]} ELSE {}
        /\ info[a].mark # N!NoMark =>
             /\ w.rules = kernel.rules \cap {[app |-> a, mark |-> info[a].mark]}
             /\ w.filters = {x \in kernel.filters : x.prio = info[a].prio}
    BY <1>0, RemovedTyped
  <2> HIDE DEF w
  <2>2. g \in N!Outcomes(w) /\ l = N!Missed(w, g)
    BY DEF w
  <2>3. /\ q.rules \ l.rules = (kernel.rules \ left.rules) \ w.rules
        /\ q.filters \ l.filters = (kernel.filters \ left.filters) \ w.filters
        /\ q.police \ l.police = (kernel.police \ left.police) \ w.police
    BY <1>0, <2>1, <2>2, DeletedLeaves
  <2> HIDE DEF q, l
  <2>4. kernel.rules \subseteq Rules
    BY <1>0 DEF Kernels
  <2> QED BY <2>1, <2>3, <2>4
<1> HIDE DEF q, l
<1>6. N!Marked(info) \subseteq DOMAIN info /\ DOMAIN caps \subseteq N!Marked(info)
  BY DEF N!Marked, FiltersHeld
<1>7. \A x \in q.police \ l.police : \E b \in DOMAIN c : x.prio = c[b] /\ x.mark = f[b].mark
  <2> SUFFICES ASSUME NEW x \in q.police \ l.police PROVE \E b \in DOMAIN c : x.prio = c[b] /\ x.mark = f[b].mark
    OBVIOUS
  <2>1. PICK b \in DOMAIN caps : x.prio = caps[b] /\ x.mark = info[b].mark
    BY <1>5 DEF FiltersHeld
  <2>2. b # a
    BY <1>5, <2>1
  <2> QED BY <1>1, <1>2, <1>6, <2>1, <2>2
<1>8. CASE info[a].mark = N!NoMark
  <2>1. a \notin N!Marked(info)
    BY <1>8 DEF N!Marked
  <2>2. N!Marked(f) = N!Marked(info) /\ \A b \in N!Marked(info) : f[b] = info[b]
    BY <1>1, <1>4, <1>6, <2>1
  <2>3. N!Released(a) = pool
    BY <1>8 DEF N!Released
  <2>4. MarksApart(f, N!Released(a))
    BY <2>2, <2>3 DEF MarksApart, Bound
  <2>5. FiltersHeld(q, l, f, c)
    BY <1>2, <1>5, <1>7, <1>8, <2>2 DEF FiltersHeld
  <2> QED BY <2>4, <2>5 DEF f, c, q, l
<1>9. CASE info[a].mark # N!NoMark
  <2> DEFINE m == info[a].mark
  <2>1. a \in N!Marked(info)
    BY <1>9 DEF N!Marked
  <2>2. N!Released(a) = pool \cup {m} /\ m \notin pool
    BY <1>9, <2>1 DEF N!Released, MarksApart
  <2>3. Cardinality(N!Marked(f)) = Cardinality(N!Marked(info)) - 1
    BY <1>3, <1>4, <2>1, FS_RemoveElement
  <2>4. Cardinality(N!Released(a)) = Cardinality(pool) + 1 /\ IsFiniteSet(N!Released(a))
    BY <2>2, FS_AddElement DEF MarksApart
  <2>5. Bound(f, N!Released(a)) = Bound(info, pool)
    BY <1>3, <2>3, <2>4 DEF Bound
  <2>6. \A b \in N!Marked(f) : f[b] = info[b] /\ b # a /\ b \in N!Marked(info)
    BY <1>1, <1>4, <1>6
  <2>7. MarksApart(f, N!Released(a))
    <3>1. N!NoMark \notin N!Released(a)
      BY <1>9, <2>2 DEF MarksApart
    <3>2. \A b \in N!Marked(f) : f[b].mark \notin N!Released(a) /\ f[b].mark <= Bound(f, N!Released(a))
      BY <2>1, <2>2, <2>5, <2>6 DEF MarksApart
    <3>3. \A x \in N!Released(a) : x <= Bound(f, N!Released(a))
      BY <2>1, <2>2, <2>5 DEF MarksApart
    <3>4. \A b, d \in N!Marked(f) : f[b].mark = f[d].mark => b = d
      BY <2>6 DEF MarksApart
    <3> QED BY <2>4, <3>1, <3>2, <3>3, <3>4 DEF MarksApart
  <2>8. \A r \in q.rules \ l.rules : r.app \in N!Marked(f) /\ r.mark = f[r.app].mark
    <3> SUFFICES ASSUME NEW r \in q.rules \ l.rules PROVE r.app \in N!Marked(f) /\ r.mark = f[r.app].mark
      OBVIOUS
    <3>1. r \in kernel.rules \ left.rules /\ r # [app |-> a, mark |-> m] /\ r \in Rules
      BY <1>5, <1>9
    <3>2. r.app \in N!Marked(info) /\ r.mark = info[r.app].mark
      BY <3>1 DEF FiltersHeld
    <3>3. r.app # a
      BY <3>1, <3>2 DEF Rules
    <3> QED BY <1>4, <2>6, <3>2, <3>3
  <2>9. \A x \in q.filters \ l.filters : \E b \in N!Marked(f) : x.prio = f[b].prio /\ x.mark = f[b].mark
    <3> SUFFICES ASSUME NEW x \in q.filters \ l.filters PROVE \E b \in N!Marked(f) : x.prio = f[b].prio /\ x.mark = f[b].mark
      OBVIOUS
    <3>1. x \in kernel.filters \ left.filters /\ x.prio # info[a].prio
      BY <1>5, <1>9
    <3>2. PICK b \in N!Marked(info) : x.prio = info[b].prio /\ x.mark = info[b].mark
      BY <3>1 DEF FiltersHeld
    <3> QED BY <1>4, <2>6, <3>1, <3>2
  <2>10. FiltersHeld(q, l, f, c)
    BY <1>2, <1>4, <1>6, <1>7, <2>8, <2>9 DEF FiltersHeld
  <2> QED BY <2>7, <2>10 DEF f, c, q, l
<1> QED BY <1>8, <1>9

LEMMA AddKeeps ==
    ASSUME PoolSize \in Nat, NEW k \in Kernels, NEW with, Infos(with), NEW free \in SUBSET Nat, NEW c, NEW l,
           NEW e \in Entries, NEW idx \in Nat, NEW landed, N!Add(k, with, free, e, idx, landed), e.app \notin DOMAIN with,
           MarksApart(with, free), FiltersHeld(k, l, with, c)
    PROVE  MarksApart(info', pool') /\ FiltersHeld(kernel', l, info', c)
<1>0. N!Marked(with) \subseteq DOMAIN with /\ e.app \notin N!Marked(with)
  BY DEF N!Marked
<1>1. CASE e.tier = "system"
  <2>1. info' = N!With(with, e.app, [mark |-> N!NoMark, tier |-> e.tier, prio |-> 0])
        /\ kernel' = k /\ pool' = free
    BY <1>1 DEF N!Add
  <2>2. DOMAIN info' = DOMAIN with \cup {e.app} /\ info'[e.app].mark = N!NoMark
        /\ \A b \in DOMAIN with \ {e.app} : info'[b] = with[b]
    BY <2>1 DEF N!With
  <2>3. N!Marked(info') = N!Marked(with) /\ \A b \in N!Marked(with) : info'[b] = with[b]
    BY <1>0, <2>2 DEF N!Marked
  <2> QED BY <2>1, <2>3 DEF MarksApart, FiltersHeld, Bound
<1>2. CASE e.tier # "system"
  <2>1. PICK m \in N!Allocated(free, N!Marked(with)) :
             /\ m \in Nat
             /\ info' = N!With(with, e.app, [mark |-> m, tier |-> e.tier, prio |-> idx])
             /\ pool' = free \ {m}
             /\ kernel' \in Kernels
             /\ kernel'.rate = k.rate /\ kernel'.rps = k.rps /\ kernel'.tree = k.tree
             /\ k.rules \subseteq kernel'.rules /\ kernel'.rules \subseteq k.rules \cup {[app |-> e.app, mark |-> m]}
             /\ k.filters \subseteq kernel'.filters
             /\ kernel'.filters \subseteq k.filters \cup {[prio |-> idx, mark |-> m]}
             /\ kernel'.police = k.police
    BY <1>2, AddMarks
  <2>2. DOMAIN info' = DOMAIN with \cup {e.app} /\ info'[e.app] = [mark |-> m, tier |-> e.tier, prio |-> idx]
        /\ \A b \in DOMAIN with \ {e.app} : info'[b] = with[b]
    BY <2>1 DEF N!With
  <2>3. IsFiniteSet(N!Marked(with)) /\ Cardinality(N!Marked(with)) \in Nat /\ Cardinality(free) \in Nat
        /\ IsFiniteSet(free)
    BY AllocatedTyped, FS_CardinalityType DEF MarksApart
  <2>4. /\ m # N!NoMark /\ \A b \in N!Marked(with) : with[b].mark # m
        /\ m <= Bound(info', pool') /\ Bound(with, free) <= Bound(info', pool')
        /\ N!Marked(info') = N!Marked(with) \cup {e.app}
    <3>1. CASE m # N!NoMark
      <4>1. N!Marked(info') = N!Marked(with) \cup {e.app}
        BY <1>0, <2>2, <3>1 DEF N!Marked
      <4>2. Cardinality(N!Marked(info')) = Cardinality(N!Marked(with)) + 1
        BY <1>0, <2>3, <4>1, FS_AddElement
      <4>3. CASE free # {}
        <5>1. m \in free
          BY <2>1, <4>3 DEF N!Allocated
        <5>2. Cardinality(pool') = Cardinality(free) - 1
          BY <2>1, <2>3, <5>1, FS_RemoveElement
        <5>3. Bound(info', pool') = Bound(with, free)
          BY <2>3, <4>2, <5>2 DEF Bound
        <5>4. m <= Bound(with, free) /\ \A b \in N!Marked(with) : with[b].mark # m
          BY <5>1 DEF MarksApart
        <5>5. Bound(with, free) \in Nat
          BY <2>3 DEF Bound
        <5> QED BY <3>1, <4>1, <5>3, <5>4, <5>5
      <4>4. CASE free = {}
        <5>1. m = PoolSize + 1 + Cardinality(N!Marked(with))
          BY <2>1, <4>4, SameCount DEF N!Allocated
        <5>2. pool' = {} /\ Cardinality(pool') = 0 /\ Cardinality(free) = 0
          BY <2>1, <4>4, FS_EmptySet
        <5>3. Bound(info', pool') = m /\ Bound(with, free) = m - 1
          BY <2>3, <4>2, <5>1, <5>2 DEF Bound
        <5>4. \A b \in N!Marked(with) : with[b].mark <= m - 1 /\ with[b].mark \in Nat
          BY <1>0, <5>3 DEF MarksApart, Infos, MarkRecord
        <5> QED BY <2>1, <3>1, <4>1, <5>3, <5>4
      <4> QED BY <4>3, <4>4
    <3>2. m # N!NoMark
      <4>1. CASE free # {}
        BY <2>1, <4>1 DEF N!Allocated, MarksApart
      <4>2. CASE free = {}
        BY <2>1, <2>3, <4>2, SameCount DEF N!Allocated, N!NoMark
      <4> QED BY <4>1, <4>2
    <3> QED BY <3>1, <3>2
  <2>5. \A b \in N!Marked(with) : info'[b] = with[b] /\ b # e.app /\ with[b].mark \in Nat
    BY <1>0, <2>2 DEF Infos, MarkRecord
  <2>6. info'[e.app].mark = m /\ info'[e.app].prio = idx
    BY <2>2
  <2>7. Bound(with, free) \in Nat /\ Bound(info', pool') \in Nat
    <3>1. IsFiniteSet(N!Marked(info')) /\ IsFiniteSet(pool')
      BY <2>1, <2>3, <2>4, FS_AddElement, FS_Subset
    <3> QED BY <2>3, <3>1, FS_CardinalityType DEF Bound
  <2>8. MarksApart(info', pool')
    <3>1. IsFiniteSet(pool') /\ N!NoMark \notin pool' /\ pool' \subseteq free /\ m \notin pool'
      BY <2>1, <2>3, FS_RemoveElement DEF MarksApart
    <3>2. \A x \in pool' : x <= Bound(info', pool')
      <4>1. \A x \in free : x \in Nat /\ x <= Bound(with, free)
        BY DEF MarksApart
      <4> QED BY <2>4, <2>7, <3>1, <4>1
    <3>3. \A a \in N!Marked(info') : info'[a].mark \notin pool' /\ info'[a].mark <= Bound(info', pool')
      <4> SUFFICES ASSUME NEW a \in N!Marked(info') PROVE info'[a].mark \notin pool' /\ info'[a].mark <= Bound(info', pool')
        OBVIOUS
      <4>1. CASE a = e.app
        BY <2>4, <2>6, <3>1, <4>1
      <4>2. CASE a \in N!Marked(with)
        <5>1. with[a].mark \notin free /\ with[a].mark <= Bound(with, free)
          BY <4>2 DEF MarksApart
        <5> QED BY <2>4, <2>5, <2>7, <3>1, <4>2, <5>1
      <4> QED BY <2>4, <4>1, <4>2
    <3>4. \A a, b \in N!Marked(info') : info'[a].mark = info'[b].mark => a = b
      <4>1. \A a, b \in N!Marked(with) : with[a].mark = with[b].mark => a = b
        BY DEF MarksApart
      <4> QED BY <2>4, <2>5, <2>6, <4>1
    <3> QED BY <3>1, <3>2, <3>3, <3>4 DEF MarksApart
  <2>9. FiltersHeld(kernel', l, info', c)
    <3>1. DOMAIN c \subseteq N!Marked(info')
      BY <2>4 DEF FiltersHeld
    <3>2. \A r \in kernel'.rules \ l.rules : r.app \in N!Marked(info') /\ r.mark = info'[r.app].mark
      <4> SUFFICES ASSUME NEW r \in kernel'.rules \ l.rules PROVE r.app \in N!Marked(info') /\ r.mark = info'[r.app].mark
        OBVIOUS
      <4>1. CASE r \in k.rules \ l.rules
        BY <2>4, <2>5, <4>1 DEF FiltersHeld
      <4>2. CASE r = [app |-> e.app, mark |-> m]
        BY <2>4, <2>6, <4>2
      <4> QED BY <2>1, <4>1, <4>2
    <3>3. \A x \in kernel'.filters \ l.filters : \E a \in N!Marked(info') : x.prio = info'[a].prio /\ x.mark = info'[a].mark
      <4> SUFFICES ASSUME NEW x \in kernel'.filters \ l.filters
                   PROVE \E a \in N!Marked(info') : x.prio = info'[a].prio /\ x.mark = info'[a].mark
        OBVIOUS
      <4>1. CASE x \in k.filters \ l.filters
        <5>1. PICK a \in N!Marked(with) : x.prio = with[a].prio /\ x.mark = with[a].mark
          BY <4>1 DEF FiltersHeld
        <5> QED BY <2>4, <2>5, <5>1
      <4>2. CASE x = [prio |-> idx, mark |-> m]
        BY <2>4, <2>6, <4>2
      <4> QED BY <2>1, <4>1, <4>2
    <3>4. \A x \in kernel'.police \ l.police : \E a \in DOMAIN c : x.prio = c[a] /\ x.mark = info'[a].mark
      BY <2>1, <2>5 DEF FiltersHeld
    <3> QED BY <3>1, <3>2, <3>3, <3>4 DEF FiltersHeld
  <2> QED BY <2>8, <2>9
<1> QED BY <1>1, <1>2

-----------------------------------------------------------------------------
(* The invariant.                                                          *)

\* The rates are those of the stages, but where the last command failed, until the rules are cleared on
\* the way out.
Rated == gone \/ AllSteady(kernel, stage, astray)

\* The mask that is remembered is the machine's own, and it is while another is in force; until a read
\* or the write that puts it back has failed.
MaskUndoable == ~unsure => saved \in {"none", "own"} /\ (kernel.rps # "own" => saved = "own")

ShapingCore == ShapingTyped /\ MarksApart(info, pool) /\ FiltersHeld(kernel, left, info, caps) /\ Rated /\ MaskUndoable
ShapingInv == ShapingCore /\ faults \in Nat

LEMMA MarksAtFirst ==
    ASSUME PoolSize \in Nat
    PROVE  /\ N!Marks \subseteq Nat /\ MarksApart(N!Empty, N!Marks)
           /\ \A k, l : k.rules \ l.rules = {} /\ k.filters \ l.filters = {} /\ k.police \ l.police = {} =>
                FiltersHeld(k, l, N!Empty, N!Empty)
<1>1. IsFiniteSet(N!Marks) /\ Cardinality(N!Marks) \in Nat
  BY FS_Interval, FS_CardinalityType DEF N!Marks
<1>2. DOMAIN N!Empty = {} /\ N!Marked(N!Empty) = {} /\ Cardinality(N!Marked(N!Empty)) = 0
  BY EmptyIs, FS_EmptySet
<1>3. MarksApart(N!Empty, N!Marks)
  BY <1>1, <1>2 DEF MarksApart, Bound, N!Marks, N!NoMark
<1> QED BY <1>1, <1>2, <1>3 DEF FiltersHeld, N!Marks

LEMMA ShapingInit == PoolSize \in Nat /\ N!Init => ShapingInv
<1> SUFFICES ASSUME PoolSize \in Nat, N!Init PROVE ShapingInv
  OBVIOUS
<1>1. ShapingTyped /\ faults \in Nat
  BY ShapingTypedInit DEF N!Init
<1>2. MarksApart(info, pool)
  BY MarksAtFirst DEF N!Init
<1>3. FiltersHeld(kernel, left, info, caps)
  <2>1. kernel.rules = {} /\ kernel.filters = {} /\ kernel.police = {} /\ info = N!Empty /\ caps = N!Empty
    BY DEF N!Init
  <2> QED BY <2>1, MarksAtFirst
<1>4. Rated
  <2>1. \A d \in N!Dirs : stage[d] = 0 /\ kernel.rate[d] = N!Full
    BY FullIsRate DEF N!Init
  <2> QED BY <2>1 DEF Rated, AllSteady, Steady, N!RateOf, N!Full, Classes
<1>5. MaskUndoable
  BY DEF N!Init, MaskUndoable
<1> QED BY <1>1, <1>2, <1>3, <1>4, <1>5 DEF ShapingInv, ShapingCore

\* What is torn down: all that was nobody's leftover goes, or becomes one.
LEMMA TornLeaves ==
    ASSUME ShapingTyped, FiltersHeld(kernel, left, info, caps), NEW down \in BOOLEAN, NEW built \in BOOLEAN,
           NEW failing, N!Torn(down, built, failing)
    PROVE  /\ kernel' \in Kernels /\ kernel'.rps = kernel.rps /\ left' \in Leftovers /\ LeftIn(kernel', left')
           /\ kernel'.rules \ left'.rules = {} /\ kernel'.filters \ left'.filters = {}
           /\ kernel'.police \ left'.police = {}
           /\ down => \A d \in N!Dirs : kernel'.rate[d] = N!Full
<1>0. kernel \in Kernels /\ left \in Leftovers /\ LeftIn(kernel, left)
  BY DEF ShapingTyped
<1> DEFINE w == [rules |-> N!Ruled, filters |-> kernel.filters, police |-> kernel.police]
<1>1. w \in Leftovers /\ LeftIn(kernel, w)
  BY <1>0 DEF N!Ruled, Kernels, Leftovers, LeftIn
<1>2. PICK g \in N!Outcomes(w) :
         /\ kernel' = [N!Deleted(kernel, g) EXCEPT !.tree = built \/ ~down,
                           !.rate = IF down THEN [d \in N!Dirs |-> N!Full] ELSE @]
         /\ left' = N!Missed(w, g)
  BY DEF N!Torn
<1>3. kernel.rules \ left.rules \subseteq N!Ruled
  BY <1>0 DEF FiltersHeld, N!Ruled, N!Marked, Kernels
<1>4. w.rules = N!Ruled /\ w.filters = kernel.filters /\ w.police = kernel.police
  OBVIOUS
<1> HIDE DEF w
<1> DEFINE q == N!Deleted(kernel, g)
<1>5. /\ q \in Kernels /\ q.rps = kernel.rps
      /\ left' \in Leftovers /\ LeftIn(q, left')
      /\ q.rules \ left'.rules = (kernel.rules \ left.rules) \ w.rules
      /\ q.filters \ left'.filters = (kernel.filters \ left.filters) \ w.filters
      /\ q.police \ left'.police = (kernel.police \ left.police) \ w.police
  BY <1>0, <1>1, <1>2, DeletedLeaves
<1> DEFINE t == built \/ ~down  full == [d \in N!Dirs |-> N!Full]  rate == IF down THEN full ELSE q.rate
<1>6. kernel' = [q EXCEPT !.tree = t, !.rate = rate]
  BY <1>2
<1> HIDE DEF q
<1>7. t \in BOOLEAN /\ rate \in Rates /\ (down => \A d \in N!Dirs : rate[d] = N!Full)
  BY <1>5, FullIsRate DEF Kernels
<1> HIDE DEF t, rate
<1>8. /\ kernel' \in Kernels /\ kernel'.rps = q.rps /\ kernel'.rate = rate
      /\ kernel'.rules = q.rules /\ kernel'.filters = q.filters /\ kernel'.police = q.police
  BY <1>5, <1>6, <1>7 DEF Kernels
<1> QED BY <1>3, <1>4, <1>5, <1>7, <1>8 DEF LeftIn

LEMMA ReloadKeeps == ASSUME NEW failing PROVE PoolSize \in Nat /\ ShapingCore /\ N!Reload(failing) => ShapingCore'
<1> SUFFICES ASSUME PoolSize \in Nat, ShapingCore, N!Reload(failing) PROVE ShapingCore'
  OBVIOUS
<1>1. PICK nics \in N!Detected, down \in BOOLEAN, built \in BOOLEAN :
         /\ shaped' = (nics = "speed") /\ control' = (config /\ nics # "none")
         /\ \E torn \in BOOLEAN : N!Torn(down, built, torn)
         /\ astray' = IF down THEN {} ELSE N!Dirs \X Classes
  BY DEF N!Reload, Classes
<1>2. ShapingTyped /\ FiltersHeld(kernel, left, info, caps)
  BY DEF ShapingCore
<1>3. /\ kernel' \in Kernels /\ kernel'.rps = kernel.rps /\ left' \in Leftovers /\ LeftIn(kernel', left')
      /\ kernel'.rules \ left'.rules = {} /\ kernel'.filters \ left'.filters = {}
      /\ kernel'.police \ left'.police = {}
      /\ down => \A d \in N!Dirs : kernel'.rate[d] = N!Full
  BY <1>1, <1>2, TornLeaves
<1>4. info' = N!Empty /\ caps' = N!Empty /\ pool' = N!Marks /\ stage' = [d \in N!Dirs |-> 0]
      /\ cool' = [d \in N!Dirs |-> "cold"] /\ UNCHANGED <<listed, config, N!rps, cycle, gone>> /\ pending' = FALSE
  BY DEF N!Reload
<1>5. MarksApart(info', pool') /\ FiltersHeld(kernel', left', info', caps') /\ pool' \subseteq Nat
  BY <1>3, <1>4, MarksAtFirst
<1>6. Infos(info') /\ Prios(caps')
  BY <1>4, EmptyIs
<1>7. stage' \in [N!Dirs -> 0 .. 4] /\ cool' \in Cools /\ \A d \in N!Dirs : stage'[d] = 0
  BY <1>4 DEF Cools
<1>8. shaped' \in BOOLEAN /\ control' \in BOOLEAN /\ astray' \subseteq N!Dirs \X Classes
  BY <1>1, <1>2 DEF ShapingTyped
<1>9. ShapingTyped'
  BY <1>2, <1>3, <1>4, <1>5, <1>6, <1>7, <1>8 DEF ShapingTyped, N!rps
<1>10. Rated'
  <2>1. CASE down
    BY <1>3, <1>7, <2>1 DEF Rated, AllSteady, Steady, N!RateOf, N!Full, Classes
  <2>2. CASE ~down
    BY <1>1, <2>2 DEF Rated, AllSteady, Steady
  <2> QED BY <2>1, <2>2
<1>11. MaskUndoable'
  BY <1>3, <1>4 DEF ShapingCore, MaskUndoable, N!rps
<1> QED BY <1>5, <1>9, <1>10, <1>11 DEF ShapingCore

\* Steps that leave the kernel, the records and the rates alone.
LEMMA RestKeeps ==
    ASSUME ShapingCore, UNCHANGED <<info, pool, caps, stage, astray, saved, unsure, kernel, left>>, gone => gone',
           ShapingTyped'
    PROVE  ShapingCore'
  BY DEF ShapingCore, Rated, MaskUndoable, MarksApart, FiltersHeld, Bound

LEMMA RemoveGoneKeeps ==
    ASSUME NEW failing PROVE PoolSize \in Nat /\ ShapingCore /\ N!RemoveGone(failing) => ShapingCore'
<1> SUFFICES ASSUME PoolSize \in Nat, ShapingCore, N!RemoveGone(failing) PROVE ShapingCore'
  OBVIOUS
<1>0. UNCHANGED <<N!env, control, shaped, N!rates, N!rps>> /\ ShapingTyped /\ cycle.pc = "gone"
  BY DEF N!RemoveGone, ShapingCore
<1>1. CASE N!Enter("each") /\ UNCHANGED <<N!apps, kernel, left>>
  <2>1. cycle' \in Cycles /\ (cycle'.pc \in {"gone", "each"} => cycle'.next >= 1)
    BY <1>0, <1>1 DEF N!Enter, ShapingTyped, Cycles
  <2>2. ShapingTyped'
    BY <1>0, <1>1, <2>1 DEF ShapingTyped, N!env, N!rates, N!apps, N!rps
  <2> QED BY <1>0, <1>1, <2>2, RestKeeps DEF N!apps, N!env, N!rates, N!rps
<1>2. ASSUME NEW a \in DOMAIN info, NEW g \in N!Outcomes(N!Removed(a)), info' = N!Without(info, a),
             caps' = N!Without(caps, a), pool' = N!Released(a), kernel' = N!Deleted(kernel, g),
             left' = N!Missed(N!Removed(a), g), UNCHANGED cycle
      PROVE  ShapingCore'
  <2>1. N!Removed(a) \in Leftovers /\ LeftIn(kernel, N!Removed(a)) /\ pool' \subseteq Nat
    BY <1>0, <1>2, RemovedTyped DEF ShapingTyped
  <2>2. kernel' \in Kernels /\ kernel'.rate = kernel.rate /\ kernel'.rps = kernel.rps /\ kernel'.tree = kernel.tree
        /\ left' \in Leftovers /\ LeftIn(kernel', left')
    BY <1>0, <1>2, <2>1, DeletedLeaves DEF ShapingTyped
  <2>3. Infos(info') /\ Prios(caps')
    BY <1>0, <1>2, InfosKept, PriosKept DEF ShapingTyped
  <2>4. MarksApart(info', pool') /\ FiltersHeld(kernel', left', info', caps')
    BY <1>0, <1>2, RemoveKeeps DEF ShapingCore
  <2>5. ShapingTyped'
    BY <1>0, <1>2, <2>1, <2>2, <2>3 DEF ShapingTyped, N!env, N!rates, N!rps
  <2>6. Rated' /\ MaskUndoable'
    BY <1>0, <2>2 DEF ShapingCore, Rated, MaskUndoable, AllSteady, Steady, N!env, N!rates, N!rps
  <2> QED BY <2>4, <2>5, <2>6 DEF ShapingCore
<1> QED BY <1>1, <1>2 DEF N!RemoveGone

LEMMA RefreshKeeps ==
    ASSUME NEW failing PROVE PoolSize \in Nat /\ ShapingCore /\ N!Refresh(failing) => ShapingCore'
<1> SUFFICES ASSUME PoolSize \in Nat, ShapingCore, N!Refresh(failing) PROVE ShapingCore'
  OBVIOUS
<1>0. UNCHANGED <<N!env, control, shaped, N!rates, N!rps>> /\ ShapingTyped /\ cycle.pc = "each"
  BY DEF N!Refresh, ShapingCore
<1>1. ASSUME UNCHANGED <<N!apps, kernel, left>>, cycle' \in Cycles, cycle'.pc \in {"gone", "each"} => cycle'.next >= 1
      PROVE  ShapingCore'
  <2>1. ShapingTyped'
    BY <1>0, <1>1 DEF ShapingTyped, N!env, N!rates, N!apps, N!rps
  <2> QED BY <1>0, <1>1, <2>1, RestKeeps DEF N!apps, N!env, N!rates, N!rps
<1>2. CASE cycle.next > Len(cycle.seen)
  <2>1. cycle' \in Cycles /\ (cycle'.pc \in {"gone", "each"} => cycle'.next >= 1)
        /\ UNCHANGED <<N!apps, kernel, left>>
    BY <1>0, <1>2 DEF N!Refresh, N!Enter, ShapingTyped, Cycles
  <2> QED BY <1>1, <2>1
<1>3. CASE ~(cycle.next > Len(cycle.seen))
  <2> DEFINE e == cycle.seen[cycle.next]  idx == cycle.next
  <2>1. cycle' = [cycle EXCEPT !.next = @ + 1]
    BY <1>3 DEF N!Refresh
  <2>2. cycle' \in Cycles /\ (cycle'.pc \in {"gone", "each"} => cycle'.next >= 1)
    BY <1>0, <2>1 DEF ShapingTyped, Cycles
  <2>3. idx \in Nat /\ e \in Entries
    BY <1>0, <1>3 DEF ShapingTyped, Cycles
  <2>4. PICK landed \in SUBSET {"rule", "filter"} :
        \/ e.app \notin DOMAIN info /\ N!Add(kernel, info, pool, e, idx, landed) /\ UNCHANGED <<caps, left>>
        \/ /\ e.app \in DOMAIN info
           /\ \E g \in N!Outcomes(N!Removed(e.app)) :
                /\ N!Add(N!Deleted(kernel, g), N!Without(info, e.app), N!Released(e.app), e, idx, landed)
                /\ left' = N!Missed(N!Removed(e.app), g)
           /\ caps' = N!Without(caps, e.app)
        \/ UNCHANGED <<N!apps, kernel, left>>
    BY <1>3 DEF N!Refresh
  <2> HIDE DEF e, idx
  <2>5. ASSUME NEW k \in Kernels, k.rate = kernel.rate, k.rps = kernel.rps, k.tree = kernel.tree,
               left' \in Leftovers, LeftIn(k, left'),
               NEW with, Infos(with), NEW free \in SUBSET Nat, Prios(caps'),
               N!Add(k, with, free, e, idx, landed), e.app \notin DOMAIN with, MarksApart(with, free),
               FiltersHeld(k, left', with, caps')
        PROVE  ShapingCore'
    <3>1. MarksApart(info', pool') /\ FiltersHeld(kernel', left', info', caps')
      BY <2>3, <2>5, AddKeeps
    <3>2. /\ kernel' \in Kernels /\ Infos(info') /\ pool' \subseteq Nat
          /\ kernel'.rate = kernel.rate /\ kernel'.rps = kernel.rps /\ kernel'.tree = kernel.tree
          /\ LeftIn(kernel', left')
      BY <2>3, <2>5, AddTyped
    <3>3. ShapingTyped'
      BY <1>0, <2>2, <2>5, <3>2 DEF ShapingTyped, N!env, N!rates, N!rps
    <3>4. Rated' /\ MaskUndoable'
      BY <1>0, <3>2 DEF ShapingCore, Rated, MaskUndoable, AllSteady, Steady, N!env, N!rates, N!rps
    <3> QED BY <3>1, <3>3, <3>4 DEF ShapingCore
  <2>6. CASE e.app \notin DOMAIN info /\ N!Add(kernel, info, pool, e, idx, landed) /\ UNCHANGED <<caps, left>>
    <3>1. kernel \in Kernels /\ Infos(info) /\ pool \in SUBSET Nat /\ Prios(caps') /\ MarksApart(info, pool)
          /\ left' \in Leftovers /\ LeftIn(kernel, left') /\ FiltersHeld(kernel, left', info, caps')
      BY <2>6 DEF ShapingCore, ShapingTyped
    <3> QED BY <2>5, <2>6, <3>1
  <2>7. ASSUME e.app \in DOMAIN info, NEW g \in N!Outcomes(N!Removed(e.app)),
               N!Add(N!Deleted(kernel, g), N!Without(info, e.app), N!Released(e.app), e, idx, landed),
               left' = N!Missed(N!Removed(e.app), g), caps' = N!Without(caps, e.app)
        PROVE  ShapingCore'
    <3>1. N!Removed(e.app) \in Leftovers /\ LeftIn(kernel, N!Removed(e.app)) /\ N!Released(e.app) \in SUBSET Nat
      BY <1>0, <2>7, RemovedTyped DEF ShapingTyped
    <3>2. LET k == N!Deleted(kernel, g)
          IN  k \in Kernels /\ k.rate = kernel.rate /\ k.rps = kernel.rps /\ k.tree = kernel.tree
              /\ left' \in Leftovers /\ LeftIn(k, left')
      BY <1>0, <2>7, <3>1, DeletedLeaves DEF ShapingTyped
    <3>3. Infos(N!Without(info, e.app)) /\ Prios(caps')
      BY <1>0, <2>7, InfosKept, PriosKept DEF ShapingTyped
    <3>4. MarksApart(N!Without(info, e.app), N!Released(e.app))
          /\ FiltersHeld(N!Deleted(kernel, g), left', N!Without(info, e.app), caps')
      BY <1>0, <2>7, RemoveKeeps DEF ShapingCore
    <3>5. e.app \notin DOMAIN N!Without(info, e.app)
      BY DEF N!Without
    <3> QED BY <2>5, <2>7, <3>1, <3>2, <3>3, <3>4, <3>5
  <2>8. CASE UNCHANGED <<N!apps, kernel, left>>
    BY <1>1, <2>2, <2>8
  <2> QED BY <2>4, <2>6, <2>7, <2>8
<1> QED BY <1>2, <1>3

\* A step that changes only the rates, the police filters and how far the cooldowns are.
LEMMA PressureKeeps ==
    ASSUME ShapingCore, UNCHANGED <<N!env, control, shaped, info, pool>>, cycle' \in Cycles,
           cycle'.pc \notin {"gone", "each"}, kernel' \in Kernels, left' \in Leftovers, LeftIn(kernel', left'),
           Prios(caps'), stage' \in [N!Dirs -> 0 .. 4], cool' \in Cools, astray' \subseteq N!Dirs \X Classes,
           saved' \in {"none", "own", "mask", "zero"}, unsure' \in BOOLEAN,
           FiltersHeld(kernel', left', info, caps'), Rated', MaskUndoable'
    PROVE  ShapingCore'
<1>1. ShapingTyped'
  BY DEF ShapingCore, ShapingTyped, N!env
<1> QED BY <1>1 DEF ShapingCore, MarksApart, FiltersHeld, Bound

LEMMA PoliceKeeps ==
    ASSUME ShapingTyped, FiltersHeld(kernel, left, info, caps), NEW failing, N!Police(failing)
    PROVE  /\ kernel' \in Kernels /\ Prios(caps') /\ FiltersHeld(kernel', left, info, caps') /\ cool' \in Cools
           /\ LeftIn(kernel', left)
           /\ kernel'.rate = kernel.rate /\ kernel'.rps = kernel.rps /\ kernel'.tree = kernel.tree
<1> DEFINE prio(a) == Cardinality(DOMAIN caps \cup {a})
<1>1. PICK a \in N!Marked(info) \ DOMAIN caps :
         /\ caps' = N!With(caps, a, prio(a))
         /\ kernel' = IF failing \/ ~kernel.tree THEN kernel
                      ELSE [kernel EXCEPT !.police = @ \cup {[prio |-> prio(a), mark |-> info[a].mark]}]
         /\ cool' = IF N!Bytes THEN [cool EXCEPT !["tx"] = "hot"] ELSE cool
  BY SameCount DEF N!Police
<1>2. a \in DOMAIN info /\ a \in Shaped /\ info[a].mark \in Nat
  BY DEF N!Marked, ShapingTyped, Infos, MarkRecord
<1>3. prio(a) \in Nat
  BY FS_AddElement, FS_CardinalityType DEF ShapingTyped, Prios
<1> DEFINE x == [prio |-> prio(a), mark |-> info[a].mark]  n == prio(a)
<1>4. x \in Filters /\ x.prio = n /\ x.mark = info[a].mark
  BY <1>2, <1>3 DEF Filters
<1>5. /\ kernel' = (IF failing \/ ~kernel.tree THEN kernel ELSE [kernel EXCEPT !.police = @ \cup {x}])
      /\ caps' = N!With(caps, a, n) /\ n \in Nat
  BY <1>1, <1>3
<1> HIDE DEF x, n
<1>6. /\ kernel' \in Kernels /\ kernel'.rate = kernel.rate /\ kernel'.rps = kernel.rps /\ kernel'.tree = kernel.tree
      /\ kernel'.rules = kernel.rules /\ kernel'.filters = kernel.filters
      /\ kernel.police \subseteq kernel'.police /\ kernel'.police \subseteq kernel.police \cup {x}
  <2>1. CASE failing \/ ~kernel.tree
    BY <1>5, <2>1 DEF ShapingTyped
  <2>2. CASE ~(failing \/ ~kernel.tree)
    BY <1>4, <1>5, <2>2 DEF ShapingTyped, Kernels
  <2> QED BY <2>1, <2>2
<1>7. Prios(caps')
  BY <1>2, <1>5, PriosKept DEF ShapingTyped
<1>8. DOMAIN caps' = DOMAIN caps \cup {a} /\ caps'[a] = n /\ \A b \in DOMAIN caps \ {a} : caps'[b] = caps[b]
  BY <1>5 DEF N!With
<1>9. cool' \in Cools
  BY <1>1 DEF ShapingTyped, Cools
<1>10. FiltersHeld(kernel', left, info, caps')
  <2>1. \A y \in kernel'.police \ left.police : \E b \in DOMAIN caps' : y.prio = caps'[b] /\ y.mark = info[b].mark
    <3> SUFFICES ASSUME NEW y \in kernel'.police \ left.police
                 PROVE \E b \in DOMAIN caps' : y.prio = caps'[b] /\ y.mark = info[b].mark
      OBVIOUS
    <3>1. CASE y \in kernel.police
      <4>1. PICK b \in DOMAIN caps : y.prio = caps[b] /\ y.mark = info[b].mark
        BY <3>1 DEF FiltersHeld
      <4> QED BY <1>1, <1>8, <4>1
    <3>2. CASE y = x
      BY <1>4, <1>8, <3>2
    <3> QED BY <1>6, <3>1, <3>2
  <2> QED BY <1>1, <1>6, <1>8, <2>1 DEF FiltersHeld
<1>11. LeftIn(kernel', left)
  BY <1>6 DEF ShapingTyped, LeftIn
<1> QED BY <1>6, <1>7, <1>9, <1>10, <1>11

LEMMA ClearKeeps ==
    ASSUME ShapingTyped, FiltersHeld(kernel, left, info, caps), NEW failing, N!ClearCaps(failing)
    PROVE  /\ kernel' \in Kernels /\ Prios(caps') /\ FiltersHeld(kernel', left', info, caps')
           /\ left' \in Leftovers /\ LeftIn(kernel', left')
           /\ kernel'.rate = kernel.rate /\ kernel'.rps = kernel.rps /\ kernel'.tree = kernel.tree
<1> DEFINE p == UNION {N!Uncapped(a) : a \in DOMAIN caps}
           w == [rules |-> {}, filters |-> {}, police |-> p]
<1>0. kernel \in Kernels /\ left \in Leftovers /\ LeftIn(kernel, left)
  BY DEF ShapingTyped
<1>1. PICK g \in N!Outcomes(w) : kernel' = N!Deleted(kernel, g) /\ left' = N!Missed(w, g)
  <2> DEFINE v == [N!Nothing EXCEPT !.police = p]
  <2>1. PICK g \in N!Outcomes(v) : kernel' = N!Deleted(kernel, g) /\ left' = N!Missed(v, g)
    BY DEF N!ClearCaps
  <2> HIDE DEF p
  <2>2. v = w
    BY DEF N!Nothing
  <2> HIDE DEF v, w
  <2> QED BY <2>1, <2>2
<1>2. p \subseteq kernel.police /\ kernel.police \ left.police \subseteq p
  BY DEF FiltersHeld, N!Uncapped
<1>3. caps' = N!Empty
  BY DEF N!ClearCaps
<1> HIDE DEF p
<1>4. w \in Leftovers /\ LeftIn(kernel, w)
  BY <1>0, <1>2 DEF Leftovers, LeftIn, Kernels
<1>5. w.rules = {} /\ w.filters = {} /\ w.police = p
  OBVIOUS
<1> HIDE DEF w
<1>6. /\ kernel' \in Kernels /\ kernel'.rate = kernel.rate /\ kernel'.rps = kernel.rps /\ kernel'.tree = kernel.tree
      /\ left' \in Leftovers /\ LeftIn(kernel', left')
      /\ kernel'.rules \ left'.rules = kernel.rules \ left.rules
      /\ kernel'.filters \ left'.filters = kernel.filters \ left.filters
      /\ kernel'.police \ left'.police = {}
  <2>1. LET q == N!Deleted(kernel, g)  l == N!Missed(w, g)
        IN  /\ q \in Kernels /\ q.rate = kernel.rate /\ q.rps = kernel.rps /\ q.tree = kernel.tree
            /\ l \in Leftovers /\ LeftIn(q, l)
            /\ q.rules \ l.rules = (kernel.rules \ left.rules) \ w.rules
            /\ q.filters \ l.filters = (kernel.filters \ left.filters) \ w.filters
            /\ q.police \ l.police = (kernel.police \ left.police) \ w.police
    BY <1>0, <1>4, DeletedLeaves
  <2> QED BY <1>1, <1>2, <1>5, <2>1
<1>7. DOMAIN caps' = {} /\ Prios(caps')
  BY <1>3, EmptyIs
<1> QED BY <1>6, <1>7 DEF FiltersHeld

LEMMA ShapeTxKeeps == ASSUME NEW failing PROVE ShapingCore /\ N!ShapeTx(failing) => ShapingCore'
<1> SUFFICES ASSUME ShapingCore, N!ShapeTx(failing) PROVE ShapingCore'
  OBVIOUS
<1>0. /\ ShapingTyped /\ FiltersHeld(kernel, left, info, caps) /\ Prios(caps)
      /\ UNCHANGED <<N!env, control, shaped, info, pool>> /\ saved' = saved /\ unsure' = unsure /\ gone' = gone
      /\ cycle' \in Cycles /\ cycle'.pc \notin {"gone", "each"}
      /\ kernel \in Kernels /\ stage \in [N!Dirs -> 0 .. 4] /\ cool \in Cools
      /\ left \in Leftovers /\ LeftIn(kernel, left) /\ astray \subseteq N!Dirs \X Classes
      /\ saved \in {"none", "own", "mask", "zero"} /\ unsure \in BOOLEAN
  BY DEF ShapingCore, N!ShapeTx, N!Enter, ShapingTyped, Cycles, N!env, N!rps
<1>1. CASE N!Police(failing) /\ UNCHANGED <<stage, astray, left>>
  <2>1. /\ kernel' \in Kernels /\ Prios(caps') /\ FiltersHeld(kernel', left, info, caps') /\ cool' \in Cools
        /\ LeftIn(kernel', left)
        /\ kernel'.rate = kernel.rate /\ kernel'.rps = kernel.rps /\ kernel'.tree = kernel.tree
    BY <1>0, <1>1, PoliceKeeps
  <2>2. Rated' /\ MaskUndoable'
    BY <1>0, <1>1, <2>1 DEF ShapingCore, Rated, MaskUndoable, AllSteady, Steady
  <2> QED BY <1>0, <1>1, <2>1, <2>2, PressureKeeps
<1>2. CASE (N!Limit("tx", failing) \/ N!Recover("tx", failing)) /\ UNCHANGED <<caps, left>>
  <2>1. /\ kernel' \in Kernels /\ stage' \in [N!Dirs -> 0 .. 4] /\ cool' \in Cools /\ OnlyRates
        /\ astray' \subseteq N!Dirs \X Classes
        /\ AllSteady(kernel, stage, astray) => AllSteady(kernel', stage', astray')
    BY <1>0, <1>2, StageEffect DEF N!Dirs
  <2>2. Rated' /\ MaskUndoable' /\ FiltersHeld(kernel', left', info, caps') /\ LeftIn(kernel', left')
    BY <1>0, <1>2, <2>1 DEF ShapingCore, Rated, MaskUndoable, OnlyRates, FiltersHeld, LeftIn
  <2> QED BY <1>0, <1>2, <2>1, <2>2, PressureKeeps
<1>3. CASE N!ClearCaps(failing) /\ UNCHANGED N!rates
  <2>1. /\ kernel' \in Kernels /\ Prios(caps') /\ FiltersHeld(kernel', left', info, caps')
        /\ left' \in Leftovers /\ LeftIn(kernel', left')
        /\ kernel'.rate = kernel.rate /\ kernel'.rps = kernel.rps /\ kernel'.tree = kernel.tree
    BY <1>0, <1>3, ClearKeeps
  <2>2. Rated' /\ MaskUndoable'
    BY <1>0, <1>3, <2>1 DEF ShapingCore, Rated, MaskUndoable, AllSteady, Steady, N!rates
  <2> QED BY <1>0, <1>3, <2>1, <2>2, PressureKeeps DEF N!rates
<1>4. CASE UNCHANGED <<caps, N!rates, kernel, left>>
  <2>1. Rated' /\ MaskUndoable' /\ FiltersHeld(kernel', left', info, caps')
    BY <1>0, <1>4 DEF ShapingCore, Rated, MaskUndoable, N!rates
  <2> QED BY <1>0, <1>4, <2>1, PressureKeeps DEF N!rates
<1> QED BY <1>1, <1>2, <1>3, <1>4 DEF N!ShapeTx

LEMMA ShapeRxKeeps == ASSUME NEW failing PROVE ShapingCore /\ N!ShapeRx(failing) => ShapingCore'
<1> SUFFICES ASSUME ShapingCore, N!ShapeRx(failing) PROVE ShapingCore'
  OBVIOUS
<1>0. /\ ShapingTyped /\ FiltersHeld(kernel, left, info, caps) /\ Prios(caps) /\ left' = left
      /\ UNCHANGED <<N!env, control, shaped, info, pool>> /\ caps' = caps /\ gone' = gone
      /\ cycle' \in Cycles /\ cycle'.pc \notin {"gone", "each"}
      /\ kernel \in Kernels /\ stage \in [N!Dirs -> 0 .. 4] /\ cool \in Cools
      /\ left \in Leftovers /\ LeftIn(kernel, left) /\ astray \subseteq N!Dirs \X Classes
      /\ saved \in {"none", "own", "mask", "zero"} /\ unsure \in BOOLEAN
      /\ kernel.rps \in {"own", "mask", "zero"}
  BY DEF ShapingCore, N!ShapeRx, N!Enter, ShapingTyped, Cycles, N!env, N!apps, Kernels
<1>1. ASSUME NEW r \in {"own", "mask", "zero"}, kernel' \in {kernel, [kernel EXCEPT !.rps = r]}, UNCHANGED <<stage, astray>>,
             cool' = [cool EXCEPT !["rx"] = "hot"], saved' \in {"none", "own", "mask", "zero"}, unsure' \in BOOLEAN,
             MaskUndoable'
      PROVE  ShapingCore'
  <2>1. /\ kernel' \in Kernels /\ kernel'.rate = kernel.rate /\ kernel'.tree = kernel.tree
        /\ kernel'.rules = kernel.rules /\ kernel'.filters = kernel.filters /\ kernel'.police = kernel.police
    BY <1>0, <1>1 DEF Kernels
  <2>2. cool' \in Cools
    BY <1>0, <1>1 DEF Cools
  <2>3. Rated' /\ FiltersHeld(kernel', left', info, caps') /\ LeftIn(kernel', left')
    BY <1>0, <1>1, <2>1 DEF ShapingCore, Rated, AllSteady, Steady, FiltersHeld, LeftIn
  <2> QED BY <1>0, <1>1, <2>1, <2>2, <2>3, PressureKeeps
<1>2. ASSUME UNCHANGED <<stage, astray, saved, unsure, kernel>>, cool' \in Cools PROVE ShapingCore'
  <2>1. Rated' /\ MaskUndoable' /\ FiltersHeld(kernel', left', info, caps')
    BY <1>0, <1>2 DEF ShapingCore, Rated, MaskUndoable
  <2> QED BY <1>0, <1>2, <2>1, PressureKeeps
<1>3. CASE N!Escalate(failing)
  <2>1. CASE saved # "none" /\ UNCHANGED <<N!rps, kernel>>
    BY <1>0, <1>2, <1>3, <2>1 DEF N!Escalate, Cools, N!rps
  <2>2. CASE saved = "none" /\ saved' \in {kernel.rps, "zero"} /\ unsure' = (unsure \/ saved' # kernel.rps)
             /\ kernel' \in {kernel, [kernel EXCEPT !.rps = "mask"]}
    <3>1. MaskUndoable'
      <4> SUFFICES ASSUME ~unsure' PROVE saved' \in {"none", "own"} /\ (kernel'.rps # "own" => saved' = "own")
        BY DEF MaskUndoable
      <4>1. ~unsure /\ saved' = kernel.rps
        BY <2>2
      <4>2. kernel.rps = "own"
        BY <2>2, <4>1 DEF ShapingCore, MaskUndoable
      <4> QED BY <4>1, <4>2
    <3> QED BY <1>0, <1>1, <1>3, <2>2, <3>1 DEF N!Escalate
  <2> QED BY <1>3, <2>1, <2>2 DEF N!Escalate
<1>4. CASE N!RestoreRx(failing)
  <2>1. saved # "none" /\ kernel' \in {kernel, [kernel EXCEPT !.rps = saved]} /\ saved' = "none"
        /\ unsure' = (unsure \/ kernel'.rps # saved) /\ UNCHANGED <<stage, astray>>
        /\ cool' = [cool EXCEPT !["rx"] = "hot"]
    BY <1>4 DEF N!RestoreRx
  <2>2. MaskUndoable'
    <3> SUFFICES ASSUME ~unsure' PROVE saved' \in {"none", "own"} /\ (kernel'.rps # "own" => saved' = "own")
      BY DEF MaskUndoable
    <3>1. ~unsure /\ kernel'.rps = saved
      BY <2>1
    <3>2. saved = "own"
      BY <2>1, <3>1 DEF ShapingCore, MaskUndoable
    <3> QED BY <2>1, <3>1, <3>2
  <2> QED BY <1>0, <1>1, <2>1, <2>2
<1>5. CASE (N!Limit("rx", failing) \/ N!Recover("rx", failing)) /\ UNCHANGED N!rps
  <2>1. /\ kernel' \in Kernels /\ stage' \in [N!Dirs -> 0 .. 4] /\ cool' \in Cools /\ OnlyRates
        /\ astray' \subseteq N!Dirs \X Classes
        /\ AllSteady(kernel, stage, astray) => AllSteady(kernel', stage', astray')
    BY <1>0, <1>5, StageEffect DEF N!Dirs
  <2>2. Rated' /\ MaskUndoable' /\ FiltersHeld(kernel', left', info, caps') /\ LeftIn(kernel', left')
    BY <1>0, <1>5, <2>1 DEF ShapingCore, Rated, MaskUndoable, OnlyRates, FiltersHeld, LeftIn, N!rps
  <2> QED BY <1>0, <1>5, <2>1, <2>2, PressureKeeps DEF N!rps
<1>6. CASE UNCHANGED <<N!rates, N!rps, kernel>>
  BY <1>0, <1>2, <1>6 DEF N!rates, N!rps
<1> QED BY <1>3, <1>4, <1>5, <1>6 DEF N!ShapeRx

LEMMA RelistTyped == ShapingTyped /\ N!Relist => listed' \in Seq(Entries)
<1> SUFFICES ASSUME ShapingTyped, N!Relist PROVE listed' \in Seq(Entries)
  OBVIOUS
<1>0. listed \in Seq(Entries)
  BY DEF ShapingTyped
<1>1. ASSUME NEW a \in Shaped, NEW t \in NetTiers, listed' = Append(listed, [app |-> a, tier |-> t])
      PROVE  listed' \in Seq(Entries)
  <2>1. [app |-> a, tier |-> t] \in Entries
    BY DEF Entries
  <2> QED BY <1>0, <1>1, <2>1
<1>2. ASSUME NEW i \in DOMAIN listed, listed' = RemoveAt(listed, i)
      PROVE  listed' \in Seq(Entries)
  <2>1. SubSeq(listed, 1, i - 1) \in Seq(Entries) /\ SubSeq(listed, i + 1, Len(listed)) \in Seq(Entries)
    BY <1>0
  <2> QED BY <1>2, <2>1 DEF RemoveAt
<1>3. ASSUME NEW i \in DOMAIN listed, NEW t \in NetTiers, listed' = [listed EXCEPT ![i].tier = t]
      PROVE  listed' \in Seq(Entries)
  <2>1. listed[i] \in Entries
    BY <1>0
  <2>2. [listed[i] EXCEPT !.tier = t] \in Entries
    BY <2>1 DEF Entries
  <2>3. listed' = [listed EXCEPT ![i] = [listed[i] EXCEPT !.tier = t]]
    BY <1>3
  <2> QED BY <1>0, <2>2, <2>3
<1> QED BY <1>1, <1>2, <1>3, SameRemoval DEF N!Relist

LEMMA ExitKeeps == ASSUME NEW failing PROVE ShapingCore /\ N!Exit(failing) => ShapingCore'
<1> SUFFICES ASSUME ShapingCore, N!Exit(failing) PROVE ShapingCore'
  OBVIOUS
<1>0. /\ ShapingTyped /\ UNCHANGED <<listed, config, pending, control, shaped, N!apps, N!rates, N!rps, cycle>> /\ gone'
      /\ FiltersHeld(kernel, left, info, caps) /\ gone' \in BOOLEAN
  BY DEF ShapingCore, N!Exit, ShapingTyped
<1>1. /\ kernel' \in Kernels /\ kernel'.rps = kernel.rps /\ left' \in Leftovers /\ LeftIn(kernel', left')
      /\ FiltersHeld(kernel', left', info, caps)
  <2>1. CASE control
    <3>1. PICK down \in BOOLEAN : N!Torn(down, FALSE, failing)
      BY <2>1 DEF N!Exit
    <3>2. /\ kernel' \in Kernels /\ kernel'.rps = kernel.rps /\ left' \in Leftovers /\ LeftIn(kernel', left')
          /\ kernel'.rules \ left'.rules = {} /\ kernel'.filters \ left'.filters = {}
          /\ kernel'.police \ left'.police = {}
      BY <1>0, <3>1, TornLeaves
    <3> QED BY <1>0, <3>2 DEF FiltersHeld
  <2>2. CASE ~control
    BY <1>0, <2>2 DEF N!Exit, ShapingTyped
  <2> QED BY <2>1, <2>2
<1>2. ShapingTyped'
  BY <1>0, <1>1 DEF ShapingTyped, N!apps, N!rates, N!rps
<1>3. FiltersHeld(kernel', left', info', caps') /\ MarksApart(info', pool')
  BY <1>0, <1>1 DEF ShapingCore, N!apps
<1>4. Rated' /\ MaskUndoable'
  BY <1>0, <1>1 DEF ShapingCore, Rated, MaskUndoable, N!rps
<1> QED BY <1>2, <1>3, <1>4 DEF ShapingCore

LEMMA ShapingStep == PoolSize \in Nat /\ ShapingInv /\ [N!Next]_N!vars => ShapingInv'
<1> SUFFICES ASSUME PoolSize \in Nat, ShapingInv, [N!Next]_N!vars PROVE ShapingInv'
  OBVIOUS
<1>0. ShapingCore /\ ShapingTyped /\ faults \in Nat
  BY DEF ShapingInv, ShapingCore
<1>1. ASSUME N!RequestReload PROVE ShapingCore'
  <2>1. ShapingTyped'
    BY <1>0, <1>1 DEF N!RequestReload, ShapingTyped, N!apps, N!rates, N!rps
  <2> QED BY <1>0, <1>1, <2>1, RestKeeps DEF N!RequestReload, N!apps, N!rates, N!rps
<1>3. ASSUME N!StartCycle PROVE ShapingCore'
  <2>1. cycle' \in Cycles /\ (cycle'.pc \in {"gone", "each"} => cycle'.next >= 1)
    BY <1>0, <1>3 DEF N!StartCycle, ShapingTyped, Cycles
  <2>2. ShapingTyped'
    BY <1>0, <1>3, <2>1 DEF N!StartCycle, ShapingTyped, N!apps, N!rates, N!env, N!rps
  <2> QED BY <1>0, <1>3, <2>2, RestKeeps DEF N!StartCycle, N!apps, N!rates, N!env, N!rps
<1>8. ASSUME N!Relist PROVE ShapingCore'
  <2>1. listed' \in Seq(Entries)
    BY <1>0, <1>8, RelistTyped
  <2>2. ShapingTyped'
    BY <1>0, <1>8, <2>1 DEF N!Relist, ShapingTyped, N!apps, N!rates, N!rps
  <2> QED BY <1>0, <1>8, <2>2, RestKeeps DEF N!Relist, N!apps, N!rates, N!rps
<1>9. ASSUME N!Wait PROVE ShapingCore'
  <2>1. cool' \in Cools
    BY <1>0, <1>9 DEF N!Wait, ShapingTyped, Cools
  <2>2. ShapingTyped'
    BY <1>0, <1>9, <2>1 DEF N!Wait, ShapingTyped, N!apps, N!env, N!rps
  <2> QED BY <1>0, <1>9, <2>2, RestKeeps DEF N!Wait, N!apps, N!env, N!rps
<1>10. ASSUME NEW failing \in BOOLEAN, N!Commands(failing) PROVE ShapingCore'
  <2>1. CASE N!Reload(failing)
    BY <1>0, <2>1, ReloadKeeps
  <2>2. CASE N!RemoveGone(failing)
    BY <1>0, <2>2, RemoveGoneKeeps
  <2>3. CASE N!Refresh(failing)
    BY <1>0, <2>3, RefreshKeeps
  <2>4. CASE N!ShapeTx(failing)
    BY <1>0, <2>4, ShapeTxKeeps
  <2>5. CASE N!ShapeRx(failing)
    BY <1>0, <2>5, ShapeRxKeeps
  <2>6. CASE N!Exit(failing)
    BY <1>0, <2>6, ExitKeeps
  <2> QED BY <1>10, <2>1, <2>2, <2>3, <2>4, <2>5, <2>6 DEF N!Commands
<1>11. CASE UNCHANGED N!vars
  <2>1. ShapingTyped'
    BY <1>0, <1>11 DEF N!vars, ShapingTyped
  <2> QED BY <1>0, <1>11, <2>1, RestKeeps DEF N!vars, ShapingInv
<1>12. CASE (N!RequestReload \/ N!StartCycle \/ N!Relist \/ N!Wait) /\ UNCHANGED faults
  <2>1. ShapingCore'
    BY <1>1, <1>3, <1>8, <1>9, <1>12
  <2> QED BY <1>0, <1>12, <2>1 DEF ShapingInv
<1>13. CASE \E failing \in BOOLEAN : N!Faulty(failing) /\ N!Commands(failing)
  <2>1. faults' \in Nat
    BY <1>0, <1>13 DEF N!Faulty
  <2> QED BY <1>10, <1>13, <2>1 DEF ShapingInv
<1> QED BY <1>11, <1>12, <1>13 DEF N!Next

LEMMA ShapingShows == ShapingInv => N!TypeOK /\ N!MarksIdentifyApps /\ N!RatesFollowStage /\ N!BumpCanBeUndone
<1> SUFFICES ASSUME ShapingInv PROVE N!TypeOK /\ N!MarksIdentifyApps /\ N!RatesFollowStage /\ N!BumpCanBeUndone
  OBVIOUS
<1>0. ShapingCore /\ ShapingTyped /\ faults \in Nat
  BY DEF ShapingInv, ShapingCore
<1>1. N!TypeOK
  <2>1. \A i \in DOMAIN listed : listed[i].app \in Shaped /\ listed[i].tier \in NetTiers
    <3>1. listed \in Seq(Entries)
      BY <1>0 DEF ShapingCore, ShapingTyped
    <3>2. \A i \in DOMAIN listed : listed[i] \in Entries
      BY <3>1
    <3> QED BY <3>2 DEF Entries
  <2>2. DOMAIN info \cup DOMAIN caps \subseteq Shaped /\ \A a \in DOMAIN info : info[a].mark \in Nat
    BY <1>0 DEF ShapingCore, ShapingTyped, Infos, Prios, MarkRecord
  <2>3. kernel.rate \in [N!Dirs -> [{"low", "high"} -> {"max", "half", "min"}]]
    BY <1>0 DEF ShapingCore, ShapingTyped, Kernels, Rates, Classes, Rate
  <2>4. cycle.pc \in {"start", "gone", "each", "shape", "rx"}
    BY <1>0 DEF ShapingCore, ShapingTyped, Cycles
  <2>5. kernel.rps \in {"own", "mask", "zero"}
    BY <1>0 DEF ShapingTyped, Kernels
  <2>6. left.rules \subseteq kernel.rules /\ left.filters \subseteq kernel.filters /\ left.police \subseteq kernel.police
    BY <1>0 DEF ShapingTyped, LeftIn
  <2> QED BY <1>0, <2>1, <2>2, <2>3, <2>4, <2>5, <2>6 DEF ShapingTyped, N!TypeOK, Cools, Classes
<1>2. N!MarksIdentifyApps
  <2> DEFINE holders(m) == {a \in DOMAIN info : info[a].mark = m}
  <2>1. ASSUME NEW a \in N!Marked(info) PROVE holders(info[a].mark) = {a}
    BY <1>0 DEF ShapingCore, MarksApart, N!Marked
  <2>2. \A r \in kernel.rules \ left.rules : holders(r.mark) = {r.app}
    BY <1>0, <2>1 DEF ShapingCore, FiltersHeld
  <2>3. \A f \in (kernel.filters \ left.filters) \cup (kernel.police \ left.police) : \E a \in N!Marked(info) : f.mark = info[a].mark
    BY <1>0 DEF ShapingCore, FiltersHeld
  <2>4. \A f \in (kernel.filters \ left.filters) \cup (kernel.police \ left.police) : Cardinality(holders(f.mark)) = 1
    <3> SUFFICES ASSUME NEW f \in (kernel.filters \ left.filters) \cup (kernel.police \ left.police) PROVE Cardinality(holders(f.mark)) = 1
      OBVIOUS
    <3>1. PICK a \in N!Marked(info) : f.mark = info[a].mark
      BY <2>3
    <3>2. holders(f.mark) = {a}
      BY <2>1, <3>1
    <3> QED BY <3>2, FS_Singleton
  <2> QED BY <2>2, <2>4, SameCount DEF N!MarksIdentifyApps
<1>3. N!RatesFollowStage
  BY <1>0 DEF ShapingCore, Rated, AllSteady, Steady, Classes, N!RatesFollowStage
<1>4. N!BumpCanBeUndone
  BY <1>0 DEF ShapingCore, MaskUndoable, N!BumpCanBeUndone
<1> QED BY <1>1, <1>2, <1>3, <1>4

-----------------------------------------------------------------------------
\* Network shaping is in ShapingInv always, if the number of marks is a number.
LEMMA ShapingInvariant == PoolSize \in Nat /\ N!Spec => []ShapingInv
<1> SUFFICES ASSUME PoolSize \in Nat PROVE N!Spec => []ShapingInv
  OBVIOUS
<1>1. N!Init => ShapingInv
  BY ShapingInit
<1>2. ShapingInv /\ [N!Next]_N!vars => ShapingInv'
  BY ShapingStep
<1> QED BY <1>1, <1>2, PTL DEF N!Spec

\* The state of network shaping keeps its shape.  (NetworkController.)
THEOREM ShapingTypeCorrect == PoolSize \in Nat /\ N!Spec => []N!TypeOK
<1>1. ShapingInv => N!TypeOK
  BY ShapingShows
<1> QED BY <1>1, ShapingInvariant, PTL

\* A mark in the kernel means one application, for any applications, places in the list and size of the
\* pool, through every removal, refresh, policing and reload.
\* (_allocate_mark, _add_app_network_rules, _remove_app_network_rules, _apply_app_pps_cap.)
THEOREM MarksAreApps == PoolSize \in Nat /\ N!Spec => []N!MarksIdentifyApps
<1>1. ShapingInv => N!MarksIdentifyApps
  BY ShapingShows
<1> QED BY <1>1, ShapingInvariant, PTL

\* The rates that tc enforces are those of the stage, in both directions, as long as there is a tree
\* and the process has not taken it down.  (_apply_bandwidth_limit, _recover_network_pressure, reload.)
THEOREM RatesAreTheStages == PoolSize \in Nat /\ N!Spec => []N!RatesFollowStage
<1>1. ShapingInv => N!RatesFollowStage
  BY ShapingShows
<1> QED BY <1>1, ShapingInvariant, PTL

\* A widened RPS mask has its original on record, over any number of escalations and reloads.
\* (_escalate_rx, _restore_rx, reload.)
THEOREM MasksCanBeUndone == PoolSize \in Nat /\ N!Spec => []N!BumpCanBeUndone
<1>1. ShapingInv => N!BumpCanBeUndone
  BY ShapingShows
<1> QED BY <1>1, ShapingInvariant, PTL

-----------------------------------------------------------------------------
(***************************************************************************)
(* The swap ladder.                                                        *)
(***************************************************************************)

\* a file is being made
Growing == at \in {"swapon", "rewrite", "swapon2"}

\* At start there are no threads yet but the main one.
Quiescent == jobs = <<>> /\ at = "idle" /\ req = "idle" /\ rel["worker"].pc = "idle"

JobKinds == {"grow", "growFor", "shrink", "reclaim"}

SwapShape ==
        /\ jobs \in Seq(JobKinds)
        /\ DOMAIN rel = S!Threads
        /\ \A t \in S!Threads : rel[t] = [pc |-> rel[t].pc, todo |-> rel[t].todo, cur |-> rel[t].cur]
        /\ crossed \in BOOLEAN
        /\ service \in {"up", "stopping", "down", "starting"}
        /\ rel["worker"].pc # "idle" => at = "shrink"
        /\ service \in {"down", "starting"} => Quiescent
        /\ service \in {"up", "down"} => rel["main"].pc = "idle"

\* What a release takes for orphans is not swapped on.
Swept(t) ==
    /\ rel[t].pc = "orphans" => on \subseteq rel[t].todo
    /\ rel[t].pc = "sweep" => rel[t].todo \cap on = {}

Apart == ~crossed => ghost = {} /\ ~(S!MainBusy /\ Growing) /\ \A t \in S!Threads : Swept(t)

-----------------------------------------------------------------------------
LEMMA SwapInitHolds == S!Init => SwapShape /\ Apart
<1> SUFFICES ASSUME S!Init PROVE SwapShape /\ Apart
  OBVIOUS
<1>1. rel = [t \in S!Threads |-> [pc |-> "idle", todo |-> {}, cur |-> 0]]
  BY DEF S!Init, S!NoRelease
<1>2. DOMAIN rel = S!Threads /\ \A t \in S!Threads : rel[t] = [pc |-> "idle", todo |-> {}, cur |-> 0]
  BY <1>1
<1>3. <<>> \in Seq(JobKinds)
  OBVIOUS
<1>4. SwapShape
  <2>1. /\ service = "up" /\ jobs = <<>> /\ crossed = FALSE
        /\ \A t \in S!Threads : rel[t].pc = "idle" /\ rel[t].todo = {} /\ rel[t].cur = 0
    BY <1>2 DEF S!Init
  <2>2. "worker" \in S!Threads /\ "main" \in S!Threads
    BY DEF S!Threads
  <2> QED BY <1>2, <1>3, <2>1, <2>2 DEF SwapShape
<1>5. Apart
  BY <1>2 DEF S!Init, Apart, Swept, S!MainBusy, Growing
<1> QED BY <1>4, <1>5

\* One release makes its next step.
LEMMA RelEffect ==
    ASSUME SwapShape, NEW t \in S!Threads, NEW pc, NEW todo, NEW cur, S!Rel(t, pc, todo, cur)
    PROVE  /\ DOMAIN rel' = S!Threads
           /\ \A u \in S!Threads : rel'[u] = [pc |-> rel'[u].pc, todo |-> rel'[u].todo, cur |-> rel'[u].cur]
           /\ rel'[t].pc = pc /\ rel'[t].todo = todo
           /\ \A u \in S!Threads : u # t => rel'[u] = rel[u]
BY DEF S!Rel, SwapShape

\* The steps of requests, timers and settings touch neither files nor releases.
LEMMA AskStep ==
    ASSUME SwapShape, Apart,
           \/ \E m \in {"low", "high"}, b \in BOOLEAN : S!Pressure(m, b)
           \/ S!Relax \/ S!SwitchOff \/ S!RequestGrowth \/ S!TickRelease \/ S!TickReclaim
           \/ S!Limit \/ S!Proceed \/ S!AskGrowth
    PROVE  SwapShape' /\ Apart'
<1>1. UNCHANGED <<on, ghost, service, at, rel, crossed>>
  BY DEF S!Pressure, S!Relax, S!SwitchOff, S!RequestGrowth, S!TickRelease, S!TickReclaim, S!Limit, S!Proceed, S!AskGrowth,
         S!ReqOnly, S!machine, S!flags, S!worker
<1>2. (jobs' = jobs \/ S!Serving \/ req # "idle") /\ (req' = req \/ S!Serving \/ req # "idle")
  BY DEF S!Pressure, S!Relax, S!SwitchOff, S!RequestGrowth, S!TickRelease, S!TickReclaim, S!Limit, S!Proceed, S!AskGrowth,
         S!ReqOnly, S!machine, S!flags, S!worker
<1>3. service' \in {"down", "starting"} => Quiescent'
  BY <1>1, <1>2 DEF SwapShape, Quiescent, S!Serving
<1>a. jobs' \in Seq(JobKinds)
  <2>1. jobs' = jobs \/ \E j \in JobKinds : jobs' = Append(jobs, j)
    BY DEF S!Pressure, S!Relax, S!SwitchOff, S!RequestGrowth, S!TickRelease, S!TickReclaim, S!Limit, S!Proceed, S!AskGrowth,
           S!ReqOnly, S!machine, S!flags, S!worker, S!Submit, JobKinds
  <2> QED BY <2>1 DEF SwapShape
<1>4. SwapShape'
  BY <1>1, <1>3, <1>a DEF SwapShape
<1>5. Apart'
  BY <1>1 DEF Apart, Swept, S!MainBusy, Growing
<1> QED BY <1>4, <1>5

LEMMA WorkStep ==
    ASSUME SwapShape, Apart, S!Work
    PROVE  SwapShape' /\ Apart'
<1>1. CASE S!TakeJob \/ S!ReclaimDone \/ \E filling \in BOOLEAN : S!NoGrowth(filling)
  <2>1. /\ UNCHANGED <<on, ghost, service, rel, crossed>> /\ service \notin {"down", "starting"}
        /\ at # "shrink"
    BY <1>1 DEF S!TakeJob, S!ReclaimDone, S!NoGrowth, S!machine, S!flags, SwapShape, Quiescent
  <2>2. jobs' \in Seq(JobKinds) /\ ~Growing'
    <3>1. CASE S!TakeJob
      <4>1. jobs # <<>> /\ jobs' = Tail(jobs) /\ at' = IF Head(jobs) = "growFor" THEN "grow" ELSE Head(jobs)
        BY <3>1 DEF S!TakeJob
      <4>2. Head(jobs) \in JobKinds /\ Tail(jobs) \in Seq(JobKinds)
        BY <4>1 DEF SwapShape
      <4> QED BY <4>1, <4>2 DEF Growing, JobKinds
    <3>2. CASE S!ReclaimDone
      <4>1. at' = "idle" /\ (jobs' = jobs \/ jobs' = Append(jobs, "grow")) /\ "grow" \in JobKinds
        BY <3>2 DEF S!ReclaimDone, S!Submit, JobKinds
      <4> QED BY <4>1 DEF Growing, SwapShape
    <3>3. CASE \E filling \in BOOLEAN : S!NoGrowth(filling)
      BY <3>3 DEF S!NoGrowth, Growing, SwapShape
    <3> QED BY <1>1, <3>1, <3>2, <3>3
  <2> QED BY <2>1, <2>2 DEF SwapShape, Apart, Swept, S!MainBusy
<1>2. CASE \E filling \in BOOLEAN : S!Allocate(filling)
  <2>1. /\ UNCHANGED <<on, ghost, service, rel, jobs>> /\ crossed' = (crossed \/ S!MainBusy)
        /\ at \in {"grow", "rewrite"}
    BY <1>2 DEF S!Allocate, S!flags
  <2>2. service \notin {"down", "starting"} /\ rel["worker"].pc = "idle"
    BY <2>1 DEF SwapShape, Quiescent
  <2>3. SwapShape'
    BY <2>1, <2>2 DEF SwapShape
  <2>4. ~crossed' => ~crossed /\ ~S!MainBusy
    BY <2>1 DEF SwapShape
  <2> QED BY <2>1, <2>3, <2>4 DEF Apart, Swept, S!MainBusy
<1>3. CASE S!SwapOn
  <2>1. /\ on' = on \cup {path} /\ at' = "idle" /\ Growing /\ UNCHANGED <<ghost, service, rel, crossed, jobs>>
    BY <1>3 DEF S!SwapOn, Growing
  <2>2. service \notin {"down", "starting"} /\ rel["worker"].pc = "idle"
    BY <2>1 DEF SwapShape, Quiescent, Growing
  <2>3. SwapShape'
    BY <2>1, <2>2 DEF SwapShape
  <2>4. ~crossed => \A t \in S!Threads : rel[t].pc = "idle"
    BY <2>1, <2>2 DEF Apart, S!MainBusy, S!Threads
  <2> QED BY <2>1, <2>3, <2>4 DEF Apart, Swept, S!MainBusy, Growing
<1>4. CASE S!SwapOnFails
  <2>1. /\ UNCHANGED <<on, ghost, service, rel, crossed, jobs>> /\ at \in {"swapon", "swapon2"}
        /\ at' \in {"rewrite", "idle"}
    BY <1>4 DEF S!SwapOnFails
  <2>2. service \notin {"down", "starting"} /\ rel["worker"].pc = "idle"
    BY <2>1 DEF SwapShape, Quiescent
  <2> QED BY <2>1, <2>2 DEF SwapShape, Apart, Swept, S!MainBusy, Growing
<1>5. CASE S!BeginShrink
  <2>1. /\ UNCHANGED <<on, ghost, service, crossed, jobs, req>> /\ at = "shrink" /\ rel["worker"].pc = "idle"
        /\ service \notin {"down", "starting"}
    BY <1>5 DEF S!BeginShrink, S!RelOnly, SwapShape, Quiescent
  <2>2. CASE at' = "idle" /\ UNCHANGED rel
    BY <2>1, <2>2 DEF SwapShape, Apart, Swept, S!MainBusy, Growing
  <2>3. CASE S!Rel("worker", "files", on, 0) /\ UNCHANGED at
    <3>1. /\ DOMAIN rel' = S!Threads /\ rel'["main"] = rel["main"] /\ rel'["worker"].pc = "files"
          /\ \A u \in S!Threads : rel'[u] = [pc |-> rel'[u].pc, todo |-> rel'[u].todo, cur |-> rel'[u].cur]
      BY <2>3, RelEffect DEF S!Threads
    <3> QED BY <2>1, <2>3, <3>1 DEF SwapShape, Apart, Swept, S!MainBusy, Growing, S!Threads
  <2> QED BY <1>5, <2>2, <2>3 DEF S!BeginShrink
<1> QED BY <1>1, <1>2, <1>3, <1>4, <1>5 DEF S!Work

LEMMA ReleaseStep ==
    ASSUME SwapShape, Apart, NEW t \in S!Threads, S!Release(t)
    PROVE  SwapShape' /\ Apart'
<1>1. UNCHANGED <<jobs, req, crossed>>
  BY DEF S!Release, S!Discard, S!StillActive, S!Orphans, S!EndRelease, S!SwapOff, S!Skip, S!Sweep, S!RelOnly
<1>2. CASE S!EndRelease(t)
  <2>1. /\ UNCHANGED <<on, ghost>> /\ S!Rel(t, "idle", {}, 0)
        /\ at' = (IF t = "worker" THEN "idle" ELSE at) /\ rel[t].pc = "sweep"
        /\ service' = IF t = "main" /\ service = "starting" THEN "up" ELSE service
    BY <1>2 DEF S!EndRelease
  <2>2. /\ DOMAIN rel' = S!Threads /\ rel'[t].pc = "idle" /\ \A u \in S!Threads : u # t => rel'[u] = rel[u]
        /\ \A u \in S!Threads : rel'[u] = [pc |-> rel'[u].pc, todo |-> rel'[u].todo, cur |-> rel'[u].cur]
    BY <2>1, RelEffect
  <2>3. CASE t = "worker"
    BY <1>1, <2>1, <2>2, <2>3 DEF SwapShape, Apart, Swept, S!MainBusy, Growing, S!Threads, Quiescent
  <2>4. CASE t = "main"
    BY <1>1, <2>1, <2>2, <2>4 DEF SwapShape, Apart, Swept, S!MainBusy, Growing, S!Threads, Quiescent
  <2> QED BY <2>3, <2>4 DEF S!Threads
<1>3. ASSUME ~S!EndRelease(t)
      PROVE  SwapShape' /\ Apart'
  <2>1. UNCHANGED <<service, at>> /\ rel[t].pc # "idle"
    BY <1>3 DEF S!Release, S!Discard, S!StillActive, S!Orphans, S!SwapOff, S!Skip, S!Sweep
  <2>2. PICK pc, todo, cur :
          /\ S!Rel(t, pc, todo, cur) /\ pc # "idle" /\ on' \subseteq on
          /\ pc = "orphans" => todo = on /\ on' = on
          /\ pc = "sweep" => \/ rel[t].pc = "orphans" /\ todo \cap rel[t].todo = {} /\ on' = on
                             \/ rel[t].pc = "sweep" /\ todo \subseteq rel[t].todo
    <3> DEFINE Next3(pc, todo, cur) ==
                 /\ S!Rel(t, pc, todo, cur) /\ pc # "idle" /\ on' \subseteq on
                 /\ pc = "orphans" => todo = on /\ on' = on
                 /\ pc = "sweep" => \/ rel[t].pc = "orphans" /\ todo \cap rel[t].todo = {} /\ on' = on
                                    \/ rel[t].pc = "sweep" /\ todo \subseteq rel[t].todo
    <3>1. CASE S!Discard(t)
      <4>1. Next3("files", IF t = "worker" THEN {} ELSE rel[t].todo, 0)
        BY <3>1 DEF S!Discard
      <4> QED BY <4>1
    <3>2. CASE S!StillActive(t)
      <4>1. Next3("orphans", on, 0)
        BY <3>2 DEF S!StillActive
      <4> QED BY <4>1
    <3>3. CASE S!Orphans(t)
      <4>1. Next3("sweep", file \ rel[t].todo, 0)
        BY <3>3 DEF S!Orphans
      <4> QED BY <4>1
    <3>4. ASSUME NEW f, S!SwapOff(t, f) PROVE \E pc, todo, cur : Next3(pc, todo, cur)
      <4>1. Next3("discard", rel[t].todo \ {f}, f)
        BY <3>4 DEF S!SwapOff
      <4> QED BY <4>1
    <3>5. ASSUME NEW f, S!Skip(t, f) PROVE \E pc, todo, cur : Next3(pc, todo, cur)
      <4>1. Next3("files", rel[t].todo \ {f}, 0)
        BY <3>5 DEF S!Skip
      <4> QED BY <4>1
    <3>6. ASSUME NEW f, S!Sweep(t, f) PROVE \E pc, todo, cur : Next3(pc, todo, cur)
      <4>1. Next3("sweep", rel[t].todo \ {f}, 0)
        BY <3>6 DEF S!Sweep
      <4> QED BY <4>1
    <3>7. \E pc, todo, cur : Next3(pc, todo, cur)
      BY <1>3, <3>1, <3>2, <3>3, <3>4, <3>5, <3>6 DEF S!Release
    <3> QED BY <3>7
  <2>3. ~crossed => ghost' = {}
    BY <1>3 DEF S!Release, S!Discard, S!StillActive, S!Orphans, S!SwapOff, S!Skip, S!Sweep, Apart, Swept
  <2>4. /\ DOMAIN rel' = S!Threads /\ rel'[t].pc = pc /\ rel'[t].todo = todo
        /\ \A u \in S!Threads : u # t => rel'[u] = rel[u]
        /\ \A u \in S!Threads : rel'[u] = [pc |-> rel'[u].pc, todo |-> rel'[u].todo, cur |-> rel'[u].cur]
    BY <2>2, RelEffect
  <2>5. SwapShape'
    <3>1. CASE t = "worker"
      BY <1>1, <2>1, <2>4, <3>1 DEF SwapShape, S!Threads, Quiescent
    <3>2. CASE t = "main"
      BY <1>1, <2>1, <2>4, <3>2 DEF SwapShape, S!Threads, Quiescent
    <3> QED BY <3>1, <3>2 DEF S!Threads
  <2>6. ~crossed => \A u \in S!Threads : Swept(u)'
    <3>1. ASSUME ~crossed PROVE Swept(t)'
      BY <2>2, <2>4, <3>1 DEF Apart, Swept
    <3>2. ASSUME ~crossed, NEW u \in S!Threads, u # t PROVE Swept(u)'
      BY <2>2, <2>4, <3>2 DEF Apart, Swept
    <3> QED BY <3>1, <3>2
  <2>7. ~crossed => ~(S!MainBusy' /\ Growing')
    BY <2>1, <2>4 DEF Apart, S!MainBusy, Growing, S!Threads
  <2> QED BY <1>1, <2>3, <2>5, <2>6, <2>7 DEF Apart
<1> QED BY <1>2, <1>3

LEMMA LifeStep ==
    ASSUME SwapShape, Apart, S!Shutdown \/ S!Start \/ \E killed \in BOOLEAN : S!End(killed)
    PROVE  SwapShape' /\ Apart'
<1>1. CASE S!Shutdown
  <2>1. /\ UNCHANGED <<on, ghost, jobs, at, req>> /\ S!Rel("main", "files", on, 0) /\ service' = "stopping"
        /\ crossed' = (crossed \/ S!Making)
    BY <1>1 DEF S!Shutdown, S!machine, S!worker
  <2>2. /\ DOMAIN rel' = S!Threads /\ rel'["main"].pc = "files" /\ rel'["worker"] = rel["worker"]
        /\ \A u \in S!Threads : rel'[u] = [pc |-> rel'[u].pc, todo |-> rel'[u].todo, cur |-> rel'[u].cur]
    BY <2>1, RelEffect DEF S!Threads
  <2>3. SwapShape'
    BY <2>1, <2>2 DEF SwapShape
  <2>4. ~crossed' => ~crossed /\ ~Growing
    BY <2>1 DEF S!Making, Growing, SwapShape
  <2> QED BY <2>1, <2>2, <2>3, <2>4 DEF Apart, Swept, S!MainBusy, Growing, S!Threads
<1>2. CASE S!Start
  <2>1. /\ UNCHANGED <<on, ghost, jobs, at, req, crossed>> /\ S!Rel("main", "files", on, 0)
        /\ service = "down" /\ service' = "starting"
    BY <1>2 DEF S!Start, S!machine, S!worker
  <2>2. /\ DOMAIN rel' = S!Threads /\ rel'["main"].pc = "files" /\ rel'["worker"] = rel["worker"]
        /\ \A u \in S!Threads : rel'[u] = [pc |-> rel'[u].pc, todo |-> rel'[u].todo, cur |-> rel'[u].cur]
    BY <2>1, RelEffect DEF S!Threads
  <2>3. Quiescent /\ ~Growing
    BY <2>1 DEF SwapShape, Quiescent, Growing
  <2>4. SwapShape'
    BY <2>1, <2>2, <2>3 DEF SwapShape, Quiescent
  <2> QED BY <2>1, <2>2, <2>3, <2>4 DEF Apart, Swept, S!MainBusy, Growing, S!Threads
<1>3. CASE \E killed \in BOOLEAN : S!End(killed)
  <2>1. /\ UNCHANGED <<on, ghost, crossed>> /\ service' = "down" /\ jobs' = <<>> /\ at' = "idle" /\ req' = "idle"
        /\ rel' = S!NoRelease
    BY <1>3 DEF S!End, S!machine
  <2> QED BY <2>1 DEF SwapShape, Apart, Swept, S!MainBusy, Growing, S!Threads, S!NoRelease, Quiescent
<1> QED BY <1>1, <1>2, <1>3

LEMMA SwapStep == SwapShape /\ Apart /\ [S!Next]_S!vars => SwapShape' /\ Apart'
<1> SUFFICES ASSUME SwapShape, Apart, [S!Next]_S!vars PROVE SwapShape' /\ Apart'
  OBVIOUS
<1>1. CASE UNCHANGED S!vars
  BY <1>1 DEF S!vars, S!machine, S!worker, S!flags, SwapShape, Apart, Swept, S!MainBusy, Growing, Quiescent
<1> QED BY <1>1, AskStep, WorkStep, ReleaseStep, LifeStep DEF S!Next

\* Swap is never left without the file it would be found by, whatever jobs and restarts come
\* together, unless the release at shutdown met a growth (release's sweep of orphans, grow).
THEOREM SwapKeepsItsFile == S!Spec => []S!NoSwapWithoutFile
<1>1. SwapShape /\ Apart => S!NoSwapWithoutFile
  BY DEF Apart, S!NoSwapWithoutFile, SwapShape
<1> QED BY <1>1, SwapInitHolds, SwapStep, PTL DEF S!Spec

-----------------------------------------------------------------------------
(***************************************************************************)
(* Type correctness, for any names that are positive numbers               *)
(***************************************************************************)
SwapSteps == {"idle", "grow", "swapon", "rewrite", "swapon2", "shrink", "reclaim"}
ReleaseSteps == {"idle", "files", "discard", "orphans", "sweep"}
RequestSteps == {"idle", "check", "preWait", "reclaim", "lastReclaim", "post", "postWait", "retry"}

FilesKnown ==
    /\ mem \in {"low", "high"} /\ tight \in BOOLEAN
    /\ file \subseteq Files /\ on \subseteq Files /\ ghost \subseteq Files

WorkerKnown == at \in SwapSteps /\ (Growing <=> path \in Files)

ReleasesKnown == \A t \in S!Threads : rel[t].pc \in ReleaseSteps

\* A request that waits has a growth queued or under way.
Awaited ==
    /\ req \in RequestSteps
    /\ req \in {"preWait", "postWait"} => at \notin {"idle", "shrink", "reclaim"} \/ S!Pending("growFor")

SwapKinds == FilesKnown /\ WorkerKnown /\ ReleasesKnown /\ Awaited

\* A nonempty set of names has a first one (next_managed_path).
LEMMA NextPathIsFree ==
    ASSUME Files \subseteq Nat, file \subseteq Files, Files # file
    PROVE  S!NextPath \in Files
<1> DEFINE T == Files \ file
<1>1. T # {} /\ T \subseteq Nat
  OBVIOUS
<1>2. PICK x \in T : \A y \in T : <<y, x>> \notin OpToRel(<, Nat)
  <2> HIDE DEF T
  <2> QED
    BY <1>1, NatLessThanWellFounded, WFMin
<1>3. \A y \in T : x <= y
  <2> SUFFICES ASSUME NEW y \in T, ~(x <= y) PROVE FALSE
    OBVIOUS
  <2>1. x \in Nat /\ y \in Nat
    BY <1>1
  <2>2. y < x /\ <<y, x>> \in Nat \X Nat
    BY <2>1
  <2>3. <<y, x>> \in OpToRel(<, Nat)
    BY <2>2 DEF OpToRel
  <2> QED
    BY <1>2, <2>3
<1> QED
  BY <1>2, <1>3, Zenon DEF S!NextPath

\* A job in the queue is still in it when another one is added, and one that is added is in it.
LEMMA AppendKeeps ==
    ASSUME SwapShape, NEW j \in JobKinds, jobs' = Append(jobs, j)
    PROVE  S!Pending(j)' /\ (S!Pending("growFor") => S!Pending("growFor")')
<1> DEFINE q == Append(jobs, j)
<1>1. jobs \in Seq(JobKinds)
  BY DEF SwapShape
<1>2. /\ DOMAIN q = 1..(Len(jobs) + 1) /\ DOMAIN jobs = 1..Len(jobs) /\ Len(jobs) \in Nat
      /\ q[Len(jobs) + 1] = j /\ \A i \in 1..Len(jobs) : q[i] = jobs[i]
  BY <1>1
<1> HIDE DEF q
<1>3. jobs' = q
  BY DEF q
<1>4. \E i \in DOMAIN q : q[i] = j
  BY <1>2
<1>5. S!Pending("growFor") => \E i \in DOMAIN q : q[i] = "growFor"
  BY <1>2 DEF S!Pending
<1> QED
  BY <1>3, <1>4, <1>5 DEF S!Pending

\* A growth that is waited for is the job taken, or still in the queue.
LEMMA TailKeeps ==
    ASSUME SwapShape, jobs # <<>>, jobs' = Tail(jobs), S!Pending("growFor"), Head(jobs) # "growFor"
    PROVE  S!Pending("growFor")'
<1> DEFINE q == Tail(jobs)
<1>1. jobs \in Seq(JobKinds)
  BY DEF SwapShape
<1>2. /\ DOMAIN q = 1..(Len(jobs) - 1) /\ DOMAIN jobs = 1..Len(jobs) /\ Len(jobs) \in Nat \ {0}
      /\ Head(jobs) = jobs[1] /\ \A i \in 1..(Len(jobs) - 1) : q[i] = jobs[i + 1]
  BY <1>1
<1>3. PICK i \in DOMAIN jobs : jobs[i] = "growFor"
  BY DEF S!Pending
<1> HIDE DEF q
<1>4. i # 1 /\ i \in 1..Len(jobs)
  BY <1>2, <1>3
<1>5. i - 1 \in DOMAIN q /\ q[i - 1] = "growFor"
  BY <1>2, <1>3, <1>4
<1>6. jobs' = q
  BY DEF q
<1> QED
  BY <1>5, <1>6 DEF S!Pending

\* The request that a growth answers does not wait any more, unless for a job in the queue.
LEMMA AnswerEffect ==
    ASSUME Awaited, jobs' = jobs, NEW g, S!Answer(g)
    PROVE  Awaited'
<1>1. req' = IF S!Pending("growFor") \/ req \notin {"preWait", "postWait"} THEN req
             ELSE IF req = "preWait" THEN (IF g = "failed" THEN "lastReclaim" ELSE "reclaim")
             ELSE IF g = "grown" THEN "retry" ELSE "idle"
  BY DEF S!Answer, S!Goto
<1>2. S!Pending("growFor") => S!Pending("growFor")'
  BY DEF S!Pending
<1> HIDE DEF S!Answer
<1> QED
  BY <1>1, <1>2 DEF Awaited, RequestSteps

LEMMA SwapInitKinds == ASSUME Files \subseteq Nat \ {0} PROVE S!Init => SwapKinds
<1> SUFFICES ASSUME S!Init PROVE SwapKinds
  OBVIOUS
<1>1. FilesKnown
  BY DEF S!Init, FilesKnown
<1>2. WorkerKnown /\ Awaited
  BY DEF S!Init, WorkerKnown, Growing, SwapSteps, Awaited, RequestSteps
<1>3. ReleasesKnown
  BY DEF S!Init, S!NoRelease, ReleasesKnown, ReleaseSteps
<1> QED
  BY <1>1, <1>2, <1>3 DEF SwapKinds

LEMMA AskKinds ==
    ASSUME SwapShape, SwapKinds,
           \/ \E m \in {"low", "high"}, b \in BOOLEAN : S!Pressure(m, b)
           \/ S!Relax \/ S!SwitchOff \/ S!RequestGrowth \/ S!TickRelease \/ S!TickReclaim
           \/ S!Limit \/ S!Proceed \/ S!AskGrowth
    PROVE  SwapKinds'
<1>1. /\ UNCHANGED <<file, on, ghost, at, path, rel>>
      /\ mem' \in {"low", "high"} /\ tight' \in BOOLEAN
  BY DEF S!Pressure, S!Relax, S!SwitchOff, S!RequestGrowth, S!TickRelease, S!TickReclaim, S!Limit, S!Proceed, S!AskGrowth,
         S!ReqOnly, S!machine, S!flags, S!worker, SwapKinds, FilesKnown
<1>2. FilesKnown' /\ WorkerKnown' /\ ReleasesKnown'
  BY <1>1 DEF SwapKinds, FilesKnown, WorkerKnown, Growing, ReleasesKnown
<1>3. CASE S!AskGrowth
  <2>1. /\ jobs' = Append(jobs, "growFor") /\ "growFor" \in JobKinds
        /\ req' \in {"preWait", "postWait"}
    BY <1>3 DEF S!AskGrowth, S!Submit, S!Goto, JobKinds
  <2> QED
    BY <1>2, <2>1, AppendKeeps DEF SwapKinds, Awaited, RequestSteps
<1>4. CASE S!Limit \/ S!Proceed
  <2>1. req' \in RequestSteps \ {"preWait", "postWait"}
    BY <1>4 DEF S!Limit, S!Proceed, S!Goto, RequestSteps
  <2> QED
    BY <1>2, <2>1 DEF SwapKinds, Awaited
<1>5. CASE S!RequestGrowth \/ S!TickRelease \/ S!TickReclaim
  <2>1. PICK j \in JobKinds : jobs' = Append(jobs, j)
    BY <1>5 DEF S!RequestGrowth, S!TickRelease, S!TickReclaim, S!Submit, JobKinds
  <2>2. req' = req
    BY <1>5 DEF S!RequestGrowth, S!TickRelease, S!TickReclaim
  <2> QED
    BY <1>1, <1>2, <2>1, <2>2, AppendKeeps DEF SwapKinds, Awaited
<1>6. CASE (\E m \in {"low", "high"}, b \in BOOLEAN : S!Pressure(m, b)) \/ S!Relax \/ S!SwitchOff
  <2>1. UNCHANGED <<jobs, req>>
    BY <1>6 DEF S!Pressure, S!Relax, S!SwitchOff, S!worker
  <2> QED
    BY <1>1, <1>2, <2>1 DEF SwapKinds, Awaited, S!Pending
<1> QED
  BY <1>3, <1>4, <1>5, <1>6

LEMMA WorkKinds ==
    ASSUME Files \subseteq Nat \ {0}, SwapShape, SwapKinds, S!Work
    PROVE  SwapKinds'
<1>0. FilesKnown /\ WorkerKnown /\ ReleasesKnown /\ Awaited
  BY DEF SwapKinds
<1>1. CASE S!TakeJob
  <2>1. /\ UNCHANGED <<mem, tight, file, on, ghost, path, rel, req>>
        /\ jobs # <<>> /\ jobs' = Tail(jobs) /\ at = "idle"
        /\ at' = IF Head(jobs) = "growFor" THEN "grow" ELSE Head(jobs)
    BY <1>1 DEF S!TakeJob, S!machine
  <2>2. Head(jobs) \in JobKinds
    BY <2>1 DEF SwapShape
  <2>3. WorkerKnown'
    BY <1>0, <2>1, <2>2 DEF WorkerKnown, Growing, SwapSteps, JobKinds
  <2>4. Awaited'
    BY <1>0, <2>1, <2>2, TailKeeps DEF Awaited, JobKinds
  <2> QED
    BY <1>0, <2>1, <2>3, <2>4 DEF SwapKinds, FilesKnown, ReleasesKnown
<1>2. CASE S!ReclaimDone
  <2>1. /\ UNCHANGED <<mem, tight, file, on, ghost, path, rel, req>> /\ at = "reclaim" /\ at' = "idle"
        /\ (jobs' = jobs \/ jobs' = Append(jobs, "grow")) /\ "grow" \in JobKinds
    BY <1>2 DEF S!ReclaimDone, S!machine, S!Submit, JobKinds
  <2>2. S!Pending("growFor") => S!Pending("growFor")'
    BY <2>1, AppendKeeps DEF S!Pending
  <2> QED
    BY <1>0, <2>1, <2>2 DEF SwapKinds, FilesKnown, ReleasesKnown, WorkerKnown, Growing, SwapSteps, Awaited
<1>3. ASSUME NEW filling \in BOOLEAN, S!NoGrowth(filling)
      PROVE  SwapKinds'
  <2>1. /\ UNCHANGED <<mem, tight, file, on, ghost, path, rel, jobs>> /\ at = "grow" /\ at' = "idle"
        /\ \E g : S!Answer(g)
    BY <1>3 DEF S!NoGrowth, S!machine
  <2>2. Awaited'
    BY <1>0, <2>1, AnswerEffect
  <2> QED
    BY <1>0, <2>1, <2>2 DEF SwapKinds, FilesKnown, ReleasesKnown, WorkerKnown, Growing, SwapSteps
<1>4. ASSUME NEW filling \in BOOLEAN, S!Allocate(filling)
      PROVE  SwapKinds'
  <2>1. /\ UNCHANGED <<mem, tight, on, ghost, rel, jobs, req>> /\ file' = file \cup {path'}
        /\ at' \in {"swapon", "swapon2"}
    BY <1>4 DEF S!Allocate
  <2>2. path' \in Files
    BY <1>0, <1>4, NextPathIsFree DEF S!Allocate, FilesKnown, WorkerKnown, Growing
  <2>3. Awaited'
    BY <1>0, <2>1 DEF Awaited
  <2> QED
    BY <1>0, <2>1, <2>2, <2>3 DEF SwapKinds, FilesKnown, ReleasesKnown, WorkerKnown, Growing, SwapSteps
<1>5. CASE S!SwapOn
  <2>1. /\ UNCHANGED <<mem, tight, file, ghost, rel, jobs>> /\ on' = on \cup {path} /\ path \in file
        /\ at' = "idle" /\ path' = 0 /\ S!Answer("grown")
    BY <1>5 DEF S!SwapOn
  <2>2. Awaited'
    BY <1>0, <2>1, AnswerEffect
  <2> QED
    BY <1>0, <2>1, <2>2 DEF SwapKinds, FilesKnown, ReleasesKnown, WorkerKnown, Growing, SwapSteps
<1>6. CASE S!SwapOnFails
  <2>1. /\ UNCHANGED <<mem, tight, on, ghost, rel, jobs>> /\ file' = file \ {path}
        /\ \/ at = "swapon" /\ at' = "rewrite" /\ UNCHANGED <<path, req>>
           \/ at' = "idle" /\ path' = 0 /\ S!Answer("failed")
    BY <1>6 DEF S!SwapOnFails
  <2>2. Awaited'
    BY <1>0, <2>1, AnswerEffect DEF Awaited
  <2> QED
    BY <1>0, <2>1, <2>2 DEF SwapKinds, FilesKnown, ReleasesKnown, WorkerKnown, Growing, SwapSteps
<1>7. CASE S!BeginShrink
  <2>1. /\ UNCHANGED <<mem, tight, file, on, ghost, jobs, path, req>> /\ at = "shrink"
        /\ at' \in {"shrink", "idle"}
    BY <1>7 DEF S!BeginShrink, S!RelOnly
  <2>2. ReleasesKnown'
    <3>1. rel' = rel \/ S!Rel("worker", "files", on, 0)
      BY <1>7 DEF S!BeginShrink
    <3> QED
      BY <1>0, <3>1, RelEffect DEF ReleasesKnown, ReleaseSteps, S!Threads
  <2>3. Awaited'
    BY <1>0, <2>1 DEF Awaited, S!Pending
  <2> QED
    BY <1>0, <2>1, <2>2, <2>3 DEF SwapKinds, FilesKnown, WorkerKnown, Growing, SwapSteps
<1> QED
  BY <1>1, <1>2, <1>3, <1>4, <1>5, <1>6, <1>7 DEF S!Work

LEMMA ReleaseKinds ==
    ASSUME SwapShape, SwapKinds, NEW t \in S!Threads, S!Release(t)
    PROVE  SwapKinds'
<1>0. FilesKnown /\ WorkerKnown /\ ReleasesKnown /\ Awaited
  BY DEF SwapKinds
<1>1. UNCHANGED <<mem, tight, jobs, path, req>>
  BY DEF S!Release, S!Discard, S!StillActive, S!Orphans, S!EndRelease, S!SwapOff, S!Skip, S!Sweep, S!RelOnly
<1>2. file' \subseteq file /\ on' \subseteq on /\ ghost' \subseteq ghost \cup on
  BY DEF S!Release, S!Discard, S!StillActive, S!Orphans, S!EndRelease, S!SwapOff, S!Skip, S!Sweep
<1>3. ReleasesKnown'
  <2>1. PICK pc \in ReleaseSteps : \E todo, cur : S!Rel(t, pc, todo, cur)
    BY DEF S!Release, S!Discard, S!StillActive, S!Orphans, S!EndRelease, S!SwapOff, S!Skip, S!Sweep, ReleaseSteps
  <2> QED
    BY <1>0, <2>1, RelEffect DEF ReleasesKnown
<1>4. at' = at \/ (at' = "idle" /\ at = "shrink")
  <2>1. CASE S!EndRelease(t)
    BY <2>1 DEF S!EndRelease, SwapShape
  <2>2. CASE ~S!EndRelease(t)
    BY <2>2 DEF S!Release, S!Discard, S!StillActive, S!Orphans, S!SwapOff, S!Skip, S!Sweep
  <2> QED
    BY <2>1, <2>2
<1>5. WorkerKnown'
  BY <1>0, <1>1, <1>4 DEF WorkerKnown, Growing, SwapSteps
<1>6. Awaited'
  BY <1>0, <1>1, <1>4 DEF Awaited, S!Pending
<1>7. FilesKnown'
  BY <1>0, <1>1, <1>2 DEF FilesKnown
<1> QED
  BY <1>3, <1>5, <1>6, <1>7 DEF SwapKinds

LEMMA LifeKinds ==
    ASSUME Files \subseteq Nat \ {0}, SwapShape, SwapKinds, S!Shutdown \/ S!Start \/ \E killed \in BOOLEAN : S!End(killed)
    PROVE  SwapKinds'
<1>0. FilesKnown /\ WorkerKnown /\ ReleasesKnown /\ Awaited
  BY DEF SwapKinds
<1>1. CASE S!Shutdown \/ S!Start
  <2>1. UNCHANGED <<mem, tight, file, on, ghost, jobs, at, path, req>> /\ S!Rel("main", "files", on, 0)
    BY <1>1 DEF S!Shutdown, S!Start, S!machine, S!worker
  <2>2. ReleasesKnown'
    BY <1>0, <2>1, RelEffect DEF ReleasesKnown, ReleaseSteps, S!Threads
  <2> QED
    BY <1>0, <2>1, <2>2 DEF SwapKinds, FilesKnown, WorkerKnown, Growing, Awaited, S!Pending
<1>2. CASE \E killed \in BOOLEAN : S!End(killed)
  <2>1. /\ UNCHANGED <<mem, tight, file, on, ghost>> /\ at' = "idle" /\ path' = 0 /\ req' = "idle"
        /\ rel' = S!NoRelease
    BY <1>2 DEF S!End, S!machine
  <2>2. ReleasesKnown'
    BY <2>1 DEF S!NoRelease, ReleasesKnown, ReleaseSteps
  <2> QED
    BY <1>0, <2>1, <2>2 DEF SwapKinds, FilesKnown, WorkerKnown, Growing, SwapSteps, Awaited, RequestSteps
<1> QED
  BY <1>1, <1>2

LEMMA KindsStep ==
    ASSUME Files \subseteq Nat \ {0}, SwapShape, SwapKinds, [S!Next]_S!vars
    PROVE  SwapKinds'
<1>1. CASE UNCHANGED S!vars
  BY <1>1 DEF S!vars, S!machine, S!flags, S!worker, SwapKinds, FilesKnown, WorkerKnown, Growing, ReleasesKnown, Awaited, S!Pending
<1> QED
  BY <1>1, AskKinds, WorkKinds, ReleaseKinds, LifeKinds DEF S!Next

SwapKnown == SwapShape /\ Apart /\ SwapKinds

LEMMA SwapStart == Files \subseteq Nat \ {0} /\ S!Init => SwapKnown
BY SwapInitHolds, SwapInitKinds DEF SwapKnown

LEMMA SwapKept == Files \subseteq Nat \ {0} /\ SwapKnown /\ [S!Next]_S!vars => SwapKnown'
BY SwapStep, KindsStep DEF SwapKnown

LEMMA SwapShows == SwapKnown => S!TypeOK /\ S!NoSwapWithoutFile
<1> SUFFICES ASSUME SwapKnown PROVE S!TypeOK /\ S!NoSwapWithoutFile
  OBVIOUS
<1>1. S!TypeOK
  <2>1. \A i \in DOMAIN jobs : jobs[i] \in {"grow", "growFor", "shrink", "reclaim"}
    BY DEF SwapKnown, SwapShape, JobKinds
  <2> QED
    BY <2>1 DEF SwapKnown, SwapShape, SwapKinds, FilesKnown, WorkerKnown, Growing, SwapSteps, ReleasesKnown,
         ReleaseSteps, Awaited, RequestSteps, S!Pending, S!TypeOK
<1>2. S!NoSwapWithoutFile
  BY DEF SwapKnown, Apart, S!NoSwapWithoutFile, SwapShape
<1> QED BY <1>1, <1>2

\* The state of the swap ladder keeps its shape for any names of files that are positive numbers:
\* above all, the worker releases only as its job, it holds a path exactly while it makes a file,
\* and a request that waits has a growth queued or under way, so that somebody will answer it
\* (reclaim_memory_to_target, the one-worker executor).
THEOREM SwapTypeCorrect == Files \subseteq Nat \ {0} /\ S!Spec => []S!TypeOK
<1> SUFFICES ASSUME Files \subseteq Nat \ {0} PROVE S!Spec => []S!TypeOK
  OBVIOUS
<1>1. S!Init => SwapKnown
  BY SwapStart
<1>2. SwapKnown /\ [S!Next]_S!vars => SwapKnown'
  BY SwapKept
<1>3. SwapKnown => S!TypeOK
  BY SwapShows
<1> QED BY <1>1, <1>2, <1>3, PTL DEF S!Spec

=============================================================================
