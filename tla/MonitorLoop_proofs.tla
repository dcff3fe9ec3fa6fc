-------------------------- MODULE MonitorLoop_proofs --------------------------
(***************************************************************************)
(* HoldPeriod of MonitorLoop, for any set of apps, any periods and any     *)
(* mix of levels, switches and concurrent requests.                        *)
(*                                                                         *)
(* The invariant says that a channel's timer never runs ahead of the age   *)
(* of its newest cap, and that a restore step is only ever queued while    *)
(* its timer has run for its period.                                       *)
(***************************************************************************)
EXTENDS MonitorLoop, SequenceTheorems, TLAPS

\* The shapes a tick's list of restore steps can take.
Todos == {<<>>, <<Step("sys", "half")>>, <<Step("io", "half")>>, <<Step("sys", "none")>>,
          <<Step("io", "none")>>, <<Step("sys", "none"), Step("io", "none")>>}

\* The ages are numbers and the caps have both channels.
Shape ==
    /\ timer \in [sys : Int, io : Int]
    /\ held \in [sys : Nat, io : Nat]
    /\ held.sys <= STABLE_PERIOD /\ held.io <= 2 * STABLE_DISK_IO_PERIOD
    /\ cap \in [Apps -> [sys : Stages, io : Stages]]
    /\ todo \in Todos
    /\ (pc = "restoring") <=> (todo # <<>>)

TimersBehindCaps == timer.sys <= held.sys /\ timer.io <= held.io

StepsAreDue ==
    /\ todo \in {<<Step("sys", "half")>>, <<Step("sys", "none")>>,
                 <<Step("sys", "none"), Step("io", "none")>>} => timer.sys >= STABLE_PERIOD
    /\ todo = <<Step("io", "half")>> => timer.io >= STABLE_DISK_IO_PERIOD
    /\ todo \in {<<Step("io", "none")>>, <<Step("sys", "none"), Step("io", "none")>>}
          => timer.io >= 2 * STABLE_DISK_IO_PERIOD

IInv == Shape /\ TimersBehindCaps /\ StepsAreDue

-----------------------------------------------------------------------------
\* Ageing keeps two ages in order and the older one within its limit.
LEMMA OlderIsMonotone ==
    ASSUME NEW a \in Int, NEW b \in Nat, NEW limit \in Nat, a <= b, b <= limit
    PROVE  /\ Older(a, limit) \in Int /\ Older(b, limit) \in Nat
           /\ Older(a, limit) <= Older(b, limit)
           /\ Older(b, limit) <= limit
           /\ Older(a, limit) >= a
BY DEF Older

\* The tail and the head of a list of restore steps.
LEMMA TodoTails ==
    ASSUME NEW t \in Todos, t # <<>>
    PROVE  /\ Tail(t) = IF t = <<Step("sys", "none"), Step("io", "none")>>
                        THEN <<Step("io", "none")>> ELSE <<>>
           /\ Tail(t) \in Todos
           /\ Head(t) \in {Step("sys", "half"), Step("io", "half"), Step("sys", "none"), Step("io", "none")}
           /\ t = <<Head(t)>> \/ t = <<Step("sys", "none"), Step("io", "none")>>
<1>1. ASSUME NEW x, NEW y
      PROVE  /\ Tail(<<x>>) = <<>> /\ Head(<<x>>) = x
             /\ Tail(<<x, y>>) = <<y>> /\ Head(<<x, y>>) = x
             /\ <<x, y>> # <<>> /\ <<x>> # <<>> /\ \A z : <<z>> # <<x, y>>
  OBVIOUS
<1>2. t = <<Step("sys", "none"), Step("io", "none")>> \/
      \E x \in {Step("sys", "half"), Step("io", "half"), Step("sys", "none"), Step("io", "none")} :
         t = <<x>>
  BY DEF Todos
<1>3. CASE t = <<Step("sys", "none"), Step("io", "none")>>
  BY <1>1, <1>3 DEF Todos
<1>4. ASSUME NEW x \in {Step("sys", "half"), Step("io", "half"), Step("sys", "none"), Step("io", "none")},
             t = <<x>>
      PROVE  /\ Tail(t) = <<>> /\ Head(t) = x
             /\ t # <<Step("sys", "none"), Step("io", "none")>>
  BY <1>1, <1>4
<1> QED BY <1>2, <1>3, <1>4 DEF Todos

\* The list a tick queues has one of the known shapes and is due.
LEMMA DueIsDue ==
    ASSUME Shape, PeriodAssumption
    PROVE  /\ Due \in Todos
           /\ PressureTimer \in Int /\ DiskTimer \in Int
           /\ PressureTimer <= IF timer.sys >= 0 THEN timer.sys ELSE 0
           /\ DiskTimer <= IF timer.io >= 0 THEN timer.io ELSE 0
           /\ Due \in {<<Step("sys", "half")>>, <<Step("sys", "none")>>,
                       <<Step("sys", "none"), Step("io", "none")>>} => PressureTimer >= STABLE_PERIOD
           /\ Due = <<Step("io", "half")>> => DiskTimer >= STABLE_DISK_IO_PERIOD
           /\ Due \in {<<Step("io", "none")>>, <<Step("sys", "none"), Step("io", "none")>>}
                 => DiskTimer >= 2 * STABLE_DISK_IO_PERIOD
<1> DEFINE P == CheckPressure /\ PressureTimer >= STABLE_PERIOD
           I == CheckIo /\ DiskTimer >= STABLE_DISK_IO_PERIOD
           D == CheckIo /\ DiskTimer >= 2 * STABLE_DISK_IO_PERIOD
           Full == (IF P THEN <<Step("sys", "none")>> ELSE <<>>)
                   \o (IF D THEN <<Step("io", "none")>> ELSE <<>>)
<1>1. PressureTimer \in Int /\ PressureTimer <= IF timer.sys >= 0 THEN timer.sys ELSE 0
  BY DEF Shape, PressureTimer, NoTimer
<1>2. DiskTimer \in Int /\ DiskTimer <= IF timer.io >= 0 THEN timer.io ELSE 0
  BY DEF Shape, DiskTimer, NoTimer
<1>3. Full = IF P /\ D THEN <<Step("sys", "none"), Step("io", "none")>>
             ELSE IF P THEN <<Step("sys", "none")>>
             ELSE IF D THEN <<Step("io", "none")>> ELSE <<>>
  <2>1. ASSUME NEW x, NEW y
        PROVE  /\ <<x>> \o <<y>> = <<x, y>> /\ <<x>> \o <<>> = <<x>>
               /\ <<>> \o <<y>> = <<y>> /\ <<>> \o <<>> = <<>>
    <3>1. <<x>> \in Seq({x, y}) /\ <<y>> \in Seq({x, y}) /\ <<>> \in Seq({x, y})
      OBVIOUS
    <3>2. <<x>> \o <<y>> = <<x, y>>
      <4> DEFINE c == <<x>> \o <<y>>
      <4>1. c \in Seq({x, y}) /\ Len(c) = 2 /\ c[1] = x /\ c[2] = y
        <5>1. Len(<<x>>) = 1 /\ Len(<<y>>) = 1 /\ <<x>>[1] = x /\ <<y>>[1] = y
          OBVIOUS
        <5>2. /\ Len(c) = Len(<<x>>) + Len(<<y>>)
              /\ c \in Seq({x, y})
              /\ \A i \in 1..(Len(<<x>>) + Len(<<y>>)) :
                    c[i] = IF i <= Len(<<x>>) THEN <<x>>[i] ELSE <<y>>[i - Len(<<x>>)]
          BY <3>1, ConcatProperties
        <5> QED BY <5>1, <5>2
      <4>2. <<x, y>> \in Seq({x, y}) /\ Len(<<x, y>>) = 2 /\ <<x, y>>[1] = x /\ <<x, y>>[2] = y
        OBVIOUS
      <4>3. \A i \in 1..Len(c) : c[i] = <<x, y>>[i]
        <5> HIDE DEF c
        <5> QED BY <4>1, <4>2
      <4>4. c = <<x, y>>
        <5> HIDE DEF c
        <5> QED BY <4>1, <4>2, <4>3, SeqEqual
      <4> QED BY <4>4
    <3> QED BY <3>1, <3>2, ConcatEmptySeq
  <2> HIDE DEF P, D
  <2>2. CASE P /\ D
    BY <2>1, <2>2
  <2>3. CASE P /\ ~D
    BY <2>1, <2>3
  <2>4. CASE ~P /\ D
    BY <2>1, <2>4
  <2>5. CASE ~P /\ ~D
    BY <2>1, <2>5
  <2> QED BY <2>2, <2>3, <2>4, <2>5
<1>4. Due = IF P /\ peak = "medium" THEN <<Step("sys", "half")>>
            ELSE IF I /\ ~D THEN <<Step("io", "half")>> ELSE Full
  BY DEF Due
<1>5. /\ Step("sys", "half") # Step("sys", "none") /\ Step("sys", "half") # Step("io", "none")
      /\ Step("sys", "half") # Step("io", "half") /\ Step("io", "half") # Step("io", "none")
      /\ Step("io", "half") # Step("sys", "none") /\ Step("io", "none") # Step("sys", "none")
  BY DEF Step
<1>6. Due \in Todos
  <2> HIDE DEF P, I, D, Full
  <2> QED BY <1>3, <1>4 DEF Todos
<1>7. /\ Due \in {<<Step("sys", "half")>>, <<Step("sys", "none")>>,
                  <<Step("sys", "none"), Step("io", "none")>>} => P
      /\ Due = <<Step("io", "half")>> => I
      /\ Due \in {<<Step("io", "none")>>, <<Step("sys", "none"), Step("io", "none")>>} => D
  <2> HIDE DEF P, I, D, Full
  <2> QED BY <1>3, <1>4, <1>5
<1> QED BY <1>1, <1>2, <1>6, <1>7

-----------------------------------------------------------------------------
LEMMA InitInv == ASSUME PeriodAssumption PROVE Init => IInv
BY DEF Init, IInv, Shape, TimersBehindCaps, StepsAreDue, Todos, Step, NoTimer, NoCap, Stages,
       PeriodAssumption

\* Steps that leave the timers and the list of restore steps alone.
LEMMA FrameStep ==
    ASSUME IInv, UNCHANGED <<pc, timer, held, todo>>,
           cap' \in [Apps -> [sys : Stages, io : Stages]]
    PROVE  IInv'
BY DEF IInv, Shape, TimersBehindCaps, StepsAreDue

\* Steps that change caps and rewind timers while no restore step is queued.
LEMMA IdleStep ==
    ASSUME IInv, todo' = <<>>, pc' # "restoring",
           timer' \in [sys : Int, io : Int], held' \in [sys : Nat, io : Nat],
           held'.sys <= STABLE_PERIOD, held'.io <= 2 * STABLE_DISK_IO_PERIOD,
           cap' \in [Apps -> [sys : Stages, io : Stages]],
           timer'.sys <= held'.sys, timer'.io <= held'.io
    PROVE  IInv'
BY DEF IInv, Shape, TimersBehindCaps, StepsAreDue, Todos

\* One step of the system preserves the invariant.
LEMMA NextInv == ASSUME PeriodAssumption, IInv, [Next]_vars PROVE IInv'
<1> USE DEF PeriodAssumption
<1>0. /\ timer \in [sys : Int, io : Int] /\ held \in [sys : Nat, io : Nat]
      /\ held.sys <= STABLE_PERIOD /\ held.io <= 2 * STABLE_DISK_IO_PERIOD
      /\ cap \in [Apps -> [sys : Stages, io : Stages]]
      /\ timer.sys <= held.sys /\ timer.io <= held.io
      /\ todo \in Todos /\ ((pc = "restoring") <=> (todo # <<>>))
  BY DEF IInv, Shape, TimersBehindCaps
<1>a. NoCap \in [sys : Stages, io : Stages]
  BY DEF NoCap, Stages
<1>1. CASE Sleep
  <2>1. todo' = <<>> /\ pc' # "restoring" /\ UNCHANGED cap
    BY <1>0, <1>1 DEF Sleep
  <2>2. timer' \in [sys : Int, io : Int] /\ held' \in [sys : Nat, io : Nat]
        /\ timer'.sys <= held'.sys /\ held'.sys <= STABLE_PERIOD
        /\ timer'.io <= held'.io /\ held'.io <= 2 * STABLE_DISK_IO_PERIOD
    <3>1. /\ STABLE_PERIOD \in Nat /\ 2 * STABLE_DISK_IO_PERIOD \in Nat
          /\ timer.sys \in Int /\ timer.io \in Int /\ held.sys \in Nat /\ held.io \in Nat
      BY <1>0
    <3>2. /\ Older(timer.sys, STABLE_PERIOD) \in Int /\ Older(held.sys, STABLE_PERIOD) \in Nat
          /\ Older(timer.sys, STABLE_PERIOD) <= Older(held.sys, STABLE_PERIOD)
          /\ Older(held.sys, STABLE_PERIOD) <= STABLE_PERIOD
      BY <1>0, <3>1, OlderIsMonotone
    <3>3. /\ Older(timer.io, 2 * STABLE_DISK_IO_PERIOD) \in Int
          /\ Older(held.io, 2 * STABLE_DISK_IO_PERIOD) \in Nat
          /\ Older(timer.io, 2 * STABLE_DISK_IO_PERIOD) <= Older(held.io, 2 * STABLE_DISK_IO_PERIOD)
          /\ Older(held.io, 2 * STABLE_DISK_IO_PERIOD) <= 2 * STABLE_DISK_IO_PERIOD
      BY <1>0, <3>1, OlderIsMonotone
    <3>4. /\ timer' = [sys |-> Older(timer.sys, STABLE_PERIOD),
                       io |-> Older(timer.io, 2 * STABLE_DISK_IO_PERIOD)]
          /\ held' = [sys |-> Older(held.sys, STABLE_PERIOD),
                      io |-> Older(held.io, 2 * STABLE_DISK_IO_PERIOD)]
      BY <1>1 DEF Sleep
    <3> QED BY <3>2, <3>3, <3>4
  <2> QED BY <1>0, <2>1, <2>2, IdleStep
<1>2. CASE NoteSwitch
  <2>1. todo' = <<>> /\ pc' # "restoring" /\ UNCHANGED <<timer, held>>
    BY <1>0, <1>2 DEF NoteSwitch, stateVars
  <2>2. cap' \in [Apps -> [sys : Stages, io : Stages]]
    BY <1>0, <1>2, <1>a DEF NoteSwitch
  <2> QED BY <1>0, <2>1, <2>2, IdleStep
<1>3. ASSUME Reset \/ UNCHANGED timer, todo' = <<>>, pc' # "restoring", UNCHANGED <<held, cap>>
      PROVE  IInv'
  <2>1. timer' \in [sys : Int, io : Int] /\ timer'.sys <= held.sys /\ timer'.io <= held.io
    BY <1>0, <1>3 DEF Reset, NoTimer
  <2> QED BY <1>0, <1>3, <2>1, IdleStep
<1>4. CASE QuietTick
  BY <1>0, <1>3, <1>4 DEF QuietTick, Awake, Drain, capVars
<1>5. CASE SkipTick
  BY <1>0, <1>3, <1>5 DEF SkipTick, Awake, capVars
<1>6. CASE DrainArm
  BY <1>0, <1>3, <1>6 DEF DrainArm, Decide, Awake, Drain
<1>7. CASE SysArm
  <2>1. todo' = <<>> /\ pc' # "restoring"
    BY <1>0, <1>7 DEF SysArm, Decide, Awake
  <2>2. timer' \in [sys : Int, io : Int] /\ timer'.sys = -1 /\ timer'.io = timer.io
    BY <1>0, <1>7 DEF SysArm, PressureTimerAfterCritical, NoTimer
  <2>3. ASSUME NEW a, LimitSys(a)
        PROVE  /\ held' \in [sys : Nat, io : Nat] /\ held'.io = held.io
               /\ held'.sys <= STABLE_PERIOD
               /\ cap' \in [Apps -> [sys : Stages, io : Stages]]
    <3>1. CASE UNCHANGED <<cap, order, held>>
      BY <1>0, <3>1
    <3>2. CASE ~UNCHANGED <<cap, order, held>>
      <4>1. PICK yielded \in Succeeds : \E landed \in Succeeds :
               LET new == [sys |-> IF landed THEN "whole" ELSE "none",
                           io |-> IF yielded THEN "none" ELSE cap[a].io]
               IN  /\ cap' = [cap EXCEPT ![a] = new]
                   /\ held' = IF landed THEN [held EXCEPT !.sys = 0] ELSE held
        BY <2>3, <3>2 DEF LimitSys
      <4>2. PICK landed \in Succeeds :
               LET new == [sys |-> IF landed THEN "whole" ELSE "none",
                           io |-> IF yielded THEN "none" ELSE cap[a].io]
               IN  /\ cap' = [cap EXCEPT ![a] = new]
                   /\ held' = IF landed THEN [held EXCEPT !.sys = 0] ELSE held
        BY <4>1
      <4> DEFINE new == [sys |-> IF landed THEN "whole" ELSE "none",
                         io |-> IF yielded THEN "none" ELSE cap[a].io]
      <4>3. cap' = [cap EXCEPT ![a] = new] /\ held' = IF landed THEN [held EXCEPT !.sys = 0] ELSE held
        BY <4>2
      <4>4. a \in Apps => new \in [sys : Stages, io : Stages]
        BY <1>0 DEF Stages
      <4> HIDE DEF new
      <4>5. cap' \in [Apps -> [sys : Stages, io : Stages]]
        BY <1>0, <4>3, <4>4
      <4>6. held' = held \/ held' = [held EXCEPT !.sys = 0]
        BY <4>3
      <4> QED BY <1>0, <4>5, <4>6
    <3> QED BY <3>1, <3>2
  <2>4. /\ held' \in [sys : Nat, io : Nat] /\ held'.io = held.io
        /\ held'.sys <= STABLE_PERIOD
        /\ cap' \in [Apps -> [sys : Stages, io : Stages]]
    <3>1. (\E a : LimitSys(a)) \/ UNCHANGED <<cap, held>>
      BY <1>7 DEF SysArm
    <3> QED BY <1>0, <2>3, <3>1
  <2> QED BY <1>0, <2>1, <2>2, <2>4, IdleStep
<1>8. CASE DiskArm
  <2>1. todo' = <<>> /\ pc' # "restoring"
    BY <1>0, <1>8 DEF DiskArm, Decide, Awake
  <2>2. timer' \in [sys : Int, io : Int] /\ timer'.sys <= held.sys /\ timer'.io = -1
    BY <1>0, <1>8 DEF DiskArm, DiskTimerAfterStress, NoTimer
  <2>3. ASSUME NEW a, LimitIo(a)
        PROVE  /\ held' \in [sys : Nat, io : Nat] /\ held'.sys = held.sys
               /\ held'.io <= 2 * STABLE_DISK_IO_PERIOD
               /\ cap' \in [Apps -> [sys : Stages, io : Stages]]
    BY <1>0, <2>3 DEF LimitIo, Stages
  <2>4. /\ held' \in [sys : Nat, io : Nat] /\ held'.sys = held.sys
        /\ held'.io <= 2 * STABLE_DISK_IO_PERIOD
        /\ cap' \in [Apps -> [sys : Stages, io : Stages]]
    <3>1. (\E a : LimitIo(a)) \/ UNCHANGED <<cap, held>>
      BY <1>8 DEF DiskArm
    <3> QED BY <1>0, <2>3, <3>1
  <2> QED BY <1>0, <2>1, <2>2, <2>4, IdleStep
<1>9. CASE RestoreArm
  <2>1. todo = <<>> /\ UNCHANGED <<cap, held>>
    BY <1>0, <1>9 DEF RestoreArm, Decide, Awake
  <2>2. CASE todo' = todo /\ pc' = "asleep" /\ (Reset \/ UNCHANGED timer)
    BY <1>3, <2>1, <2>2
  <2>3. CASE /\ timer' = [sys |-> PressureTimer, io |-> DiskTimer]
             /\ todo' = Due /\ pc' = IF Due = <<>> THEN "asleep" ELSE "restoring"
    <3>1. Shape
      BY DEF IInv
    <3>2. Shape'
      BY <1>0, <2>1, <2>3, <3>1, DueIsDue DEF Shape
    <3>3. TimersBehindCaps'
      BY <1>0, <2>1, <2>3, <3>1, DueIsDue DEF TimersBehindCaps
    <3>4. StepsAreDue'
      BY <2>3, <3>1, DueIsDue DEF StepsAreDue
    <3> QED BY <3>2, <3>3, <3>4 DEF IInv
  <2> QED BY <1>9, <2>2, <2>3 DEF RestoreArm
<1>10. ASSUME pc = "restoring", todo # <<>>, UNCHANGED held, StepOver,
              timer' = timer \/ (timer' = [timer EXCEPT !.io = NoTimer] /\ Head(todo) = Step("io", "none")),
              cap' \in [Apps -> [sys : Stages, io : Stages]]
       PROVE  IInv'
  <2>0. /\ Step("sys", "none") # Step("io", "none")
        /\ \A x, y : <<x>> # <<>> /\ <<x>> # <<x, y>> /\ (<<x>> = <<y>> => x = y)
    BY DEF Step
  <2>1. \/ todo' = <<>>
        \/ /\ todo = <<Step("sys", "none"), Step("io", "none")>>
           /\ todo' = <<Step("io", "none")>>
    BY <1>0, <1>10, TodoTails DEF StepOver
  <2>2. todo' \in Todos /\ ((pc' = "restoring") <=> (todo' # <<>>))
    BY <1>0, <1>10, TodoTails DEF StepOver
  <2>3. /\ timer' \in [sys : Int, io : Int] /\ timer'.sys <= held'.sys /\ timer'.io <= held'.io
        /\ held' = held
    BY <1>0, <1>10 DEF NoTimer
  <2>4. CASE todo' = <<>>
    BY <1>0, <1>10, <2>0, <2>2, <2>3, <2>4 DEF IInv, Shape, TimersBehindCaps, StepsAreDue
  <2>5. CASE /\ todo = <<Step("sys", "none"), Step("io", "none")>>
             /\ todo' = <<Step("io", "none")>>
    <3>1. Head(todo) = Step("sys", "none")
      BY <2>5
    <3>2. timer' = timer /\ timer.io >= 2 * STABLE_DISK_IO_PERIOD
      BY <1>10, <2>0, <2>5, <3>1 DEF IInv, StepsAreDue
    <3>3. StepsAreDue'
      BY <2>5, <3>2 DEF StepsAreDue, Step
    <3> QED BY <1>0, <1>10, <2>2, <2>3, <3>3 DEF IInv, Shape, TimersBehindCaps
  <2> QED BY <2>1, <2>4, <2>5
<1>11. CASE PickTarget
  <2>1. CASE Eligible(Head(todo)) = {}
    <3>1. StepOver /\ pc = "restoring" /\ UNCHANGED <<cap, held, timer>>
      BY <1>11, <2>1 DEF PickTarget, capVars
    <3> QED BY <1>0, <1>10, <3>1
  <2>2. CASE Eligible(Head(todo)) # {}
    <3>1. UNCHANGED <<pc, todo, cap, held, timer>>
      BY <1>11, <2>2 DEF PickTarget, capVars
    <3> QED BY <1>0, <3>1, FrameStep
  <2> QED BY <2>1, <2>2
<1>12. CASE RestoreStep
  <2>1. pc = "restoring" /\ todo # <<>> /\ StepOver /\ UNCHANGED held
    BY <1>0, <1>12 DEF RestoreStep
  <2>2. Head(todo) \in {Step("sys", "half"), Step("io", "half"), Step("sys", "none"), Step("io", "none")}
    BY <1>0, <2>1, TodoTails
  <2>3. PICK ok \in Succeeds :
           LET new == IF ok THEN [cap[target] EXCEPT ![Head(todo).channel] = Head(todo).stage]
                      ELSE cap[target]
           IN  /\ cap' = [cap EXCEPT ![target] = new]
               /\ timer' = IF ok /\ Head(todo) = Step("io", "none")
                           THEN [timer EXCEPT !.io = NoTimer] ELSE timer
    BY <1>12 DEF RestoreStep
  <2> DEFINE new == IF ok THEN [cap[target] EXCEPT ![Head(todo).channel] = Head(todo).stage]
                    ELSE cap[target]
  <2>4. target \in Apps => new \in [sys : Stages, io : Stages]
    BY <1>0, <2>2 DEF Step, Stages
  <2>5. cap' = [cap EXCEPT ![target] = new]
    BY <2>3
  <2> HIDE DEF new
  <2>6. cap' \in [Apps -> [sys : Stages, io : Stages]]
    BY <1>0, <2>4, <2>5
  <2> QED BY <1>10, <2>1, <2>3, <2>6
<1>13. CASE RestoreRaises
  BY <1>3, <1>13 DEF RestoreRaises, capVars
<1>17. CASE RestoreGone
  <2>1. pc = "restoring" /\ todo # <<>> /\ StepOver /\ UNCHANGED <<held, cap>>
    BY <1>0, <1>17 DEF RestoreGone, capVars
  <2>2. Head(todo) \in {Step("sys", "half"), Step("io", "half"), Step("sys", "none"), Step("io", "none")}
    BY <1>0, <2>1, TodoTails
  <2>3. timer' = timer \/ (Head(todo) = Step("io", "none") /\ timer' = [timer EXCEPT !.io = NoTimer])
    BY <1>17, <2>2 DEF RestoreGone, Step
  <2>4. cap' \in [Apps -> [sys : Stages, io : Stages]]
    BY <1>0, <2>1
  <2> QED BY <1>10, <2>1, <2>3, <2>4
<1>14. CASE Refresh \/ Flip \/ Intercept \/ HandleLaunch \/ CancelLaunch
            \/ \E a \in Apps : Unexclude(a)
  BY <1>0, <1>14, FrameStep DEF Refresh, Flip, Intercept, HandleLaunch, CancelLaunch, Unexclude,
       stateVars, capVars
<1>15. CASE \E a \in Apps : UserRestore(a) \/ Reap(a)
  <2>1. UNCHANGED <<pc, todo, timer, held>>
    BY <1>15 DEF UserRestore, Reap, stateVars
  <2>2. cap' \in [Apps -> [sys : Stages, io : Stages]]
    BY <1>0, <1>a, <1>15 DEF UserRestore, Reap, Forget
  <2> QED BY <2>1, <2>2, FrameStep
<1>16. CASE UNCHANGED vars
  BY <1>0, <1>16, FrameStep DEF vars, stateVars, capVars
<1> QED BY <1>1, <1>2, <1>4, <1>5, <1>6, <1>7, <1>8, <1>9, <1>11, <1>12, <1>13, <1>14, <1>15,
           <1>16, <1>17 DEF Next, LoopStep

\* Type facts, the order of each timer and its cap's age, and what a queued
\* restore step presupposes, hold for ever.
LEMMA Inductive == Spec => []IInv
<1>1. Init => IInv
  BY InitInv, PeriodAssumption
<1>2. IInv /\ [Next]_vars => IInv'
  BY NextInv, PeriodAssumption
<1> QED BY <1>1, <1>2, PTL DEF Spec

\* A recovery timer never relaxes a channel sooner after its newest cap than
\* the period it stands for (_tick_separated_restore): for any apps, periods,
\* levels and interleaving of REST requests with the loop.
THEOREM CapsAreHeld == Spec => HoldPeriod
<1> DEFINE Held ==
      RestoreStep => \A a \in Apps :
          /\ cap'[a].sys # cap[a].sys => held.sys >= STABLE_PERIOD
          /\ cap'[a].io # cap[a].io => held.io >= STABLE_DISK_IO_PERIOD
          /\ cap'[a].io # cap[a].io /\ cap'[a].io = "none" => held.io >= 2 * STABLE_DISK_IO_PERIOD
<1>1. IInv /\ [Next]_vars => [Held]_vars
  <2> SUFFICES ASSUME IInv, RestoreStep, NEW a \in Apps
               PROVE  /\ cap'[a].sys # cap[a].sys => held.sys >= STABLE_PERIOD
                      /\ cap'[a].io # cap[a].io => held.io >= STABLE_DISK_IO_PERIOD
                      /\ cap'[a].io # cap[a].io /\ cap'[a].io = "none"
                            => held.io >= 2 * STABLE_DISK_IO_PERIOD
    OBVIOUS
  <2>0. /\ timer \in [sys : Int, io : Int] /\ held \in [sys : Nat, io : Nat]
        /\ cap \in [Apps -> [sys : Stages, io : Stages]]
        /\ todo \in Todos /\ todo # <<>>
        /\ timer.sys <= held.sys /\ timer.io <= held.io
        /\ STABLE_DISK_IO_PERIOD \in Nat /\ STABLE_PERIOD \in Nat
    BY PeriodAssumption DEF IInv, Shape, TimersBehindCaps, RestoreStep
  <2>1. PICK ok \in Succeeds :
           LET new == IF ok THEN [cap[target] EXCEPT ![Head(todo).channel] = Head(todo).stage]
                      ELSE cap[target]
           IN  cap' = [cap EXCEPT ![target] = new]
    BY DEF RestoreStep
  <2> DEFINE new == IF ok THEN [cap[target] EXCEPT ![Head(todo).channel] = Head(todo).stage]
                    ELSE cap[target]
  <2>2. /\ a = target => /\ Head(todo).channel = "sys" => new.io = cap[a].io
                         /\ Head(todo).channel = "io" => new.sys = cap[a].sys
                         /\ new.io # cap[a].io => new.io = Head(todo).stage
        /\ a = target => cap'[a] = new
        /\ a # target => cap'[a] = cap[a]
    <3>1. cap' = [cap EXCEPT ![target] = new]
      BY <2>1
    <3>2. (a = target => cap'[a] = new) /\ (a # target => cap'[a] = cap[a])
      <4> HIDE DEF new
      <4> QED BY <2>0, <3>1
    <3>3. target \in Apps => /\ Head(todo).channel = "sys" => new.io = cap[target].io
                             /\ Head(todo).channel = "io" => new.sys = cap[target].sys
                             /\ new.io # cap[target].io => new.io = Head(todo).stage
      BY <2>0
    <3> QED BY <3>2, <3>3
  <2>c. ASSUME NEW x, NEW y
        PROVE  Head(<<x>>) = x /\ Head(<<x, y>>) = x /\ (<<x>> = <<y>> => x = y)
    OBVIOUS
  <2> HIDE DEF new
  <2>3. CASE Head(todo).channel = "sys"
    <3>1. Head(todo) \in {Step("sys", "half"), Step("sys", "none")}
      BY <2>0, <2>3, TodoTails DEF Step
    <3>2. timer.sys >= STABLE_PERIOD
      BY <2>0, <3>1, TodoTails DEF IInv, StepsAreDue
    <3>3. cap'[a].io = cap[a].io
      BY <2>2, <2>3
    <3> QED BY <2>0, <3>2, <3>3
  <2>4. CASE Head(todo) = Step("io", "half")
    <3>1. todo = <<Step("io", "half")>>
      BY <2>0, <2>4, <2>c, TodoTails DEF Step
    <3>2. timer.io >= STABLE_DISK_IO_PERIOD
      BY <3>1 DEF IInv, StepsAreDue
    <3>3. cap'[a].sys = cap[a].sys /\ (cap'[a].io # cap[a].io => cap'[a].io = "half")
      BY <2>2, <2>4 DEF Step
    <3> QED BY <2>0, <3>2, <3>3
  <2>5. CASE Head(todo) = Step("io", "none")
    <3>1. todo = <<Step("io", "none")>>
      BY <2>0, <2>5, <2>c, TodoTails DEF Step
    <3>2. timer.io >= 2 * STABLE_DISK_IO_PERIOD
      BY <3>1 DEF IInv, StepsAreDue
    <3>3. cap'[a].sys = cap[a].sys
      BY <2>2, <2>5 DEF Step
    <3> QED BY <2>0, <3>2, <3>3
  <2> QED BY <2>0, <2>3, <2>4, <2>5, TodoTails DEF Step
<1>2. QED
  BY <1>1, Inductive, PTL DEF Spec, HoldPeriod

-----------------------------------------------------------------------------
(***************************************************************************)
(* Types, and the freedom of excluded apps                                 *)
(***************************************************************************)

\* Deleting keys leaves the others in order.
LEMMA KeptOrder ==
    ASSUME NEW r, NEW S, IsOrder(r, S), NEW T \in SUBSET S
    PROVE  IsOrder(Kept(r, T), T)
<1>1. ASSUME NEW M \in SUBSET T, M # {}
      PROVE  \E k \in M : \A j \in M \ {k} : <<k, j>> \in Kept(r, T) /\ <<j, k>> \notin Kept(r, T)
  <2>1. PICK k \in M : \A j \in M \ {k} : <<k, j>> \in r /\ <<j, k>> \notin r
    BY <1>1 DEF IsOrder
  <2> QED
    BY <2>1 DEF Kept
<1> QED
  BY <1>1 DEF IsOrder, Kept

\* Adding a key at the end, or moving it there, orders all the keys.
LEMMA ToEndOrder ==
    ASSUME NEW r, NEW S, IsOrder(r, S), NEW k
    PROVE  IsOrder(ToEnd(r, S, k), S \cup {k})
<1> DEFINE q == ToEnd(r, S, k)
<1>1. ASSUME NEW M \in SUBSET (S \cup {k}), M # {}
      PROVE  \E i \in M : \A j \in M \ {i} : <<i, j>> \in q /\ <<j, i>> \notin q
  <2>1. CASE M = {k}
    BY <2>1
  <2>2. CASE M # {k}
    <3>1. M \ {k} # {} /\ M \ {k} \in SUBSET S
      BY <1>1, <2>2
    <3>2. PICK i \in M \ {k} : \A j \in (M \ {k}) \ {i} : <<i, j>> \in r /\ <<j, i>> \notin r
      BY <3>1 DEF IsOrder
    <3>3. \A j \in M \ {i} : <<i, j>> \in q /\ <<j, i>> \notin q
      BY <3>1, <3>2 DEF ToEnd, Kept
    <3> QED
      BY <3>2, <3>3
  <2> QED
    BY <2>1, <2>2
<1>2. q \subseteq (S \cup {k}) \X (S \cup {k}) /\ \A i \in S \cup {k} : <<i, i>> \notin q
  BY DEF ToEnd, Kept, IsOrder
<1> QED
  BY <1>1, <1>2 DEF IsOrder

\* A loop over some of the keys that stops at the first finds one.
LEMMA FirstIsOne ==
    ASSUME NEW r, NEW S, IsOrder(r, S), NEW M \in SUBSET S, M # {}
    PROVE  First(M, r) \in M
<1>1. PICK k \in M : \A j \in M \ {k} : <<k, j>> \in r /\ <<j, k>> \notin r
  BY DEF IsOrder
<1>2. \A j \in M \ {k} : <<k, j>> \in r
  BY <1>1
<1> HIDE DEF IsOrder
<1> QED
  BY <1>2, Zenon DEF First

\* A list of candidates: a set of apps, some order of it, a source and an age.
Candidates ==
    {b \in [apps : SUBSET Apps, order : SUBSET (Apps \X Apps),
            source : Channels \cup {"none"}, age : 0..(TOP_BATCH_TTL + 1)] :
        IsOrder(b.order, b.apps)}

\* What is a number, a level or a flag.
Scalars ==
    /\ pc \in {"asleep", "awake", "restoring"}
    /\ level \in Levels /\ peak \in Levels
    /\ disk \in DiskLevels /\ peakDisk \in DiskLevels
    /\ passive \in BOOLEAN /\ prevPassive \in BOOLEAN /\ quiet \in BOOLEAN /\ faulty \in BOOLEAN
    /\ prevCritical \in BOOLEAN /\ restorePending \in BOOLEAN
    /\ sinceCheck \in 0..IDLE_CHECK
    /\ stableLevel \in {"none", "low", "medium"}
    /\ pending \in Nat /\ queue \in Nat /\ pending + queue <= MaxLaunches

TimersStarted == timer.sys >= NoTimer /\ timer.io >= NoTimer

Ordered ==
    /\ IsOrder(order, Limited)
    /\ target \in Apps \cup {NoApp}
    /\ excluded \subseteq Apps

\* The inductive invariant behind TypeOK and FreedStaysFree.
TInv == IInv /\ Scalars /\ TimersStarted /\ batch \in Candidates /\ Ordered /\ FreedStaysFree

-----------------------------------------------------------------------------
\* Leaving apps out of a list of candidates leaves a list of candidates.
LEMMA NarrowedTyped ==
    ASSUME NEW b \in Candidates, NEW S
    PROVE  /\ Narrowed(b, S) \in Candidates
           /\ Narrowed(b, S).apps = b.apps \cap S
<1> DEFINE c == Narrowed(b, S)
<1>1. /\ c.apps = b.apps \cap S /\ c.order = Kept(b.order, b.apps \cap S)
      /\ c \in [apps : SUBSET Apps, order : SUBSET (Apps \X Apps),
                source : Channels \cup {"none"}, age : 0..(TOP_BATCH_TTL + 1)]
  BY DEF Narrowed, Candidates, Kept
<1>2. IsOrder(Kept(b.order, b.apps \cap S), b.apps \cap S)
  BY KeptOrder DEF Candidates
<1> QED
  BY <1>1, <1>2 DEF Candidates

LEMMA NoBatchTyped == ASSUME PeriodAssumption PROVE NoBatch \in Candidates
BY DEF NoBatch, Candidates, IsOrder, PeriodAssumption

\* A limiting arm works from candidates none of which is excluded.
LEMMA BatchesTyped ==
    ASSUME PeriodAssumption, batch \in Candidates, NEW ch \in Channels, NEW b \in Batches(ch)
    PROVE  b \in Candidates /\ b.apps \cap excluded = {}
<1>1. ASSUME NEW x \in Candidates
      PROVE  DropExcluded(x) \in Candidates /\ DropExcluded(x).apps \cap excluded = {}
  BY NarrowedTyped DEF DropExcluded
<1>2. ASSUME NEW x \in Samples(ch), IsOrder(x.order, x.apps)
      PROVE  x \in Candidates
  BY <1>2 DEF Samples, Candidates, PeriodAssumption
<1>3. b = DropExcluded(batch) \/ \E x \in Samples(ch) : IsOrder(x.order, x.apps) /\ b = DropExcluded(x)
  BY DEF Batches, Fresh
<1> QED
  BY <1>1, <1>2, <1>3

\* The list a limiting arm holds on to.
LEMMA KeepTyped ==
    ASSUME PeriodAssumption, NEW b \in Candidates, NEW a, Keep(b, a)
    PROVE  batch' \in Candidates
BY NarrowedTyped, NoBatchTyped DEF Keep

\* Giving one app a new cap, with its entry moved to the end or dropped.
LEMMA SetCap ==
    ASSUME Ordered, cap \in [Apps -> [sys : Stages, io : Stages]],
           NEW a \in Apps, NEW new, cap' = [cap EXCEPT ![a] = new],
           order' = IF new = NoCap THEN Without(a) ELSE MoveToEnd(a),
           FreedStaysFree, excluded' \subseteq excluded \cup {a}, a \in excluded' => new = NoCap
    PROVE  IsOrder(order', Limited') /\ FreedStaysFree'
<1>2. FreedStaysFree'
  BY DEF FreedStaysFree, Ordered
<1>1. Limited' = IF new = NoCap THEN Limited \ {a} ELSE Limited \cup {a}
  BY DEF Limited
<1> QED
  BY <1>1, <1>2, KeptOrder, ToEndOrder DEF Without, MoveToEnd, Ordered

\* A limiting arm caps an app that is not excluded.
LEMMA LimitTyped ==
    ASSUME TInv, NEW a \in Apps \ excluded, LimitSys(a) \/ LimitIo(a), excluded' = excluded
    PROVE  IsOrder(order', Limited') /\ FreedStaysFree'
<1>0. cap \in [Apps -> [sys : Stages, io : Stages]] /\ Ordered /\ FreedStaysFree
  BY DEF TInv, IInv, Shape
<1>1. ASSUME NEW new, cap' = [cap EXCEPT ![a] = new],
             order' = IF new = NoCap THEN Without(a) ELSE MoveToEnd(a)
      PROVE  IsOrder(order', Limited') /\ FreedStaysFree'
  BY <1>0, <1>1, SetCap
<1>2. CASE UNCHANGED <<cap, order>>
  BY <1>0, <1>2 DEF Limited, Ordered, FreedStaysFree
<1>3. CASE LimitSys(a) /\ ~UNCHANGED <<cap, order>>
  <2>1. \E new : cap' = [cap EXCEPT ![a] = new] /\ order' = IF new = NoCap THEN Without(a) ELSE MoveToEnd(a)
    BY <1>3 DEF LimitSys
  <2> QED
    BY <1>1, <2>1
<1>4. CASE LimitIo(a) /\ ~UNCHANGED <<cap, order>>
  <2> DEFINE new == [cap[a] EXCEPT !.io = "whole"]
  <2>1. /\ cap' = [cap EXCEPT ![a] = new] /\ order' = IF a \in Limited THEN order ELSE MoveToEnd(a)
        /\ new # NoCap
    BY <1>0, <1>4 DEF LimitIo, NoCap
  <2> HIDE DEF new
  <2>2. CASE a \in Limited
    <3>1. Limited' = Limited
      BY <1>0, <2>1, <2>2 DEF Limited
    <3> QED
      BY <1>0, <2>1, <2>2, <3>1 DEF FreedStaysFree, Ordered
  <2>3. CASE a \notin Limited
    BY <1>1, <2>1, <2>3
  <2> QED
    BY <2>2, <2>3
<1> QED
  BY <1>2, <1>3, <1>4

-----------------------------------------------------------------------------
LEMMA InitTyped ==
    ASSUME PeriodAssumption, LevelAssumption, LaunchAssumption
    PROVE  Init => TInv
<1> SUFFICES ASSUME Init PROVE TInv
  OBVIOUS
<1>1. Scalars /\ TimersStarted
  <2>1. /\ pc \in {"asleep", "awake", "restoring"} /\ sinceCheck \in 0..IDLE_CHECK
        /\ stableLevel \in {"none", "low", "medium"}
        /\ pending \in Nat /\ queue \in Nat /\ pending + queue <= MaxLaunches
        /\ TimersStarted
    BY DEF Init, TimersStarted, NoTimer, PeriodAssumption, LaunchAssumption
  <2>2. level \in Levels /\ peak \in Levels /\ disk \in DiskLevels /\ peakDisk \in DiskLevels
    BY DEF Init, LevelAssumption
  <2>3. /\ passive \in BOOLEAN /\ prevPassive \in BOOLEAN /\ quiet \in BOOLEAN /\ faulty \in BOOLEAN
        /\ prevCritical \in BOOLEAN /\ restorePending \in BOOLEAN
    BY DEF Init
  <2> QED
    BY <2>1, <2>2, <2>3 DEF Scalars
<1>2. Ordered /\ FreedStaysFree
  BY DEF Init, Ordered, FreedStaysFree, Limited, IsOrder
<1>3. batch \in Candidates
  BY NoBatchTyped DEF Init
<1> QED
  BY <1>1, <1>2, <1>3, InitInv DEF TInv

\* A shorter queue leaves the launches within their bound.
LEMMA FewerLaunches ==
    ASSUME NEW p \in Nat, NEW q \in Nat, NEW m \in Nat, p + q <= m, NEW r \in 0..q
    PROVE  r \in Nat /\ p + r <= m
  OBVIOUS

\* Every number, level and flag stays one.
LEMMA ScalarsNext ==
    ASSUME PeriodAssumption, LevelAssumption, LaunchAssumption, TInv, Next
    PROVE  Scalars'
<1>0. Scalars
  BY DEF TInv
<1>a. pending \in Nat /\ queue \in Nat /\ MaxLaunches \in Nat /\ pending + queue <= MaxLaunches
  BY <1>0 DEF Scalars, LaunchAssumption
<1> USE DEF Scalars, PeriodAssumption, LevelAssumption, LaunchAssumption
<1>1. CASE Sleep
  BY <1>0, <1>1 DEF Sleep, Older, levelVars, switchVars, launchVars
<1>2. CASE NoteSwitch
  BY <1>0, <1>2 DEF NoteSwitch, levelVars, switchVars, launchVars, stateVars
<1>3. CASE QuietTick
  <2>1. prevCritical' \in BOOLEAN /\ restorePending' \in BOOLEAN
    BY <1>0, <1>3 DEF QuietTick, Drain
  <2>2. pc' = "asleep" /\ sinceCheck' \in 0..IDLE_CHECK /\ UNCHANGED <<passive, prevPassive, quiet, faulty>>
    BY <1>0, <1>3 DEF QuietTick, Drain, switchVars
  <2>3. pending' = pending /\ queue' \in 0..queue /\ stableLevel' = stableLevel
    BY <1>0, <1>3 DEF QuietTick, Drain, launchVars
  <2>4. level' = level /\ disk' = disk /\ peak' \in Levels /\ peakDisk' \in DiskLevels
    BY <1>0, <1>3 DEF QuietTick, Drain, levelVars
  <2>5. pending' \in Nat /\ queue' \in Nat /\ pending' + queue' <= MaxLaunches
    BY <1>a, <2>3, FewerLaunches
  <2>6. /\ passive' \in BOOLEAN /\ prevPassive' \in BOOLEAN /\ quiet' \in BOOLEAN
        /\ faulty' \in BOOLEAN
    BY <1>0, <2>2
  <2>7. /\ pc' \in {"asleep", "awake", "restoring"} /\ stableLevel' \in {"none", "low", "medium"}
        /\ level' \in Levels /\ disk' \in DiskLevels
    BY <1>0, <2>2, <2>3, <2>4
  <2> QED
    BY <2>1, <2>2, <2>4, <2>5, <2>6, <2>7
<1>4. CASE SkipTick
  BY <1>0, <1>4 DEF SkipTick, levelVars, switchVars, launchVars
<1>5. CASE SysArm
  <2>1. prevCritical' \in BOOLEAN /\ restorePending' \in BOOLEAN
    BY <1>0, <1>5 DEF SysArm, Decide
  <2>2. pc' = "asleep" /\ sinceCheck' \in 0..IDLE_CHECK /\ UNCHANGED <<passive, prevPassive, quiet, faulty>>
    BY <1>0, <1>5 DEF SysArm, Decide, switchVars
  <2>3. pending' = pending /\ queue' \in 0..queue /\ stableLevel' = stableLevel
    BY <1>0, <1>5 DEF SysArm, Decide, launchVars
  <2>4. level' = level /\ disk' = disk /\ peak' \in Levels /\ peakDisk' \in DiskLevels
    BY <1>0, <1>5 DEF SysArm, Decide, levelVars
  <2>5. pending' \in Nat /\ queue' \in Nat /\ pending' + queue' <= MaxLaunches
    BY <1>a, <2>3, FewerLaunches
  <2>6. /\ passive' \in BOOLEAN /\ prevPassive' \in BOOLEAN /\ quiet' \in BOOLEAN
        /\ faulty' \in BOOLEAN
    BY <1>0, <2>2
  <2>7. /\ pc' \in {"asleep", "awake", "restoring"} /\ stableLevel' \in {"none", "low", "medium"}
        /\ level' \in Levels /\ disk' \in DiskLevels
    BY <1>0, <2>2, <2>3, <2>4
  <2> QED
    BY <2>1, <2>2, <2>4, <2>5, <2>6, <2>7
<1>6. CASE DiskArm
  <2>1. prevCritical' \in BOOLEAN /\ restorePending' \in BOOLEAN
    BY <1>0, <1>6 DEF DiskArm, Decide
  <2>2. pc' = "asleep" /\ sinceCheck' \in 0..IDLE_CHECK /\ UNCHANGED <<passive, prevPassive, quiet, faulty>>
    BY <1>0, <1>6 DEF DiskArm, Decide, switchVars
  <2>3. pending' = pending /\ queue' \in 0..queue /\ stableLevel' = stableLevel
    BY <1>0, <1>6 DEF DiskArm, Decide, launchVars
  <2>4. level' = level /\ disk' = disk /\ peak' \in Levels /\ peakDisk' \in DiskLevels
    BY <1>0, <1>6 DEF DiskArm, Decide, levelVars
  <2>5. pending' \in Nat /\ queue' \in Nat /\ pending' + queue' <= MaxLaunches
    BY <1>a, <2>3, FewerLaunches
  <2>6. /\ passive' \in BOOLEAN /\ prevPassive' \in BOOLEAN /\ quiet' \in BOOLEAN
        /\ faulty' \in BOOLEAN
    BY <1>0, <2>2
  <2>7. /\ pc' \in {"asleep", "awake", "restoring"} /\ stableLevel' \in {"none", "low", "medium"}
        /\ level' \in Levels /\ disk' \in DiskLevels
    BY <1>0, <2>2, <2>3, <2>4
  <2> QED
    BY <2>1, <2>2, <2>4, <2>5, <2>6, <2>7
<1>7. CASE DrainArm
  BY <1>0, <1>7 DEF DrainArm, Decide, Drain, switchVars, launchVars
<1>8. CASE RestoreArm
  <2>1. stableLevel' \in {"none", "low", "medium"}
    BY <1>0, <1>8 DEF RestoreArm, CheckPressure
  <2>2. restorePending' \in BOOLEAN /\ pc' \in {"asleep", "restoring"}
    BY <1>0, <1>8 DEF RestoreArm
  <2> QED
    BY <1>0, <1>8, <2>1, <2>2 DEF RestoreArm, Decide, switchVars, launchVars
<1>9. CASE PickTarget
  BY <1>0, <1>9 DEF PickTarget, StepOver, levelVars, switchVars, launchVars
<1>10. CASE RestoreStep \/ RestoreGone
  BY <1>0, <1>10 DEF RestoreStep, RestoreGone, StepOver, levelVars, switchVars, launchVars
<1>11. CASE RestoreRaises
  BY <1>0, <1>11 DEF RestoreRaises, levelVars, switchVars, launchVars
<1>12. CASE Refresh
  BY <1>0, <1>12 DEF Refresh, Peak, switchVars, launchVars, stateVars
<1>13. CASE Flip
  BY <1>0, <1>13 DEF Flip, levelVars, launchVars, stateVars
<1>14. CASE Intercept \/ HandleLaunch \/ CancelLaunch
  BY <1>0, <1>14 DEF Intercept, HandleLaunch, CancelLaunch, levelVars, switchVars, stateVars
<1>15. CASE \E a \in Apps : UserRestore(a) \/ Unexclude(a) \/ Reap(a)
  BY <1>0, <1>15 DEF UserRestore, Unexclude, Reap, levelVars, switchVars, stateVars, launchVars
<1> QED
  BY <1>1, <1>2, <1>3, <1>4, <1>5, <1>6, <1>7, <1>8, <1>9, <1>10, <1>11, <1>12, <1>13, <1>14,
     <1>15 DEF Next, LoopStep

\* A timer is stopped or has an age.
LEMMA TimersNext == ASSUME PeriodAssumption, TInv, Next PROVE TimersStarted'
<1>0. timer \in [sys : Int, io : Int] /\ TimersStarted
  BY DEF TInv, IInv, Shape
<1> USE DEF TimersStarted, NoTimer
<1>1. CASE UNCHANGED timer \/ Reset
  BY <1>0, <1>1 DEF Reset
<1>2. CASE Sleep
  BY <1>0, <1>2 DEF Sleep, Older
<1>3. CASE SysArm \/ DiskArm
  BY <1>0, <1>3 DEF SysArm, DiskArm, PressureTimerAfterCritical, DiskTimerAfterStress
<1>4. CASE RestoreArm
  <2>1. \/ UNCHANGED timer \/ Reset
        \/ timer' = [sys |-> PressureTimer, io |-> DiskTimer]
    BY <1>4 DEF RestoreArm
  <2> QED
    BY <1>0, <1>1, <2>1 DEF PressureTimer, DiskTimer
<1>5. CASE RestoreStep \/ RestoreGone
  <2>1. timer' = timer \/ timer' = [timer EXCEPT !.io = NoTimer]
    BY <1>5 DEF RestoreStep, RestoreGone
  <2> QED
    BY <1>0, <2>1
<1>6. CASE QuietTick \/ DrainArm \/ RestoreRaises
  BY <1>1, <1>6 DEF QuietTick, DrainArm, RestoreRaises, Drain
<1>7. CASE \/ NoteSwitch \/ SkipTick \/ PickTarget
           \/ Refresh \/ Flip \/ Intercept \/ HandleLaunch \/ CancelLaunch
           \/ \E a \in Apps : UserRestore(a) \/ Unexclude(a) \/ Reap(a)
  BY <1>1, <1>7 DEF NoteSwitch, SkipTick, PickTarget, Refresh, Flip, Intercept, HandleLaunch,
       CancelLaunch, UserRestore, Unexclude, Reap, stateVars
<1> QED
  BY <1>2, <1>3, <1>4, <1>5, <1>6, <1>7 DEF Next, LoopStep

\* The held batch stays a list of candidates.
LEMMA BatchNext == ASSUME PeriodAssumption, TInv, Next PROVE batch' \in Candidates
<1>0. batch \in Candidates
  BY DEF TInv
<1>1. CASE UNCHANGED batch \/ Reset
  BY <1>0, <1>1, NoBatchTyped DEF Reset
<1>2. CASE Sleep
  <2>1. batch' = batch \/ batch' = [batch EXCEPT !.age = Older(batch.age, TOP_BATCH_TTL + 1)]
    BY <1>2 DEF Sleep
  <2>2. Older(batch.age, TOP_BATCH_TTL + 1) \in 0..(TOP_BATCH_TTL + 1)
    BY <1>0 DEF Candidates, Older, PeriodAssumption
  <2> QED
    BY <1>0, <2>1, <2>2 DEF Candidates
<1>3. CASE SysArm
  <2>1. PICK b \in Batches("sys") : batch' = NoBatch \/ \E a : Keep(b, a)
    BY <1>3 DEF SysArm
  <2> QED
    BY <1>0, <2>1, BatchesTyped, KeepTyped, NoBatchTyped DEF Channels
<1>4. CASE DiskArm
  <2>1. PICK b \in Batches("io") : batch' = NoBatch \/ batch' = b \/ \E a : Keep(b, a)
    BY <1>4 DEF DiskArm
  <2> QED
    BY <1>0, <2>1, BatchesTyped, KeepTyped, NoBatchTyped DEF Channels
<1>5. CASE QuietTick \/ DrainArm \/ RestoreArm \/ RestoreRaises
  BY <1>1, <1>5 DEF QuietTick, DrainArm, RestoreArm, RestoreRaises, Drain
<1>6. CASE \/ NoteSwitch \/ SkipTick \/ PickTarget \/ RestoreStep \/ RestoreGone
           \/ Refresh \/ Flip \/ Intercept \/ HandleLaunch \/ CancelLaunch
           \/ \E a \in Apps : UserRestore(a) \/ Unexclude(a) \/ Reap(a)
  BY <1>1, <1>6 DEF NoteSwitch, SkipTick, PickTarget, RestoreStep, RestoreGone, Refresh, Flip,
       Intercept, HandleLaunch, CancelLaunch, UserRestore, Unexclude, Reap, stateVars
<1> QED
  BY <1>2, <1>3, <1>4, <1>5, <1>6 DEF Next, LoopStep

\* The entries stay in order, the target stays an app, and an excluded app is
\* not capped: a limiting arm refilters its batch, a restore step needs an entry.
LEMMA OrderedNext == ASSUME PeriodAssumption, TInv, Next PROVE Ordered' /\ FreedStaysFree'
<1>0. cap \in [Apps -> [sys : Stages, io : Stages]] /\ Ordered /\ FreedStaysFree /\ batch \in Candidates
  BY DEF TInv, IInv, Shape
<1>1. ASSUME UNCHANGED <<cap, order>>, excluded' \subseteq excluded, target' \in Apps \cup {NoApp}
      PROVE  Ordered' /\ FreedStaysFree'
  BY <1>0, <1>1 DEF Ordered, FreedStaysFree, Limited
<1>2. CASE SysArm
  <2>1. UNCHANGED <<target, excluded>>
    BY <1>2 DEF SysArm, Decide
  <2>2. PICK b \in Batches("sys") :
           \/ UNCHANGED <<cap, order>>
           \/ b.apps # {} /\ LimitSys(First(b.apps, b.order))
    BY <1>2 DEF SysArm
  <2>3. ASSUME b.apps # {} PROVE First(b.apps, b.order) \in Apps \ excluded
    <3>1. b \in Candidates /\ b.apps \cap excluded = {}
      BY <1>0, BatchesTyped DEF Channels
    <3>2. First(b.apps, b.order) \in b.apps
      BY <2>3, <3>1, FirstIsOne DEF Candidates
    <3> QED
      BY <3>1, <3>2 DEF Candidates
  <2> QED
    BY <1>0, <1>1, <2>1, <2>2, <2>3, LimitTyped DEF Ordered
<1>3. CASE DiskArm
  <2>1. UNCHANGED <<target, excluded>>
    BY <1>3 DEF DiskArm, Decide
  <2>2. PICK b \in Batches("io") :
           \/ UNCHANGED <<cap, order>>
           \/ \E a \in Throttleable(b) : LimitIo(a)
    BY <1>3 DEF DiskArm
  <2>3. Throttleable(b) \subseteq Apps \ excluded
    <3>1. b \in Candidates /\ b.apps \cap excluded = {}
      BY <1>0, BatchesTyped DEF Channels
    <3> QED
      BY <3>1 DEF Candidates, Throttleable
  <2> QED
    BY <1>0, <1>1, <2>1, <2>2, <2>3, LimitTyped DEF Ordered
<1>4. CASE RestoreStep
  <2>1. target \in Limited /\ target' = NoApp /\ excluded' = excluded
    BY <1>4 DEF RestoreStep, StepOver
  <2>2. PICK ok \in Succeeds :
           LET new == IF ok THEN [cap[target] EXCEPT ![Head(todo).channel] = Head(todo).stage]
                      ELSE cap[target]
           IN  /\ cap' = [cap EXCEPT ![target] = new]
               /\ order' = IF new = NoCap THEN Without(target) ELSE MoveToEnd(target)
    BY <1>4 DEF RestoreStep
  <2>3. target \in Apps /\ target \notin excluded
    BY <1>0, <2>1 DEF Limited, FreedStaysFree
  <2> QED
    BY <1>0, <2>1, <2>2, <2>3, SetCap DEF Ordered
<1>5. CASE PickTarget
  <2>1. UNCHANGED <<cap, order, excluded>>
    BY <1>5 DEF PickTarget, capVars
  <2>2. target' = NoApp \/ (Eligible(Head(todo)) # {} /\ target' = First(Eligible(Head(todo)), order))
    BY <1>5 DEF PickTarget, StepOver
  <2>3. Eligible(Head(todo)) \in SUBSET Limited /\ Limited \subseteq Apps
    BY DEF Eligible, Limited
  <2> QED
    BY <1>0, <1>1, <2>1, <2>2, <2>3, FirstIsOne DEF Ordered
<1>6. CASE NoteSwitch
  <2>1. CASE UNCHANGED <<cap, order, excluded>>
    BY <1>0, <1>1, <1>6, <2>1 DEF NoteSwitch, Ordered
  <2>2. CASE /\ excluded' = excluded \cup Limited
             /\ cap' = [a \in Apps |-> NoCap] /\ order' = {}
    <3>1. Limited' = {} /\ target' = target
      BY <1>6, <2>2 DEF NoteSwitch, Limited
    <3>2. Limited \subseteq Apps
      BY DEF Limited
    <3> QED
      BY <1>0, <2>2, <3>1, <3>2 DEF Ordered, FreedStaysFree, IsOrder
  <2> QED
    BY <1>6, <2>1, <2>2 DEF NoteSwitch
<1>7. ASSUME NEW a \in Apps, UserRestore(a) \/ Reap(a)
      PROVE  Ordered' /\ FreedStaysFree'
  <2>1. /\ cap' = [cap EXCEPT ![a] = NoCap] /\ order' = Without(a) /\ target' = target
        /\ excluded' \subseteq excluded \cup {a}
    BY <1>7 DEF UserRestore, Reap, Forget
  <2> QED
    BY <1>0, <2>1, SetCap DEF Ordered
<1>8. CASE RestoreRaises \/ RestoreGone
  BY <1>1, <1>8 DEF RestoreRaises, RestoreGone, StepOver, capVars
<1>9. CASE \/ Sleep \/ QuietTick \/ SkipTick \/ DrainArm \/ RestoreArm
           \/ Refresh \/ Flip \/ Intercept \/ HandleLaunch \/ CancelLaunch
           \/ \E a \in Apps : Unexclude(a)
  <2>1. UNCHANGED <<cap, order, target>> /\ excluded' \subseteq excluded
    BY <1>9 DEF Sleep, QuietTick, SkipTick, DrainArm, RestoreArm, Decide, Refresh, Flip, Intercept,
         HandleLaunch, CancelLaunch, Unexclude, capVars
  <2> QED
    BY <1>0, <1>1, <2>1 DEF Ordered
<1> QED
  BY <1>2, <1>3, <1>4, <1>5, <1>6, <1>7, <1>8, <1>9 DEF Next, LoopStep

\* The invariant holds for ever.
LEMMA TypedInductive == Spec => []TInv
<1>1. Init => TInv
  BY InitTyped, PeriodAssumption, LevelAssumption, LaunchAssumption
<1>2. TInv /\ [Next]_vars => TInv'
  <2>1. ASSUME TInv, Next PROVE TInv'
    <3>1. IInv'
      BY <2>1, NextInv, PeriodAssumption DEF TInv
    <3>2. Scalars' /\ TimersStarted' /\ batch' \in Candidates /\ Ordered' /\ FreedStaysFree'
      BY <2>1, ScalarsNext, TimersNext, BatchNext, OrderedNext, PeriodAssumption, LevelAssumption,
         LaunchAssumption
    <3> QED
      BY <3>1, <3>2 DEF TInv, Candidates
  <2>2. ASSUME TInv, UNCHANGED vars PROVE TInv'
    <3>1. IInv'
      BY <2>2, NextInv, PeriodAssumption DEF TInv
    <3> QED
      BY <2>2, <3>1 DEF TInv, Scalars, TimersStarted, Candidates, Ordered, FreedStaysFree, Limited,
           vars, levelVars, switchVars, stateVars, capVars, launchVars
  <2> QED
    BY <2>1, <2>2
<1> QED
  BY <1>1, <1>2, PTL DEF Spec

\* The monitor loop's state keeps its shape (_MonitorLoopState and the caps it
\* answers for): the levels are reported ones, ages stay within the periods the
\* code compares them with, the loop is inside a staged restore exactly while it
\* has restore steps left, and the auto entries form one line without gaps.
THEOREM MonitorTypeCorrect == Spec => []TypeOK
<1>1. TInv => TypeOK
  <2> SUFFICES ASSUME TInv PROVE TypeOK
    OBVIOUS
  <2>0. IInv /\ Scalars /\ TimersStarted /\ batch \in Candidates /\ Ordered
    BY DEF TInv
  <2>1. timer \in [sys : NoTimer..STABLE_PERIOD, io : NoTimer..(2 * STABLE_DISK_IO_PERIOD)]
    BY <2>0, PeriodAssumption DEF IInv, Shape, TimersBehindCaps, TimersStarted, NoTimer
  <2>2. held \in [sys : 0..STABLE_PERIOD, io : 0..(2 * STABLE_DISK_IO_PERIOD)]
    BY <2>0, PeriodAssumption DEF IInv, Shape
  <2>3. \A i \in DOMAIN todo : todo[i] \in [channel : Channels, stage : {"none", "half"}]
    BY <2>0 DEF IInv, Shape, Todos, Step, Channels
  <2>4. pending + queue \in 0..MaxLaunches
    BY <2>0, LaunchAssumption DEF Scalars
  <2> QED
    BY <2>0, <2>1, <2>2, <2>3, <2>4 DEF TypeOK, Scalars, Ordered, Candidates, IInv, Shape
<1> QED
  BY <1>1, TypedInductive, PTL

\* An app the user takes out of the pool has no automatic cap for as long as it
\* stays out (restore_auto_limited, _refilter_held_batch): not by a batch that
\* was sampled before, not by a staged restore that had picked it, and not on the
\* falling edge of the passive switch.
THEOREM FreedAppsStayFree == Spec => []FreedStaysFree
<1>1. TInv => FreedStaysFree
  BY DEF TInv
<1> QED
  BY <1>1, TypedInductive, PTL
=============================================================================
