------------------------ MODULE Controllers_proofs -------------------------
(***************************************************************************)
(* The four properties of the balancer's controllers, for any values of    *)
(* their constants.  The invariant of each controller is proved in         *)
(* ControllerParts_proofs; here they are put together: One for where apps  *)
(* come and go, Two for where the balancer ends and for a NIC without      *)
(* applications, Three for a NIC whose commands fail.  That a controller   *)
(* is defined there as it is here is a lemma, which unfolds both; what is  *)
(* not its turn keeps its invariant because none of its variables moves.   *)
(***************************************************************************)
EXTENDS Controllers, TLAPS

One == INSTANCE ControllerParts_proofs
         WITH Pinned <- Pinned["shared"], Slices <- Slices["shared"], Home <- Home["shared"],
              PinOps <- {"exit", "administer"}, NetTiers <- {"low", "high", "system"},
              MaxFaults <- 0, NetOps <- {"apps", "reload"}, SwapOps <- {"restart"}, held <- op
Two == INSTANCE ControllerParts_proofs
         WITH Pinned <- Pinned["ending"], Slices <- Slices["ending"], Home <- Home["ending"],
              PinOps <- {"stop"}, Shaped <- {}, NetTiers <- {}, NetOps <- {"pressure", "reload", "exit"},
              SwapOps <- {"restart"}, held <- op
Three == INSTANCE ControllerParts_proofs
           WITH Pinned <- Pinned["shared"], Slices <- Slices["shared"], Home <- Home["shared"],
                PinOps <- {"exit", "administer"}, NetTiers <- {"low", "high"}, NetOps <- {"apps"},
                SwapOps <- {"restart"}, held <- op

-----------------------------------------------------------------------------
(* Each controller is what was proved about *)

LEMMA FreezerIsThat ==
    /\ (F!Init <=> One!F!Init) /\ (F!Next <=> One!F!Next) /\ F!vars = One!F!vars
    /\ F!TypeOK <=> One!F!TypeOK
    /\ F!FrozenIsRecorded <=> One!F!FrozenIsRecorded
    /\ F!FlagMatchesKernel <=> One!F!FlagMatchesKernel
BY DEF
  F!Cgs, One!F!Cgs, F!None, One!F!None, F!Idle, One!F!Idle, F!kernel, One!F!kernel, F!history, One!F!history,
  F!vars, One!F!vars, F!Init, One!F!Init, F!TypeOK, One!F!TypeOK, F!Busy, One!F!Busy, F!Doubt, One!F!Doubt,
  F!Lose, One!F!Lose, F!Settled, One!F!Settled, F!Settle, One!F!Settle, F!Vanish, One!F!Vanish,
  F!Limit, One!F!Limit, F!Overlaps, One!F!Overlaps, F!Start, One!F!Start, F!Freeze, One!F!Freeze,
  F!Lift, One!F!Lift, F!Undo, One!F!Undo, F!Advance, One!F!Advance, F!Go, One!F!Go, F!At, One!F!At,
  F!Forgets, One!F!Forgets, F!BeginGone, One!F!BeginGone, F!Begin, One!F!Begin, F!Write, One!F!Write, F!Confirm, One!F!Confirm,
  F!Landed, One!F!Landed, F!Failed, One!F!Failed, F!Flag, One!F!Flag, F!Crash, One!F!Crash,
  F!BootRead, One!F!BootRead, F!BootThaw, One!F!BootThaw, F!BootDone, One!F!BootDone, F!Next, One!F!Next,
  F!FrozenIsRecorded, One!F!FrozenIsRecorded, F!FlagMatchesKernel, One!F!FlagMatchesKernel

LEMMA SharedIsThat ==
    /\ (Shared!Init <=> One!A!Init) /\ (Shared!Next <=> One!A!Next) /\ Shared!vars = One!A!vars
    /\ Shared!TypeOK <=> One!A!TypeOK
    /\ Shared!PinCanBeUndone <=> One!A!PinCanBeUndone
    /\ Shared!PinIsTracked <=> One!A!PinIsTracked
BY DEF
  Shared!vars, One!A!vars, Shared!Idle, One!A!Idle, Shared!Init, One!A!Init, Shared!TypeOK, One!A!TypeOK,
  Shared!env, One!A!env, Shared!late, One!A!late, Shared!Bound, One!A!Bound, Shared!Restriction,
  One!A!Restriction, Shared!Undo, One!A!Undo, Shared!Restored, One!A!Restored, Shared!RestoreFails,
  One!A!RestoreFails, Shared!Pick, One!A!Pick, Shared!Bind, One!A!Bind, Shared!Rollback, One!A!Rollback,
  Shared!SetRead, One!A!SetRead, Shared!Record, One!A!Record, Shared!SetWrite, One!A!SetWrite, Shared!Track,
  One!A!Track, Shared!Live, One!A!Live, Shared!Restore, One!A!Restore, Shared!Release, One!A!Release,
  Shared!Reap, One!A!Reap, Shared!Lock, One!A!Lock, Shared!Unpin, One!A!Unpin, Shared!Unpinned, One!A!Unpinned,
  Shared!Forget, One!A!Forget, Shared!Shutdown, One!A!Shutdown, Shared!StopRestore, One!A!StopRestore,
  Shared!Stopped, One!A!Stopped, Shared!Exit, One!A!Exit, Shared!Vanish, One!A!Vanish, Shared!Launch,
  One!A!Launch, Shared!Administer, One!A!Administer, Shared!Next, One!A!Next, Shared!PinCanBeUndone,
  One!A!PinCanBeUndone, Shared!PinIsTracked, One!A!PinIsTracked

LEMMA EndingIsThat ==
    /\ (Ending!Init <=> Two!A!Init) /\ (Ending!Next <=> Two!A!Next) /\ Ending!vars = Two!A!vars
    /\ Ending!TypeOK <=> Two!A!TypeOK
    /\ Ending!PinCanBeUndone <=> Two!A!PinCanBeUndone
    /\ Ending!PinIsTracked <=> Two!A!PinIsTracked
BY DEF
  Ending!vars, Two!A!vars, Ending!Idle, Two!A!Idle, Ending!Init, Two!A!Init, Ending!TypeOK, Two!A!TypeOK,
  Ending!env, Two!A!env, Ending!late, Two!A!late, Ending!Bound, Two!A!Bound, Ending!Restriction,
  Two!A!Restriction, Ending!Undo, Two!A!Undo, Ending!Restored, Two!A!Restored, Ending!RestoreFails,
  Two!A!RestoreFails, Ending!Pick, Two!A!Pick, Ending!Bind, Two!A!Bind, Ending!Rollback, Two!A!Rollback,
  Ending!SetRead, Two!A!SetRead, Ending!Record, Two!A!Record, Ending!SetWrite, Two!A!SetWrite, Ending!Track,
  Two!A!Track, Ending!Live, Two!A!Live, Ending!Restore, Two!A!Restore, Ending!Release, Two!A!Release,
  Ending!Reap, Two!A!Reap, Ending!Lock, Two!A!Lock, Ending!Unpin, Two!A!Unpin, Ending!Unpinned, Two!A!Unpinned,
  Ending!Forget, Two!A!Forget, Ending!Shutdown, Two!A!Shutdown, Ending!StopRestore, Two!A!StopRestore,
  Ending!Stopped, Two!A!Stopped, Ending!Exit, Two!A!Exit, Ending!Vanish, Two!A!Vanish, Ending!Launch,
  Two!A!Launch, Ending!Administer, Two!A!Administer, Ending!Next, Two!A!Next, Ending!PinCanBeUndone,
  Two!A!PinCanBeUndone, Ending!PinIsTracked, Two!A!PinIsTracked

LEMMA MarkingIsThat ==
    /\ (Marking!Init <=> One!N!Init) /\ (Marking!Next <=> One!N!Next) /\ Marking!vars = One!N!vars
    /\ Marking!TypeOK <=> One!N!TypeOK
    /\ Marking!MarksIdentifyApps <=> One!N!MarksIdentifyApps
    /\ Marking!RatesFollowStage <=> One!N!RatesFollowStage
    /\ Marking!BumpCanBeUndone <=> One!N!BumpCanBeUndone
BY DEF
  Marking!vars, One!N!vars, Marking!apps, One!N!apps, Marking!rates, One!N!rates, Marking!rps, One!N!rps,
  Marking!env, One!N!env, Marking!Dirs, One!N!Dirs, Marking!Full, One!N!Full, Marking!Marks, One!N!Marks,
  Marking!NoMark, One!N!NoMark, Marking!Empty, One!N!Empty, Marking!Nothing, One!N!Nothing, Marking!Without,
  One!N!Without, Marking!With, One!N!With, Marking!Init, One!N!Init, Marking!TypeOK, One!N!TypeOK,
  Marking!Enter, One!N!Enter, Marking!Outcomes, One!N!Outcomes, Marking!Deleted, One!N!Deleted, Marking!Missed,
  One!N!Missed, Marking!Faulty, One!N!Faulty, Marking!Detected, One!N!Detected, Marking!RequestReload,
  One!N!RequestReload, Marking!Ruled, One!N!Ruled, Marking!Torn, One!N!Torn, Marking!Reload, One!N!Reload,
  Marking!StartCycle, One!N!StartCycle, Marking!Uncapped, One!N!Uncapped, Marking!Removed, One!N!Removed,
  Marking!Released, One!N!Released, Marking!Allocated, One!N!Allocated, Marking!Marked, One!N!Marked,
  Marking!Add, One!N!Add, Marking!RemoveGone, One!N!RemoveGone, Marking!Refresh, One!N!Refresh, Marking!Bytes,
  One!N!Bytes, Marking!Throttle, One!N!Throttle, Marking!Limit, One!N!Limit, Marking!Recover, One!N!Recover,
  Marking!Rank, One!N!Rank, Marking!Police, One!N!Police, Marking!ClearCaps, One!N!ClearCaps, Marking!ShapeTx,
  One!N!ShapeTx, Marking!Escalate, One!N!Escalate, Marking!RestoreRx, One!N!RestoreRx, Marking!ShapeRx,
  One!N!ShapeRx, Marking!Relist, One!N!Relist, Marking!Wait, One!N!Wait, Marking!Exit, One!N!Exit,
  Marking!Commands, One!N!Commands, Marking!Next, One!N!Next, Marking!MarksIdentifyApps,
  One!N!MarksIdentifyApps, Marking!RateOf, One!N!RateOf, Marking!RatesFollowStage, One!N!RatesFollowStage,
  Marking!BumpCanBeUndone, One!N!BumpCanBeUndone, Marking!Cardinality, One!N!Cardinality, Marking!RemoveAt,
  One!N!RemoveAt

LEMMA FailingIsThat ==
    /\ (Failing!Init <=> Three!N!Init) /\ (Failing!Next <=> Three!N!Next) /\ Failing!vars = Three!N!vars
    /\ Failing!TypeOK <=> Three!N!TypeOK
    /\ Failing!MarksIdentifyApps <=> Three!N!MarksIdentifyApps
    /\ Failing!RatesFollowStage <=> Three!N!RatesFollowStage
    /\ Failing!BumpCanBeUndone <=> Three!N!BumpCanBeUndone
BY DEF
  Failing!vars, Three!N!vars, Failing!apps, Three!N!apps, Failing!rates, Three!N!rates, Failing!rps,
  Three!N!rps, Failing!env, Three!N!env, Failing!Dirs, Three!N!Dirs, Failing!Full, Three!N!Full, Failing!Marks,
  Three!N!Marks, Failing!NoMark, Three!N!NoMark, Failing!Empty, Three!N!Empty, Failing!Nothing, Three!N!Nothing,
  Failing!Without, Three!N!Without, Failing!With, Three!N!With, Failing!Init, Three!N!Init, Failing!TypeOK,
  Three!N!TypeOK, Failing!Enter, Three!N!Enter, Failing!Outcomes, Three!N!Outcomes, Failing!Deleted,
  Three!N!Deleted, Failing!Missed, Three!N!Missed, Failing!Faulty, Three!N!Faulty, Failing!Detected,
  Three!N!Detected, Failing!RequestReload, Three!N!RequestReload, Failing!Ruled, Three!N!Ruled, Failing!Torn,
  Three!N!Torn, Failing!Reload, Three!N!Reload, Failing!StartCycle, Three!N!StartCycle, Failing!Uncapped,
  Three!N!Uncapped, Failing!Removed, Three!N!Removed, Failing!Released, Three!N!Released, Failing!Allocated,
  Three!N!Allocated, Failing!Marked, Three!N!Marked, Failing!Add, Three!N!Add, Failing!RemoveGone,
  Three!N!RemoveGone, Failing!Refresh, Three!N!Refresh, Failing!Bytes, Three!N!Bytes, Failing!Throttle,
  Three!N!Throttle, Failing!Limit, Three!N!Limit, Failing!Recover, Three!N!Recover, Failing!Rank, Three!N!Rank,
  Failing!Police, Three!N!Police, Failing!ClearCaps, Three!N!ClearCaps, Failing!ShapeTx, Three!N!ShapeTx,
  Failing!Escalate, Three!N!Escalate, Failing!RestoreRx, Three!N!RestoreRx, Failing!ShapeRx, Three!N!ShapeRx,
  Failing!Relist, Three!N!Relist, Failing!Wait, Three!N!Wait, Failing!Exit, Three!N!Exit, Failing!Commands,
  Three!N!Commands, Failing!Next, Three!N!Next, Failing!MarksIdentifyApps, Three!N!MarksIdentifyApps,
  Failing!RateOf, Three!N!RateOf, Failing!RatesFollowStage, Three!N!RatesFollowStage, Failing!BumpCanBeUndone,
  Three!N!BumpCanBeUndone, Failing!Cardinality, Three!N!Cardinality, Failing!RemoveAt, Three!N!RemoveAt

LEMMA PressedIsThat ==
    /\ (Pressed!Init <=> Two!N!Init) /\ (Pressed!Next <=> Two!N!Next) /\ Pressed!vars = Two!N!vars
    /\ Pressed!TypeOK <=> Two!N!TypeOK
    /\ Pressed!MarksIdentifyApps <=> Two!N!MarksIdentifyApps
    /\ Pressed!RatesFollowStage <=> Two!N!RatesFollowStage
    /\ Pressed!BumpCanBeUndone <=> Two!N!BumpCanBeUndone
BY DEF
  Pressed!vars, Two!N!vars, Pressed!apps, Two!N!apps, Pressed!rates, Two!N!rates, Pressed!rps, Two!N!rps,
  Pressed!env, Two!N!env, Pressed!Dirs, Two!N!Dirs, Pressed!Full, Two!N!Full, Pressed!Marks, Two!N!Marks,
  Pressed!NoMark, Two!N!NoMark, Pressed!Empty, Two!N!Empty, Pressed!Nothing, Two!N!Nothing, Pressed!Without,
  Two!N!Without, Pressed!With, Two!N!With, Pressed!Init, Two!N!Init, Pressed!TypeOK, Two!N!TypeOK,
  Pressed!Enter, Two!N!Enter, Pressed!Outcomes, Two!N!Outcomes, Pressed!Deleted, Two!N!Deleted, Pressed!Missed,
  Two!N!Missed, Pressed!Faulty, Two!N!Faulty, Pressed!Detected, Two!N!Detected, Pressed!RequestReload,
  Two!N!RequestReload, Pressed!Ruled, Two!N!Ruled, Pressed!Torn, Two!N!Torn, Pressed!Reload, Two!N!Reload,
  Pressed!StartCycle, Two!N!StartCycle, Pressed!Uncapped, Two!N!Uncapped, Pressed!Removed, Two!N!Removed,
  Pressed!Released, Two!N!Released, Pressed!Allocated, Two!N!Allocated, Pressed!Marked, Two!N!Marked,
  Pressed!Add, Two!N!Add, Pressed!RemoveGone, Two!N!RemoveGone, Pressed!Refresh, Two!N!Refresh, Pressed!Bytes,
  Two!N!Bytes, Pressed!Throttle, Two!N!Throttle, Pressed!Limit, Two!N!Limit, Pressed!Recover, Two!N!Recover,
  Pressed!Rank, Two!N!Rank, Pressed!Police, Two!N!Police, Pressed!ClearCaps, Two!N!ClearCaps, Pressed!ShapeTx,
  Two!N!ShapeTx, Pressed!Escalate, Two!N!Escalate, Pressed!RestoreRx, Two!N!RestoreRx, Pressed!ShapeRx,
  Two!N!ShapeRx, Pressed!Relist, Two!N!Relist, Pressed!Wait, Two!N!Wait, Pressed!Exit, Two!N!Exit,
  Pressed!Commands, Two!N!Commands, Pressed!Next, Two!N!Next, Pressed!MarksIdentifyApps,
  Two!N!MarksIdentifyApps, Pressed!RateOf, Two!N!RateOf, Pressed!RatesFollowStage, Two!N!RatesFollowStage,
  Pressed!BumpCanBeUndone, Two!N!BumpCanBeUndone, Pressed!Cardinality, Two!N!Cardinality, Pressed!RemoveAt,
  Two!N!RemoveAt

LEMMA SwapIsThat ==
    /\ (S!Init <=> One!S!Init) /\ (S!Next <=> One!S!Next) /\ S!vars = One!S!vars
    /\ S!TypeOK <=> One!S!TypeOK
    /\ S!NoSwapWithoutFile <=> One!S!NoSwapWithoutFile
BY DEF
  S!machine, One!S!machine, S!flags, One!S!flags, S!worker, One!S!worker, S!vars, One!S!vars,
  S!Threads, One!S!Threads, S!NoRelease, One!S!NoRelease, S!Init, One!S!Init, S!TypeOK, One!S!TypeOK,
  S!Pressure, One!S!Pressure, S!Serving, One!S!Serving, S!Pending, One!S!Pending, S!Submit, One!S!Submit,
  S!Relax, One!S!Relax, S!SwitchOff, One!S!SwitchOff, S!RequestGrowth, One!S!RequestGrowth,
  S!TickRelease, One!S!TickRelease, S!TickReclaim, One!S!TickReclaim, S!Goto, One!S!Goto,
  S!ReqOnly, One!S!ReqOnly, S!Limit, One!S!Limit, S!Proceed, One!S!Proceed, S!AskGrowth, One!S!AskGrowth,
  S!Answer, One!S!Answer, S!TakeJob, One!S!TakeJob, S!Trigger, One!S!Trigger, S!MayGrow, One!S!MayGrow,
  S!NextPath, One!S!NextPath, S!NoGrowth, One!S!NoGrowth, S!MainBusy, One!S!MainBusy,
  S!Allocate, One!S!Allocate, S!SwapOn, One!S!SwapOn, S!SwapOnFails, One!S!SwapOnFails,
  S!ReclaimDone, One!S!ReclaimDone, S!Rel, One!S!Rel, S!RelOnly, One!S!RelOnly,
  S!BeginShrink, One!S!BeginShrink, S!SwapOff, One!S!SwapOff, S!Skip, One!S!Skip, S!Discard, One!S!Discard,
  S!StillActive, One!S!StillActive, S!Orphans, One!S!Orphans, S!Sweep, One!S!Sweep,
  S!EndRelease, One!S!EndRelease, S!Making, One!S!Making, S!Shutdown, One!S!Shutdown, S!End, One!S!End,
  S!Start, One!S!Start, S!Release, One!S!Release, S!Work, One!S!Work, S!Next, One!S!Next,
  S!NoSwapWithoutFile, One!S!NoSwapWithoutFile, S!Cardinality, One!S!Cardinality

-----------------------------------------------------------------------------
(* The invariant *)

Pins ==
    IF part = "ending" THEN Two!PinShape /\ Two!PinInv ELSE One!PinShape /\ One!PinInv
Shaping ==
    CASE part = "pressed" -> Two!ShapingInv
      [] part = "failing" -> Three!ShapingInv
      [] OTHER -> One!ShapingInv
Known == One!FreezerKnown /\ Pins /\ Shaping /\ One!SwapKnown

\* The assumptions on the constants are those of the controllers.
LEMMA Given == One!Homes /\ Two!Homes
BY HomesAreSlices DEF One!Homes, Two!Homes

\* Failing commands change neither the start nor what is of the right shape.
LEMMA SameStart == (Marking!Init <=> Failing!Init) /\ (Failing!TypeOK => Marking!TypeOK)
BY DEF
  Marking!Init, Failing!Init, Marking!TypeOK, Failing!TypeOK, Marking!Dirs, Failing!Dirs, Marking!Full,
  Failing!Full, Marking!Marks, Failing!Marks, Marking!Empty, Failing!Empty, Marking!Nothing, Failing!Nothing

LEMMA KnownInitially == Init => Known
<1> SUFFICES ASSUME Init PROVE Known
  OBVIOUS
<1>1. One!FreezerKnown
  BY OwnIsNotForeign, FreezerIsThat, One!FreezerStart DEF Init
<1>2. Pins
  BY SharedIsThat, EndingIsThat, One!PinStart, Two!PinStart DEF Init, Pins
<1>3. Shaping
  <2>1. CASE part = "pressed"
    BY <2>1, PoolIsCounted, PressedIsThat, Two!ShapingInit DEF Init, Shaping
  <2>2. CASE part = "failing"
    BY <2>2, PoolIsCounted, MarkingIsThat, FailingIsThat, SameStart, Three!ShapingInit DEF Init, Shaping
  <2>3. CASE part \notin {"pressed", "failing"}
    BY <2>3, PoolIsCounted, MarkingIsThat, One!ShapingInit DEF Init, Shaping
  <2> QED BY <2>1, <2>2, <2>3
<1>4. One!SwapKnown
  BY FilesAreNumbered, SwapIsThat, One!SwapStart DEF Init
<1> QED BY <1>1, <1>2, <1>3, <1>4 DEF Known

\* Each keeps its own by its steps, and while nothing of it moves.
LEMMA FreezerHolds == One!FreezerKnown /\ (F!Next \/ UNCHANGED freezer) => One!FreezerKnown'
<1> SUFFICES ASSUME One!FreezerKnown, F!Next \/ UNCHANGED freezer PROVE One!FreezerKnown'
  OBVIOUS
<1>1. UNCHANGED freezer => UNCHANGED One!F!vars
  BY DEF freezer, One!F!vars, One!F!kernel, One!F!history
<1>2. [One!F!Next]_One!F!vars
  BY <1>1, FreezerIsThat
<1> QED BY <1>2, OwnIsNotForeign, One!FreezerKept

LEMMA SharedHolds ==
    One!PinShape /\ One!PinInv /\ (Shared!Next \/ UNCHANGED affinity) => One!PinShape' /\ One!PinInv'
<1> SUFFICES ASSUME One!PinShape, One!PinInv, Shared!Next \/ UNCHANGED affinity
             PROVE  One!PinShape' /\ One!PinInv'
  OBVIOUS
<1>1. UNCHANGED affinity => UNCHANGED One!A!vars
  BY DEF affinity, One!A!vars
<1>2. [One!A!Next]_One!A!vars
  BY <1>1, SharedIsThat
<1> QED BY <1>2, Given, One!PinKept

LEMMA EndingHolds ==
    Two!PinShape /\ Two!PinInv /\ (Ending!Next \/ UNCHANGED affinity) => Two!PinShape' /\ Two!PinInv'
<1> SUFFICES ASSUME Two!PinShape, Two!PinInv, Ending!Next \/ UNCHANGED affinity
             PROVE  Two!PinShape' /\ Two!PinInv'
  OBVIOUS
<1>1. UNCHANGED affinity => UNCHANGED Two!A!vars
  BY DEF affinity, Two!A!vars
<1>2. [Two!A!Next]_Two!A!vars
  BY <1>1, EndingIsThat
<1> QED BY <1>2, Given, Two!PinKept

LEMMA MarkingHolds == One!ShapingInv /\ (Marking!Next \/ UNCHANGED network) => One!ShapingInv'
<1> SUFFICES ASSUME One!ShapingInv, Marking!Next \/ UNCHANGED network PROVE One!ShapingInv'
  OBVIOUS
<1>1. UNCHANGED network => UNCHANGED One!N!vars
  BY DEF network, One!N!vars
<1>2. [One!N!Next]_One!N!vars
  BY <1>1, MarkingIsThat
<1> QED BY <1>2, PoolIsCounted, One!ShapingStep

LEMMA PressedHolds == Two!ShapingInv /\ (Pressed!Next \/ UNCHANGED network) => Two!ShapingInv'
<1> SUFFICES ASSUME Two!ShapingInv, Pressed!Next \/ UNCHANGED network PROVE Two!ShapingInv'
  OBVIOUS
<1>1. UNCHANGED network => UNCHANGED Two!N!vars
  BY DEF network, Two!N!vars
<1>2. [Two!N!Next]_Two!N!vars
  BY <1>1, PressedIsThat
<1> QED BY <1>2, PoolIsCounted, Two!ShapingStep

LEMMA FailingHolds == Three!ShapingInv /\ (Failing!Next \/ UNCHANGED network) => Three!ShapingInv'
<1> SUFFICES ASSUME Three!ShapingInv, Failing!Next \/ UNCHANGED network PROVE Three!ShapingInv'
  OBVIOUS
<1>1. UNCHANGED network => UNCHANGED Three!N!vars
  BY DEF network, Three!N!vars
<1>2. [Three!N!Next]_Three!N!vars
  BY <1>1, FailingIsThat
<1> QED BY <1>2, PoolIsCounted, Three!ShapingStep

LEMMA SwapHolds == One!SwapKnown /\ (S!Next \/ UNCHANGED swap) => One!SwapKnown'
<1> SUFFICES ASSUME One!SwapKnown, S!Next \/ UNCHANGED swap PROVE One!SwapKnown'
  OBVIOUS
<1>1. UNCHANGED swap => UNCHANGED One!S!vars
  BY DEF swap, One!S!vars, One!S!machine, One!S!flags, One!S!worker
<1>2. [One!S!Next]_One!S!vars
  BY <1>1, SwapIsThat
<1> QED BY <1>2, FilesAreNumbered, One!SwapKept

\* Whose turn it is.
LEMMA Turns ==
    ASSUME [Next]_vars
    PROVE  /\ UNCHANGED part
           /\ F!Next \/ UNCHANGED freezer
           /\ IF part = "ending" THEN Ending!Next \/ UNCHANGED affinity
                                ELSE Shared!Next \/ UNCHANGED affinity
           /\ CASE part = "pressed" -> Pressed!Next \/ UNCHANGED network
                [] part = "failing" -> Failing!Next \/ UNCHANGED network
                [] OTHER -> Marking!Next \/ UNCHANGED network
           /\ S!Next \/ UNCHANGED swap
<1>1. CASE UNCHANGED vars
  BY <1>1 DEF vars
<1>2. CASE Next
  BY <1>2 DEF Next
<1> QED BY <1>1, <1>2

LEMMA KnownAlways == Known /\ [Next]_vars => Known'
<1> SUFFICES ASSUME Known, [Next]_vars PROVE Known'
  OBVIOUS
<1>1. One!FreezerKnown' /\ One!SwapKnown'
  BY Turns, FreezerHolds, SwapHolds DEF Known
<1>2. Pins'
  <2>1. CASE part = "ending"
    BY <2>1, Turns, EndingHolds DEF Known, Pins
  <2>2. CASE part # "ending"
    BY <2>2, Turns, SharedHolds DEF Known, Pins
  <2> QED BY <2>1, <2>2
<1>3. Shaping'
  <2>1. CASE part = "pressed"
    BY <2>1, Turns, PressedHolds DEF Known, Shaping
  <2>2. CASE part = "failing"
    BY <2>2, Turns, FailingHolds DEF Known, Shaping
  <2>3. CASE part \notin {"pressed", "failing"}
    BY <2>3, Turns, MarkingHolds DEF Known, Shaping
  <2> QED BY <2>1, <2>2, <2>3
<1> QED BY <1>1, <1>2, <1>3 DEF Known

LEMMA KnownInvariant == Spec => []Known
BY KnownInitially, KnownAlways, PTL DEF Spec

-----------------------------------------------------------------------------
(* The properties *)

\* Whose marks, rates and masks a property is about does not depend on the applications.
LEMMA SameOnAnyNic ==
    /\ Marking!MarksIdentifyApps <=> Pressed!MarksIdentifyApps
    /\ Marking!RatesFollowStage <=> Pressed!RatesFollowStage
    /\ Marking!BumpCanBeUndone <=> Pressed!BumpCanBeUndone
    /\ Failing!MarksIdentifyApps <=> Pressed!MarksIdentifyApps
    /\ Failing!RatesFollowStage <=> Pressed!RatesFollowStage
    /\ Failing!BumpCanBeUndone <=> Pressed!BumpCanBeUndone
BY DEF
  Marking!Dirs, Failing!Dirs, Pressed!Dirs, Marking!RateOf, Failing!RateOf, Pressed!RateOf,
  Marking!MarksIdentifyApps, Failing!MarksIdentifyApps, Pressed!MarksIdentifyApps, Marking!RatesFollowStage,
  Failing!RatesFollowStage, Pressed!RatesFollowStage, Marking!BumpCanBeUndone, Failing!BumpCanBeUndone,
  Pressed!BumpCanBeUndone, Marking!Cardinality, Failing!Cardinality, Pressed!Cardinality

LEMMA KnownShows == Known => TypeOK /\ ChangesCanBeUndone /\ RecordsMatchKernel
<1> SUFFICES ASSUME Known PROVE TypeOK /\ ChangesCanBeUndone /\ RecordsMatchKernel
  OBVIOUS
<1>1. F!TypeOK /\ F!FrozenIsRecorded /\ F!FlagMatchesKernel
  BY FreezerIsThat, One!FreezerShows DEF Known
<1>2. IF part = "ending" THEN Ending!TypeOK /\ Ending!PinCanBeUndone /\ Ending!PinIsTracked
                         ELSE Shared!TypeOK /\ Shared!PinCanBeUndone /\ Shared!PinIsTracked
  BY SharedIsThat, EndingIsThat, One!PinShows, Two!PinShows DEF Known, Pins
<1>3. /\ IF part = "pressed" THEN Pressed!TypeOK ELSE Marking!TypeOK
      /\ Marking!MarksIdentifyApps /\ Pressed!RatesFollowStage /\ Pressed!BumpCanBeUndone
  <2>1. CASE part = "pressed"
    <3>1. Two!ShapingInv
      BY <2>1 DEF Known, Shaping
    <3>2. Two!N!TypeOK /\ Two!N!MarksIdentifyApps /\ Two!N!RatesFollowStage /\ Two!N!BumpCanBeUndone
      BY <3>1, Two!ShapingShows
    <3> QED BY <2>1, <3>2, PressedIsThat, SameOnAnyNic
  <2>2. CASE part = "failing"
    <3>1. Three!ShapingInv
      BY <2>2 DEF Known, Shaping
    <3>2. Three!N!TypeOK /\ Three!N!MarksIdentifyApps /\ Three!N!RatesFollowStage /\ Three!N!BumpCanBeUndone
      BY <3>1, Three!ShapingShows
    <3> QED BY <2>2, <3>2, FailingIsThat, SameStart, SameOnAnyNic
  <2>3. CASE part \notin {"pressed", "failing"}
    <3>1. One!ShapingInv
      BY <2>3 DEF Known, Shaping
    <3>2. One!N!TypeOK /\ One!N!MarksIdentifyApps /\ One!N!RatesFollowStage /\ One!N!BumpCanBeUndone
      BY <3>1, One!ShapingShows
    <3> QED BY <2>3, <3>2, MarkingIsThat, SameOnAnyNic
  <2> QED BY <2>1, <2>2, <2>3
<1>4. S!TypeOK /\ S!NoSwapWithoutFile
  BY SwapIsThat, One!SwapShows DEF Known
<1> QED BY <1>1, <1>2, <1>3, <1>4 DEF TypeOK, ChangesCanBeUndone, RecordsMatchKernel

\* The state of each controller keeps its shape, for any cgroups, apps, clients, marks and files.
\* (The freezer, CpuController, NetworkController, SwapManager.)
THEOREM ControllersTypeCorrect == Spec => []TypeOK
BY KnownInvariant, KnownShows, PTL

\* What a controller changed can be put back, whatever overlaps, fails, exits or ends: what is frozen
\* is in the state file or given up, what is pinned has its original on record, a widened RPS mask
\* has its own on record unless a read of it or its write-back has failed, and swap has its file.
\* (freeze_cgroup, set_cpus, _escalate_rx, release.)
THEOREM ControllersUndoable == Spec => []ChangesCanBeUndone
BY KnownInvariant, KnownShows, PTL

\* What a controller believes is what the kernel holds: the flag and cgroup.freeze, the tracked apps
\* and their pins, the marks and whom they stand for, the stage and the rates, but for what a failed
\* command has left behind or kept from its class, and for pins that a late release forgets.
\* (set_freeze, _affinity_apps, app_filter_info, handle_network_pressure.)
THEOREM ControllersTruthful == Spec => []RecordsMatchKernel
BY KnownInvariant, KnownShows, PTL

\* What somebody else froze is never thawed by any controller, nor by the sweep at start.
\* (thaw_recorded.)
THEOREM OthersStayFrozen == Spec => ForeignStaysFrozen
<1>1. Known /\ [Next]_vars => [\A c \in Foreign : want'[c] = want[c]]_F!vars
  <2> SUFFICES ASSUME Known, [Next]_vars PROVE \A c \in Foreign : want'[c] = want[c]
    OBVIOUS
  <2>1. CASE UNCHANGED freezer
    BY <2>1 DEF freezer
  <2>2. CASE F!Next
    <3>1. [One!F!Next]_One!F!vars
      BY <2>2, FreezerIsThat
    <3> QED BY <3>1, OwnIsNotForeign, One!ForeignUntouched DEF Known, One!FreezerKnown
  <2> QED BY <2>1, <2>2, Turns
<1> QED BY <1>1, KnownInvariant, PTL DEF Spec, ForeignStaysFrozen, F!ForeignStaysFrozen

=============================================================================
