-------------------------- MODULE BenchRuns_proofs --------------------------
(***************************************************************************)
(* Proofs about BenchRuns for every set of runs: benchmark processes run   *)
(* one at a time, as JobSlot has it; the log pump follows the job; a       *)
(* measured process runs under its own hold; and results that are marked   *)
(* as quiet were.  At the end, about the dashboard's side: BenchLog, for   *)
(* every number of jobs and all sizes: the pane shows one span of a log;   *)
(* and UiLease, for every number of tabs and all graces: an open tab keeps *)
(* the service, as its lease outlasts the heartbeats that may get lost.    *)
(***************************************************************************)
EXTENDS BenchRuns, SequenceTheorems, TLAPS

-----------------------------------------------------------------------------
(* What each request, process and reaper says about the others.            *)

ReqStates == {"idle", "checked", "entered", "sampled", "placed", "spawned",
              "announced", "done", "failing", "leaving", "refused", "raised"}
ReapStates == {"none", "waiting", "listeners", "release", "event", "finish", "reaped"}

\* A request has the slot from "placed" until its job is reaped, and a process from "spawned" on.
JobOK(r) ==
    /\ req[r] = "placed" => slot = r /\ proc[r] = "none" /\ reap[r] = "none"
    /\ req[r] \in {"spawned", "announced"} => slot = r /\ proc[r] # "none" /\ reap[r] = "none"
    /\ req[r] = "done" =>
          /\ proc[r] # "none" /\ reap[r] # "none"
          /\ IF reap[r] = "waiting" THEN slot = r ELSE slot # r /\ proc[r] = "exited"
    /\ req[r] \notin {"placed", "spawned", "announced", "done"} =>
          slot # r /\ proc[r] = "none" /\ reap[r] = "none"

JobInv ==
    /\ req \in [Runs -> ReqStates]
    /\ proc \in [Runs -> {"none", "alive", "signalled", "exited"}]
    /\ reap \in [Runs -> ReapStates]
    /\ slot \in Runs \cup {Nobody}
    /\ \A r \in Runs : JobOK(r)

\* The steps that leave requests, processes, reapers and the slot alone.
LEMMA JobInvInit == Init => JobInv
  BY NobodyIsNoOwner DEF Init, JobInv, JobOK, Runs, ReqStates, ReapStates

LEMMA JobInvNext == JobInv /\ [Next]_vars => JobInv'
<1> SUFFICES ASSUME JobInv, [Next]_vars PROVE JobInv'
  OBVIOUS
<1> USE NobodyIsNoOwner DEF JobInv, JobOK, ReqStates, ReapStates, Runs
<1>1. ASSUME UNCHANGED <<req, proc, reap, slot>> PROVE JobInv'
  BY <1>1
<1>2. ASSUME NEW r \in Runs, CheckBusy(r) \/ Blocked(r) \/ EnterQuiet(r) \/ RefuseCommands(r)
      PROVE JobInv'
  BY <1>2 DEF CheckBusy, Blocked, EnterQuiet, RefuseCommands, Step
<1>3. ASSUME NEW r \in Runs, StartSampler(r) PROVE JobInv'
  BY <1>3 DEF StartSampler, Step
<1>4. ASSUME NEW r \in Runs, TakeSlot(r) PROVE JobInv'
  BY <1>4 DEF TakeSlot
<1>5. ASSUME NEW r \in Runs, Spawn(r) PROVE JobInv'
  BY <1>5 DEF Spawn, Step
<1>6. ASSUME NEW r \in Runs, Announce(r) \/ StartReaper(r) PROVE JobInv'
  BY <1>6 DEF Announce, StartReaper, Step
<1>7. ASSUME NEW r \in Runs, StopFailed(r) \/ ExitFailed(r) PROVE JobInv'
  BY <1>7 DEF StopFailed, ExitFailed, Step
<1>8. ASSUME NEW r \in Runs, ProcExit(r) PROVE JobInv'
  BY <1>8 DEF ProcExit, Running
<1>9. ASSUME NEW r \in Runs, Cancel(r) \/ Signal(r) PROVE JobInv'
  BY <1>9 DEF Cancel, Signal
<1>10. ASSUME NEW r \in Runs, ReapStatus(r) PROVE JobInv'
  BY <1>10 DEF ReapStatus, ReapStep
<1>11. ASSUME NEW r \in Runs, ReadVerdict(r) \/ ReleaseHold(r) \/ FinishEvent(r) \/ OnFinish(r)
       PROVE JobInv'
  BY <1>11 DEF ReadVerdict, ReleaseHold, FinishEvent, OnFinish, ReapStep
<1>12. ASSUME NEW r \in Runs, Renew(r) \/ SamplerDies(r) PROVE JobInv'
  BY <1>12, <1>1 DEF Renew, SamplerDies, jobVars
<1>13. ASSUME LeaseLapses \/ Watchdog \/ \E up \in BOOLEAN : UserGate(up) PROVE JobInv'
  BY <1>13, <1>1 DEF LeaseLapses, Watchdog, UserGate, jobVars
<1>14. CASE UNCHANGED vars
  BY <1>14, <1>1 DEF vars, jobVars
<1> QED
  BY <1>2, <1>3, <1>4, <1>5, <1>6, <1>7, <1>8, <1>9, <1>10, <1>11, <1>12, <1>13, <1>14
     DEF Next, Request, Reaper

LEMMA JobInvAlways == Spec => []JobInv
  BY JobInvInit, JobInvNext, PTL DEF Spec

\* Whatever runs is in the slot.
LEMMA RunningHasSlot == ASSUME JobInv, NEW r \in Runs, Running(r) PROVE slot = r
  BY DEF JobInv, JobOK, Running, ReqStates

-----------------------------------------------------------------------------
(* Processes run one at a time.                                            *)

LEMMA StageIsInitial == Init => Jobs!Init
  BY DEF Init, Jobs!Init, Stage, Running

\* Every step is one of the abstract slot's, or leaves the stages alone.
LEMMA StageStep == JobInv /\ [Next]_vars => [Jobs!Next]_Stage
<1> SUFFICES ASSUME JobInv, [Next]_vars PROVE Jobs!Next \/ UNCHANGED Stage
  OBVIOUS
<1>1. ASSUME UNCHANGED proc PROVE UNCHANGED Stage
  BY <1>1 DEF Stage, Running
<1>2. ASSUME NEW r \in Runs, Spawn(r), proc' = [proc EXCEPT ![r] = "alive"] PROVE Jobs!Begin(r)
  <2>1. slot = r /\ proc[r] = "none"
    BY <1>2 DEF Spawn, Step, JobInv, JobOK
  <2>2. \A s \in Runs : ~Running(s)
    BY <2>1, RunningHasSlot DEF Running
  <2>3. Stage[r] = "waiting" /\ \A s \in Runs : Stage[s] # "running"
    BY <2>1, <2>2 DEF Stage
  <2>4. Stage' = [Stage EXCEPT ![r] = "running"]
    BY <1>2, <2>2 DEF Stage, Running, JobInv
  <2> QED
    BY <2>3, <2>4 DEF Jobs!Begin, Jobs!Free
<1>3. ASSUME NEW r \in Runs, ProcExit(r) PROVE Jobs!End(r)
  <2>1. Stage[r] = "running"
    BY <1>3 DEF ProcExit, Stage
  <2>2. Stage' = [Stage EXCEPT ![r] = "over"]
    BY <1>3 DEF ProcExit, Stage, Running, JobInv
  <2> QED
    BY <2>1, <2>2 DEF Jobs!End
<1>4. ASSUME NEW r \in Runs, Cancel(r) \/ Signal(r) PROVE UNCHANGED Stage
  BY <1>4 DEF Cancel, Signal, Stage, Running, JobInv
<1>5. CASE \E r \in Runs : Spawn(r)
  BY <1>1, <1>2, <1>5 DEF Spawn, Jobs!Next
<1>6. ASSUME NEW r \in Runs, Request(r) \/ Reaper(r) \/ CheckBusy(r) \/ Blocked(r), ~Spawn(r)
      PROVE UNCHANGED proc
  BY <1>6 DEF Request, Reaper, CheckBusy, Blocked, EnterQuiet, StartSampler, RefuseCommands, TakeSlot,
     Announce, StartReaper, StopFailed, ExitFailed, ReapStatus, ReadVerdict, ReleaseHold, FinishEvent, OnFinish
<1>7. ASSUME NEW r \in Runs, Renew(r) \/ SamplerDies(r) PROVE UNCHANGED proc
  BY <1>7 DEF Renew, SamplerDies, jobVars
<1>8. ASSUME LeaseLapses \/ Watchdog \/ \E up \in BOOLEAN : UserGate(up) PROVE UNCHANGED proc
  BY <1>8 DEF LeaseLapses, Watchdog, UserGate, jobVars
<1>9. CASE UNCHANGED vars
  BY <1>1, <1>9 DEF vars, jobVars
<1> QED
  BY <1>1, <1>3, <1>4, <1>5, <1>6, <1>7, <1>8, <1>9 DEF Next, Jobs!Next

\* The job manager implements the abstract slot: for any number of requests, cancels and
\* reapers in any order, benchmark processes run one at a time and each once (JobManager).
THEOREM OneProcessAtATime == Spec => OneProcess
  BY StageIsInitial, StageStep, JobInvAlways, PTL DEF Spec, OneProcess, Jobs!Spec

-----------------------------------------------------------------------------
(* The log pump.                                                           *)

PumpOK(r) ==
    /\ pump = r => req[r] \in {"announced", "done"} /\ reap[r] \notin {"finish", "reaped"}
    /\ slot = r /\ req[r] \in {"announced", "done"} => pump = r

PumpInv == \A r \in Runs : PumpOK(r)

LEMMA PumpInvInit == Init => PumpInv
<1> SUFFICES ASSUME Init, NEW r \in Runs PROVE PumpOK(r)
  BY DEF PumpInv
<1>1. r # Nobody
  BY NobodyIsNoOwner DEF Runs
<1>2. pump = Nobody /\ slot = Nobody
  BY DEF Init
<1> QED
  BY <1>1, <1>2 DEF PumpOK

LEMMA PumpInvNext == JobInv /\ JobInv' /\ PumpInv /\ [Next]_vars => PumpInv'
<1> SUFFICES ASSUME JobInv, JobInv', PumpInv, [Next]_vars PROVE PumpInv'
  OBVIOUS
<1> USE NobodyIsNoOwner DEF PumpInv, PumpOK, JobInv, JobOK, ReqStates, ReapStates, Runs
<1>1. ASSUME UNCHANGED <<req, reap, slot, pump>> PROVE PumpInv'
  BY <1>1
<1>2. ASSUME NEW r \in Runs, CheckBusy(r) \/ Blocked(r) \/ EnterQuiet(r) \/ RefuseCommands(r)
      PROVE PumpInv'
  BY <1>2 DEF CheckBusy, Blocked, EnterQuiet, RefuseCommands, Step, sideVars
<1>3. ASSUME NEW r \in Runs, StartSampler(r) PROVE PumpInv'
  BY <1>3 DEF StartSampler, Step
<1>4. ASSUME NEW r \in Runs, TakeSlot(r) PROVE PumpInv'
  BY <1>4 DEF TakeSlot, sideVars
<1>5. ASSUME NEW r \in Runs, Spawn(r) PROVE PumpInv'
  BY <1>5 DEF Spawn, Step, sideVars
<1>6. ASSUME NEW r \in Runs, Announce(r) PROVE PumpInv'
  BY <1>6 DEF Announce, Step
<1>7. ASSUME NEW r \in Runs, StartReaper(r) PROVE PumpInv'
  BY <1>7 DEF StartReaper, Step, sideVars
<1>8. ASSUME NEW r \in Runs, StopFailed(r) \/ ExitFailed(r) PROVE PumpInv'
  BY <1>8 DEF StopFailed, ExitFailed, Step, sideVars
<1>9. ASSUME NEW r \in Runs, ReapStatus(r) PROVE PumpInv'
  BY <1>9 DEF ReapStatus, ReapStep, sideVars
<1>10. ASSUME NEW r \in Runs, ReadVerdict(r) \/ ReleaseHold(r) \/ OnFinish(r) PROVE PumpInv'
  BY <1>10 DEF ReadVerdict, ReleaseHold, OnFinish, ReapStep, sideVars
<1>11. ASSUME NEW r \in Runs, FinishEvent(r) PROVE PumpInv'
  BY <1>11 DEF FinishEvent, ReapStep
<1>12. ASSUME NEW r \in Runs, ProcExit(r) \/ Cancel(r) \/ Signal(r) \/ Renew(r) \/ SamplerDies(r) PROVE PumpInv'
  BY <1>12, <1>1 DEF ProcExit, Cancel, Signal, Renew, SamplerDies, jobVars, sideVars
<1>13. ASSUME LeaseLapses \/ Watchdog \/ \E up \in BOOLEAN : UserGate(up) PROVE PumpInv'
  BY <1>13, <1>1 DEF LeaseLapses, Watchdog, UserGate, jobVars, sideVars
<1>14. CASE UNCHANGED vars
  BY <1>14, <1>1 DEF vars, jobVars, sideVars
<1> QED
  BY <1>2, <1>3, <1>4, <1>5, <1>6, <1>7, <1>8, <1>9, <1>10, <1>11, <1>12, <1>13, <1>14
     DEF Next, Request, Reaper

LEMMA PumpInvFollows == JobInv /\ PumpInv => PumpFollowsJob
  BY DEF PumpInv, PumpOK, PumpFollowsJob, Over

\* Although the finish of one job may be announced after the start of the next, the pump is
\* never that of a job that is over, and never another than the job's in the slot (_on_job_event).
THEOREM PumpIsTheJobs == Spec => []PumpFollowsJob
  BY PumpInvInit, PumpInvNext, PumpInvFollows, JobInvAlways, PTL DEF Spec

-----------------------------------------------------------------------------
(* The hold on quiet mode.                                                 *)

\* A measured run needs quiet mode from its entry to the end of its job.
Holding(r) ==
    /\ r \in measured
    /\ \/ req[r] \in {"entered", "sampled", "placed", "spawned", "announced"}
       \/ req[r] = "done" /\ reap[r] \in {"waiting", "listeners", "release"}

\* Unless it was robbed it has it, with a lease that has not run out.
Held == \A r \in Runs : Holding(r) /\ r \notin robbed => owner = r /\ lease # "expired"

\* The gate of a hold is down only if the user has put it down.
GateOK ==
    /\ gate \in BOOLEAN /\ userExited \in BOOLEAN
    /\ owner # Nobody /\ ~gate => userExited

\* Noise that a run has met since its process began is on the books of its hold.
Excused(r) == Holding(r) /\ r \notin robbed => userExited
Noted == \A r \in Runs : r \in noisy => r \in measured /\ proc[r] # "none" /\ Excused(r)

\* The books are not reopened when they have been read.
Booked ==
    /\ measured \subseteq Runs /\ clean \subseteq Runs
    /\ \A r \in clean : reap[r] \in {"release", "event", "finish"} /\ (r \in noisy => r \in robbed)

HoldInv == Held /\ GateOK /\ Noted /\ Booked

LEMMA RunningHolds == ASSUME JobInv, NEW r \in Runs, r \in measured, Running(r)
                      PROVE Holding(r)
  BY DEF JobInv, JobOK, Running, Holding, ReqStates, ReapStates

\* Nothing that holds is over.
LEMMA HoldingIsNotOver == ASSUME JobInv, NEW r \in Runs, Holding(r) PROVE ~Over(r)
  BY DEF JobInv, JobOK, Holding, Over, ReqStates

LEMMA HoldInvInit == Init => HoldInv
<1> SUFFICES ASSUME Init PROVE HoldInv
  OBVIOUS
<1>1. gate = FALSE /\ userExited = FALSE /\ owner = Nobody
  BY DEF Init, QuietInit
<1>2. noisy = {} /\ clean = {} /\ measured = {}
  BY DEF Init
<1> QED
  BY <1>1, <1>2 DEF HoldInv, Held, GateOK, Noted, Booked, Holding

\* A step that makes noise puts it on the books, if it keeps the holds.
LEMMA NoiseIsNoted ==
    ASSUME JobInv, Noted, Booked, Held', GateOK', Noise, UNCHANGED <<measured, proc>>,
           \A s \in Runs : s \in noisy => Excused(s)',
           JobInv'
    PROVE  Noted'
<1> SUFFICES ASSUME NEW r \in Runs, r \in noisy' PROVE r \in measured /\ proc[r] # "none" /\ Excused(r)'
  BY DEF Noted
<1>1. CASE r \in noisy
  BY <1>1 DEF Noted
<1>2. CASE r \notin noisy
  <2>1. r \in measured /\ Running(r) /\ ~(IsActive' /\ owner' = r)
    BY <1>2 DEF Noise
  <2>2. proc[r] # "none"
    BY <2>1 DEF Running
  <2>3. Excused(r)'
    BY <2>1, NobodyIsNoOwner DEF Excused, Held, GateOK, IsActive, Expired, Runs
  <2> QED
    BY <2>1, <2>2, <2>3
<1> QED
  BY <1>1, <1>2

\* Noise does not reach a run whose books are closed: its process has ended.
LEMMA NoiseIsNotBooked ==
    ASSUME JobInv, Booked, Noise, UNCHANGED <<measured, clean, reap>>,
           \A s \in Runs : s \in clean /\ s \in robbed => s \in robbed'
    PROVE  Booked'
<1> SUFFICES ASSUME NEW r \in clean, r \in noisy' PROVE r \in robbed'
  BY DEF Booked
<1>1. r \in Runs /\ reap[r] \in {"release", "event", "finish"}
  BY DEF Booked
<1>2. proc[r] = "exited"
  BY <1>1 DEF JobInv, JobOK, ReqStates, ReapStates
<1>3. r \in noisy
  BY <1>2 DEF Noise, Running
<1> QED
  BY <1>1, <1>3 DEF Booked

LEMMA HoldInvNext == JobInv /\ JobInv' /\ HoldInv /\ [Next]_vars => HoldInv'
<1> SUFFICES ASSUME JobInv, JobInv', HoldInv, [Next]_vars PROVE HoldInv'
  OBVIOUS
<1>0. \A r \in Runs : /\ r # Nobody
                      /\ r \in measured /\ Running(r) => Holding(r)
                      /\ Holding(r) => ~Over(r)
  BY RunningHolds, HoldingIsNotOver, NobodyIsNoOwner DEF Runs
<1> USE <1>0 DEF HoldInv, Held, GateOK, Noted, Booked
<1>1. ASSUME UNCHANGED <<quietVars, req, measured, proc, reap, clean, history>> PROVE HoldInv'
  BY <1>1 DEF Holding, Excused, quietVars, history
<1>2. ASSUME NEW r \in Runs, CheckBusy(r) \/ Blocked(r) \/ RefuseCommands(r) \/ TakeSlot(r) PROVE HoldInv'
  BY <1>2 DEF CheckBusy, Blocked, RefuseCommands, TakeSlot, Step, Holding, Excused, quietVars, sideVars, history, JobInv, JobOK
<1>3. ASSUME NEW r \in Runs, EnterQuiet(r) PROVE HoldInv'
  <2>1. Held'
    BY <1>3 DEF EnterQuiet, Enter, Rob, Robbing, Expired, Step, Holding, sideVars, JobInv, JobOK
  <2>2. GateOK'
    BY <1>3 DEF EnterQuiet, Enter, Rob, Robbing, Expired, Step, Holding, sideVars
  <2>3. ASSUME NEW s \in Runs, s \in noisy PROVE Excused(s)'
    BY <1>3, <2>3 DEF EnterQuiet, Enter, Rob, Robbing, Expired, Step, Holding, sideVars, Excused, JobInv, JobOK
  <2>4. Noise /\ UNCHANGED <<measured, proc>>
    BY <1>3 DEF EnterQuiet, Enter, Rob, Robbing, Expired, Step, Holding, sideVars
  <2>5. Noted'
    BY <2>1, <2>2, <2>3, <2>4, NoiseIsNoted
  <2>6. Booked'
    <3>1. UNCHANGED <<measured, clean, reap>>
      BY <1>3 DEF EnterQuiet, Enter, Rob, Robbing, Expired, Step, sideVars
    <3>2. \A s \in Runs : s \in clean /\ s \in robbed => s \in robbed'
      BY <1>3 DEF EnterQuiet, Enter, Rob, Robbing, Expired, Step, Holding, sideVars, JobInv, JobOK, ReqStates
    <3> QED
      BY <2>4, <3>1, <3>2, NoiseIsNotBooked
  <2> QED
    BY <2>1, <2>2, <2>5, <2>6
<1>4. ASSUME NEW r \in Runs, StartSampler(r) PROVE HoldInv'
  <2>1. Held'
    BY <1>4 DEF StartSampler, Enter, Rob, Robbing, Expired, Step, Holding, quietVars, JobInv, JobOK
  <2>2. GateOK'
    BY <1>4 DEF StartSampler, Enter, Rob, Robbing, Expired, Step, Holding, quietVars
  <2>3. ASSUME NEW s \in Runs, s \in noisy PROVE Excused(s)'
    BY <1>4, <2>3 DEF StartSampler, Enter, Rob, Robbing, Expired, Step, Holding, quietVars, Excused, JobInv, JobOK
  <2>4. Noise /\ UNCHANGED <<measured, proc>>
    BY <1>4 DEF StartSampler, Enter, Rob, Robbing, Expired, Step, Holding, quietVars
  <2>5. Noted'
    BY <2>1, <2>2, <2>3, <2>4, NoiseIsNoted
  <2>6. Booked'
    <3>1. UNCHANGED <<measured, clean, reap>>
      BY <1>4 DEF StartSampler, Enter, Rob, Robbing, Expired, Step, quietVars
    <3>2. \A s \in Runs : s \in clean /\ s \in robbed => s \in robbed'
      BY <1>4 DEF StartSampler, Enter, Rob, Robbing, Expired, Step, Holding, quietVars, JobInv, JobOK, ReqStates
    <3> QED
      BY <2>4, <3>1, <3>2, NoiseIsNotBooked
  <2> QED
    BY <2>1, <2>2, <2>5, <2>6
<1>5. ASSUME NEW r \in Runs, Spawn(r) PROVE HoldInv'
  BY <1>5 DEF Spawn, IsActive, Expired, Step, Holding, Excused, quietVars, sideVars, JobInv, JobOK
<1>6. ASSUME NEW r \in Runs, Announce(r) \/ StartReaper(r) \/ StopFailed(r) PROVE HoldInv'
  BY <1>6 DEF Announce, StartReaper, StopFailed, Step, Holding, Excused, quietVars, sideVars, history, JobInv, JobOK
<1>7. ASSUME NEW r \in Runs, ExitFailed(r) PROVE HoldInv'
  <2>1. Held'
    BY <1>7 DEF ExitFailed, ExitQuiet, Release, Step, Holding, sideVars, JobInv, JobOK
  <2>2. GateOK'
    BY <1>7 DEF ExitFailed, ExitQuiet, Release, Step, Holding, sideVars
  <2>3. ASSUME NEW s \in Runs, s \in noisy PROVE Excused(s)'
    BY <1>7, <2>3 DEF ExitFailed, ExitQuiet, Release, Step, Holding, sideVars, Excused, JobInv, JobOK
  <2>4. Noise /\ UNCHANGED <<measured, proc>>
    BY <1>7 DEF ExitFailed, ExitQuiet, Release, Step, Holding, sideVars
  <2>5. Noted'
    BY <2>1, <2>2, <2>3, <2>4, NoiseIsNoted
  <2>6. Booked'
    <3>1. UNCHANGED <<measured, clean, reap>>
      BY <1>7 DEF ExitFailed, ExitQuiet, Release, Step, sideVars
    <3>2. \A s \in Runs : s \in clean /\ s \in robbed => s \in robbed'
      BY <1>7 DEF ExitFailed, ExitQuiet, Release, Step, Holding, sideVars, JobInv, JobOK, ReqStates
    <3> QED
      BY <2>4, <3>1, <3>2, NoiseIsNotBooked
  <2> QED
    BY <2>1, <2>2, <2>5, <2>6
<1>8. ASSUME NEW r \in Runs, ProcExit(r) \/ Cancel(r) \/ Signal(r) PROVE HoldInv'
  BY <1>8 DEF ProcExit, Cancel, Signal, Running, Holding, Excused, quietVars, sideVars, history, JobInv
<1>9. ASSUME NEW r \in Runs, Renew(r) \/ SamplerDies(r) PROVE HoldInv'
  BY <1>9 DEF Renew, SamplerDies, Heartbeat, Holding, Excused, quietVars, jobVars, sideVars, history
<1>10. ASSUME NEW r \in Runs, ReapStatus(r) PROVE HoldInv'
  BY <1>10 DEF ReapStatus, ReapStep, Holding, Excused, quietVars, sideVars, history, JobInv
<1>11. ASSUME NEW r \in Runs, ReadVerdict(r) PROVE HoldInv'
  BY <1>11 DEF ReadVerdict, ReapStep, HeldClean, Holding, Excused, quietVars, history, JobInv, JobOK
<1>12. ASSUME NEW r \in Runs, ReleaseHold(r) PROVE HoldInv'
  <2>1. Held'
    BY <1>12 DEF ReleaseHold, ReapStep, ExitQuiet, Release, Holding, sideVars, history, JobInv, JobOK
  <2>2. GateOK'
    BY <1>12 DEF ReleaseHold, ExitQuiet, Release
  <2>3. ASSUME NEW s \in Runs, s \in noisy PROVE Excused(s)'
    BY <1>12, <2>3 DEF ReleaseHold, ReapStep, ExitQuiet, Release, Holding, Excused, sideVars, history, JobInv, JobOK
  <2>4. Noted' /\ Booked'
    BY <1>12, <2>3 DEF ReleaseHold, ReapStep, sideVars, history, JobInv
  <2> QED
    BY <2>1, <2>2, <2>4
<1>13. ASSUME NEW r \in Runs, FinishEvent(r) \/ OnFinish(r) PROVE HoldInv'
  BY <1>13 DEF FinishEvent, OnFinish, ReapStep, Close, Holding, Excused, quietVars, history, JobInv, JobOK
<1>14. ASSUME LeaseLapses PROVE HoldInv'
  <2>1. Held'
    BY <1>14 DEF LeaseLapses, Lapse, Robbing, Holding, jobVars, sideVars, JobInv, JobOK
  <2>2. GateOK'
    BY <1>14 DEF LeaseLapses, Lapse, Robbing, Holding, jobVars, sideVars
  <2>3. ASSUME NEW s \in Runs, s \in noisy PROVE Excused(s)'
    BY <1>14, <2>3 DEF LeaseLapses, Lapse, Robbing, Holding, jobVars, sideVars, Excused, JobInv, JobOK
  <2>4. Noise /\ UNCHANGED <<measured, proc>>
    BY <1>14 DEF LeaseLapses, Lapse, Robbing, Holding, jobVars, sideVars
  <2>5. Noted'
    BY <2>1, <2>2, <2>3, <2>4, NoiseIsNoted
  <2>6. Booked'
    <3>1. UNCHANGED <<measured, clean, reap>>
      BY <1>14 DEF LeaseLapses, Lapse, Robbing, jobVars, sideVars
    <3>2. \A s \in Runs : s \in clean /\ s \in robbed => s \in robbed'
      BY <1>14 DEF LeaseLapses, Lapse, Robbing, Holding, jobVars, sideVars, JobInv, JobOK, ReqStates
    <3> QED
      BY <2>4, <3>1, <3>2, NoiseIsNotBooked
  <2> QED
    BY <2>1, <2>2, <2>5, <2>6
<1>15. ASSUME Watchdog PROVE HoldInv'
  <2>1. Held'
    BY <1>15 DEF Watchdog, WatchLook, WatchRelease, Release, Rob, Robbing, Holding, jobVars, sideVars, JobInv, JobOK
  <2>2. GateOK'
    <3>1. UNCHANGED <<owner, gate, userExited>> \/ Release
      BY <1>15 DEF Watchdog, WatchLook, WatchRelease
    <3> QED
      BY <3>1 DEF Release
  <2>3. ASSUME NEW s \in Runs, s \in noisy PROVE Excused(s)'
    BY <1>15, <2>3 DEF Watchdog, WatchLook, WatchRelease, Release, Rob, Robbing, Holding, jobVars, sideVars, Excused, JobInv, JobOK
  <2>4. Noise /\ UNCHANGED <<measured, proc>>
    BY <1>15 DEF Watchdog, WatchLook, WatchRelease, Release, Rob, Robbing, Holding, jobVars, sideVars
  <2>5. Noted'
    BY <2>1, <2>2, <2>3, <2>4, NoiseIsNoted
  <2>6. Booked'
    <3>1. UNCHANGED <<measured, clean, reap>>
      BY <1>15 DEF Watchdog, WatchLook, WatchRelease, Release, Rob, Robbing, jobVars, sideVars
    <3>2. \A s \in Runs : s \in clean /\ s \in robbed => s \in robbed'
      BY <1>15 DEF Watchdog, WatchLook, WatchRelease, Release, Rob, Robbing, Holding, jobVars, sideVars, JobInv, JobOK, ReqStates
    <3> QED
      BY <2>4, <3>1, <3>2, NoiseIsNotBooked
  <2> QED
    BY <2>1, <2>2, <2>5, <2>6
<1>16. ASSUME NEW up \in BOOLEAN, UserGate(up) PROVE HoldInv'
  <2>1. Held'
    BY <1>16 DEF UserGate, SetGate, Holding, jobVars, sideVars, JobInv, JobOK
  <2>2. GateOK'
    BY <1>16 DEF UserGate, SetGate, Holding, jobVars, sideVars
  <2>3. ASSUME NEW s \in Runs, s \in noisy PROVE Excused(s)'
    BY <1>16, <2>3 DEF UserGate, SetGate, Holding, jobVars, sideVars, Excused, JobInv, JobOK
  <2>4. Noise /\ UNCHANGED <<measured, proc>>
    BY <1>16 DEF UserGate, SetGate, Holding, jobVars, sideVars
  <2>5. Noted'
    BY <2>1, <2>2, <2>3, <2>4, NoiseIsNoted
  <2>6. Booked'
    <3>1. UNCHANGED <<measured, clean, reap>>
      BY <1>16 DEF UserGate, SetGate, jobVars, sideVars
    <3>2. \A s \in Runs : s \in clean /\ s \in robbed => s \in robbed'
      BY <1>16 DEF UserGate, SetGate, Holding, jobVars, sideVars, JobInv, JobOK, ReqStates
    <3> QED
      BY <2>4, <3>1, <3>2, NoiseIsNotBooked
  <2> QED
    BY <2>1, <2>2, <2>5, <2>6
<1>17. CASE UNCHANGED vars
  BY <1>17, <1>1 DEF vars, jobVars, sideVars
<1> QED
  BY <1>2, <1>3, <1>4, <1>5, <1>6, <1>7, <1>8, <1>9, <1>10, <1>11, <1>12, <1>13, <1>14, <1>15, <1>16, <1>17
     DEF Next, Request, Reaper

LEMMA HoldInvAlways == Spec => []HoldInv
  BY HoldInvInit, HoldInvNext, JobInvAlways, PTL DEF Spec

LEMMA HoldingIsUnderHold == JobInv /\ HoldInv => MeasuredUnderHold
  BY RunningHolds DEF HoldInv, Held, Booked, MeasuredUnderHold

\* A measured process runs under its own run's hold on quiet mode, however requests race for
\* the slot and for quiet mode, unless somebody else ended the hold (start_run, _reap).
THEOREM MeasuredRunsUnderHold == Spec => []MeasuredUnderHold
  BY HoldInvAlways, JobInvAlways, HoldingIsUnderHold, PTL

LEMMA CleanBooks == HoldInv => CleanMeansQuiet
  BY DEF HoldInv, Booked, CleanMeansQuiet

\* Results marked as quiet were not disturbed while the process ran, whatever the user, the
\* watchdog and other requests did to the gate meanwhile (held_clean, _release_quiet_mode).
THEOREM CleanResultsWereQuiet == Spec => []CleanMeansQuiet
  BY HoldInvAlways, CleanBooks, PTL

-----------------------------------------------------------------------------
(* Types.                                                                  *)

LEMMA TypeOKInit == Init => TypeOK
  BY NobodyIsNoOwner DEF Init, QuietInit, TypeOK, QuietTypeOK, Runs

LEMMA TypeOKNext == JobInv /\ JobInv' /\ TypeOK /\ [Next]_vars => TypeOK'
<1> SUFFICES ASSUME JobInv, JobInv', TypeOK, [Next]_vars PROVE TypeOK'
  OBVIOUS
<1>0. \A r \in Runs : r # Nobody
  BY NobodyIsNoOwner DEF Runs
<1> DEFINE JobTypes == /\ req' \in [Runs -> ReqStates] /\ reap' \in [Runs -> ReapStates]
                    /\ proc' \in [Runs -> {"none", "alive", "signalled", "exited"}]
                    /\ slot' \in Runs \cup {Nobody}
                    /\ \A r \in Runs : req'[r] \in {"placed", "spawned", "announced"} => slot' = r
<1>a. JobTypes
  BY DEF JobInv, JobOK
<1> HIDE DEF JobTypes
<1>b. QuietTypeOK'
  <2> USE <1>0 DEF TypeOK, QuietTypeOK
  <2>1. ASSUME UNCHANGED quietVars PROVE QuietTypeOK'
    BY <2>1 DEF quietVars
  <2>2. ASSUME NEW r \in Runs, NEW t \in {"fresh", "endless"}, Enter(r, t) PROVE QuietTypeOK'
    BY <2>2 DEF Enter, Runs
  <2>3. ASSUME Release, UNCHANGED watch \/ watch' = "looking" PROVE QuietTypeOK'
    BY <2>3 DEF Release
  <2>4. ASSUME NEW r \in Runs, ExitQuiet(r) PROVE QuietTypeOK'
    BY <2>4, <2>3 DEF ExitQuiet
  <2>5. ASSUME NEW r \in Runs, Heartbeat(r) PROVE QuietTypeOK'
    BY <2>5 DEF Heartbeat
  <2>6. ASSUME Lapse \/ WatchLook PROVE QuietTypeOK'
    BY <2>6 DEF Lapse, WatchLook
  <2>7. ASSUME NEW up \in BOOLEAN, SetGate(up) PROVE QuietTypeOK'
    BY <2>7 DEF SetGate
  <2>8. ASSUME NEW r \in Runs, Request(r) PROVE QuietTypeOK'
    BY <2>8, <2>1, <2>2, <2>4 DEF Request, EnterQuiet, StartSampler, RefuseCommands, TakeSlot, Spawn, Announce,
       StartReaper, StopFailed, ExitFailed
  <2>9. ASSUME NEW r \in Runs, Reaper(r) PROVE QuietTypeOK'
    BY <2>9, <2>1, <2>4 DEF Reaper, ReapStatus, ReadVerdict, ReleaseHold, FinishEvent, OnFinish
  <2>10. ASSUME NEW r \in Runs, CheckBusy(r) \/ Blocked(r) \/ ProcExit(r) \/ Cancel(r) \/ Signal(r) \/ SamplerDies(r) \/ Renew(r)
         PROVE QuietTypeOK'
    BY <2>10, <2>1, <2>5 DEF CheckBusy, Blocked, ProcExit, Cancel, Signal, SamplerDies, Renew
  <2>11. ASSUME LeaseLapses \/ Watchdog \/ \E up \in BOOLEAN : UserGate(up) PROVE QuietTypeOK'
    BY <2>11, <2>3, <2>6, <2>7 DEF LeaseLapses, Watchdog, WatchRelease, UserGate
  <2> QED
    BY <2>1, <2>8, <2>9, <2>10, <2>11 DEF Next, vars
<1>c. /\ pump' \in Runs \cup {Nobody}
      /\ status' \in [Runs -> {"none", "running", "cancelled", "finished"}]
      /\ sampler' \in [Runs -> {"off", "on", "dead"}]
      /\ measured' \cup cancelled' \cup clean' \subseteq Runs
  <2> DEFINE Rest == /\ pump \in Runs \cup {Nobody}
                     /\ status \in [Runs -> {"none", "running", "cancelled", "finished"}]
                     /\ sampler \in [Runs -> {"off", "on", "dead"}]
                     /\ measured \cup cancelled \cup clean \subseteq Runs
  <2>0. Rest
    BY DEF TypeOK
  <2> SUFFICES Rest'
    OBVIOUS
  <2>1. ASSUME NEW r \in Runs, Request(r) PROVE Rest'
    BY <2>0, <2>1 DEF Request, EnterQuiet, StartSampler, RefuseCommands, TakeSlot, Spawn, Announce,
       StartReaper, StopFailed, ExitFailed, sideVars
  <2>2. ASSUME NEW r \in Runs, Reaper(r) PROVE Rest'
    BY <2>0, <2>2 DEF Reaper, ReapStatus, ReadVerdict, ReleaseHold, FinishEvent, OnFinish, sideVars
  <2>3. ASSUME NEW r \in Runs, CheckBusy(r) \/ Blocked(r) \/ ProcExit(r) \/ Cancel(r) \/ Signal(r) \/ SamplerDies(r) \/ Renew(r)
        PROVE Rest'
    BY <2>0, <2>3 DEF CheckBusy, Blocked, ProcExit, Cancel, Signal, SamplerDies, Renew, jobVars, sideVars
  <2>4. ASSUME LeaseLapses \/ Watchdog \/ \E up \in BOOLEAN : UserGate(up) PROVE Rest'
    BY <2>0, <2>4 DEF LeaseLapses, Watchdog, UserGate, jobVars, sideVars
  <2>5. CASE UNCHANGED vars
    BY <2>0, <2>5 DEF vars, jobVars, sideVars
  <2> QED
    BY <2>1, <2>2, <2>3, <2>4, <2>5 DEF Next
<1>d. noisy' \cup robbed' \subseteq Runs
  <2>0. noisy \cup robbed \subseteq Runs /\ measured \subseteq Runs /\ measured' \subseteq Runs
    BY <1>c DEF TypeOK
  <2>1. Noise => noisy' \subseteq Runs
    BY <2>0 DEF Noise
  <2>2. \A o : Robbing(o) \subseteq Runs /\ Rob(o) \subseteq Runs
    BY <2>0 DEF Robbing, Rob
  <2>3. UNCHANGED history => noisy' \cup robbed' \subseteq Runs
    BY <2>0 DEF history
  <2>4. ASSUME NEW r \in Runs, Request(r) PROVE noisy' \cup robbed' \subseteq Runs
    BY <2>0, <2>1, <2>2, <2>3, <2>4 DEF Request, EnterQuiet, StartSampler, RefuseCommands, TakeSlot, Spawn, Announce,
       StartReaper, StopFailed, ExitFailed
  <2>5. ASSUME NEW r \in Runs, Reaper(r) PROVE noisy' \cup robbed' \subseteq Runs
    BY <2>0, <2>3, <2>5 DEF Reaper, ReapStatus, ReadVerdict, ReleaseHold, FinishEvent, OnFinish, Close
  <2>6. ASSUME NEW r \in Runs, CheckBusy(r) \/ Blocked(r) \/ ProcExit(r) \/ Cancel(r) \/ Signal(r) \/ SamplerDies(r) \/ Renew(r)
        PROVE UNCHANGED history
    BY <2>6 DEF CheckBusy, Blocked, ProcExit, Cancel, Signal, SamplerDies, Renew
  <2>7. ASSUME LeaseLapses \/ Watchdog \/ \E up \in BOOLEAN : UserGate(up) PROVE noisy' \cup robbed' \subseteq Runs
    BY <2>0, <2>1, <2>2, <2>7 DEF LeaseLapses, Watchdog, UserGate
  <2> QED
    BY <2>3, <2>4, <2>5, <2>6, <2>7 DEF Next, vars
<1> QED
  BY <1>a, <1>b, <1>c, <1>d DEF TypeOK, JobTypes, ReqStates, ReapStates

\* The shape of the state, with the slot held by whoever is between taking it and its reaper.
THEOREM BenchTypeCorrect == Spec => []TypeOK
  BY TypeOKInit, TypeOKNext, JobInvAlways, PTL DEF Spec

-----------------------------------------------------------------------------
(***************************************************************************)
(* The log of a benchmark: bytes that reach the pane by snapshots, deltas  *)
(* and answers.  What is queued or answered was written, and nothing ends  *)
(* beyond what is; the pumps have another name here, as BenchRuns has a    *)
(* variable pump.                                                          *)
(***************************************************************************)
CONSTANTS JobIds, MaxLog, Backlog, TailSize, ReadSize

VARIABLES size, running, last, setups, pumps, queue, stream, pane, shown, fetch, missed, late, crossed

B == INSTANCE BenchLog WITH pump <- pumps

\* Jobs have numbers, and sizes are numbers.
Sizes == JobIds \subseteq Nat \ {0} /\ TailSize \in Nat /\ ReadSize \in Nat

\* what waits in a stream
LogEvents == [type : {"job", "log"}, job : JobIds, start : Nat, end : Nat]

\* A log only grows, and its pump has not passed its end.
LogGrows ==
    /\ size \in [JobIds -> Nat] /\ running \in JobIds \cup {0} /\ last \in JobIds \cup {0}
    /\ setups \in Seq(JobIds)
    /\ pumps \in [JobIds -> [pc : {"none", "tail", "final", "gone"}, offset : Nat]]
    /\ \A j \in JobIds : pumps[j].offset <= size[j]

\* What was published was written.
QueueIsWritten ==
    /\ queue \in Seq(LogEvents)
    /\ \A i \in 1 .. Len(queue) : queue[i].start <= queue[i].end /\ queue[i].end <= size[queue[i].job]

\* A pane is one span that was written.
Contiguous(p) ==
    /\ p \in [job : JobIds \cup {0}, bytes : Seq(JobIds \X Nat), end : Nat]
    /\ p.job = 0 => p.end = 0
    /\ p.job # 0 => p.end <= size[p.job]
    /\ \E a \in Nat : a <= p.end /\ p.bytes = B!Span(p.job, a, p.end)

\* the reads that the dashboard asks for
Reads == [pc : {"none", "asked", "answered"}, job : JobIds \cup {0}, from : Nat, start : Nat, to : Nat]

\* An answer goes on from where it was asked for.
FetchIsWritten ==
    /\ fetch \in Reads
    /\ fetch.pc # "none" => fetch.job \in JobIds /\ fetch.from <= size[fetch.job]
    /\ fetch.pc = "answered" => fetch.start = fetch.from /\ fetch.from <= fetch.to /\ fetch.to <= size[fetch.job]

PaneInv == crossed \/ (LogGrows /\ QueueIsWritten /\ Contiguous(pane) /\ FetchIsWritten)

-----------------------------------------------------------------------------
\* A span of a log, by its bytes.
LEMMA SpanIs ==
    ASSUME NEW j, NEW a \in Nat, NEW b \in Nat, a <= b
    PROVE  /\ B!Span(j, a, b) \in Seq({j} \X Nat) /\ Len(B!Span(j, a, b)) = b - a
           /\ \A i \in 1 .. b - a : B!Span(j, a, b)[i] = <<j, a + i>>
<1> DEFINE n == b - a
<1>1. n \in Nat
  OBVIOUS
<1>2. B!Span(j, a, b) = [i \in 1 .. n |-> <<j, a + i>>]
  BY DEF B!Span
<1>3. \A i \in 1 .. n : <<j, a + i>> \in {j} \X Nat
  BY <1>1
<1> HIDE DEF n
<1>4. B!Span(j, a, b) \in [1 .. n -> {j} \X Nat]
  BY <1>2, <1>3
<1>5. B!Span(j, a, b) \in Seq({j} \X Nat) /\ Len(B!Span(j, a, b)) = n
  BY <1>1, <1>4, SeqDef, LenProperties
<1> QED BY <1>2, <1>5 DEF n

\* Two spans that meet are one.
LEMMA SpansJoin ==
    ASSUME NEW j, NEW a \in Nat, NEW b \in Nat, NEW c \in Nat, a <= b, b <= c
    PROVE  B!Span(j, a, b) \o B!Span(j, b, c) = B!Span(j, a, c)
<1> DEFINE s == B!Span(j, a, b)
           t == B!Span(j, b, c)
           u == B!Span(j, a, c)
           Z == {j} \X Nat
<1> HIDE DEF s, t, u, Z
<1>1. s \in Seq(Z) /\ Len(s) = b - a /\ \A i \in 1 .. b - a : s[i] = <<j, a + i>>
  BY SpanIs DEF s, Z
<1>2. t \in Seq(Z) /\ Len(t) = c - b /\ \A i \in 1 .. c - b : t[i] = <<j, b + i>>
  BY SpanIs DEF t, Z
<1>0. a <= c
  OBVIOUS
<1>3. u \in Seq(Z) /\ Len(u) = c - a /\ \A i \in 1 .. c - a : u[i] = <<j, a + i>>
  BY <1>0, SpanIs DEF u, Z
<1>4. /\ s \o t \in Seq(Z) /\ Len(s \o t) = Len(s) + Len(t)
      /\ \A i \in 1 .. Len(s) + Len(t) : (s \o t)[i] = IF i <= Len(s) THEN s[i] ELSE t[i - Len(s)]
  BY <1>1, <1>2, ConcatProperties
<1>5. ASSUME NEW i \in 1 .. c - a PROVE (s \o t)[i] = <<j, a + i>>
  <2>1. i \in 1 .. Len(s) + Len(t)
    BY <1>1, <1>2
  <2>2. CASE i <= b - a
    BY <1>1, <1>4, <2>1, <2>2
  <2>3. CASE ~(i <= b - a)
    <3>1. i - (b - a) \in 1 .. c - b /\ b + (i - (b - a)) = a + i
      BY <2>3
    <3> QED BY <1>1, <1>2, <1>4, <2>1, <2>3, <3>1
  <2> QED BY <2>2, <2>3
<1>6. Len(s \o t) = Len(u)
  BY <1>1, <1>2, <1>3, <1>4
<1>7. s \o t = u
  BY <1>3, <1>4, <1>5, <1>6, SeqEqual
<1> QED BY <1>7 DEF s, t, u

\* A span that begins where the pane ends goes on with it.
LEMMA PaneGrows ==
    ASSUME Sizes, NEW p, Contiguous(p), p.job \in JobIds, NEW to \in Nat,
           p.end <= to, to <= size[p.job]
    PROVE  Contiguous([p EXCEPT !.bytes = @ \o B!Span(p.job, p.end, to), !.end = to])
<1>1. PICK a \in Nat : a <= p.end /\ p.bytes = B!Span(p.job, a, p.end)
  BY DEF Contiguous
<1>2. /\ p.end \in Nat /\ p.job # 0 /\ p.job \in Nat
      /\ p \in [job : JobIds \cup {0}, bytes : Seq(JobIds \X Nat), end : Nat]
  BY DEF Contiguous, Sizes
<1> DEFINE bs == p.bytes \o B!Span(p.job, p.end, to)
           r == [p EXCEPT !.bytes = bs, !.end = to]
<1>3. bs = B!Span(p.job, a, to) /\ a <= to
  <2>1. B!Span(p.job, a, p.end) \o B!Span(p.job, p.end, to) = B!Span(p.job, a, to)
    BY <1>1, <1>2, SpansJoin
  <2>2. a <= to
    BY <1>1, <1>2
  <2> QED BY <1>1, <2>1, <2>2
<1>4. bs \in Seq(JobIds \X Nat)
  <2>1. B!Span(p.job, a, to) \in Seq({p.job} \X Nat)
    BY <1>2, <1>3, SpanIs
  <2>2. {p.job} \X Nat \subseteq JobIds \X Nat
    OBVIOUS
  <2> QED BY <1>3, <2>1, <2>2, SeqMonotonic
<1> HIDE DEF bs
<1>5. r \in [job : JobIds \cup {0}, bytes : Seq(JobIds \X Nat), end : Nat] /\ r.job = p.job /\ r.end = to /\ r.bytes = bs
  BY <1>2, <1>4
<1> HIDE DEF r
<1>6. Contiguous(r)
  BY <1>2, <1>3, <1>5 DEF Contiguous
<1>7. r = [p EXCEPT !.bytes = @ \o B!Span(p.job, p.end, to), !.end = to]
  BY DEF r, bs
<1> QED BY <1>6, <1>7

\* What was written stays so, whatever is written after it.
LEMMA WrittenStays ==
    ASSUME LogGrows, size' \in [JobIds -> Nat], \A j \in JobIds : size[j] <= size'[j]
    PROVE  /\ QueueIsWritten /\ queue' = queue => QueueIsWritten'
           /\ Contiguous(pane) /\ pane' = pane => Contiguous(pane)'
           /\ FetchIsWritten /\ fetch' = fetch => FetchIsWritten'
<1>1. \A j \in JobIds : size[j] \in Nat /\ size'[j] \in Nat
  BY DEF LogGrows
<1>2. ASSUME QueueIsWritten, queue' = queue PROVE QueueIsWritten'
  <2> SUFFICES ASSUME NEW i \in 1 .. Len(queue)
               PROVE  queue[i].start <= queue[i].end /\ queue[i].end <= size'[queue[i].job]
    BY <1>2 DEF QueueIsWritten, LogEvents
  <2>0. queue[i] \in LogEvents
    BY <1>2, ElementOfSeq DEF QueueIsWritten
  <2>1. queue[i].job \in JobIds /\ queue[i].end \in Nat /\ queue[i].end <= size[queue[i].job]
    BY <1>2, <2>0 DEF QueueIsWritten, LogEvents
  <2> QED BY <1>1, <1>2, <2>1 DEF QueueIsWritten
<1>3. ASSUME Contiguous(pane), pane' = pane PROVE Contiguous(pane)'
  <2>1. pane.job # 0 => pane.job \in JobIds /\ pane.end \in Nat /\ pane.end <= size'[pane.job]
    BY <1>1, <1>3 DEF Contiguous
  <2>2. \A a : B!Span(pane.job, a, pane.end)' = B!Span(pane.job, a, pane.end)
    BY <1>3 DEF B!Span
  <2>3. PICK a \in Nat : a <= pane.end /\ pane.bytes = B!Span(pane.job, a, pane.end)
    BY <1>3 DEF Contiguous
  <2>4. pane'.bytes = B!Span(pane'.job, a, pane'.end)
    BY <1>3, <2>3
  <2> QED BY <1>3, <2>1, <2>3, <2>4 DEF Contiguous
<1>4. ASSUME FetchIsWritten, fetch' = fetch PROVE FetchIsWritten'
  BY <1>1, <1>4 DEF FetchIsWritten, Reads
<1> QED BY <1>2, <1>3, <1>4

\* What is published goes to the end of the queue, or nowhere.
LEMMA PublishIs ==
    ASSUME QueueIsWritten, NEW e \in LogEvents, e.start <= e.end, e.end <= size[e.job], B!Publish(e), size' = size
    PROVE  QueueIsWritten'
<1>1. CASE queue' = queue
  BY <1>1 DEF QueueIsWritten
<1>2. CASE queue' = Append(queue, e)
  <2>1. /\ queue' \in Seq(LogEvents) /\ Len(queue') = Len(queue) + 1 /\ Len(queue) \in Nat /\ queue'[Len(queue) + 1] = e
        /\ \A i \in 1 .. Len(queue) : queue'[i] = queue[i]
    BY <1>2, AppendProperties, LenProperties DEF QueueIsWritten
  <2>2. \A i \in 1 .. Len(queue') : i = Len(queue) + 1 \/ i \in 1 .. Len(queue)
    BY <2>1
  <2> QED BY <2>1, <2>2 DEF QueueIsWritten
<1> QED BY <1>1, <1>2 DEF B!Publish

\* One read goes on from an offset, and not beyond what is written.
LEMMA ReadIs ==
    ASSUME Sizes, NEW j \in JobIds, size[j] \in Nat, NEW from \in Nat, from <= size[j]
    PROVE  B!ReadEnd(j, from) \in Nat /\ from <= B!ReadEnd(j, from) /\ B!ReadEnd(j, from) <= size[j]
BY DEF B!ReadEnd, Sizes

\* Jobs and pumps write and publish; the pane does not change.
LEMMA ServeKeeps ==
    ASSUME PaneInv, ~crossed', Sizes, B!Serve
    PROVE  PaneInv'
<1>1. /\ LogGrows /\ QueueIsWritten /\ Contiguous(pane) /\ FetchIsWritten
      /\ UNCHANGED <<pane, fetch>>
  BY DEF PaneInv, B!Serve, B!StartJob, B!WriteLog, B!EndJob, B!Drain, B!client
<1>2. /\ size \in [JobIds -> Nat] /\ pumps \in [JobIds -> [pc : {"none", "tail", "final", "gone"}, offset : Nat]]
      /\ running \in JobIds \cup {0} /\ last \in JobIds \cup {0} /\ setups \in Seq(JobIds)
      /\ \A j \in JobIds : pumps[j].offset <= size[j] /\ size[j] \in Nat /\ pumps[j].offset \in Nat
  BY <1>1 DEF LogGrows
<1>3. ASSUME size' = size PROVE Contiguous(pane)' /\ FetchIsWritten'
  BY <1>1, <1>2, <1>3, WrittenStays
<1>4. ASSUME NEW j \in JobIds PROVE B!JobEvent(j) \in LogEvents /\ B!JobEvent(j).start <= B!JobEvent(j).end
                                  /\ B!JobEvent(j).end <= size[B!JobEvent(j).job]
  BY <1>2 DEF B!JobEvent, LogEvents
<1>5. CASE B!StartJob
  <2>1. last + 1 \in JobIds /\ size' = size /\ B!Publish(B!JobEvent(last + 1))
        /\ running' = last + 1 /\ last' = last + 1 /\ pumps' = [pumps EXCEPT ![last + 1].pc = "tail"]
        /\ setups' \in {setups, Append(setups, last + 1)}
    BY <1>5 DEF B!StartJob
  <2>2. QueueIsWritten'
    BY <1>1, <1>4, <2>1, PublishIs
  <2>4. setups' \in Seq(JobIds)
    <3>1. Append(setups, last + 1) \in Seq(JobIds)
      BY <1>2, <2>1, AppendProperties
    <3> QED BY <1>2, <2>1, <3>1
  <2>3. LogGrows'
    BY <1>2, <2>1, <2>4 DEF LogGrows
  <2> QED BY <1>3, <2>1, <2>2, <2>3 DEF PaneInv
<1>6. CASE B!WriteLog
  <2>1. /\ running \in JobIds /\ size' = [size EXCEPT ![running] = size[running] + 1]
        /\ UNCHANGED <<running, last, setups, pumps, queue>>
    BY <1>2, <1>6 DEF B!WriteLog
  <2>2. size' \in [JobIds -> Nat] /\ \A j \in JobIds : size[j] <= size'[j]
    BY <1>2, <2>1
  <2>3. LogGrows'
    BY <1>2, <2>1, <2>2 DEF LogGrows
  <2> QED BY <1>1, <2>1, <2>2, <2>3, WrittenStays DEF PaneInv
<1>7. CASE B!EndJob
  <2>1. running \in JobIds /\ size' = size /\ B!Publish(B!JobEvent(running))
        /\ running' = 0 /\ last' = last /\ setups' = setups /\ pumps' = [pumps EXCEPT ![running].pc = "final"]
    BY <1>2, <1>7 DEF B!EndJob
  <2>2. QueueIsWritten'
    BY <1>1, <1>4, <2>1, PublishIs
  <2>3. LogGrows'
    BY <1>2, <2>1 DEF LogGrows
  <2> QED BY <1>3, <2>1, <2>2, <2>3 DEF PaneInv
<1>8. ASSUME NEW j \in JobIds, B!Drain(j) PROVE PaneInv'
  <2>1. size' = size /\ UNCHANGED <<running, last, setups>>
    BY <1>8 DEF B!Drain
  <2>2. CASE pumps[j].offset < size[j]
    <3> DEFINE to == B!ReadEnd(j, pumps[j].offset)
               e == [type |-> "log", job |-> j, start |-> pumps[j].offset, end |-> to]
    <3>0. to \in Nat /\ pumps[j].offset <= to /\ to <= size[j]
      BY <1>2, ReadIs
    <3> HIDE DEF to
    <3>1. B!Publish(e) /\ pumps' = [pumps EXCEPT ![j].offset = to]
      BY <1>8, <2>2 DEF B!Drain, B!Chunk, to
    <3>2. e \in LogEvents /\ e.start <= e.end /\ e.end <= size[e.job]
      BY <1>2, <3>0 DEF LogEvents
    <3> HIDE DEF e
    <3>3. QueueIsWritten'
      BY <1>1, <2>1, <3>1, <3>2, PublishIs
    <3>4. LogGrows'
      BY <1>2, <2>1, <3>0, <3>1 DEF LogGrows
    <3> QED BY <1>3, <2>1, <3>3, <3>4 DEF PaneInv
  <2>3. CASE ~(pumps[j].offset < size[j])
    <3>1. pumps' = [pumps EXCEPT ![j].pc = "gone"] /\ queue' = queue
      BY <1>8, <2>3 DEF B!Drain
    <3>2. LogGrows'
      BY <1>2, <2>1, <3>1 DEF LogGrows
    <3>3. QueueIsWritten'
      BY <1>1, <2>1, <3>1 DEF QueueIsWritten
    <3> QED BY <1>3, <2>1, <3>2, <3>3 DEF PaneInv
  <2> QED BY <2>2, <2>3
<1> QED BY <1>5, <1>6, <1>7, <1>8 DEF B!Serve

\* A delta goes on from the pane, begins another, or is asked for.
LEMMA DeltaKeeps ==
    ASSUME Contiguous(pane), FetchIsWritten, LogGrows, Sizes, size' = size, NEW d \in LogEvents, d.start <= d.end, d.end <= size[d.job],
           B!Delta(d)
    PROVE  Contiguous(pane)' /\ FetchIsWritten'
<1> DEFINE p == B!Fresh(d)
<1>0. d.job \in JobIds /\ d.start \in Nat /\ d.end \in Nat /\ d.job \in Nat /\ d.job # 0 /\ size[d.job] \in Nat
  BY DEF LogEvents, Sizes, LogGrows
<1>1. Contiguous(p) /\ p.job = d.job
  <2>1. CASE pane.job = d.job
    BY <2>1 DEF B!Fresh
  <2>2. CASE pane.job # d.job
    <3>1. p = [job |-> d.job, bytes |-> <<>>, end |-> d.start]
      BY <2>2 DEF B!Fresh
    <3>2. p.job = d.job /\ p.bytes = <<>> /\ p.end = d.start
      BY <3>1
    <3>3. p \in [job : JobIds \cup {0}, bytes : Seq(JobIds \X Nat), end : Nat]
      BY <1>0, <3>1, EmptySeq
    <3>4. B!Span(d.job, d.start, d.start) = <<>>
      <4>1. B!Span(d.job, d.start, d.start) \in Seq({d.job} \X Nat) /\ Len(B!Span(d.job, d.start, d.start)) = 0
        <5>1. d.start <= d.start /\ d.start - d.start = 0
          BY <1>0
        <5> QED BY <1>0, <5>1, SpanIs
      <4> QED BY <4>1, EmptySeq
    <3> HIDE DEF p
    <3>5. d.start <= d.start /\ d.start <= size[d.job]
      BY <1>0
    <3> QED BY <1>0, <3>2, <3>3, <3>4, <3>5 DEF Contiguous
  <2> QED BY <2>1, <2>2
<1>2. p.end \in Nat /\ p.end <= size[d.job]
  BY <1>0, <1>1 DEF Contiguous
<1> HIDE DEF p
<1>3. pane' = p \/ (p.end = d.start /\ d.end > p.end
                    /\ pane' = [p EXCEPT !.bytes = @ \o B!Span(d.job, d.start, d.end), !.end = d.end])
  BY <1>0, <1>2 DEF B!Delta, B!Splice, p
<1>4. Contiguous(pane')
  <2>1. CASE pane' = p
    BY <1>1, <2>1
  <2>2. CASE /\ p.end = d.start /\ d.end > p.end
             /\ pane' = [p EXCEPT !.bytes = @ \o B!Span(d.job, d.start, d.end), !.end = d.end]
    <3>1. pane' = [p EXCEPT !.bytes = @ \o B!Span(p.job, p.end, d.end), !.end = d.end]
      BY <1>1, <2>2
    <3>2. p.end <= d.end /\ d.end <= size[p.job] /\ p.job \in JobIds
      BY <1>0, <1>1, <1>2, <2>2
    <3> QED BY <1>0, <1>1, <3>1, <3>2, PaneGrows
  <2> QED BY <1>3, <2>1, <2>2
<1>5. Contiguous(pane)'
  BY <1>4 DEF Contiguous, B!Span
<1>6. fetch' = fetch \/ fetch' = [pc |-> "asked", job |-> d.job, from |-> p.end, start |-> 0, to |-> 0]
  BY DEF B!Delta, B!NoFetch, p
<1>7. FetchIsWritten'
  BY <1>0, <1>2, <1>6 DEF FetchIsWritten, Reads
<1> QED BY <1>5, <1>7

\* The event that is received was written.
LEMMA ReceiveKeeps ==
    ASSUME PaneInv, ~crossed', Sizes, B!Receive
    PROVE  PaneInv'
<1>1. /\ LogGrows /\ QueueIsWritten /\ Contiguous(pane) /\ FetchIsWritten
      /\ UNCHANGED <<size, running, last, setups, pumps>> /\ queue # <<>> /\ queue' = Tail(queue) /\ queue \in Seq(LogEvents)
  BY DEF PaneInv, QueueIsWritten, B!Receive, B!server
<1>2. LogGrows'
  BY <1>1 DEF LogGrows
<1>3. /\ Head(queue) = queue[1] /\ 1 \in 1 .. Len(queue) /\ Tail(queue) \in Seq(LogEvents)
      /\ Len(Tail(queue)) = Len(queue) - 1 /\ \A i \in 1 .. Len(Tail(queue)) : Tail(queue)[i] = queue[i + 1]
      /\ Len(queue) \in Nat
  BY <1>1, HeadTailProperties, LenProperties, EmptySeq
<1>4. QueueIsWritten'
  <2>1. \A i \in 1 .. Len(queue') : i + 1 \in 1 .. Len(queue) /\ queue'[i] = queue[i + 1]
    BY <1>1, <1>3
  <2> QED BY <1>1, <1>3, <2>1 DEF QueueIsWritten
<1>5. Contiguous(pane)' /\ FetchIsWritten'
  <2> DEFINE e == Head(queue)
  <2>1. e \in LogEvents /\ e.start <= e.end /\ e.end <= size[e.job]
    <3>1. queue[1] \in LogEvents
      BY <1>1, <1>3, ElementOfSeq
    <3> QED BY <1>1, <1>3, <3>1 DEF QueueIsWritten
  <2> HIDE DEF e
  <2>2. B!Delta(e) \/ UNCHANGED <<pane, fetch>>
    BY DEF B!Receive, e
  <2>3. ASSUME UNCHANGED <<pane, fetch>> PROVE Contiguous(pane)' /\ FetchIsWritten'
    <3>1. size \in [JobIds -> Nat] /\ \A j \in JobIds : size[j] <= size'[j]
      BY <1>1 DEF LogGrows
    <3> QED BY <1>1, <2>3, <3>1, WrittenStays
  <2>4. ASSUME B!Delta(e) PROVE Contiguous(pane)' /\ FetchIsWritten'
    BY <1>1, <2>1, <2>4, DeltaKeeps
  <2> QED BY <2>2, <2>3, <2>4
<1> QED BY <1>2, <1>4, <1>5 DEF PaneInv

\* What a snapshot shows is a job, or nothing.
LEMMA ReplayedIs ==
    ASSUME LogGrows
    PROVE  B!Replayed \in JobIds \cup {0}
<1>1. setups \in Seq(JobIds) /\ running \in JobIds \cup {0}
  BY DEF LogGrows
<1>2. setups # <<>> => Len(setups) \in 1 .. Len(setups)
  BY <1>1, EmptySeq, LenProperties
<1>3. setups # <<>> => setups[Len(setups)] \in JobIds
  BY <1>1, <1>2, ElementOfSeq
<1> QED BY <1>1, <1>3 DEF B!Replayed, B!LastSetup

\* A snapshot and an answer end with what is written; an answer that is spliced starts where the
\* pane ends.
LEMMA ViewKeeps ==
    ASSUME PaneInv, ~crossed', Sizes, B!View
    PROVE  PaneInv'
<1>1. /\ LogGrows /\ QueueIsWritten /\ Contiguous(pane) /\ FetchIsWritten /\ size' = size
      /\ size \in [JobIds -> Nat] /\ \A j \in JobIds : size[j] \in Nat
  BY DEF PaneInv, LogGrows, B!View, B!Snapshot, B!Receive, B!Answer, B!AnswerFails, B!CatchUp, B!server
<1>2. CASE B!Receive
  BY <1>2, ReceiveKeeps
<1>3. ASSUME UNCHANGED <<running, last, setups, pumps, queue>> PROVE LogGrows' /\ QueueIsWritten'
  BY <1>1, <1>3 DEF LogGrows, QueueIsWritten
<1>4. \A j \in JobIds : size[j] <= size'[j]
  BY <1>1
<1>5. CASE B!Snapshot
  <2> DEFINE j == B!Replayed
  <2>0. j \in JobIds \cup {0}
    BY <1>1, ReplayedIs
  <2>1. /\ UNCHANGED <<running, last, setups, pumps, queue, fetch>>
        /\ pane' = IF j = 0 THEN pane
                   ELSE [job |-> j, bytes |-> B!Span(j, B!TailOffset(j), size[j]), end |-> size[j]]
    BY <1>5 DEF B!Snapshot, B!server
  <2> HIDE DEF j
  <2>2. FetchIsWritten'
    BY <1>1, <1>4, <2>1, WrittenStays
  <2>3. CASE j = 0
    <3>1. pane' = pane
      BY <2>1, <2>3
    <3>2. Contiguous(pane)'
      BY <1>1, <1>4, <3>1, WrittenStays
    <3> QED BY <1>3, <2>1, <2>2, <3>2 DEF PaneInv
  <2>4. CASE j # 0
    <3> DEFINE a == B!TailOffset(j)
               p == [job |-> j, bytes |-> B!Span(j, a, size[j]), end |-> size[j]]
    <3>1. pane' = p /\ j \in JobIds
      BY <2>0, <2>1, <2>4
    <3>2. a \in Nat /\ a <= size[j]
      BY <1>1, <3>1 DEF B!TailOffset, Sizes
    <3> HIDE DEF a
    <3>3. B!Span(j, a, size[j]) \in Seq(JobIds \X Nat)
      <4>1. B!Span(j, a, size[j]) \in Seq({j} \X Nat)
        BY <1>1, <3>1, <3>2, SpanIs
      <4>2. {j} \X Nat \subseteq JobIds \X Nat
        BY <3>1
      <4> QED BY <4>1, <4>2, SeqMonotonic
    <3>4. Contiguous(p)
      <4>1. p.job = j /\ p.bytes = B!Span(j, a, size[j]) /\ p.end = size[j]
        OBVIOUS
      <4>2. p \in [job : JobIds \cup {0}, bytes : Seq(JobIds \X Nat), end : Nat]
        BY <1>1, <3>1, <3>3
      <4>3. size[j] <= size[j]
        BY <1>1, <3>1
      <4> HIDE DEF p
      <4> QED BY <2>4, <3>2, <4>1, <4>2, <4>3 DEF Contiguous
    <3> HIDE DEF p
    <3>5. Contiguous(pane)'
      BY <1>1, <3>1, <3>4 DEF Contiguous, B!Span
    <3> QED BY <1>3, <2>1, <2>2, <3>5 DEF PaneInv
  <2> QED BY <2>3, <2>4
<1>6. CASE B!Answer
  <2> DEFINE to == B!ReadEnd(fetch.job, fetch.from)
  <2>1. /\ UNCHANGED <<running, last, setups, pumps, queue, pane>> /\ fetch.pc = "asked"
        /\ fetch.job \in JobIds /\ fetch.from \in Nat /\ fetch.from <= size[fetch.job] /\ fetch \in Reads
    BY <1>1, <1>6 DEF B!Answer, B!server, FetchIsWritten, Reads
  <2>2. fetch' = [fetch EXCEPT !.pc = "answered", !.job = fetch.job, !.start = fetch.from, !.to = to]
    <3>1. B!Requested(fetch.job) = fetch.job
      BY <1>6 DEF B!Answer
    <3>2. ~(fetch.from > size[fetch.job])
      BY <1>1, <2>1
    <3> QED BY <1>6, <3>1, <3>2 DEF B!Answer
  <2>3. FetchIsWritten'
    <3>1. to \in Nat /\ fetch.from <= to /\ to <= size[fetch.job]
      BY <1>1, <2>1, ReadIs
    <3> HIDE DEF to
    <3>2. /\ fetch' \in Reads /\ fetch'.job = fetch.job /\ fetch'.from = fetch.from /\ fetch'.start = fetch.from
          /\ fetch'.to = to
      BY <2>1, <2>2, <3>1 DEF Reads
    <3> QED BY <1>1, <2>1, <3>1, <3>2 DEF FetchIsWritten
  <2>4. Contiguous(pane)'
    BY <1>1, <1>4, <2>1, WrittenStays
  <2> QED BY <1>3, <2>1, <2>3, <2>4 DEF PaneInv
<1>8. CASE B!AnswerFails
  <2>1. UNCHANGED <<running, last, setups, pumps, queue, pane>> /\ fetch' = B!NoFetch
    BY <1>8 DEF B!AnswerFails, B!server
  <2>2. FetchIsWritten'
    BY <2>1 DEF FetchIsWritten, Reads, B!NoFetch
  <2>3. Contiguous(pane)'
    BY <1>1, <1>4, <2>1, WrittenStays
  <2> QED BY <1>3, <2>1, <2>2, <2>3 DEF PaneInv
<1>7. CASE B!CatchUp
  <2>1. UNCHANGED <<running, last, setups, pumps, queue>> /\ fetch.pc = "answered" /\ fetch' = B!NoFetch
    BY <1>7 DEF B!CatchUp, B!server
  <2>2. FetchIsWritten'
    BY <2>1 DEF FetchIsWritten, Reads, B!NoFetch
  <2>3. CASE pane.end # fetch.from
    <3>1. pane' = pane
      BY <1>7, <2>3 DEF B!CatchUp
    <3>2. Contiguous(pane)'
      BY <1>1, <1>4, <3>1, WrittenStays
    <3> QED BY <1>3, <2>1, <2>2, <3>2 DEF PaneInv
  <2>4. CASE pane.end = fetch.from
    <3>0. fetch.start = fetch.from
      BY <1>1, <2>1 DEF FetchIsWritten
    <3>1. /\ pane' = [pane EXCEPT !.bytes = @ \o B!Span(fetch.job, fetch.from, fetch.to), !.end = fetch.to]
          /\ pane.job = fetch.job
      BY <1>7, <2>4, <3>0 DEF B!CatchUp
    <3>2. pane' = [pane EXCEPT !.bytes = @ \o B!Span(pane.job, pane.end, fetch.to), !.end = fetch.to]
      BY <2>4, <3>1
    <3>3. pane.job \in JobIds /\ fetch.to \in Nat /\ pane.end <= fetch.to /\ fetch.to <= size[pane.job]
      BY <1>1, <2>1, <2>4, <3>1 DEF FetchIsWritten, Reads
    <3>4. Contiguous(pane')
      BY <1>1, <3>2, <3>3, PaneGrows
    <3>5. Contiguous(pane)'
      BY <1>1, <3>4 DEF Contiguous, B!Span
    <3> QED BY <1>3, <2>1, <2>2, <3>5 DEF PaneInv
  <2> QED BY <2>3, <2>4
<1> QED BY <1>2, <1>5, <1>6, <1>7, <1>8 DEF B!View

\* The first state: nothing is written or shown.
LEMMA InitPane ==
    ASSUME B!Init, Sizes
    PROVE  PaneInv
<1>1. LogGrows
  BY EmptySeq DEF B!Init, LogGrows
<1>2. QueueIsWritten
  BY EmptySeq DEF B!Init, QueueIsWritten
<1>3. Contiguous(pane)
  <2>1. pane.job = 0 /\ pane.bytes = <<>> /\ pane.end = 0 /\ pane \in [job : JobIds \cup {0}, bytes : Seq(JobIds \X Nat), end : Nat]
    BY EmptySeq DEF B!Init
  <2>2. B!Span(0, 0, 0) = <<>>
    <3>1. B!Span(0, 0, 0) \in Seq({0} \X Nat) /\ Len(B!Span(0, 0, 0)) = 0
      <4>1. 0 \in Nat /\ 0 <= 0 /\ 0 - 0 = 0
        OBVIOUS
      <4> QED BY <4>1, SpanIs
    <3> QED BY <3>1, EmptySeq
  <2> QED BY <2>1, <2>2 DEF Contiguous
<1>4. FetchIsWritten
  BY DEF B!Init, B!NoFetch, FetchIsWritten, Reads
<1> QED BY <1>1, <1>2, <1>3, <1>4 DEF PaneInv

\* Every step of jobs, pumps, streams and of the dashboard keeps the invariant.
LEMMA PaneStep ==
    ASSUME PaneInv, Sizes, [B!Next]_B!vars
    PROVE  PaneInv'
<1>1. CASE crossed'
  BY <1>1 DEF PaneInv
<1>2. CASE ~crossed'
  <2>1. CASE B!Serve
    BY <1>2, <2>1, ServeKeeps
  <2>2. CASE B!View
    BY <1>2, <2>2, ViewKeeps
  <2>3. ASSUME UNCHANGED <<B!server, B!client, crossed>>, queue' = queue \/ queue' = <<>> PROVE PaneInv'
    <3>1. /\ LogGrows /\ QueueIsWritten /\ Contiguous(pane) /\ FetchIsWritten
          /\ UNCHANGED <<size, running, last, setups, pumps, pane, fetch>>
      BY <1>2, <2>3 DEF PaneInv, B!server, B!client
    <3>2. LogGrows' /\ Contiguous(pane)' /\ FetchIsWritten'
      BY <3>1 DEF LogGrows, Contiguous, B!Span, FetchIsWritten
    <3>3. QueueIsWritten'
      <4>1. CASE queue' = queue
        BY <3>1, <4>1 DEF QueueIsWritten
      <4>2. CASE queue' = <<>>
        BY <4>2, EmptySeq DEF QueueIsWritten
      <4> QED BY <2>3, <4>1, <4>2
    <3> QED BY <3>2, <3>3 DEF PaneInv
  <2>4. CASE B!Connect \/ B!Disconnect
    BY <2>3, <2>4 DEF B!Connect, B!Disconnect
  <2>5. CASE UNCHANGED B!vars
    BY <2>3, <2>5 DEF B!vars
  <2> QED BY <2>1, <2>2, <2>4, <2>5 DEF B!Next
<1> QED BY <1>1, <1>2

\* For any number of jobs, lengths of a log, backlogs and tails, the pane shows one span of the log it
\* belongs to, which ends where it believes, unless the output of two jobs has met.  (applyDelta, catchUp,
\* snapshot, _drain.)
THEOREM PaneIsWhole == Sizes /\ B!Spec => []B!PaneIsContiguous
<1> SUFFICES ASSUME Sizes PROVE B!Spec => []B!PaneIsContiguous
  OBVIOUS
<1>1. B!Init => PaneInv
  BY InitPane
<1>2. PaneInv /\ [B!Next]_B!vars => PaneInv'
  BY PaneStep
<1>3. PaneInv => B!PaneIsContiguous
  <2> SUFFICES ASSUME PaneInv, ~crossed PROVE pane.bytes = B!Span(pane.job, pane.end - Len(pane.bytes), pane.end)
    BY DEF B!PaneIsContiguous
  <2>1. PICK a \in Nat : pane.end \in Nat /\ a <= pane.end /\ pane.bytes = B!Span(pane.job, a, pane.end)
    BY DEF PaneInv, Contiguous
  <2>2. Len(pane.bytes) = pane.end - a
    <3>1. Len(B!Span(pane.job, a, pane.end)) = pane.end - a
      BY <2>1, SpanIs
    <3> QED BY <2>1, <3>1
  <2>3. pane.end - Len(pane.bytes) = a
    BY <2>1, <2>2
  <2> QED BY <2>1, <2>3
<1> QED BY <1>1, <1>2, <1>3, PTL DEF B!Spec

-----------------------------------------------------------------------------
(***************************************************************************)
(* The lease that open tabs have on the service.                           *)
(***************************************************************************)

CONSTANTS Tabs, Grace, Short, Interval, Startup, Misses
VARIABLES page, net, leases, any, left, polled, service, held, overtaken

U == INSTANCE UiLease WITH lease <- leases

\* The grace outlasts the heartbeats that may get lost, and the one that does not.
Graces ==
    /\ Grace \in Nat /\ Short \in Nat /\ Interval \in Nat /\ Misses \in Nat
    /\ Grace > (Misses + 1) * Interval

Pages == page \in [Tabs -> [open : BOOLEAN, due : 0 .. Interval, lost : 0 .. Misses]] /\ leases \in [Tabs -> Nat]

\* until the last heartbeat that may get lost is due again
Reserve(p) == p.due + (Misses - p.lost) * Interval

Leased ==
    \A t \in Tabs : page[t].open /\ t \in held /\ t \notin overtaken =>
        /\ leases[t] > 0
        /\ [kind |-> "heartbeat", tab |-> t] \in net \/ leases[t] > Reserve(page[t])

LeaseInv == Pages /\ Leased

\* What the heartbeats that may still get lost need of a lease: less than the whole grace, and one
\* interval less for each that was lost.
LEMMA ReserveIsCounted ==
    ASSUME Graces, NEW wait \in 0 .. Interval, NEW lost \in 0 .. Misses
    PROVE  /\ (Misses - lost) * Interval \in Nat
           /\ wait + (Misses - lost) * Interval < Grace
           /\ lost < Misses => (Misses - lost) * Interval = Interval + (Misses - (lost + 1)) * Interval
<1> USE DEF Graces
<1> DEFINE k == Misses - lost
<1>1. k \in Nat /\ k <= Misses
  OBVIOUS
<1>2. k * Interval \in Nat /\ k * Interval <= Misses * Interval
  BY <1>1
<1>3. (Misses + 1) * Interval = Misses * Interval + Interval
  OBVIOUS
<1>4. lost < Misses => k * Interval = Interval + (k - 1) * Interval
  BY <1>1
<1> QED BY <1>2, <1>3, <1>4

\* Every step of the pages, of the network and of the watchdog keeps the leases long enough.
LEMMA LeaseStep == Graces /\ LeaseInv /\ [U!Next]_U!vars => LeaseInv'
<1> SUFFICES ASSUME Graces, LeaseInv, [U!Next]_U!vars PROVE LeaseInv'
  OBVIOUS
<1> USE DEF LeaseInv, Pages, Leased
<1>1. ASSUME NEW t \in Tabs, U!Open(t) PROVE LeaseInv'
  BY <1>1 DEF U!Open, U!Post, Graces, Reserve
<1>2. ASSUME NEW t \in Tabs, NEW q \in BOOLEAN, U!Close(t, q) PROVE LeaseInv'
  BY <1>2 DEF U!Close, U!Post, U!Hidden, Graces, Reserve
<1>3. ASSUME NEW t \in Tabs, U!Beat(t) PROVE LeaseInv'
  <2>1. CASE U!Post("heartbeat", t) /\ page' = [page EXCEPT ![t].due = Interval, ![t].lost = 0]
    <3>1. /\ [kind |-> "heartbeat", tab |-> t] \in net' /\ net \subseteq net'
          /\ UNCHANGED <<leases, held, overtaken>> /\ page[t].open
          /\ \A u \in Tabs \ {t} : page'[u] = page[u]
      BY <1>3, <2>1 DEF U!Beat, U!Post
    <3>2. Pages'
      <4> DEFINE p == [page[t] EXCEPT !.due = Interval, !.lost = 0]
      <4>1. p \in [open : BOOLEAN, due : 0 .. Interval, lost : 0 .. Misses]
        <5>1. page[t] \in [open : BOOLEAN, due : 0 .. Interval, lost : 0 .. Misses]
          OBVIOUS
        <5>2. Interval \in 0 .. Interval /\ 0 \in 0 .. Misses
          BY DEF Graces
        <5> QED BY <5>1, <5>2
      <4>2. page' = [page EXCEPT ![t] = p]
        BY <2>1
      <4> HIDE DEF p
      <4> QED BY <3>1, <4>1, <4>2
    <3> HIDE DEF Reserve
    <3> QED BY <3>1, <3>2
  <2>2. CASE page[t].lost < Misses /\ page' = [page EXCEPT ![t].due = Interval, ![t].lost = @ + 1] /\ UNCHANGED net
    <3>1. Pages'
      BY <1>3, <2>2 DEF U!Beat, Graces
    <3>2. (Misses - page[t].lost) * Interval = Interval + (Misses - (page[t].lost + 1)) * Interval
      BY <2>2, ReserveIsCounted
    <3>3. Reserve(page[t]) = Reserve(page'[t])
      <4>1. page[t].due = 0 /\ page'[t].due = Interval /\ page'[t].lost = page[t].lost + 1
        BY <1>3, <2>2 DEF U!Beat
      <4>2. (Misses - (page[t].lost + 1)) * Interval \in Nat /\ (Misses - page[t].lost) * Interval \in Nat
        BY <2>2, ReserveIsCounted DEF Graces
      <4> QED BY <3>2, <4>1, <4>2 DEF Reserve, Graces
    <3>4. \A u \in Tabs : Reserve(page'[u]) = Reserve(page[u]) /\ page'[u].open = page[u].open
      BY <3>3, <2>2
    <3> QED BY <1>3, <2>2, <3>1, <3>4 DEF U!Beat
  <2> QED BY <1>3, <2>1, <2>2 DEF U!Beat
<1>4. ASSUME NEW t \in Tabs, U!Heartbeat(t) PROVE LeaseInv'
  <2>1. Reserve(page[t]) < Grace
    BY ReserveIsCounted DEF Reserve
  <2>2. /\ page' = page /\ leases' = [leases EXCEPT ![t] = Grace] /\ net' = net \ {[kind |-> "heartbeat", tab |-> t]}
        /\ (held' \subseteq held \cup {t}) /\ overtaken' = overtaken \ {t}
    BY <1>4 DEF U!Heartbeat, U!Arrive
  <2>3. \A u \in Tabs : 0 <= Reserve(page[u]) /\ Reserve(page[u]) \in Int
    BY ReserveIsCounted DEF Reserve, Graces
  <2> HIDE DEF Reserve
  <2> QED BY <2>1, <2>2, <2>3 DEF Graces
<1>5. ASSUME NEW t \in Tabs, U!Release(t) PROVE LeaseInv'
  <2>1. /\ page' = page /\ leases' = [leases EXCEPT ![t] = U!Pulled(leases[t])] /\ net' = net \ {[kind |-> "release", tab |-> t]}
        /\ held' = held /\ overtaken' = IF t \in held THEN overtaken \cup {t} ELSE overtaken
    BY <1>5 DEF U!Release, U!Arrive
  <2>2. U!Pulled(leases[t]) \in Nat
    BY DEF U!Pulled, Graces
  <2> HIDE DEF U!Pulled, Reserve
  <2> QED BY <2>1, <2>2
<1>6. CASE U!Watch \/ UNCHANGED U!vars
  BY <1>6 DEF U!Watch, U!vars
<1>7. CASE U!Tick
  <2>1. ASSUME NEW t \in Tabs, page[t].open
        PROVE  page'[t] = [page[t] EXCEPT !.due = page[t].due - 1] /\ page[t].due > 0
    BY <1>7, <2>1 DEF U!Tick, U!Less
  <2>2. Pages'
    BY <1>7 DEF U!Tick, U!Less, Graces
  <2>3. ASSUME NEW t \in Tabs, page'[t].open, t \in held', t \notin overtaken' PROVE leases'[t] > Reserve(page'[t])
    <3>1. page[t].open /\ t \in held /\ t \notin overtaken /\ net = {}
      BY <1>7, <2>3 DEF U!Tick
    <3>2. leases[t] > Reserve(page[t]) /\ leases[t] > 0 /\ leases'[t] = leases[t] - 1
      BY <1>7, <3>1 DEF U!Tick, U!Less
    <3>3. (Misses - page[t].lost) * Interval \in Nat
      BY ReserveIsCounted DEF Graces
    <3>4. page[t].due \in 1 .. Interval /\ page'[t].due = page[t].due - 1 /\ page'[t].lost = page[t].lost
      <4>1. page[t] \in [open : BOOLEAN, due : 0 .. Interval, lost : 0 .. Misses]
        OBVIOUS
      <4>2. page[t].due > 0 /\ page'[t] = [page[t] EXCEPT !.due = page[t].due - 1]
        BY <2>1, <3>1
      <4> QED BY <4>1, <4>2 DEF Graces
    <3>5. leases[t] \in Nat
      OBVIOUS
    <3> DEFINE k == (Misses - page[t].lost) * Interval
    <3>7. Reserve(page[t]) = page[t].due + k /\ Reserve(page'[t]) = page[t].due - 1 + k
      BY <3>4 DEF Reserve
    <3>8. k \in Nat
      BY <3>3
    <3> HIDE DEF k, Reserve
    <3> QED BY <3>2, <3>4, <3>5, <3>7, <3>8 DEF Graces
  <2>4. ASSUME NEW t \in Tabs, page'[t].open, t \in held', t \notin overtaken' PROVE Reserve(page'[t]) >= 0 /\ Reserve(page'[t]) \in Int
    <3>1. page'[t].due \in 0 .. Interval /\ page'[t].lost \in 0 .. Misses
      BY <2>2
    <3>2. (Misses - page'[t].lost) * Interval \in Nat
      BY <3>1, ReserveIsCounted
    <3> DEFINE k == (Misses - page'[t].lost) * Interval
    <3>3. Reserve(page'[t]) = page'[t].due + k /\ k \in Nat
      BY <3>2 DEF Reserve
    <3> HIDE DEF k, Reserve
    <3> QED BY <3>1, <3>3 DEF Graces
  <2> HIDE DEF Reserve
  <2> QED BY <2>2, <2>3, <2>4
<1> QED BY <1>1, <1>2, <1>3, <1>4, <1>5, <1>6, <1>7 DEF U!Next

\* For any number of tabs and any graces of which the long one outlasts the heartbeats that may get
\* lost, the service does not stop under a tab that is open and has been heard of, unless the release
\* of its page before a reload arrived after the heartbeat of the new one.  (_should_stop, release.)
THEOREM OpenTabsKeepTheService == Graces /\ U!Spec => U!OpenTabKeepsService
<1> SUFFICES ASSUME Graces PROVE U!Spec => U!OpenTabKeepsService
  OBVIOUS
<1>1. U!Init => LeaseInv
  BY DEF U!Init, U!Hidden, LeaseInv, Pages, Leased, Graces
<1>2. LeaseInv /\ [U!Next]_U!vars => LeaseInv'
  BY LeaseStep
<1>3. ASSUME LeaseInv, [U!Next]_U!vars
      PROVE  service' # service => \A t \in Tabs : page[t].open /\ t \in held => t \in overtaken
  <2> SUFFICES ASSUME service' # service, NEW t \in Tabs, page[t].open, t \in held, t \notin overtaken PROVE FALSE
    OBVIOUS
  <2>1. U!Watch
    BY <1>3 DEF U!Next, U!vars, U!Open, U!Close, U!Beat, U!Heartbeat, U!Release, U!Tick
  <2>2. leases[t] = 0
    BY <2>1 DEF U!Watch, U!ShouldStop
  <2>3. leases[t] > 0
    BY <1>3 DEF LeaseInv, Leased
  <2> QED BY <2>2, <2>3
<1> QED BY <1>1, <1>2, <1>3, PTL DEF U!Spec, U!OpenTabKeepsService
=============================================================================
