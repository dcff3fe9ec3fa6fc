----------------------------- MODULE BenchRuns -----------------------------
(***************************************************************************)
(* Benchmark jobs: requests (start_run, plan_run, start_setup) that race   *)
(* for the single job slot of JobManager, the thread that reaps a job,     *)
(* cancel, the sampler of a measured run, and what both do to quiet mode,  *)
(* to the log pump.                                                        *)
(*                                                                         *)
(* Each request makes one run and has its identity.  req is where it is;   *)
(* a step is one lock's scope or one call to another component.            *)
(***************************************************************************)
EXTENDS QuietMode

Runs == Owners

VARIABLES req,      \* where each request is
          measured, \* the requests whose stage is measured
          slot,     \* JobManager._current
          status,   \* Job.status; "finished" is done or failed, by the exit code
          proc,     \* the child: "none", "alive", "signalled" or "exited"
          cancelled,\* Job._cancelled
          reap,     \* where the reaper of each job is
          sampler,  \* the sampler of each run: "off", "on", "dead"
          pump,     \* the job whose log events._pump tails
          clean,    \* the runs being reaped whose meta["quiet_held"] is true
          noisy,    \* history: unreaped runs during which the gate was down
          robbed    \* history: unreaped runs whose hold somebody else ended

jobVars == <<req, measured, slot, status, proc, cancelled, reap>>
sideVars == <<sampler, pump, clean>>
history == <<noisy, robbed>>
vars == <<quietVars, jobVars, sideVars, history>>

Init ==
    /\ QuietInit
    /\ req = [r \in Runs |-> "idle"]
    /\ measured = {}
    /\ slot = Nobody
    /\ status = [r \in Runs |-> "none"]
    /\ proc = [r \in Runs |-> "none"]
    /\ cancelled = {}
    /\ reap = [r \in Runs |-> "none"]
    /\ sampler = [r \in Runs |-> "off"]
    /\ pump = Nobody
    /\ clean = {}
    /\ noisy = {}
    /\ robbed = {}

\* The shape of the state; also, quiet mode without an owner is off, and only the run in the
\* slot can be between taking it and its reaper.
TypeOK ==
    /\ QuietTypeOK
    /\ slot \in Runs \cup {Nobody} /\ pump \in Runs \cup {Nobody}
    /\ measured \cup cancelled \cup clean \cup noisy \cup robbed \subseteq Runs
    /\ req \in [Runs -> {"idle", "checked", "entered", "sampled", "placed", "spawned",
                         "announced", "done", "failing", "leaving", "refused", "raised"}]
    /\ status \in [Runs -> {"none", "running", "cancelled", "finished"}]
    /\ proc \in [Runs -> {"none", "alive", "signalled", "exited"}]
    /\ reap \in [Runs -> {"none", "waiting", "listeners", "release", "event", "finish", "reaped"}]
    /\ sampler \in [Runs -> {"off", "on", "dead"}]
    /\ \A r \in Runs : req[r] \in {"placed", "spawned", "announced"} => slot = r

Running(r) == proc[r] \in {"alive", "signalled"}
Step(r, from, to) == req[r] = from /\ req' = [req EXCEPT ![r] = to]

\* every step that ends or takes a hold says whom it robs
Over(r) == req[r] \in {"refused", "raised"} \/ reap[r] = "reaped"
Robbing(o) == IF o \in Runs /\ ~Over(o) THEN robbed \cup {o} ELSE robbed
Rob(r) == IF owner = r THEN robbed ELSE Robbing(owner)
Close(r) == noisy' = noisy \ {r} /\ robbed' = robbed \ {r}
Noise == noisy' = noisy \cup {r \in measured : Running(r) /\ ~(IsActive' /\ owner' = r)}

-----------------------------------------------------------------------------
(* The request: runner.start_run *)

\* the pre-check of the slot, for the caller's sake only
CheckBusy(r) ==
    /\ slot = Nobody
    /\ Step(r, "idle", "checked")
    /\ measured' \in {measured, measured \cup {r}}
    /\ UNCHANGED <<quietVars, slot, status, proc, cancelled, reap, sideVars, history>>

\* check_blockers() of a measured run, when some app is limited
Blocked(r) ==
    /\ r \in measured /\ Step(r, "checked", "refused")
    /\ UNCHANGED <<quietVars, measured, slot, status, proc, cancelled, reap, sideVars, history>>

EnterQuiet(r) ==
    /\ r \in measured /\ Step(r, "checked", "entered")
    /\ Enter(r, "fresh")
    /\ robbed' = Rob(r)
    /\ Noise
    /\ UNCHANGED <<measured, slot, status, proc, cancelled, reap, sideVars>>

\* without a sampler nothing renews the lease, so the hold gets no expiry
StartSampler(r) ==
    /\ Step(r, "entered", "sampled")
    /\ \/ /\ sampler' = [sampler EXCEPT ![r] = "on"]
          /\ UNCHANGED <<quietVars, robbed>>
       \/ /\ Enter(r, "endless")
          /\ robbed' = Rob(r)
          /\ UNCHANGED sampler
    /\ Noise
    /\ UNCHANGED <<measured, slot, status, proc, cancelled, reap, pump, clean>>

\* _write_cmd_overrides refuses a command: the request ends outside the try block
RefuseCommands(r) ==
    /\ Step(r, "sampled", "raised")
    /\ UNCHANGED <<quietVars, measured, slot, status, proc, cancelled, reap, sideVars, history>>

\* mutant: the slot is taken without a look
TakeAnySlot(r) ==
    /\ \/ req[r] = "sampled"
       \/ req[r] = "checked" /\ r \notin measured
    /\ slot' = r
    /\ status' = [status EXCEPT ![r] = "running"]
    /\ req' = [req EXCEPT ![r] = "placed"]
    /\ UNCHANGED <<quietVars, measured, proc, cancelled, reap, sideVars, history>>

\* JobManager.start under its lock: take the slot or raise BenchBusy
TakeSlot(r) ==
    /\ \/ req[r] = "sampled"
       \/ req[r] = "checked" /\ r \notin measured
    /\ IF slot = Nobody
       THEN /\ slot' = r
            /\ status' = [status EXCEPT ![r] = "running"]
            /\ req' = [req EXCEPT ![r] = "placed"]
       ELSE /\ req' = [req EXCEPT ![r] = IF r \in measured THEN "failing" ELSE "refused"]
            /\ UNCHANGED <<slot, status>>
    /\ UNCHANGED <<quietVars, measured, proc, cancelled, reap, sideVars, history>>

Spawn(r) ==
    /\ \/ /\ Step(r, "placed", "spawned")
          /\ proc' = [proc EXCEPT ![r] = "alive"]
          /\ noisy' = IF r \in measured /\ ~(IsActive /\ owner = r) THEN noisy \cup {r} ELSE noisy
          /\ UNCHANGED slot
       \/ /\ Step(r, "placed", IF r \in measured THEN "failing" ELSE "refused")
          /\ slot' = Nobody
          /\ UNCHANGED <<proc, noisy>>
    /\ UNCHANGED <<quietVars, measured, status, cancelled, reap, sideVars, robbed>>

\* the start is announced before the reaper exists
Announce(r) ==
    /\ Step(r, "spawned", "announced")
    /\ pump' = r
    /\ UNCHANGED <<quietVars, measured, slot, status, proc, cancelled, reap,
                   sampler, clean, history>>

StartReaper(r) ==
    /\ Step(r, "announced", "done")
    /\ reap' = [reap EXCEPT ![r] = "waiting"]
    /\ UNCHANGED <<quietVars, measured, slot, status, proc, cancelled, sideVars, history>>

\* the except block: the sampler first, then the hold
StopFailed(r) ==
    /\ Step(r, "failing", "leaving")
    /\ sampler' = [sampler EXCEPT ![r] = "off"]
    /\ UNCHANGED <<quietVars, measured, slot, status, proc, cancelled, reap, pump, clean, history>>

\* mutant: the failing request keeps its hold
ExitFailedKeeps(r) ==
    /\ Step(r, "leaving", "refused")
    /\ robbed' = robbed \ {r}
    /\ UNCHANGED <<quietVars, measured, slot, status, proc, cancelled, reap, sideVars, noisy>>

ExitFailed(r) ==
    /\ Step(r, "leaving", "refused")
    /\ ExitQuiet(r)
    /\ Noise
    /\ robbed' = robbed \ {r}
    /\ UNCHANGED <<measured, slot, status, proc, cancelled, reap, sideVars>>

-----------------------------------------------------------------------------
(* The child, the sampler and the user *)

ProcExit(r) ==
    /\ Running(r)
    /\ proc' = [proc EXCEPT ![r] = "exited"]
    /\ UNCHANGED <<quietVars, req, measured, slot, status, cancelled, reap, sideVars, history>>

\* cancel(): looks the job up and marks it (nobody reads a mark that comes after the reaper) ...
Cancel(r) ==
    /\ status[r] = "running" /\ proc[r] # "none"
    /\ cancelled' = cancelled \cup {r}
    /\ UNCHANGED <<quietVars, req, measured, slot, status, proc, reap, sideVars, history>>

\* ... and then its process group is signalled, if it is still there
Signal(r) ==
    /\ r \in cancelled /\ proc[r] = "alive"
    /\ proc' = [proc EXCEPT ![r] = "signalled"]
    /\ UNCHANGED <<quietVars, req, measured, slot, status, cancelled, reap, sideVars, history>>

Renew(r) ==
    /\ sampler[r] = "on" /\ Heartbeat(r)
    /\ UNCHANGED <<jobVars, sideVars, history>>

SamplerDies(r) ==
    /\ sampler[r] = "on"
    /\ sampler' = [sampler EXCEPT ![r] = "dead"]
    /\ UNCHANGED <<quietVars, jobVars, pump, clean, history>>

\* a lease that a live sampler renews does not run out
LeaseLapses ==
    /\ owner # Nobody /\ sampler[owner] # "on"
    /\ Lapse
    /\ robbed' = Robbing(owner)
    /\ Noise
    /\ UNCHANGED <<jobVars, sideVars>>

Watchdog ==
    /\ \/ WatchLook /\ UNCHANGED robbed
       \/ WatchRelease /\ robbed' = Rob(Nobody)
    /\ Noise
    /\ UNCHANGED <<jobVars, sideVars>>

UserGate(up) ==
    /\ SetGate(up)
    /\ Noise
    /\ UNCHANGED <<jobVars, sideVars, robbed>>

-----------------------------------------------------------------------------
(* The reaper: JobManager._reap *)

ReapStep(r, from, to) == reap[r] = from /\ reap' = [reap EXCEPT ![r] = to]

\* mutant: a cancelled job keeps the slot
ReapStatusCancelled(r) ==
    /\ proc[r] = "exited" /\ ReapStep(r, "waiting", "listeners")
    /\ status' = [status EXCEPT ![r] = IF r \in cancelled THEN "cancelled" ELSE "finished"]
    /\ slot' = IF slot = r /\ r \notin cancelled THEN Nobody ELSE slot
    /\ UNCHANGED <<quietVars, req, measured, proc, cancelled, sideVars, history>>

ReapStatus(r) ==
    /\ proc[r] = "exited" /\ ReapStep(r, "waiting", "listeners")
    /\ status' = [status EXCEPT ![r] = IF r \in cancelled THEN "cancelled" ELSE "finished"]
    /\ slot' = IF slot = r THEN Nobody ELSE slot
    /\ UNCHANGED <<quietVars, req, measured, proc, cancelled, sideVars, history>>

\* _release_quiet_mode reads the verdict, then releases
ReadVerdict(r) ==
    /\ ReapStep(r, "listeners", IF r \in measured THEN "release" ELSE "event")
    /\ clean' = IF r \in measured /\ HeldClean THEN clean \cup {r} ELSE clean
    /\ UNCHANGED <<quietVars, req, measured, slot, status, proc, cancelled,
                   sampler, pump, history>>

ReleaseHold(r) ==
    /\ ReapStep(r, "release", "event")
    /\ ExitQuiet(r)
    /\ UNCHANGED <<req, measured, slot, status, proc, cancelled, sideVars, history>>

\* mutant: a finish stops whatever pump there is
FinishAnyPump(r) ==
    /\ ReapStep(r, "event", "finish")
    /\ pump' = Nobody
    /\ UNCHANGED <<quietVars, req, measured, slot, status, proc, cancelled,
                   sampler, clean, history>>

\* _on_job_event: a finish stops the pump of its own job only
FinishEvent(r) ==
    /\ ReapStep(r, "event", "finish")
    /\ pump' = IF pump = r THEN Nobody ELSE pump
    /\ UNCHANGED <<quietVars, req, measured, slot, status, proc, cancelled,
                   sampler, clean, history>>

OnFinish(r) ==
    /\ ReapStep(r, "finish", "reaped")
    /\ sampler' = [sampler EXCEPT ![r] = "off"]
    /\ clean' = clean \ {r}
    /\ Close(r)
    /\ UNCHANGED <<quietVars, req, measured, slot, status, proc, cancelled, pump>>

-----------------------------------------------------------------------------
Request(r) ==
    \/ EnterQuiet(r) \/ StartSampler(r) \/ RefuseCommands(r)
    \/ TakeSlot(r) \/ Spawn(r) \/ Announce(r) \/ StartReaper(r)
    \/ StopFailed(r) \/ ExitFailed(r)

Reaper(r) ==
    ReapStatus(r) \/ ReadVerdict(r) \/ ReleaseHold(r) \/ FinishEvent(r) \/ OnFinish(r)

Next ==
    \/ \E r \in Runs :
         \/ CheckBusy(r) \/ Blocked(r) \/ Request(r) \/ Reaper(r)
         \/ ProcExit(r) \/ Cancel(r) \/ Signal(r) \/ Renew(r) \/ SamplerDies(r)
    \/ LeaseLapses \/ Watchdog
    \/ \E up \in BOOLEAN : UserGate(up)

\* a request, a cancel and a reaper take finitely many steps, so that one condition serves all
Threads(r) == Request(r) \/ Reaper(r) \/ Signal(r) \/ (proc[r] = "signalled" /\ ProcExit(r))

Fairness ==
    /\ \A r \in Runs : WF_vars(Threads(r))
    /\ WF_vars(LeaseLapses) /\ WF_vars(Watchdog)

Spec == Init /\ [][Next]_vars /\ Fairness

-----------------------------------------------------------------------------
\* A measured benchmark process runs only while its own run holds quiet mode, unless somebody
\* else ended the hold: a later request, the watchdog, or the lease of a dead sampler.
\* (start_run takes the hold before the slot and drops it only for its own run.)
MeasuredUnderHold ==
    \A r \in measured \ robbed : Running(r) => owner = r

\* A run whose results are marked as quiet was never disturbed while its process ran, however
\* often the user switched the gate.  (set_gate, held_clean, _release_quiet_mode.)
CleanMeansQuiet == \A r \in clean \ robbed : r \notin noisy

\* The log pump is that of the job in the slot, and a job that is over has none, although the
\* finish of one job is announced after the next may have started.  (_on_job_event.)
PumpFollowsJob ==
    \A r \in Runs :
      /\ Over(r) => pump # r
      /\ (slot = r /\ req[r] = "done") => pump = r

\* Once a request has been refused (but for its commands) or its job reaped, quiet mode is eventually no longer held
\* for it, so that control of the machine resumes.  (_release_quiet_mode, the except block of
\* start_run, the lease and its watchdog.)
HoldEndsWithRun == \A r \in Runs : (Over(r) /\ req[r] # "raised") ~> owner # r

\* The same of every request, as _release_quiet_mode has it: "the gate never outlives the run".
\* A request whose commands are refused raises between taking the hold and the try block.
NoHoldOutlivesItsRun == \A r \in Runs : Over(r) ~> owner # r

\* A cancelled job gives up the slot.  (cancel, _reap.)
CancelFreesSlot == \A r \in Runs : r \in cancelled ~> slot # r

\* what a caller of the job manager sees of each run
Stage == [r \in Runs |-> IF Running(r) THEN "running"
                         ELSE IF proc[r] = "exited" THEN "over" ELSE "waiting"]

Jobs == INSTANCE JobSlot WITH job <- Stage

\* The job manager implements the abstract slot: whatever requests race, benchmark processes
\* run one at a time.  (JobManager.start, _reap.)
OneProcess == Jobs!Spec
=============================================================================
