----------------------------- MODULE SwapLadder -----------------------------
(***************************************************************************)
(* Swap that the balancer grows and hands back: swapfiles of its own, made *)
(* before memory runs out and released when it has long been free again,   *)
(* and the reclaim of limited apps' memory that needs the swap.            *)
(*                                                                         *)
(* Growth, the idle release and reclaim are jobs of one worker thread; the *)
(* tick, the pressure listener and REST requests only submit them.  The    *)
(* release at start and at shutdown runs on the caller's thread instead.   *)
(* Sizes are counted in growth steps; a file is one step.                  *)
(***************************************************************************)
EXTENDS Naturals, Sequences, FiniteSets

CONSTANTS Files,    \* the managed names swap-01.img, swap-02.img, ... as 1..n
          MaxSwap,  \* max_swap_ratio, in files
          Ops       \* what an instance allows besides growth: "reclaim", "restart"

VARIABLES
  \* the machine
  mem,      \* "low": under the shrink watermark, or "high": over the growth one
  tight,    \* free swap is under the critical watermark
  file,     \* the names on disk
  on,       \* the managed files in /proc/swaps
  ghost,    \* names deleted while swapped on: swap nobody can hand back
  \* the balancer
  phase,    \* "up", "stopping", "down" or "starting"
  enabled,  \* swap_growth.enabled
  relaxed,  \* memory has been low for SHRINK_IDLE_SEC without a break
  jobs,     \* the executor's queue
  at,       \* where the worker is in its job
  path,     \* the file it is making
  rel,      \* the release under way on each thread
  req,      \* a REST request that reclaims down to a limit set by hand
  raced     \* history: a release of the main thread overlapped a growth

machine == <<mem, tight, file, on, ghost>>
flags == <<enabled, relaxed>>
worker == <<jobs, at, path>>
vars == <<machine, phase, flags, worker, rel, req, raced>>

Threads == {"worker", "main"}
NoRelease == [t \in Threads |-> [pc |-> "idle", todo |-> {}, cur |-> 0]]

Init ==
    /\ mem = "low" /\ tight = FALSE
    /\ file = {} /\ on = {} /\ ghost = {}
    /\ phase = "up"
    /\ enabled = TRUE /\ relaxed = FALSE
    /\ jobs = <<>> /\ at = "idle" /\ path = 0
    /\ rel = NoRelease
    /\ req = "idle"
    /\ raced = FALSE

\* The shape of the state; also, the worker releases only as its job, and a request that waits
\* has a growth queued or under way.
TypeOK ==
    /\ mem \in {"low", "high"} /\ tight \in BOOLEAN
    /\ file \cup on \cup ghost \subseteq Files
    /\ \A i \in DOMAIN jobs : jobs[i] \in {"grow", "growFor", "shrink", "reclaim"}
    /\ at \in {"idle", "grow", "swapon", "rewrite", "swapon2", "shrink", "reclaim"}
    /\ at \in {"swapon", "rewrite", "swapon2"} <=> path \in Files
    /\ \A t \in Threads : rel[t].pc \in {"idle", "files", "discard", "orphans", "sweep"}
    /\ rel["worker"].pc # "idle" => at = "shrink"
    /\ phase \in {"up", "stopping", "down", "starting"}
    /\ req \in {"idle", "check", "preWait", "reclaim", "lastReclaim", "post", "postWait", "retry"}
    /\ req \in {"preWait", "postWait"} =>
         at \notin {"idle", "shrink", "reclaim"} \/ \E i \in DOMAIN jobs : jobs[i] = "growFor"

-----------------------------------------------------------------------------
(* The machine *)

\* a sample over the watermark restarts the shrink timer
Pressure(m, t) ==
    /\ <<m, t>> # <<mem, tight>>
    /\ mem' = m /\ tight' = t
    /\ relaxed' = (relaxed /\ m = "low")
    /\ UNCHANGED <<file, on, ghost, phase, enabled, worker, rel, req, raced>>

-----------------------------------------------------------------------------
(* Who asks for growth, release and reclaim *)

Serving == phase \in {"up", "stopping"}
Pending(j) == \E i \in DOMAIN jobs : jobs[i] = j

\* a bound of the model: no job is submitted while one of its kind is waiting
Submit(j) == ~Pending(j) /\ jobs' = Append(jobs, j)

Relax ==
    /\ mem = "low" /\ ~relaxed
    /\ relaxed' = TRUE
    /\ UNCHANGED <<machine, phase, enabled, worker, rel, req, raced>>

\* growth is switched off in the settings
SwitchOff ==
    /\ enabled /\ enabled' = FALSE
    /\ UNCHANGED <<machine, phase, relaxed, worker, rel, req, raced>>

\* the tick or the pressure listener, whenever the growth slot they share is free
RequestGrowth ==
    /\ Serving /\ enabled
    /\ Submit("grow")
    /\ UNCHANGED <<machine, phase, flags, at, path, rel, req, raced>>

\* mutant: switching growth off also stops the release
TickReleaseIfEnabled ==
    /\ Serving /\ enabled
    /\ Submit("shrink")
    /\ UNCHANGED <<machine, phase, flags, at, path, rel, req, raced>>

\* once a minute, not gated on enabled
TickRelease ==
    /\ Serving
    /\ Submit("shrink")
    /\ UNCHANGED <<machine, phase, flags, at, path, rel, req, raced>>

\* _tick_memory_reclaim for one idle candidate whose cooldown and back-off are over
TickReclaim ==
    /\ "reclaim" \in Ops
    /\ Serving /\ mem = "high" /\ at # "reclaim"
    /\ Submit("reclaim")
    /\ UNCHANGED <<machine, phase, flags, at, path, rel, req, raced>>

-----------------------------------------------------------------------------
(* A limit set by hand: reclaim_memory_to_target on the request's thread *)

Goto(to) == req' = to
ReqOnly == UNCHANGED <<machine, phase, flags, worker, rel, raced>>

Limit == "reclaim" \in Ops /\ Serving /\ req = "idle" /\ Goto("check") /\ ReqOnly

\* swap covers the request, or the growth slot is taken; a reclaim ends well or with EAGAIN
Proceed ==
    /\ \/ req = "check" /\ Goto("reclaim")
       \/ req = "post" /\ Goto("idle")
       \/ req \in {"reclaim", "lastReclaim", "retry"} /\ Goto("idle")
       \/ req = "reclaim" /\ enabled /\ Goto("post")
    /\ ReqOnly

AskGrowth ==
    /\ \/ req = "check" /\ enabled /\ Goto("preWait")
       \/ req = "post" /\ Goto("postWait")
    /\ Submit("growFor")
    /\ UNCHANGED <<machine, phase, flags, at, path, rel, raced>>

\* the result of the growth that the request waits for, once it has left the queue
Answer(grown) ==
    Goto(IF Pending("growFor") \/ req \notin {"preWait", "postWait"} THEN req
         ELSE IF req = "preWait" THEN (IF grown = "failed" THEN "lastReclaim" ELSE "reclaim")
         ELSE IF grown = "grown" THEN "retry" ELSE "idle")

-----------------------------------------------------------------------------
(* The worker: growth and reclaim *)

TakeJob ==
    /\ at = "idle" /\ jobs # <<>>
    /\ at' = IF Head(jobs) = "growFor" THEN "grow" ELSE Head(jobs)
    /\ jobs' = Tail(jobs)
    /\ UNCHANGED <<machine, phase, flags, path, rel, req, raced>>

\* plan_growth: swap nearly gone, or memory high and swap filling; and room for another file
Trigger(filling) == tight \/ (mem = "high" /\ filling)
MayGrow(filling) == enabled /\ Trigger(filling) /\ Cardinality(on) + Cardinality(ghost) < MaxSwap

NextPath == CHOOSE f \in Files \ file : \A g \in Files \ file : f <= g

NoGrowth(filling) ==
    /\ at = "grow"
    /\ \/ ~MayGrow(filling) /\ Answer("none")
       \/ MayGrow(filling) /\ Answer("failed")    \* the disk has filled up since the plan
    /\ at' = "idle"
    /\ UNCHANGED <<machine, phase, flags, jobs, path, rel, raced>>

MainBusy == rel["main"].pc # "idle"

Allocate(filling) ==
    /\ \/ at = "grow" /\ MayGrow(filling) /\ Files # file /\ path' = NextPath /\ at' = "swapon"
       \/ at = "rewrite" /\ UNCHANGED path /\ at' = "swapon2"
    /\ file' = file \cup {path'}
    /\ raced' = (raced \/ MainBusy)
    /\ UNCHANGED <<mem, tight, on, ghost, phase, flags, jobs, rel, req>>

SwapOn ==
    /\ at \in {"swapon", "swapon2"} /\ path \in file
    /\ on' = on \cup {path}
    /\ at' = "idle" /\ path' = 0
    /\ Answer("grown")
    /\ UNCHANGED <<mem, tight, file, ghost, phase, flags, jobs, rel, raced>>

\* mkswap or swapon fails: discard the file, and write it out once instead of fallocate
SwapOnFails ==
    /\ file' = file \ {path}
    /\ \/ at = "swapon" /\ at' = "rewrite" /\ UNCHANGED <<path, req>>
       \/ at = "swapon2" /\ at' = "idle" /\ path' = 0 /\ Answer("failed")
    /\ UNCHANGED <<mem, tight, on, ghost, phase, flags, jobs, rel, raced>>

\* mutant: the callback waits for the growth it asked for, on the thread that would do it
ReclaimDoneWaits ==
    /\ at = "reclaim"
    /\ \/ at' = "idle" /\ UNCHANGED jobs
       \/ enabled /\ at' = "stuck" /\ jobs' = IF Pending("grow") THEN jobs ELSE Append(jobs, "grow")
    /\ UNCHANGED <<machine, phase, flags, path, rel, req, raced>>

\* _on_reclaim_done; EAGAIN asks for growth past the slot
ReclaimDone ==
    /\ at = "reclaim"
    /\ at' = "idle"
    /\ \/ UNCHANGED jobs
       \/ enabled /\ Submit("grow")
    /\ UNCHANGED <<machine, phase, flags, path, rel, req, raced>>

-----------------------------------------------------------------------------
(* SwapController.release, on the worker or on the main thread *)

Rel(t, pc, todo, cur) == rel' = [rel EXCEPT ![t] = [pc |-> pc, todo |-> todo, cur |-> cur]]
RelOnly == UNCHANGED <<mem, tight, flags, jobs, path, req, raced>>

\* should_shrink
BeginShrink ==
    /\ at = "shrink" /\ rel["worker"].pc = "idle"
    /\ IF on # {} /\ relaxed THEN Rel("worker", "files", on, 0) /\ UNCHANGED at
                             ELSE at' = "idle" /\ UNCHANGED rel
    /\ UNCHANGED <<file, on, ghost, phase>> /\ RelOnly

\* The main thread takes the files that hold nothing; the worker takes the emptiest file if
\* memory has room for its pages.  Which files that is stays open.
SwapOff(t, f) ==
    /\ rel[t].pc = "files" /\ f \in rel[t].todo
    /\ f \in on
    /\ on' = on \ {f}
    /\ Rel(t, "discard", rel[t].todo \ {f}, f)
    /\ UNCHANGED <<file, ghost, phase, at>> /\ RelOnly

\* unsafe, in use or failed: on to the next file
Skip(t, f) ==
    /\ rel[t].pc = "files" /\ f \in rel[t].todo
    /\ Rel(t, "files", rel[t].todo \ {f}, 0)
    /\ UNCHANGED <<file, on, ghost, phase, at>> /\ RelOnly

\* the idle path is limited to one file
Discard(t) ==
    /\ rel[t].pc = "discard"
    /\ file' = file \ {rel[t].cur}
    /\ Rel(t, "files", IF t = "worker" THEN {} ELSE rel[t].todo, 0)
    /\ UNCHANGED <<on, ghost, phase, at>> /\ RelOnly

StillActive(t) ==
    /\ rel[t].pc = "files" /\ rel[t].todo = {}
    /\ Rel(t, "orphans", on, 0)
    /\ UNCHANGED <<file, on, ghost, phase, at>> /\ RelOnly

\* mutant: whatever is on disk is an orphan
OrphansAll(t) ==
    /\ rel[t].pc = "orphans"
    /\ Rel(t, "sweep", file, 0)
    /\ UNCHANGED <<file, on, ghost, phase, at>> /\ RelOnly

Orphans(t) ==
    /\ rel[t].pc = "orphans"
    /\ Rel(t, "sweep", file \ rel[t].todo, 0)
    /\ UNCHANGED <<file, on, ghost, phase, at>> /\ RelOnly

\* swap whose file is deleted stays on, but is not found under its name any more
Sweep(t, f) ==
    /\ rel[t].pc = "sweep" /\ f \in rel[t].todo
    /\ file' = file \ {f}
    /\ on' = on \ {f} 
    /\ ghost' = IF f \in on THEN ghost \cup {f} ELSE ghost
    /\ Rel(t, "sweep", rel[t].todo \ {f}, 0)
    /\ UNCHANGED <<phase, at>> /\ RelOnly

EndRelease(t) ==
    /\ rel[t].pc = "sweep" /\ rel[t].todo = {}
    /\ Rel(t, "idle", {}, 0)
    /\ at' = IF t = "worker" THEN "idle" ELSE at
    /\ phase' = IF t = "main" /\ phase = "starting" THEN "up" ELSE phase
    /\ UNCHANGED <<file, on, ghost>> /\ RelOnly

-----------------------------------------------------------------------------
(* Start, shutdown, crash *)

Making == at \in {"grow", "swapon", "rewrite", "swapon2"}

\* _release_swap_on_exit, while the executor goes on
Shutdown ==
    /\ "restart" \in Ops
    /\ phase = "up" /\ phase' = "stopping"
    /\ Rel("main", "files", on, 0)
    /\ raced' = (raced \/ Making)
    /\ UNCHANGED <<machine, flags, worker, req>>

\* the process ends once the executor's queue is empty, or is killed
End(killed) ==
    /\ \/ killed /\ phase # "down" /\ "restart" \in Ops
       \/ phase = "stopping" /\ rel = NoRelease /\ jobs = <<>> /\ at = "idle" /\ req = "idle"
    /\ phase' = "down"
    /\ jobs' = <<>> /\ at' = "idle" /\ path' = 0
    /\ rel' = NoRelease /\ req' = "idle" /\ relaxed' = FALSE
    /\ UNCHANGED <<machine, enabled, raced>>

\* _reclaim_orphaned_swap, before any thread is started
Start ==
    /\ phase = "down" /\ phase' = "starting"
    /\ Rel("main", "files", on, 0)
    /\ UNCHANGED <<machine, flags, worker, req, raced>>

Release(t) ==
    \/ Discard(t) \/ StillActive(t) \/ Orphans(t) \/ EndRelease(t)
    \/ \E f \in Files : SwapOff(t, f) \/ Skip(t, f) \/ Sweep(t, f)

Work ==
    \/ TakeJob \/ SwapOn \/ SwapOnFails \/ ReclaimDone \/ BeginShrink
    \/ \E filling \in BOOLEAN : NoGrowth(filling) \/ Allocate(filling)

Next ==
    \/ \E m \in {"low", "high"}, t \in BOOLEAN : Pressure(m, t)
    \/ Relax \/ SwitchOff
    \/ RequestGrowth \/ TickRelease \/ TickReclaim
    \/ Limit \/ Proceed \/ AskGrowth
    \/ Work \/ \E t \in Threads : Release(t)
    \/ Shutdown \/ Start \/ \E killed \in BOOLEAN : End(killed)

\* a swapoff that can be done is not refused for ever
Fairness ==
    /\ WF_vars(Work) /\ WF_vars(Release("worker")) /\ WF_vars(Release("main"))
    /\ WF_vars(TickRelease) /\ WF_vars(Relax)
    /\ WF_vars(Proceed \/ AskGrowth)
    /\ SF_vars(\E f \in Files : SwapOff("worker", f))

Spec == Init /\ [][Next]_vars /\ Fairness

-----------------------------------------------------------------------------
\* A managed swapfile is never deleted while it is swapped on, unless the release at shutdown,
\* which does not run on the worker, met a growth.  (release's sweep of orphans, grow.)
NoSwapWithoutFile == ghost # {} => raced

\* When memory and swap stay relaxed and the service stays up, all swap that was added is
\* handed back, also after growth has been switched off.  (_tick_swap_release,
\* shrink_swap_if_idle, release.)
SwapIsHandedBack ==
    <>[](mem = "low" /\ ~tight /\ phase = "up") => []<>(on = {})

\* A request that limits memory by hand returns, whatever jobs its growth waits behind.
\* (reclaim_memory_to_target, the one-worker executor.)
LimitReturns == req # "idle" ~> req = "idle"
=============================================================================
