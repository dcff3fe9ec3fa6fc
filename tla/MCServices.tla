----------------------------- MODULE MCServices -----------------------------
(***************************************************************************)
(* What must eventually happen, for TLC: the prefetcher, a job's live log, *)
(* the lease of the dashboard's tabs, and swap with the requests that wait *)
(* for it.  part names the one that a behaviour is about; the variables of *)
(* the others rest, and their fairness asks for nothing.                   *)
(***************************************************************************)
EXTENDS TopConsumerPrefetcher

VARIABLES
  part,
  size, running, last, setups, pump, queue, stream, pane, shown, fetch, missed, late, crossed,
  page, net, lease, any, left, polled, service, held, overtaken,
  mem, tight, file, on, ghost, phase, enabled, relaxed, jobs, at, path, rel, req, raced

log  == <<size, running, last, setups, pump, queue, stream, pane, shown, fetch, missed, late, crossed>>
tabs == <<page, net, lease, any, left, polled, service, held, overtaken>>
swap == <<mem, tight, file, on, ghost, phase, enabled, relaxed, jobs, at, path, rel, req, raced>>

all == <<part, vars, log, tabs, swap>>

\* one job that ends and one that follows it
L == INSTANCE BenchLog WITH JobIds <- {1, 2}, MaxLog <- <<1, 3>>, Backlog <- 2, TailSize <- 1, ReadSize <- 2

\* the graces and the interval of ui_lease.py, in their proportions
U == INSTANCE UiLease
       WITH Tabs <- {"t1", "t2"}, Grace <- 7, Short <- 2, Interval <- 3, Startup <- 4, Misses <- 1

S == INSTANCE SwapLadder WITH Files <- {1, 2}, MaxSwap <- 1, Ops <- {"reclaim"}

InitServices ==
    /\ part \in {"prefetch", "log", "lease", "swap"}
    /\ Init /\ L!Init /\ U!Init /\ S!Init

NextServices ==
    /\ UNCHANGED part
    /\ \/ part = "prefetch" /\ Next /\ UNCHANGED <<log, tabs, swap>>
       \/ part = "log" /\ L!Next /\ UNCHANGED <<vars, tabs, swap>>
       \/ part = "lease" /\ U!Next /\ UNCHANGED <<vars, log, swap>>
       \/ part = "swap" /\ S!Next /\ UNCHANGED <<vars, log, tabs>>

\* The fairness of each part's own specification, while a behaviour is about it.
PrefetchFairness ==
    /\ WF_vars(part = "prefetch" /\ Tick)
    /\ \A w \in Workers : WF_vars(part = "prefetch" /\ WorkerStep(w))
    /\ \A t \in Threads : WF_vars(part = "prefetch" /\ StartStep(t))
    /\ WF_vars(part = "prefetch" /\ pc[Loop] # "idle" /\ LoopStep)

LogFairness ==
    /\ WF_log(part = "log" /\ L!View)
    /\ \A j \in {1, 2} : WF_log(part = "log" /\ L!Drain(j))

LeaseFairness ==
    /\ WF_tabs(part = "lease" /\ U!Watch) /\ WF_tabs(part = "lease" /\ U!Tick)
    /\ \A t \in {"t1", "t2"} :
         /\ WF_tabs(part = "lease" /\ U!Beat(t))
         /\ WF_tabs(part = "lease" /\ U!Heartbeat(t))
         /\ WF_tabs(part = "lease" /\ U!Release(t))

SwapFairness ==
    /\ WF_swap(part = "swap" /\ S!Work)
    /\ WF_swap(part = "swap" /\ S!Release("worker"))
    /\ WF_swap(part = "swap" /\ S!TickRelease) /\ WF_swap(part = "swap" /\ S!Relax)
    /\ WF_swap(part = "swap" /\ (S!Proceed \/ S!AskGrowth))
    /\ SF_swap(part = "swap" /\ \E f \in {1, 2} : S!SwapOff("worker", f))

SpecServices ==
    /\ InitServices /\ [][NextServices]_all
    /\ PrefetchFairness /\ LogFairness /\ LeaseFairness /\ SwapFairness

-----------------------------------------------------------------------------
\* What the user watches stays as it is: the pane shows one contiguous span of its job's
\* log, and the service does not stop under an open tab.
\* (applyDelta and catchUp of Benchmark.tsx; _should_stop of ui_lease.py.)
WhatIsWatchedStays == [][L!PaneIsContiguous']_log /\ U!OpenTabKeepsService

\* What was begun comes to its end: the gate opens again after every fetch and a critical
\* lookup returns even if fetches keep failing, a log that is followed is shown to its last
\* line, a service without tabs stops, swap that is no longer needed is handed back, and a
\* request that limits memory by hand returns.
\* (resolve_for_critical; _drain; _watch; _tick_swap_release and release;
\* reclaim_memory_to_target.)
LookupsReturn == GateReopens /\ CriticalLookupReturns
LogIsShown == L!LogArrives
ServiceStops == part = "lease" => U!ClosedUiStopsService
SwapSettles == S!SwapIsHandedBack /\ S!LimitReturns
EventuallySettles == LookupsReturn /\ LogIsShown /\ ServiceStops /\ SwapSettles
=============================================================================
