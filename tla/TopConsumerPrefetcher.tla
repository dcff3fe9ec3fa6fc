----------------------- MODULE TopConsumerPrefetcher -----------------------
(***************************************************************************)
(* The background-warmed cache of the top resource consumers               *)
(* (class TopConsumerPrefetcher of balancer/balancer/balancer.py).         *)
(*                                                                         *)
(* Two threads of the service call it.  The monitor loop calls start() on  *)
(* its pressure edges and resolve_for_critical() when it needs the answer; *)
(* the pressure-refresh thread calls start() from the critical-state       *)
(* listener.  A start() that gets past both of its checks sets _inflight   *)
(* and spawns a worker thread, which runs the sampling pipeline, stores    *)
(* the answer under _lock and clears _inflight.                            *)
(*                                                                         *)
(* Every access to _inflight and every block under _lock is one step, so   *)
(* that the gap between "is a fetch in flight?" and "mark one in flight"   *)
(* is visible.  The sampled list is abstracted to whether it is empty.     *)
(***************************************************************************)
EXTENDS Naturals

CONSTANTS
    Loop,           \* the monitor loop, the only caller of resolve_for_critical
    Listeners,      \* the other threads that call start()
    Workers,        \* identities of the fetch threads that may be alive at once
    CACHE_TTL,      \* debounce window of start()
    MAX_CACHE_AGE,  \* age past which a cached answer is refreshed
    CRITICAL_WAIT,  \* longest wait for an in-flight fetch on a cold start
    MaxTime         \* bound: the last instant of the clock

ASSUME LoopAssumption == Loop \notin Listeners
ASSUME TimeAssumption == /\ MaxTime \in Nat \ {0}
                         /\ CACHE_TTL \in Nat
                         /\ MAX_CACHE_AGE \in Nat
                         /\ CRITICAL_WAIT \in Nat \ {0}

VARIABLES
    now,        \* time.time(); starts after 0, the instant that means "never"
    cache,      \* _cache: is the app list non-empty, and when it was stored
    inflight,   \* _inflight.is_set()
    pc,         \* where each calling thread is in start() or resolve_for_critical()
    worker,     \* where each fetch thread is
    deadline    \* when the wait of a cold resolve_for_critical() gives up

vars == <<now, cache, inflight, pc, worker, deadline>>

Threads == {Loop} \cup Listeners

\* The steps of start().
StartSteps == {"start", "check_fresh", "spawn"}
\* The steps of resolve_for_critical().
ResolveSteps == {"resolve", "check_inflight", "wait", "reread", "sync"}

TypeOK ==
    /\ now \in 1..MaxTime
    /\ cache \in [apps : BOOLEAN, fetched_at : 0..MaxTime]
    /\ inflight \in BOOLEAN
    /\ pc \in [Threads -> {"idle"} \cup StartSteps \cup ResolveSteps]
    /\ worker \in [Workers -> {"idle", "fetching", "finishing"}]
    /\ deadline \in 0..(MaxTime + CRITICAL_WAIT)

Init ==
    /\ now = 1
    /\ cache = [apps |-> FALSE, fetched_at |-> 0]
    /\ inflight = FALSE
    /\ pc = [t \in Threads |-> "idle"]
    /\ worker = [w \in Workers |-> "idle"]
    /\ deadline = 0

Age == now - cache.fetched_at
Warm == cache.fetched_at # 0
Goto(t, label) == pc' = [pc EXCEPT ![t] = label]

Tick ==
    /\ now < MaxTime
    /\ now' = now + 1
    /\ UNCHANGED <<cache, inflight, pc, worker, deadline>>

(***************************************************************************)
(* start(reason)                                                           *)
(***************************************************************************)
\* A trigger fires: a pressure edge in the loop, or the critical listener.
CallStart(t) ==
    /\ pc[t] = "idle"
    /\ Goto(t, "start")
    /\ UNCHANGED <<now, cache, inflight, worker, deadline>>

\* `if self._inflight.is_set(): return`
CheckInflight(t) ==
    /\ pc[t] = "start"
    /\ Goto(t, IF inflight THEN "idle" ELSE "check_fresh")
    /\ UNCHANGED <<now, cache, inflight, worker, deadline>>

\* Under _lock: a non-empty answer younger than CACHE_TTL ends the call.
CheckFresh(t) ==
    /\ pc[t] = "check_fresh"
    /\ Goto(t, IF cache.apps /\ Age < CACHE_TTL THEN "idle" ELSE "spawn")
    /\ UNCHANGED <<now, cache, inflight, worker, deadline>>

\* `self._inflight.set()` and the start of the worker thread.
Spawn(t) ==
    /\ pc[t] = "spawn"
    /\ inflight' = TRUE
    /\ \E w \in Workers :
          /\ worker[w] = "idle"
          /\ worker' = [worker EXCEPT ![w] = "fetching"]
    /\ Goto(t, "idle")
    /\ UNCHANGED <<now, cache, deadline>>

(***************************************************************************)
(* The worker thread                                                       *)
(***************************************************************************)
\* Mutant: the answer is stamped with the time it expires.
FetchDoneExpiry(w) ==
    /\ worker[w] = "fetching"
    /\ \E found \in BOOLEAN : cache' = [apps |-> found, fetched_at |-> now + CACHE_TTL]
    /\ worker' = [worker EXCEPT ![w] = "finishing"]
    /\ UNCHANGED <<now, inflight, pc, deadline>>

\* _fetch() returned: store the answer under _lock.
FetchDone(w) ==
    /\ worker[w] = "fetching"
    /\ \E found \in BOOLEAN : cache' = [apps |-> found, fetched_at |-> now]
    /\ worker' = [worker EXCEPT ![w] = "finishing"]
    /\ UNCHANGED <<now, inflight, pc, deadline>>

\* Mutant: the gate is cleared on the success path only, not in a finally.
FetchFailedNoFinally(w) ==
    /\ worker[w] = "fetching"
    /\ worker' = [worker EXCEPT ![w] = "idle"]
    /\ UNCHANGED <<now, cache, inflight, pc, deadline>>

\* Mutant: a failed fetch drops the last good answer.
FetchFailedDropsCache(w) ==
    /\ worker[w] = "fetching"
    /\ cache' = [apps |-> FALSE, fetched_at |-> 0]
    /\ worker' = [worker EXCEPT ![w] = "finishing"]
    /\ UNCHANGED <<now, inflight, pc, deadline>>

\* _fetch() raised: the exception is logged and the cache left as it was.
FetchFailed(w) ==
    /\ worker[w] = "fetching"
    /\ worker' = [worker EXCEPT ![w] = "finishing"]
    /\ UNCHANGED <<now, cache, inflight, pc, deadline>>

\* `finally: self._inflight.clear()`
ClearInflight(w) ==
    /\ worker[w] = "finishing"
    /\ inflight' = FALSE
    /\ worker' = [worker EXCEPT ![w] = "idle"]
    /\ UNCHANGED <<now, cache, pc, deadline>>

(***************************************************************************)
(* resolve_for_critical(), called by the monitor loop only                 *)
(***************************************************************************)
CallResolve ==
    /\ pc[Loop] = "idle"
    /\ Goto(Loop, "resolve")
    /\ UNCHANGED <<now, cache, inflight, worker, deadline>>

\* A completed fetch is an answer whatever it found.  Past MAX_CACHE_AGE the
\* call still answers from the cache, after a start("stale_refresh").
ReadCache ==
    /\ pc[Loop] = "resolve"
    /\ Goto(Loop, IF ~Warm THEN "check_inflight"
                  ELSE IF Age > MAX_CACHE_AGE THEN "start" ELSE "idle")
    /\ UNCHANGED <<now, cache, inflight, worker, deadline>>

\* Nothing has completed yet: if a fetch is in flight, wait for it.
CheckInflightCold ==
    /\ pc[Loop] = "check_inflight"
    /\ Goto(Loop, IF inflight THEN "wait" ELSE "sync")
    /\ deadline' = IF inflight THEN now + CRITICAL_WAIT ELSE deadline
    /\ UNCHANGED <<now, cache, inflight, worker>>

\* Mutant: a cold lookup waits for an answer, without a timeout.
WaitForAnswer ==
    /\ pc[Loop] = "wait"
    /\ Warm
    /\ Goto(Loop, "reread")
    /\ UNCHANGED <<now, cache, inflight, worker, deadline>>

\* `self._inflight.wait(CRITICAL_WAIT)`: Event.wait() returns as soon as the
\* event is set, and otherwise at the timeout.
WaitInflight ==
    /\ pc[Loop] = "wait"
    /\ inflight \/ now >= deadline \/ now = MaxTime
    /\ Goto(Loop, "reread")
    /\ UNCHANGED <<now, cache, inflight, worker, deadline>>

\* The fetch that completed during the wait is the answer, or block.
RereadCache ==
    /\ pc[Loop] = "reread"
    /\ Goto(Loop, IF Warm THEN "idle" ELSE "sync")
    /\ UNCHANGED <<now, cache, inflight, worker, deadline>>

\* The blocking fetch.  Its answer goes to the caller and not into the cache.
SyncFetch ==
    /\ pc[Loop] = "sync"
    /\ Goto(Loop, "idle")
    /\ UNCHANGED <<now, cache, inflight, worker, deadline>>

LoopStep ==
    \/ CallResolve
    \/ ReadCache
    \/ CheckInflightCold
    \/ WaitInflight
    \/ RereadCache
    \/ SyncFetch

StartStep(t) ==
    \/ CheckInflight(t)
    \/ CheckFresh(t)
    \/ Spawn(t)

WorkerStep(w) ==
    \/ FetchDone(w)
    \/ FetchFailed(w)
    \/ ClearInflight(w)

Next ==
    \/ Tick
    \/ LoopStep
    \/ \E t \in Threads : CallStart(t) \/ StartStep(t)
    \/ \E w \in Workers : WorkerStep(w)

\* The clock, the worker threads and the calls already begun make progress:
\* the interpreter schedules every runnable thread and the sampling pipeline
\* returns or raises.  No trigger is assumed to fire.
Fairness ==
    /\ WF_vars(Tick)
    /\ \A w \in Workers : WF_vars(WorkerStep(w))
    /\ \A t \in Threads : WF_vars(StartStep(t))
    /\ WF_vars(LoopStep /\ pc[Loop] # "idle")

Spec == Init /\ [][Next]_vars /\ Fairness

-----------------------------------------------------------------------------
(***************************************************************************)
(* What holds                                                              *)
(***************************************************************************)
\* A set gate always has a fetch thread that has yet to clear it, although
\* racing triggers may have spawned several threads and each of them clears
\* the one gate: start() is never refused by a fetch that no longer exists.
GateHasOwner == inflight => \E w \in Workers : worker[w] # "idle"

\* A completed fetch is never forgotten and the time it is stamped with never
\* runs backwards, in whatever order racing fetch threads finish: the validity
\* test of resolve_for_critical() ("has a fetch ever completed") is stable.
WarmIsStable == [][cache'.fetched_at >= cache.fetched_at]_vars

\* The gate opens again after every fetch, the failed ones included.
GateReopens == inflight ~> ~inflight

\* The critical path gets its answer (from the cache, where a stale one sends
\* the loop through start() first, or from its own fetch): a lookup never waits
\* for ever on background fetches that keep failing.
CriticalLookupReturns == pc[Loop] \in ResolveSteps ~> pc[Loop] \notin ResolveSteps
=============================================================================
