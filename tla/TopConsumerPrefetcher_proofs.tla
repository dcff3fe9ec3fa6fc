-------------------- MODULE TopConsumerPrefetcher_proofs --------------------
(***************************************************************************)
(* Type correctness of the prefetcher, the invariant of its gate and the   *)
(* stability of its cache, for every set of threads and workers and every  *)
(* setting of the time constants.                                          *)
(***************************************************************************)
EXTENDS TopConsumerPrefetcher, TLAPS

\* Every step of the prefetcher keeps its variables in their types.
LEMMA TypeStep == TypeOK /\ [Next]_vars => TypeOK'
<1> SUFFICES ASSUME TypeOK, [Next]_vars PROVE TypeOK'
  OBVIOUS
<1> USE TimeAssumption DEF TypeOK, Threads, StartSteps, ResolveSteps, Goto, Age, Warm
<1>1. CASE Tick
  BY <1>1 DEF Tick
<1>2. CASE CallResolve
  BY <1>2 DEF CallResolve
<1>3. CASE ReadCache
  BY <1>3 DEF ReadCache
<1>4. CASE CheckInflightCold
  BY <1>4 DEF CheckInflightCold
<1>5. CASE WaitInflight
  BY <1>5 DEF WaitInflight
<1>6. CASE RereadCache
  BY <1>6 DEF RereadCache
<1>7. CASE SyncFetch
  BY <1>7 DEF SyncFetch
<1>8. ASSUME NEW t \in Threads, CallStart(t) PROVE TypeOK'
  BY <1>8 DEF CallStart
<1>9. ASSUME NEW t \in Threads, CheckInflight(t) PROVE TypeOK'
  BY <1>9 DEF CheckInflight
<1>10. ASSUME NEW t \in Threads, CheckFresh(t) PROVE TypeOK'
  BY <1>10 DEF CheckFresh
<1>11. ASSUME NEW t \in Threads, Spawn(t) PROVE TypeOK'
  BY <1>11 DEF Spawn
<1>12. ASSUME NEW w \in Workers, FetchDone(w) PROVE TypeOK'
  BY <1>12 DEF FetchDone
<1>13. ASSUME NEW w \in Workers, FetchFailed(w) PROVE TypeOK'
  BY <1>13 DEF FetchFailed
<1>14. ASSUME NEW w \in Workers, ClearInflight(w) PROVE TypeOK'
  BY <1>14 DEF ClearInflight
<1>15. CASE UNCHANGED vars
  BY <1>15 DEF vars
<1> QED
  BY <1>1, <1>2, <1>3, <1>4, <1>5, <1>6, <1>7, <1>8, <1>9, <1>10, <1>11,
     <1>12, <1>13, <1>14, <1>15
     DEF Next, LoopStep, StartStep, WorkerStep

\* The prefetcher's variables keep their types in every behaviour.
THEOREM TypeCorrect == Spec => []TypeOK
<1>1. Init => TypeOK
  <2> SUFFICES ASSUME Init PROVE TypeOK
    OBVIOUS
  <2>1. now \in 1..MaxTime /\ 0 \in 0..MaxTime /\ deadline \in 0..(MaxTime + CRITICAL_WAIT)
    BY TimeAssumption DEF Init
  <2>2. cache \in [apps : BOOLEAN, fetched_at : 0..MaxTime]
    BY <2>1, Zenon DEF Init
  <2>3. inflight \in BOOLEAN
    BY DEF Init
  <2>4. pc \in [Threads -> {"idle"} \cup StartSteps \cup ResolveSteps]
    BY DEF Init
  <2>5. worker \in [Workers -> {"idle", "fetching", "finishing"}]
    BY DEF Init
  <2> QED
    BY <2>1, <2>2, <2>3, <2>4, <2>5 DEF TypeOK
<1> QED
  BY <1>1, TypeStep, PTL DEF Spec

\* A set gate always has a fetch thread that has yet to clear it, however many
\* triggers raced past the check: the gate can never wedge.
THEOREM GateIsOwned == Spec => []GateHasOwner
<1>1. Init => GateHasOwner
  BY DEF Init, GateHasOwner
<1>2. TypeOK /\ GateHasOwner /\ [Next]_vars => GateHasOwner'
  <2> SUFFICES ASSUME TypeOK, GateHasOwner, [Next]_vars PROVE GateHasOwner'
    OBVIOUS
  <2> USE DEF TypeOK, GateHasOwner
  <2>1. ASSUME NEW t \in Threads, Spawn(t) PROVE GateHasOwner'
    BY <2>1 DEF Spawn
  <2>2. ASSUME NEW w \in Workers, FetchDone(w) \/ FetchFailed(w) PROVE GateHasOwner'
    BY <2>2 DEF FetchDone, FetchFailed
  <2>3. ASSUME NEW w \in Workers, ClearInflight(w) PROVE GateHasOwner'
    BY <2>3 DEF ClearInflight
  <2>4. CASE UNCHANGED <<inflight, worker>>
    BY <2>4
  <2>5. CASE Tick \/ LoopStep
    BY <2>4, <2>5 DEF Tick, LoopStep, CallResolve, ReadCache, CheckInflightCold,
                      WaitInflight, RereadCache, SyncFetch
  <2>6. ASSUME NEW t \in Threads, CallStart(t) \/ CheckInflight(t) \/ CheckFresh(t)
        PROVE  GateHasOwner'
    BY <2>4, <2>6 DEF CallStart, CheckInflight, CheckFresh
  <2>7. CASE UNCHANGED vars
    BY <2>4, <2>7 DEF vars
  <2> QED
    BY <2>1, <2>2, <2>3, <2>5, <2>6, <2>7 DEF Next, StartStep, WorkerStep
<1> QED
  BY <1>1, <1>2, TypeCorrect, PTL DEF Spec

\* No answer is stamped with a time that is yet to come.
NotAhead == cache.fetched_at <= now

\* One step neither stamps the cache ahead of the clock nor turns its stamp back.
LEMMA StampStep ==
    TypeOK /\ NotAhead /\ [Next]_vars => NotAhead' /\ cache'.fetched_at >= cache.fetched_at
<1> SUFFICES ASSUME TypeOK, NotAhead, [Next]_vars
             PROVE  NotAhead' /\ cache'.fetched_at >= cache.fetched_at
  OBVIOUS
<1>0. now \in Nat /\ cache.fetched_at \in Nat
  BY DEF TypeOK
<1>1. CASE Tick
  BY <1>0, <1>1 DEF Tick, NotAhead
<1>2. ASSUME NEW w \in Workers, FetchDone(w)
      PROVE  NotAhead' /\ cache'.fetched_at >= cache.fetched_at
  <2>1. cache'.fetched_at = now /\ now' = now
    BY <1>2 DEF FetchDone
  <2> QED
    BY <1>0, <2>1 DEF NotAhead
<1>3. CASE UNCHANGED <<now, cache>>
  BY <1>0, <1>3 DEF NotAhead
<1>4. CASE LoopStep
  BY <1>3, <1>4 DEF LoopStep, CallResolve, ReadCache, CheckInflightCold, WaitInflight, RereadCache,
                    SyncFetch
<1>5. ASSUME NEW t \in Threads, CallStart(t) \/ StartStep(t)
      PROVE  NotAhead' /\ cache'.fetched_at >= cache.fetched_at
  BY <1>3, <1>5 DEF CallStart, StartStep, CheckInflight, CheckFresh, Spawn
<1>6. ASSUME NEW w \in Workers, FetchFailed(w) \/ ClearInflight(w)
      PROVE  NotAhead' /\ cache'.fetched_at >= cache.fetched_at
  BY <1>3, <1>6 DEF FetchFailed, ClearInflight
<1>7. CASE UNCHANGED vars
  BY <1>3, <1>7 DEF vars
<1> QED
  BY <1>1, <1>2, <1>4, <1>5, <1>6, <1>7 DEF Next, WorkerStep

\* A completed fetch is never forgotten, and in whatever order racing fetch threads finish, a
\* newer answer is never replaced by one with an older stamp (resolve_for_critical's test of
\* _cache["fetched_at"]).
THEOREM WarmStaysWarm == Spec => WarmIsStable
<1>1. Init => NotAhead
  BY DEF Init, NotAhead
<1>2. TypeOK /\ NotAhead /\ [Next]_vars => [cache'.fetched_at >= cache.fetched_at]_vars
  BY StampStep
<1>3. TypeOK /\ NotAhead /\ [Next]_vars => NotAhead'
  BY StampStep
<1> QED
  BY <1>1, <1>2, <1>3, TypeCorrect, PTL DEF Spec, WarmIsStable
=============================================================================
