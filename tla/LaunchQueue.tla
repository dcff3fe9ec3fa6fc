----------------------------- MODULE LaunchQueue -----------------------------
(***************************************************************************)
(* Apps launched while pressure is critical: AppIntercept suspends them    *)
(* with SIGSTOP, _run_handle_loop ranks them in a MaxPriorityQueue, and    *)
(* the monitor loop resumes them one per tick once pressure has left       *)
(* critical; the user may cancel them meanwhile.                           *)
(*                                                                         *)
(* Four kinds of thread pass one launch from hand to hand, none of them    *)
(* takes a lock, and MaxPriorityQueue is a heap that any of them changes;  *)
(* its heap is a bag here, with ties broken in any way.                    *)
(* Two handlers swallow whatever raises between taking and passing it on.  *)
(* MonitorLoop models when the loop drains; here it may whenever pressure  *)
(* is not critical.  PIDs are not reused, and the status shown for an app  *)
(* is left out.                                                            *)
(***************************************************************************)
EXTENDS Integers, FiniteSets, Sequences

CONSTANTS
    Procs,          \* processes of controlled apps, by PID
    NoProc,
    Apps,
    AppOf,          \* the app a process belongs to
    Rank,           \* app_priority of an app
    CriticalRank,   \* the rank of priority "critical"
    Cancellers,     \* REST threads serving /app/cancel_relaunch
    MayStop,        \* may the service be shut down?
    MaxEvents       \* bound: exec events not yet polled

ASSUME LaunchAssumption ==
    /\ NoProc \notin Procs
    /\ AppOf \in [Procs -> Apps] /\ Rank \in [Apps -> Nat]
    /\ MayStop \in BOOLEAN
    /\ MaxEvents \in Nat \ {0}

VARIABLES
    up,         \* DynamicBalancer.is_running
    proc,       \* what the kernel does with each process
    level,      \* the pressure level, critical or not
    flag,       \* AppIntercept._system_critical
    events,     \* exec events in the perf buffer, oldest first
    handled,    \* handled_processes
    caught,     \* the process the intercept thread has sent SIGSTOP
    pending,    \* app_pending_queue
    ranking,    \* the item _run_handle_loop took from it
    queue,      \* app_priority_queue: how many items it has for each process
    monitor,    \* the monitor loop in _drain_pending_app_queue
    releasing,  \* the item it popped
    cancel,     \* per REST thread: where it is, the heap it saw and what it will kill
    raced,      \* history: has remove_if discarded a change made while it ran?
    dropped     \* history: launches that an exception was swallowed for

threadVars == <<caught, ranking, monitor, releasing>>
queueVars == <<pending, queue>>
cancelVars == <<cancel, raced, dropped>>
vars == <<up, proc, level, flag, events, handled, threadVars, queueVars, cancelVars>>

EmptyQueue == [p \in Procs |-> 0]
Items(q) == {p \in Procs : q[p] > 0}

Idle == [at |-> "idle", seen |-> EmptyQueue, kill |-> {}]

TypeOK ==
    /\ up \in BOOLEAN /\ flag \in BOOLEAN
    /\ proc \in [Procs -> {"new", "running", "suspended", "gone"}]
    /\ level \in {"calm", "critical"}
    /\ events \in Seq(Procs) /\ Len(events) <= MaxEvents
    /\ handled \subseteq Procs
    /\ {caught, ranking, releasing} \subseteq Procs \cup {NoProc}
    /\ pending \in Seq(Procs)
    /\ queue \in [Procs -> Nat]
    /\ monitor \in {"idle", "pop", "resume"}
    /\ (releasing # NoProc) <=> (monitor = "resume")
    /\ cancel \in [Cancellers -> [at : {"idle", "swap", "kill"},
                                  seen : [Procs -> Nat], kill : SUBSET Procs]]
    /\ \A t \in Cancellers : cancel[t].at = "idle" => cancel[t] = Idle
    /\ raced \in BOOLEAN /\ dropped \subseteq Procs

Init ==
    /\ up = TRUE
    /\ proc = [p \in Procs |-> "new"]
    /\ level = "calm" /\ flag = FALSE
    /\ events = <<>> /\ handled = {}
    /\ caught = NoProc /\ ranking = NoProc
    /\ pending = <<>> /\ queue = EmptyQueue
    /\ monitor = "idle" /\ releasing = NoProc
    /\ cancel = [t \in Cancellers |-> Idle] /\ raced = FALSE /\ dropped = {}

(***************************************************************************)
(* Signals, and the processes themselves                                   *)
(***************************************************************************)
Stop(p) == proc' = IF proc[p] = "running" THEN [proc EXCEPT ![p] = "suspended"] ELSE proc
Continue(p) == proc' = IF proc[p] = "suspended" THEN [proc EXCEPT ![p] = "running"] ELSE proc
Kill(p) == proc' = [proc EXCEPT ![p] = "gone"]

\* A new process, or a running one again (a wrapper that becomes its daemon).
Exec(p) ==
    /\ proc[p] \in {"new", "running"}
    /\ Len(events) < MaxEvents
    /\ proc' = [proc EXCEPT ![p] = "running"]
    /\ events' = Append(events, p)
    /\ UNCHANGED <<up, level, flag, handled, threadVars, queueVars, cancelVars>>

Exit(p) ==
    /\ proc[p] \in {"running", "suspended"}
    /\ Kill(p)
    /\ UNCHANGED <<up, level, flag, events, handled, threadVars, queueVars, cancelVars>>

\* The refresh thread sets the level and then calls the critical-state listeners.
ChangeLevel ==
    /\ flag = (level = "critical")
    /\ level' = IF level = "calm" THEN "critical" ELSE "calm"
    /\ UNCHANGED <<up, proc, flag, events, handled, threadVars, queueVars, cancelVars>>

Notify ==
    /\ flag # (level = "critical")
    /\ flag' = (level = "critical")
    /\ UNCHANGED <<up, proc, level, events, handled, threadVars, queueVars, cancelVars>>

(***************************************************************************)
(* The intercept thread                                                    *)
(***************************************************************************)
\* Mutant: a second exec of the same process is not recognised.
AlreadyHandledNever(p) == FALSE
\* is_process_handled: psutil cannot tell for a process that is gone.
AlreadyHandled(p) == p \in handled /\ proc[p] # "gone"

\* print_event and _handle_launch_event, up to the SIGSTOP.
PollEvent ==
    /\ up /\ caught = NoProc /\ events # <<>>
    /\ events' = Tail(events)
    /\ LET p == Head(events)
       IN  \/ /\ AlreadyHandled(p)
              /\ UNCHANGED <<proc, handled, caught>>
           \/ /\ ~AlreadyHandled(p)
              /\ Rank[AppOf[p]] = CriticalRank \/ ~flag
              /\ handled' = handled \cup {p}
              /\ UNCHANGED <<proc, caught>>
           \/ /\ ~AlreadyHandled(p)
              /\ Rank[AppOf[p]] # CriticalRank /\ flag
              /\ Stop(p)
              /\ caught' = p
              /\ UNCHANGED handled
    /\ UNCHANGED <<up, level, flag, ranking, monitor, releasing, queueVars, cancelVars>>

\* Mutant: the launch is dropped when pressure left critical meanwhile.
RecheckDrops(p) == UNCHANGED <<proc, dropped>> /\ (IF flag THEN pending' = Append(pending, p) ELSE UNCHANGED pending)
\* handle_monitored_app: let it run if pressure left critical meanwhile, else
\* queue it, unless the notification or the database raises before that.
Recheck(p) ==
    \/ ~flag /\ Continue(p) /\ UNCHANGED <<pending, dropped>>
    \/ flag /\ pending' = Append(pending, p) /\ UNCHANGED <<proc, dropped>>
    \/ flag /\ dropped' = dropped \cup {p} /\ UNCHANGED <<proc, pending>>

HandleCaught ==
    /\ caught # NoProc
    /\ Recheck(caught)
    /\ handled' = handled \cup {caught}
    /\ caught' = NoProc
    /\ UNCHANGED <<up, level, flag, events, ranking, monitor, releasing, queue, cancel, raced>>

(***************************************************************************)
(* The handle thread                                                       *)
(***************************************************************************)
TakePending ==
    /\ up /\ ranking = NoProc /\ pending # <<>>
    /\ ranking' = Head(pending)
    /\ pending' = Tail(pending)
    /\ UNCHANGED <<up, proc, level, flag, events, handled, caught, monitor, releasing, queue, cancelVars>>

PutQueue ==
    /\ ranking # NoProc
    /\ queue' = [queue EXCEPT ![ranking] = @ + 1]
    /\ ranking' = NoProc
    /\ UNCHANGED <<up, proc, level, flag, events, handled, caught, monitor, releasing, pending, cancelVars>>

\* The look-up of the priority raises, and the loop's handler goes on with the next.
PutFails ==
    /\ ranking # NoProc
    /\ dropped' = dropped \cup {ranking}
    /\ ranking' = NoProc
    /\ UNCHANGED <<up, proc, level, flag, events, handled, caught, monitor, releasing, queueVars, cancel, raced>>

(***************************************************************************)
(* The monitor loop                                                        *)
(***************************************************************************)
BeginDrain ==
    /\ up /\ monitor = "idle"
    /\ level = "calm" /\ Items(queue) # {}
    /\ monitor' = "pop"
    /\ UNCHANGED <<up, proc, level, flag, events, handled, caught, ranking, releasing, queueVars, cancelVars>>

\* The items heappop may return.  Among equals the code takes the oldest.
Top == {p \in Items(queue) : \A q \in Items(queue) : Rank[AppOf[q]] <= Rank[AppOf[p]]}

\* Mutant: the item is removed after the SIGCONT, which raises if p is gone.
WithoutUnlessGone(p) == IF proc[p] = "gone" THEN queue ELSE [queue EXCEPT ![p] = @ - 1]
Without(p) == [queue EXCEPT ![p] = @ - 1]

\* heappop on a heap emptied meanwhile raises, and the loop's handler goes on.
Pop ==
    /\ monitor = "pop"
    /\ \/ /\ Items(queue) = {}
          /\ monitor' = "idle"
          /\ UNCHANGED <<queue, releasing>>
       \/ \E p \in Top :
             /\ releasing' = p
             /\ queue' = Without(p)
             /\ monitor' = "resume"
    /\ UNCHANGED <<up, proc, level, flag, events, handled, caught, ranking, pending, cancelVars>>

\* Mutant: the item stays in the loop's hand.
ResumeKeeps ==
    /\ monitor = "resume"
    /\ Continue(releasing)
    /\ monitor' = "idle"
    /\ UNCHANGED <<up, level, flag, events, handled, caught, ranking, releasing, queueVars, cancelVars>>
\* SIGCONT, which raises if the process is gone.
Resume ==
    /\ monitor = "resume"
    /\ Continue(releasing)
    /\ monitor' = "idle" /\ releasing' = NoProc
    /\ UNCHANGED <<up, level, flag, events, handled, caught, ranking, queueVars, cancelVars>>

(***************************************************************************)
(* cancel_relaunch_by_app_id                                               *)
(***************************************************************************)
Of(a) == {p \in Procs : AppOf[p] = a}

\* remove_if walks the heap ...
Scan(t, a) ==
    /\ up /\ cancel[t].at = "idle"
    /\ cancel' = [cancel EXCEPT ![t] = [at |-> "swap", seen |-> queue,
                                        kill |-> Items(queue) \cap Of(a)]]
    /\ UNCHANGED <<up, proc, level, flag, events, handled, threadVars, queueVars, raced, dropped>>

\* ... and puts a new list of what it keeps in its place.
Swap(t) ==
    /\ cancel[t].at = "swap"
    /\ queue' = [p \in Procs |-> IF p \in cancel[t].kill THEN 0 ELSE cancel[t].seen[p]]
    /\ raced' = (raced \/ queue # cancel[t].seen)
    /\ cancel' = [cancel EXCEPT ![t].at = "kill", ![t].seen = EmptyQueue]
    /\ UNCHANGED <<up, proc, level, flag, events, handled, threadVars, pending, dropped>>

\* SIGKILL to each removed launch.
KillNext(t) ==
    /\ cancel[t].at = "kill"
    /\ \/ /\ cancel[t].kill = {}
          /\ cancel' = [cancel EXCEPT ![t] = Idle]
          /\ UNCHANGED proc
       \/ \E p \in cancel[t].kill :
             /\ Kill(p)
             /\ cancel' = [cancel EXCEPT ![t].kill = @ \ {p}]
    /\ UNCHANGED <<up, level, flag, events, handled, threadVars, queueVars, raced, dropped>>

CancelStep(t) == Swap(t) \/ KillNext(t)

\* shutdown() clears is_running; each loop ends at its next test of it.
Shutdown ==
    /\ MayStop /\ up
    /\ up' = FALSE
    /\ UNCHANGED <<proc, level, flag, events, handled, threadVars, queueVars, cancelVars>>

-----------------------------------------------------------------------------
InterceptStep == PollEvent \/ HandleCaught
HandleStep == TakePending \/ PutQueue \/ PutFails
MonitorStep == BeginDrain \/ Pop \/ Resume

Next ==
    \/ InterceptStep \/ HandleStep \/ MonitorStep
    \/ \E p \in Procs : Exec(p) \/ Exit(p)
    \/ ChangeLevel \/ Notify \/ Shutdown
    \/ \E t \in Cancellers : CancelStep(t) \/ \E a \in Apps : Scan(t, a)

\* Every thread goes on running: the loops until is_running is cleared, a
\* request until it is answered, the refresh thread through its listeners.
Fairness ==
    /\ WF_vars(InterceptStep) /\ WF_vars(HandleStep) /\ WF_vars(MonitorStep)
    /\ WF_vars(Notify)
    /\ \A t \in Cancellers : WF_vars(CancelStep(t))

Spec == Init /\ [][Next]_vars /\ Fairness

-----------------------------------------------------------------------------
\* The places that answer for a launch.
Threads(p) == {t \in {"intercept", "handle", "monitor"} :
                  p = [intercept |-> caught, handle |-> ranking, monitor |-> releasing][t]}
Waiting(p) == {i \in DOMAIN pending : pending[i] = p}
\* The cancels that have taken a launch out of the queue and not yet killed it.
Doomed(p) == {t \in Cancellers : cancel[t].at = "kill" /\ p \in cancel[t].kill}

\* A launch suspended by the service is never forgotten: some thread or queue
\* still has it, to resume it or, if cancelled, to kill it, although it passes
\* through four unlocked hands.  Only a cancel that overlaps another change of
\* the priority queue can lose one, or an exception while it is handed on.
NothingStranded ==
    raced \/ \A p \in Procs \ dropped : proc[p] = "suspended" =>
                 queue[p] > 0 \/ Threads(p) \cup Waiting(p) \cup Doomed(p) # {}

\* A launch that is alive is in one place only, however often its process
\* execs, so that no thread resumes it while another one kills it.
QueuedOnce ==
    raced \/ \A p \in Procs : proc[p] \in {"running", "suspended"} =>
        Cardinality(Threads(p)) + Cardinality(Waiting(p)) + queue[p] + Cardinality(Doomed(p)) <= 1

\* Once pressure stays out of critical, no launch stays suspended: neither a
\* process that is gone, nor a queue emptied by a cancel, nor one that an
\* exception was swallowed for, stops the releases of the others.
CalmReleases ==
    \A p \in Procs : []~raced /\ <>[](level = "calm" /\ up) =>
        <>[](proc[p] = "suspended" => p \in dropped)
=============================================================================
