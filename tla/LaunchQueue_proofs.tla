-------------------------- MODULE LaunchQueue_proofs --------------------------
(***************************************************************************)
(* NothingStranded, QueuedOnce and TypeOK of LaunchQueue, for any          *)
(* processes, apps, ranks and number of concurrent cancels.                *)
(*                                                                         *)
(* NothingStranded is inductive beside the shape of the state: each step   *)
(* hands a suspended launch on before it lets go of it.  QueuedOnce needs  *)
(* that whoever holds a living process is the only one, that what is held  *)
(* is known to the intercept thread, and that what a cancel is about to    *)
(* swap out was found in the heap.                                         *)
(***************************************************************************)
EXTENDS LaunchQueue, SequenceTheorems, FiniteSetTheorems, TLAPS

CancelRecords == [at : {"idle", "swap", "kill"}, seen : [Procs -> Nat], kill : SUBSET Procs]

\* The shape of the state that the steps' effects depend on.
Shape ==
    /\ proc \in [Procs -> {"new", "running", "suspended", "gone"}]
    /\ events \in Seq(Procs) /\ pending \in Seq(Procs)
    /\ {caught, ranking, releasing} \subseteq Procs \cup {NoProc}
    /\ releasing # NoProc <=> monitor = "resume"
    /\ queue \in [Procs -> Nat]
    /\ cancel \in [Cancellers -> CancelRecords]

\* Somebody answers for p: NothingStranded, with its sets written out.
Held(p) ==
    \/ queue[p] > 0
    \/ p \in {caught, ranking, releasing}
    \/ \E i \in DOMAIN pending : pending[i] = p
    \/ \E t \in Cancellers : cancel[t].at = "kill" /\ p \in cancel[t].kill

AllHeld == \A p \in Procs \ dropped : proc[p] = "suspended" => Held(p)

IInv == Shape /\ (raced \/ AllHeld)

-----------------------------------------------------------------------------
LEMMA HeldIsAnswered ==
    ASSUME NEW p
    PROVE  Held(p) <=> queue[p] > 0 \/ Threads(p) \cup Waiting(p) \cup Doomed(p) # {}
<1>1. Threads(p) # {} <=> p \in {caught, ranking, releasing}
  <2> DEFINE hand == [intercept |-> caught, handle |-> ranking, monitor |-> releasing]
  <2>1. hand["intercept"] = caught /\ hand["handle"] = ranking /\ hand["monitor"] = releasing
    OBVIOUS
  <2>2. Threads(p) = {t \in {"intercept", "handle", "monitor"} : p = hand[t]}
    BY DEF Threads
  <2> HIDE DEF hand
  <2> QED BY <2>1, <2>2
<1>2. Waiting(p) # {} <=> \E i \in DOMAIN pending : pending[i] = p
  BY DEF Waiting
<1>3. Doomed(p) # {} <=> \E t \in Cancellers : cancel[t].at = "kill" /\ p \in cancel[t].kill
  BY DEF Doomed
<1> QED BY <1>1, <1>2, <1>3 DEF Held

\* Adding at the end of a queue loses nothing.
LEMMA AppendKeeps ==
    ASSUME NEW S, NEW s \in Seq(S), NEW e \in S
    PROVE  /\ Append(s, e) \in Seq(S)
           /\ \E i \in DOMAIN Append(s, e) : Append(s, e)[i] = e
           /\ \A i \in DOMAIN s : i \in DOMAIN Append(s, e) /\ Append(s, e)[i] = s[i]
<1>1. /\ Append(s, e) \in Seq(S) /\ Len(Append(s, e)) = Len(s) + 1 /\ Len(s) \in Nat
      /\ \A i \in 1 .. Len(s) : Append(s, e)[i] = s[i]
      /\ Append(s, e)[Len(s) + 1] = e
  BY AppendProperties, LenProperties
<1>2. DOMAIN s = 1 .. Len(s) /\ DOMAIN Append(s, e) = 1 .. Len(Append(s, e))
  BY <1>1, LenProperties
<1> QED BY <1>1, <1>2

\* Taking the head of a queue loses nothing else.
LEMMA TailKeeps ==
    ASSUME NEW S, NEW s \in Seq(S), s # <<>>
    PROVE  /\ Head(s) \in S /\ Tail(s) \in Seq(S)
           /\ \A i \in DOMAIN s : s[i] = Head(s) \/ \E j \in DOMAIN Tail(s) : Tail(s)[j] = s[i]
<1>1. Head(s) \in S /\ Tail(s) \in Seq(S) /\ Len(Tail(s)) = Len(s) - 1 /\ Len(s) \in Nat \ {0}
      /\ \A j \in 1 .. Len(Tail(s)) : Tail(s)[j] = s[j + 1]
  BY HeadTailProperties, EmptySeq
<1>2. DOMAIN s = 1 .. Len(s) /\ DOMAIN Tail(s) = 1 .. Len(Tail(s))
  BY <1>1, LenProperties
<1>3. ASSUME NEW i \in DOMAIN s, i # 1
      PROVE  i - 1 \in DOMAIN Tail(s) /\ Tail(s)[i - 1] = s[i]
  <2>1. i - 1 \in 1 .. Len(Tail(s)) /\ (i - 1) + 1 = i
    BY <1>1, <1>2, <1>3
  <2> QED BY <1>1, <1>2, <2>1
<1>4. Head(s) = s[1]
  OBVIOUS
<1> QED BY <1>1, <1>3, <1>4

-----------------------------------------------------------------------------
LEMMA InvInit == LaunchAssumption /\ Init => IInv
<1> SUFFICES ASSUME LaunchAssumption, Init PROVE IInv
  OBVIOUS
<1>1. Shape
  BY EmptySeq DEF Init, Shape, Idle, EmptyQueue, CancelRecords
<1>2. AllHeld
  BY DEF Init, AllHeld
<1> QED BY <1>1, <1>2 DEF IInv

LEMMA ShapeStep == LaunchAssumption /\ Shape /\ [Next]_vars => Shape'
<1> SUFFICES ASSUME LaunchAssumption, Shape, [Next]_vars PROVE Shape'
  OBVIOUS
<1> USE DEF Shape
<1>1. CASE PollEvent
  <2>1. Head(events) \in Procs /\ Tail(events) \in Seq(Procs)
    BY <1>1, TailKeeps DEF PollEvent
  <2> QED BY <1>1, <2>1 DEF PollEvent, Stop, queueVars, cancelVars
<1>2. CASE HandleCaught
  <2>1. Append(pending, caught) \in Seq(Procs)
    BY <1>2, AppendKeeps DEF HandleCaught
  <2> QED BY <1>2, <2>1 DEF HandleCaught, Recheck, Continue, cancelVars
<1>3. CASE TakePending
  BY <1>3, TailKeeps DEF TakePending, cancelVars
<1>4. CASE PutQueue \/ PutFails
  BY <1>4 DEF PutQueue, PutFails, queueVars, cancelVars
<1>5. CASE BeginDrain
  BY <1>5 DEF BeginDrain, queueVars, cancelVars
<1>6. CASE Pop
  <2>1. CASE Items(queue) = {} /\ monitor' = "idle" /\ UNCHANGED <<queue, releasing>>
    BY <1>6, <2>1 DEF Pop, cancelVars
  <2>2. ASSUME NEW p \in Top, releasing' = p, queue' = Without(p), monitor' = "resume" PROVE Shape'
    <3>1. p \in Procs /\ queue[p] \in Nat \ {0} /\ p # NoProc
      BY DEF Top, Items, LaunchAssumption
    <3>2. queue' \in [Procs -> Nat]
      BY <2>2, <3>1 DEF Without
    <3> QED BY <1>6, <2>2, <3>1, <3>2 DEF Pop, cancelVars
  <2> QED BY <1>6, <2>1, <2>2 DEF Pop
<1>7. CASE Resume
  BY <1>7 DEF Resume, Continue, queueVars, cancelVars
<1>8. ASSUME NEW p \in Procs, Exec(p) PROVE Shape'
  BY <1>8, AppendKeeps DEF Exec, threadVars, queueVars, cancelVars
<1>9. ASSUME NEW p \in Procs, Exit(p) PROVE Shape'
  BY <1>9 DEF Exit, Kill, threadVars, queueVars, cancelVars
<1>10. CASE ChangeLevel \/ Notify \/ Shutdown \/ UNCHANGED vars
  BY <1>10 DEF ChangeLevel, Notify, Shutdown, vars, threadVars, queueVars, cancelVars
<1>11. ASSUME NEW t \in Cancellers, NEW a \in Apps, Scan(t, a) PROVE Shape'
  BY <1>11 DEF Scan, Items, CancelRecords, threadVars, queueVars
<1>12. ASSUME NEW t \in Cancellers, Swap(t) PROVE Shape'
  BY <1>12 DEF Swap, EmptyQueue, CancelRecords, threadVars
<1>13. ASSUME NEW t \in Cancellers, KillNext(t) PROVE Shape'
  <2>1. Idle \in CancelRecords
    BY DEF Idle, EmptyQueue, CancelRecords
  <2>2. cancel' \in [Cancellers -> CancelRecords]
    <3>1. CASE cancel' = [cancel EXCEPT ![t] = Idle]
      BY <2>1, <3>1
    <3>2. ASSUME NEW p, cancel' = [cancel EXCEPT ![t].kill = @ \ {p}]
          PROVE  cancel' \in [Cancellers -> CancelRecords]
      <4>1. \A c \in CancelRecords : [c EXCEPT !.kill = @ \ {p}] \in CancelRecords
        BY DEF CancelRecords
      <4>2. cancel[t] \in CancelRecords
        OBVIOUS
      <4> QED BY <3>2, <4>1, <4>2
    <3> QED BY <1>13, <3>1, <3>2 DEF KillNext
  <2>3. proc' \in [Procs -> {"new", "running", "suspended", "gone"}]
    BY <1>13 DEF KillNext, Kill
  <2> QED BY <1>13, <2>2, <2>3 DEF KillNext, threadVars, queueVars
<1> QED
  BY <1>1, <1>2, <1>3, <1>4, <1>5, <1>6, <1>7, <1>8, <1>9, <1>10, <1>11, <1>12, <1>13
  DEF Next, InterceptStep, HandleStep, MonitorStep, CancelStep

LEMMA DroppedStay == [Next]_vars => dropped \subseteq dropped'
BY DEF Next, vars, InterceptStep, HandleStep, MonitorStep, CancelStep, PollEvent, HandleCaught,
       Recheck, TakePending, PutQueue, PutFails, BeginDrain, Pop, Resume, Exec, Exit, ChangeLevel,
       Notify, Shutdown, Scan, Swap, KillNext, threadVars, queueVars, cancelVars

\* What somebody answered for before a step and is still suspended after it,
\* somebody answers for after it, unless a cancel's swap met another change.
LEMMA HeldStep ==
    ASSUME LaunchAssumption, Shape, Shape', AllHeld, Next, ~raced'
    PROVE  AllHeld'
<1> SUFFICES ASSUME NEW p \in Procs \ dropped', proc'[p] = "suspended" PROVE Held(p)'
  BY DEF AllHeld
<1>0. p \in Procs \ dropped
  BY DroppedStay
<1> USE DEF Shape
<1>1. CASE PollEvent
  <2>1. proc[p] = "suspended" \/ p = caught'
    BY <1>1 DEF PollEvent, Stop
  <2>2. caught = NoProc /\ p # NoProc
    BY <1>1 DEF PollEvent, LaunchAssumption
  <2> QED BY <1>0, <1>1, <2>1, <2>2 DEF PollEvent, AllHeld, Held, queueVars, cancelVars
<1>2. CASE HandleCaught
  <2>1. proc[p] = "suspended" /\ (p # caught \/ pending' = Append(pending, caught))
    BY <1>2 DEF HandleCaught, Recheck, Continue
  <2>2. CASE pending' = Append(pending, caught)
    <3>1. /\ \E i \in DOMAIN pending' : pending'[i] = caught
          /\ \A i \in DOMAIN pending : i \in DOMAIN pending' /\ pending'[i] = pending[i]
      <4>1. caught \in Procs /\ pending \in Seq(Procs)
        BY <1>2 DEF HandleCaught
      <4>2. /\ \E i \in DOMAIN Append(pending, caught) : Append(pending, caught)[i] = caught
            /\ \A i \in DOMAIN pending : /\ i \in DOMAIN Append(pending, caught)
                                         /\ Append(pending, caught)[i] = pending[i]
        <5> HIDE DEF Shape
        <5> QED BY <4>1, AppendKeeps
      <4> QED BY <2>2, <4>2
    <3>2. Held(p)
      BY <1>0, <2>1 DEF AllHeld
    <3>3. CASE p = caught \/ \E i \in DOMAIN pending : pending[i] = p
      BY <3>1, <3>3 DEF Held
    <3>4. CASE p # caught /\ ~\E i \in DOMAIN pending : pending[i] = p
      BY <1>2, <3>2, <3>4 DEF HandleCaught, Held, cancelVars
    <3> QED BY <3>3, <3>4
  <2>3. CASE UNCHANGED pending /\ p # caught
    BY <1>0, <1>2, <2>1, <2>3 DEF HandleCaught, AllHeld, Held, cancelVars
  <2> QED BY <1>2, <2>1, <2>2, <2>3 DEF HandleCaught, Recheck
<1>3. CASE TakePending
  <2>1. ranking = NoProc /\ p # NoProc
    BY <1>3 DEF TakePending, LaunchAssumption
  <2>2. Held(p)
    BY <1>0, <1>3 DEF TakePending, AllHeld
  <2>3. CASE \E i \in DOMAIN pending : pending[i] = p
    <3>1. ranking' = p \/ \E i \in DOMAIN pending' : pending'[i] = p
      <4>1. ranking' = Head(pending) /\ pending' = Tail(pending) /\ pending # <<>> /\ pending \in Seq(Procs)
        BY <1>3 DEF TakePending
      <4>2. \A i \in DOMAIN pending : \/ pending[i] = Head(pending)
                                     \/ \E j \in DOMAIN Tail(pending) : Tail(pending)[j] = pending[i]
        BY <4>1, TailKeeps, Zenon
      <4> QED BY <2>3, <4>1, <4>2
    <3> QED BY <3>1 DEF Held
  <2>4. CASE ~\E i \in DOMAIN pending : pending[i] = p
    BY <1>3, <2>1, <2>2, <2>4 DEF TakePending, Held, cancelVars
  <2> QED BY <2>3, <2>4
<1>4. CASE PutQueue \/ PutFails
  <2>1. Held(p)
    BY <1>0, <1>4 DEF PutQueue, PutFails, AllHeld
  <2>2. CASE p = ranking
    BY <1>4, <2>2 DEF PutQueue, PutFails, Held
  <2>3. CASE p # ranking
    BY <1>4, <2>1, <2>3 DEF PutQueue, PutFails, Held, queueVars, cancelVars
  <2> QED BY <2>2, <2>3
<1>5. CASE BeginDrain
  BY <1>0, <1>5 DEF BeginDrain, AllHeld, Held, queueVars, cancelVars
<1>6. CASE Pop
  <2>1. releasing = NoProc /\ p # NoProc
    BY <1>6 DEF Pop, LaunchAssumption
  <2>2. p = releasing' \/ (queue'[p] = queue[p] /\ releasing' # NoProc) \/ UNCHANGED <<queue, releasing>>
    BY <1>6 DEF Pop, Top, Items, Without
  <2> QED BY <1>0, <1>6, <2>1, <2>2 DEF Pop, AllHeld, Held, cancelVars
<1>7. CASE Resume
  <2>1. proc[p] = "suspended" /\ p # releasing
    BY <1>7 DEF Resume, Continue
  <2> QED BY <1>0, <1>7, <2>1 DEF Resume, AllHeld, Held, queueVars, cancelVars
<1>8. ASSUME NEW q \in Procs, Exec(q) \/ Exit(q) PROVE Held(p)'
  <2>1. proc[p] = "suspended"
    BY <1>8 DEF Exec, Exit, Kill
  <2> QED BY <1>0, <1>8, <2>1 DEF Exec, Exit, AllHeld, Held, threadVars, queueVars, cancelVars
<1>9. CASE ChangeLevel \/ Notify \/ Shutdown
  BY <1>0, <1>9 DEF ChangeLevel, Notify, Shutdown, AllHeld, Held, threadVars, queueVars, cancelVars
<1>10. ASSUME NEW t \in Cancellers, NEW a \in Apps, Scan(t, a) PROVE Held(p)'
  <2>1. \A s \in Cancellers : cancel[s].at = "kill" => cancel'[s] = cancel[s]
    BY <1>10 DEF Scan
  <2> QED BY <1>0, <1>10, <2>1 DEF Scan, AllHeld, Held, threadVars, queueVars
<1>11. ASSUME NEW t \in Cancellers, Swap(t) PROVE Held(p)'
  <2>1. queue = cancel[t].seen
    BY <1>11 DEF Swap
  <2>2. cancel'[t].at = "kill" /\ cancel'[t].kill = cancel[t].kill
    BY <1>11 DEF Swap, CancelRecords
  <2>3. \A s \in Cancellers : cancel[s].at = "kill" => cancel'[s] = cancel[s]
    BY <1>11 DEF Swap
  <2>4. p \in cancel[t].kill \/ queue'[p] = queue[p]
    BY <1>11, <2>1 DEF Swap
  <2> QED BY <1>0, <1>11, <2>2, <2>3, <2>4 DEF Swap, AllHeld, Held, threadVars
<1>12. ASSUME NEW t \in Cancellers, KillNext(t) PROVE Held(p)'
  <2>1. \A s \in Cancellers \ {t} : cancel'[s] = cancel[s]
    BY <1>12 DEF KillNext
  <2>2. CASE cancel[t].kill = {} /\ cancel' = [cancel EXCEPT ![t] = Idle] /\ UNCHANGED proc
    BY <1>0, <1>12, <2>1, <2>2 DEF KillNext, AllHeld, Held, threadVars, queueVars
  <2>3. ASSUME NEW q \in cancel[t].kill, Kill(q), cancel' = [cancel EXCEPT ![t].kill = @ \ {q}]
        PROVE  Held(p)'
    <3>1. p # q /\ proc[p] = "suspended"
      BY <2>3 DEF Kill, CancelRecords
    <3>2. cancel'[t].at = cancel[t].at /\ cancel'[t].kill = cancel[t].kill \ {q}
      <4>1. \A c \in CancelRecords : /\ [c EXCEPT !.kill = @ \ {q}].at = c.at
                                     /\ [c EXCEPT !.kill = @ \ {q}].kill = c.kill \ {q}
        BY DEF CancelRecords
      <4>2. cancel[t] \in CancelRecords
        OBVIOUS
      <4> QED BY <2>3, <4>1, <4>2
    <3>3. \A s \in Cancellers : cancel[s].at = "kill" /\ p \in cancel[s].kill
                => cancel'[s].at = "kill" /\ p \in cancel'[s].kill
      BY <2>1, <3>1, <3>2
    <3> QED BY <1>0, <1>12, <3>1, <3>3 DEF KillNext, AllHeld, Held, threadVars, queueVars
  <2> QED BY <1>12, <2>2, <2>3 DEF KillNext
<1> QED
  BY <1>1, <1>2, <1>3, <1>4, <1>5, <1>6, <1>7, <1>8, <1>9, <1>10, <1>11, <1>12
  DEF Next, InterceptStep, HandleStep, MonitorStep, CancelStep

\* A swap that has discarded a change stays on record.
LEMMA RacedStays == raced /\ [Next]_vars => raced'
BY DEF Next, vars, InterceptStep, HandleStep, MonitorStep, CancelStep, PollEvent, HandleCaught,
       TakePending, PutQueue, PutFails, BeginDrain, Pop, Resume, Exec, Exit, ChangeLevel, Notify,
       Shutdown, Scan, Swap, KillNext, threadVars, queueVars, cancelVars

LEMMA InvStep == LaunchAssumption /\ IInv /\ [Next]_vars => IInv'
<1> SUFFICES ASSUME LaunchAssumption, IInv, [Next]_vars PROVE IInv'
  OBVIOUS
<1>1. Shape'
  BY ShapeStep DEF IInv
<1>2. CASE raced
  BY <1>1, <1>2, RacedStays DEF IInv
<1>3. CASE AllHeld /\ Next
  BY <1>1, <1>3, HeldStep DEF IInv
<1>4. CASE AllHeld /\ UNCHANGED vars
  <2>1. AllHeld'
    BY <1>4 DEF AllHeld, Held, vars, threadVars, queueVars, cancelVars
  <2> QED BY <1>1, <2>1 DEF IInv
<1> QED BY <1>2, <1>3, <1>4 DEF IInv

\* No launch the service has suspended is ever forgotten, with any number of
\* processes, apps and cancels (NothingStranded: the hand-overs between
\* AppIntercept, _run_handle_loop, the drain and cancel_relaunch_by_app_id).
THEOREM NoLaunchIsForgotten == LaunchAssumption /\ Spec => []NothingStranded
<1> SUFFICES ASSUME LaunchAssumption PROVE Spec => []NothingStranded
  OBVIOUS
<1>1. IInv => NothingStranded
  <2>1. \A p : Held(p) <=> queue[p] > 0 \/ Threads(p) \cup Waiting(p) \cup Doomed(p) # {}
    BY HeldIsAnswered
  <2>2. AllHeld => \A p \in Procs \ dropped : proc[p] = "suspended" =>
                       queue[p] > 0 \/ Threads(p) \cup Waiting(p) \cup Doomed(p) # {}
    BY <2>1 DEF AllHeld
  <2> QED BY <2>2 DEF IInv, NothingStranded
<1> QED BY <1>1, InvInit, InvStep, PTL DEF Spec

-----------------------------------------------------------------------------
(* The shape of the state in full.                                           *)

Flags ==
    /\ up \in BOOLEAN /\ flag \in BOOLEAN /\ raced \in BOOLEAN
    /\ level \in {"calm", "critical"} /\ monitor \in {"idle", "pop", "resume"}
    /\ Len(events) <= MaxEvents
    /\ handled \cup dropped \subseteq Procs
    /\ \A t \in Cancellers : cancel[t].at = "idle" => cancel[t] = Idle

LEMMA FlagsStep ==
    ASSUME LaunchAssumption, Shape, Flags, [Next]_vars
    PROVE  Flags'
<1> USE DEF Flags
<1>1. CASE PollEvent
  <2>1. Head(events) \in Procs /\ Len(events') = Len(events) - 1 /\ Len(events) \in Nat
    <3>1. events \in Seq(Procs) /\ events # <<>>
      BY <1>1 DEF Shape, PollEvent
    <3>2. Head(events) \in Procs /\ Len(Tail(events)) = Len(events) - 1 /\ Len(events) \in Nat
      BY <3>1, HeadTailProperties, LenProperties
    <3> QED BY <1>1, <3>2 DEF PollEvent
  <2> QED BY <1>1, <2>1 DEF PollEvent, LaunchAssumption, queueVars, cancelVars
<1>2. CASE HandleCaught
  BY <1>2 DEF HandleCaught, Recheck, Shape, cancelVars
<1>3. CASE TakePending \/ PutQueue \/ PutFails \/ BeginDrain \/ Pop \/ Resume
  BY <1>3 DEF TakePending, PutQueue, PutFails, BeginDrain, Pop, Resume, Shape, queueVars, cancelVars
<1>4. ASSUME NEW p \in Procs, Exec(p) PROVE Flags'
  <2>1. Len(events') = Len(events) + 1 /\ Len(events) \in Nat
    BY <1>4, AppendProperties, LenProperties DEF Exec, Shape
  <2> QED BY <1>4, <2>1 DEF Exec, LaunchAssumption, threadVars, queueVars, cancelVars
<1>5. ASSUME NEW p \in Procs, Exit(p) PROVE Flags'
  BY <1>5 DEF Exit, threadVars, queueVars, cancelVars
<1>6. CASE ChangeLevel \/ Notify \/ Shutdown \/ UNCHANGED vars
  BY <1>6 DEF ChangeLevel, Notify, Shutdown, vars, threadVars, queueVars, cancelVars
<1>7. ASSUME NEW t \in Cancellers, NEW a \in Apps, Scan(t, a) PROVE Flags'
  <2>1. \A s \in Cancellers : cancel'[s].at = "idle" => cancel'[s] = cancel[s]
    BY <1>7 DEF Scan, Shape
  <2> QED BY <1>7, <2>1 DEF Scan, threadVars, queueVars
<1>8. ASSUME NEW t \in Cancellers, Swap(t) PROVE Flags'
  <2>1. \A s \in Cancellers : cancel'[s].at = "idle" => cancel'[s] = cancel[s]
    BY <1>8 DEF Swap, Shape, CancelRecords
  <2> QED BY <1>8, <2>1 DEF Swap, threadVars
<1>9. ASSUME NEW t \in Cancellers, KillNext(t) PROVE Flags'
  <2>1. \A s \in Cancellers : cancel'[s].at = "idle" => cancel'[s] = cancel[s] \/ cancel'[s] = Idle
    <3>1. ASSUME NEW p, cancel' = [cancel EXCEPT ![t].kill = @ \ {p}]
          PROVE  cancel'[t].at = "kill"
      <4>1. \A c \in CancelRecords : [c EXCEPT !.kill = @ \ {p}].at = c.at
        BY DEF CancelRecords
      <4> QED BY <1>9, <3>1, <4>1 DEF KillNext, Shape
    <3> QED BY <1>9, <3>1 DEF KillNext, Shape
  <2> QED BY <1>9, <2>1 DEF KillNext, threadVars, queueVars
<1> QED
  BY <1>1, <1>2, <1>3, <1>4, <1>5, <1>6, <1>7, <1>8, <1>9
  DEF Next, InterceptStep, HandleStep, MonitorStep, CancelStep

\* The shape of the state, the bound on unpolled events and an idle cancel's record included.
THEOREM LaunchTypeCorrect == LaunchAssumption /\ Spec => []TypeOK
<1> SUFFICES ASSUME LaunchAssumption PROVE Spec => []TypeOK
  OBVIOUS
<1>1. Init => Shape /\ Flags
  <2>1. Len(<<>>) = 0
    BY EmptySeq
  <2>2. Init => Shape
    BY InvInit DEF IInv
  <2>3. ASSUME Init PROVE Flags
    <3>1. Len(events) <= MaxEvents
      BY <2>1, <2>3 DEF Init, LaunchAssumption
    <3> QED BY <2>3, <3>1 DEF Init, Flags
  <2> QED BY <2>2, <2>3
<1>2. Shape /\ Flags /\ [Next]_vars => Shape' /\ Flags'
  BY ShapeStep, FlagsStep
<1>3. Shape /\ Flags => TypeOK
  BY DEF Shape, Flags, TypeOK, CancelRecords
<1> QED BY <1>1, <1>2, <1>3, PTL DEF Spec

-----------------------------------------------------------------------------
(* A launch that is alive is in one place only.  What makes it inductive: a  *)
(* launch that has left the intercept thread's hand is on record as handled, *)
(* and what a cancel has found was in the heap it saw.                       *)

InHand(p) == p \in {caught, ranking, releasing}
Waits(p) == \E i \in DOMAIN pending : pending[i] = p
Dooms(t, p) == cancel[t].at = "kill" /\ p \in cancel[t].kill

Once(p) ==
    /\ queue[p] <= 1
    /\ queue[p] > 0 => ~InHand(p) /\ ~Waits(p) /\ \A t \in Cancellers : ~Dooms(t, p)
    /\ InHand(p) => ~Waits(p) /\ \A t \in Cancellers : ~Dooms(t, p)
    /\ Waits(p) => \A t \in Cancellers : ~Dooms(t, p)
    /\ p = caught => p # ranking /\ p # releasing
    /\ p = ranking => p # releasing
    /\ \A i, j \in DOMAIN pending : pending[i] = p /\ pending[j] = p => i = j
    /\ \A s, t \in Cancellers : Dooms(s, p) /\ Dooms(t, p) => s = t

Known(p) ==
    queue[p] > 0 \/ p \in {ranking, releasing} \/ Waits(p) \/ (\E t \in Cancellers : Dooms(t, p))
        => p \in handled

FoundInHeap == \A t \in Cancellers : cancel[t].at = "swap" =>
                  \A p \in cancel[t].kill : cancel[t].seen[p] > 0

AllOnce == \A p \in Procs : proc[p] # "gone" => Once(p) /\ Known(p)

OnceInv == FoundInHeap /\ (raced \/ AllOnce)

LEMMA FoundInHeapStep ==
    ASSUME LaunchAssumption, Shape, FoundInHeap, [Next]_vars
    PROVE  FoundInHeap'
<1> USE DEF FoundInHeap
<1>1. ASSUME NEW t \in Cancellers, NEW a \in Apps, Scan(t, a) PROVE FoundInHeap'
  BY <1>1 DEF Scan, Items, Shape
<1>2. ASSUME NEW t \in Cancellers, Swap(t) PROVE FoundInHeap'
  <2>1. \A s \in Cancellers : cancel'[s].at = "swap" => cancel'[s] = cancel[s]
    BY <1>2 DEF Swap, Shape, CancelRecords
  <2> QED BY <2>1
<1>3. ASSUME NEW t \in Cancellers, KillNext(t) PROVE FoundInHeap'
  <2>1. \A s \in Cancellers : cancel'[s].at = "swap" => cancel'[s] = cancel[s]
    <3>1. CASE cancel' = [cancel EXCEPT ![t] = Idle]
      BY <3>1 DEF Idle, Shape
    <3>2. ASSUME NEW p, cancel' = [cancel EXCEPT ![t].kill = @ \ {p}]
          PROVE  cancel'[t].at = "kill" /\ \A s \in Cancellers \ {t} : cancel'[s] = cancel[s]
      <4>1. \A c \in CancelRecords : [c EXCEPT !.kill = @ \ {p}].at = c.at
        BY DEF CancelRecords
      <4> QED BY <1>3, <3>2, <4>1 DEF KillNext, Shape
    <3> QED BY <1>3, <3>1, <3>2 DEF KillNext
  <2> QED BY <2>1
<1>4. CASE UNCHANGED cancel
  BY <1>4
<1> QED
  BY <1>1, <1>2, <1>3, <1>4
  DEF Next, vars, InterceptStep, HandleStep, MonitorStep, CancelStep, PollEvent, HandleCaught,
      TakePending, PutQueue, PutFails, BeginDrain, Pop, Resume, Exec, Exit, ChangeLevel, Notify,
      Shutdown, cancelVars

\* Where an element of a queue is, once its head or one more element is taken or added.
LEMMA AppendPlaces ==
    ASSUME NEW s \in Seq(Procs), NEW e \in Procs, NEW p
    PROVE  /\ DOMAIN Append(s, e) = DOMAIN s \cup {Len(s) + 1} /\ Len(s) + 1 \notin DOMAIN s
           /\ Append(s, e)[Len(s) + 1] = e
           /\ \A i \in DOMAIN s : Append(s, e)[i] = s[i]
<1>1. /\ Append(s, e) \in Seq(Procs) /\ Len(Append(s, e)) = Len(s) + 1 /\ Len(s) \in Nat
      /\ \A i \in 1 .. Len(s) : Append(s, e)[i] = s[i]
      /\ Append(s, e)[Len(s) + 1] = e
  BY AppendProperties, LenProperties
<1>2. DOMAIN s = 1 .. Len(s) /\ DOMAIN Append(s, e) = 1 .. Len(s) + 1
  BY <1>1, LenProperties
<1> QED BY <1>1, <1>2

LEMMA TailPlaces ==
    ASSUME NEW s \in Seq(Procs), s # <<>>
    PROVE  /\ Head(s) = s[1] /\ 1 \in DOMAIN s
           /\ \A j \in DOMAIN Tail(s) : j \in Int /\ j + 1 \in DOMAIN s /\ j + 1 # 1 /\ Tail(s)[j] = s[j + 1]
<1>1. Tail(s) \in Seq(Procs) /\ Len(Tail(s)) = Len(s) - 1 /\ Len(s) \in Nat \ {0}
      /\ \A j \in 1 .. Len(Tail(s)) : Tail(s)[j] = s[j + 1]
  BY HeadTailProperties, EmptySeq
<1>2. DOMAIN s = 1 .. Len(s) /\ DOMAIN Tail(s) = 1 .. Len(s) - 1
  BY <1>1, LenProperties
<1>3. Head(s) = s[1]
  OBVIOUS
<1> QED BY <1>1, <1>2, <1>3

LEMMA OnceStep ==
    ASSUME LaunchAssumption, Shape, Shape', FoundInHeap, AllOnce, Next, ~raced'
    PROVE  AllOnce'
<1> SUFFICES ASSUME NEW p \in Procs, proc'[p] # "gone" PROVE (Once(p) /\ Known(p))'
  BY DEF AllOnce
<1>a. p # NoProc /\ queue[p] \in Nat
  BY DEF LaunchAssumption, Shape
<1>b. proc[p] # "gone" => Once(p) /\ Known(p)
  BY DEF AllOnce
<1> DEFINE Places == <<caught, ranking, releasing, pending, queue, cancel>>
<1>c. UNCHANGED Places /\ handled \subseteq handled' /\ proc[p] # "gone" => (Once(p) /\ Known(p))'
  BY <1>b DEF Once, Known, InHand, Waits, Dooms
<1>1. CASE PollEvent
  <2>1. proc[p] # "gone" /\ Once(p) /\ Known(p)
    BY <1>1, <1>b DEF PollEvent, Stop, Shape
  <2>2. CASE UNCHANGED caught
    BY <1>1, <1>c, <2>1, <2>2 DEF PollEvent, queueVars, cancelVars
  <2>3. CASE caught' # caught
    <3>1. /\ caught = NoProc /\ caught' = Head(events) /\ ~AlreadyHandled(caught')
          /\ UNCHANGED <<ranking, releasing, pending, queue, cancel, handled>>
      BY <1>1, <2>3 DEF PollEvent, queueVars, cancelVars
    <3>2. CASE p = caught'
      <4>1. p \notin handled
        BY <2>1, <3>1, <3>2 DEF AlreadyHandled
      <4> QED BY <1>a, <2>1, <3>1, <3>2, <4>1 DEF Once, Known, InHand, Waits, Dooms
    <3>3. CASE p # caught'
      BY <1>a, <2>1, <3>1, <3>3 DEF Once, Known, InHand, Waits, Dooms
    <3> QED BY <3>2, <3>3
  <2> QED BY <2>2, <2>3
<1>2. CASE HandleCaught
  <2>1. proc[p] # "gone" /\ Once(p) /\ Known(p)
    BY <1>2, <1>b DEF HandleCaught, Recheck, Continue, Shape
  <2>2. /\ caught \in Procs /\ caught' = NoProc /\ handled' = handled \cup {caught}
        /\ UNCHANGED <<ranking, releasing, queue, cancel>>
    BY <1>2 DEF HandleCaught, cancelVars, Shape
  <2>3. CASE UNCHANGED pending
    BY <1>a, <2>1, <2>2, <2>3 DEF Once, Known, InHand, Waits, Dooms
  <2>4. CASE pending' = Append(pending, caught)
    <3>1. /\ DOMAIN pending' = DOMAIN pending \cup {Len(pending) + 1} /\ Len(pending) + 1 \notin DOMAIN pending
          /\ pending'[Len(pending) + 1] = caught
          /\ \A i \in DOMAIN pending : pending'[i] = pending[i]
      BY <2>2, <2>4, AppendPlaces DEF Shape
    <3>2. CASE p = caught
      BY <1>a, <2>1, <2>2, <3>1, <3>2 DEF Once, Known, InHand, Waits, Dooms
    <3>3. CASE p # caught
      <4>1. Waits(p)' <=> Waits(p)
        BY <3>1, <3>3 DEF Waits
      <4>2. \A i, j \in DOMAIN pending' : pending'[i] = p /\ pending'[j] = p => i = j
        BY <2>1, <3>1, <3>3 DEF Once
      <4> QED BY <1>a, <2>1, <2>2, <3>3, <4>1, <4>2 DEF Once, Known, InHand, Dooms
    <3> QED BY <3>2, <3>3
  <2> QED BY <1>2, <2>3, <2>4 DEF HandleCaught, Recheck
<1>3. CASE TakePending
  <2>1. /\ proc[p] # "gone" /\ Once(p) /\ Known(p)
        /\ ranking = NoProc /\ ranking' = pending[1] /\ 1 \in DOMAIN pending
        /\ \A j \in DOMAIN pending' : /\ j \in Int /\ j + 1 \in DOMAIN pending /\ j + 1 # 1
                                       /\ pending'[j] = pending[j + 1]
        /\ UNCHANGED <<caught, releasing, queue, cancel, handled>>
    BY <1>3, <1>b, TailPlaces DEF TakePending, cancelVars, Shape
  <2>2. Waits(p)' => Waits(p)
    BY <2>1 DEF Waits
  <2>3. \A i, j \in DOMAIN pending' : pending'[i] = p /\ pending'[j] = p => i = j
    <3>1. ASSUME NEW i \in DOMAIN pending', NEW j \in DOMAIN pending', pending'[i] = p, pending'[j] = p
          PROVE  i = j
      <4>1. i \in Int /\ j \in Int /\ i + 1 = j + 1
        BY <2>1, <3>1 DEF Once
      <4> QED BY <4>1
    <3> QED BY <3>1
  <2>4. CASE p = ranking'
    <3>1. Waits(p) /\ ~Waits(p)'
      BY <2>1, <2>4 DEF Waits, Once
    <3> QED BY <1>a, <2>1, <2>4, <3>1, <2>3 DEF Once, Known, InHand, Dooms
  <2>5. CASE p # ranking'
    BY <1>a, <2>1, <2>2, <2>3, <2>5 DEF Once, Known, InHand, Dooms
  <2> QED BY <2>4, <2>5
<1>13. CASE PutFails
  <2>1. /\ proc[p] # "gone" /\ Once(p) /\ Known(p) /\ ranking' = NoProc
        /\ UNCHANGED <<caught, releasing, pending, queue, cancel, handled>>
    BY <1>13, <1>b DEF PutFails, queueVars
  <2> QED BY <1>a, <2>1 DEF Once, Known, InHand, Waits, Dooms
<1>4. CASE PutQueue
  <2>1. /\ proc[p] # "gone" /\ Once(p) /\ Known(p) /\ ranking' = NoProc
        /\ queue'[p] = IF p = ranking THEN queue[p] + 1 ELSE queue[p]
        /\ UNCHANGED <<caught, releasing, pending, cancel, handled>>
    BY <1>4, <1>b DEF PutQueue, cancelVars, Shape
  <2> QED BY <1>a, <2>1 DEF Once, Known, InHand, Waits, Dooms
<1>5. CASE BeginDrain
  BY <1>5, <1>c DEF BeginDrain, queueVars, cancelVars
<1>6. CASE Pop
  <2>1. /\ proc[p] # "gone" /\ Once(p) /\ Known(p) /\ releasing = NoProc
        /\ UNCHANGED <<caught, ranking, pending, cancel, handled>>
    BY <1>6, <1>b DEF Pop, cancelVars, Shape
  <2>2. CASE UNCHANGED <<queue, releasing>>
    BY <1>c, <2>1, <2>2
  <2>3. ASSUME NEW q \in Top, releasing' = q, queue' = Without(q) PROVE (Once(p) /\ Known(p))'
    <3>1. q \in Procs /\ queue[q] > 0 /\ queue'[p] = IF p = q THEN queue[p] - 1 ELSE queue[p]
      BY <2>3 DEF Top, Items, Without, Shape
    <3> QED BY <1>a, <2>1, <2>3, <3>1 DEF Once, Known, InHand, Waits, Dooms
  <2> QED BY <1>6, <2>2, <2>3 DEF Pop
<1>7. CASE Resume
  <2>1. /\ proc[p] # "gone" /\ Once(p) /\ Known(p) /\ releasing' = NoProc
        /\ UNCHANGED <<caught, ranking, pending, queue, cancel, handled>>
    BY <1>7, <1>b DEF Resume, Continue, queueVars, cancelVars, Shape
  <2> QED BY <1>a, <2>1 DEF Once, Known, InHand, Waits, Dooms
<1>8. ASSUME NEW q \in Procs, Exec(q) \/ Exit(q) PROVE (Once(p) /\ Known(p))'
  BY <1>8, <1>c DEF Exec, Exit, Kill, Shape, threadVars, queueVars, cancelVars
<1>9. CASE ChangeLevel \/ Notify \/ Shutdown
  BY <1>9, <1>c DEF ChangeLevel, Notify, Shutdown, threadVars, queueVars, cancelVars
<1>10. ASSUME NEW t \in Cancellers, NEW a \in Apps, Scan(t, a) PROVE (Once(p) /\ Known(p))'
  <2>1. /\ proc[p] # "gone" /\ Once(p) /\ Known(p)
        /\ UNCHANGED <<caught, ranking, releasing, pending, queue, handled>>
    BY <1>10, <1>b DEF Scan, threadVars, queueVars
  <2>2. \A s \in Cancellers : Dooms(s, p)' <=> Dooms(s, p)
    BY <1>10 DEF Scan, Dooms, Shape
  <2> QED BY <1>a, <2>1, <2>2 DEF Once, Known, InHand, Waits
<1>11. ASSUME NEW t \in Cancellers, Swap(t) PROVE (Once(p) /\ Known(p))'
  <2>1. /\ proc[p] # "gone" /\ Once(p) /\ Known(p) /\ queue = cancel[t].seen
        /\ UNCHANGED <<caught, ranking, releasing, pending, handled>>
    BY <1>11, <1>b DEF Swap, threadVars
  <2>2. \A s \in Cancellers \ {t} : Dooms(s, p)' <=> Dooms(s, p)
    BY <1>11 DEF Swap, Dooms, Shape
  <2>3. ~Dooms(t, p) /\ (Dooms(t, p)' <=> p \in cancel[t].kill)
    BY <1>11 DEF Swap, Dooms, Shape, CancelRecords
  <2>4. queue'[p] = (IF p \in cancel[t].kill THEN 0 ELSE queue[p]) /\ (p \in cancel[t].kill => queue[p] > 0)
    BY <1>11, <2>1 DEF Swap, FoundInHeap
  <2> QED BY <1>a, <2>1, <2>2, <2>3, <2>4 DEF Once, Known, InHand, Waits
<1>12. ASSUME NEW t \in Cancellers, KillNext(t) PROVE (Once(p) /\ Known(p))'
  <2>1. /\ proc[p] # "gone" /\ Once(p) /\ Known(p)
        /\ UNCHANGED <<caught, ranking, releasing, pending, queue, handled>>
    BY <1>12, <1>b DEF KillNext, Kill, Shape, threadVars, queueVars
  <2>2. \A s \in Cancellers : Dooms(s, p)' => Dooms(s, p)
    <3>1. CASE cancel' = [cancel EXCEPT ![t] = Idle]
      BY <3>1 DEF Idle, Dooms, Shape
    <3>2. ASSUME NEW q, cancel' = [cancel EXCEPT ![t].kill = @ \ {q}]
          PROVE  \A s \in Cancellers : Dooms(s, p)' => Dooms(s, p)
      <4>1. \A c \in CancelRecords : /\ [c EXCEPT !.kill = @ \ {q}].at = c.at
                                     /\ [c EXCEPT !.kill = @ \ {q}].kill \subseteq c.kill
        BY DEF CancelRecords
      <4> QED BY <3>2, <4>1 DEF Dooms, Shape
    <3> QED BY <1>12, <3>1, <3>2 DEF KillNext
  <2> QED BY <1>a, <2>1, <2>2 DEF Once, Known, InHand, Waits
<1> QED
  BY <1>1, <1>2, <1>3, <1>4, <1>5, <1>6, <1>7, <1>8, <1>9, <1>10, <1>11, <1>12, <1>13
  DEF Next, InterceptStep, HandleStep, MonitorStep, CancelStep

LEMMA OnceInvStep ==
    ASSUME LaunchAssumption, Shape, OnceInv, [Next]_vars
    PROVE  OnceInv'
<1>1. FoundInHeap'
  BY FoundInHeapStep DEF OnceInv
<1>2. CASE raced
  BY <1>1, <1>2, RacedStays DEF OnceInv
<1>3. CASE AllOnce /\ Next
  BY <1>1, <1>3, OnceStep, ShapeStep DEF OnceInv
<1>4. CASE AllOnce /\ UNCHANGED vars
  <2>1. AllOnce'
    BY <1>4 DEF AllOnce, Once, Known, InHand, Waits, Dooms, vars, threadVars, queueVars, cancelVars
  <2> QED BY <1>1, <2>1 DEF OnceInv
<1> QED BY <1>2, <1>3, <1>4 DEF OnceInv

LEMMA AtMostOne ==
    ASSUME NEW S, \A x, y \in S : x = y
    PROVE  IF S = {} THEN Cardinality(S) = 0 ELSE Cardinality(S) = 1
<1>1. CASE S = {}
  BY <1>1, FS_EmptySet
<1>2. CASE S # {}
  <2>1. PICK x \in S : S = {x}
    BY <1>2
  <2> QED BY <1>2, <2>1, FS_Singleton
<1> QED BY <1>1, <1>2

LEMMA OnceIsCounted ==
    ASSUME NEW p \in Procs, queue[p] \in Nat, Once(p)
    PROVE  Cardinality(Threads(p)) + Cardinality(Waiting(p)) + queue[p] + Cardinality(Doomed(p)) <= 1
<1> DEFINE hand == [intercept |-> caught, handle |-> ranking, monitor |-> releasing]
<1>1. hand["intercept"] = caught /\ hand["handle"] = ranking /\ hand["monitor"] = releasing
  OBVIOUS
<1>2. Threads(p) = {t \in {"intercept", "handle", "monitor"} : p = hand[t]}
  BY DEF Threads
<1> HIDE DEF hand
<1>3. (\A x, y \in Threads(p) : x = y) /\ (Threads(p) # {} => InHand(p))
  BY <1>1, <1>2 DEF Once, InHand
<1>4. (\A x, y \in Waiting(p) : x = y) /\ (Waiting(p) # {} => Waits(p))
  BY DEF Waiting, Waits, Once
<1>5. (\A x, y \in Doomed(p) : x = y) /\ (Doomed(p) # {} => \E t \in Cancellers : Dooms(t, p))
  BY DEF Doomed, Dooms, Once
<1>6. IF Threads(p) = {} THEN Cardinality(Threads(p)) = 0 ELSE Cardinality(Threads(p)) = 1
  BY <1>3, AtMostOne
<1>7. IF Waiting(p) = {} THEN Cardinality(Waiting(p)) = 0 ELSE Cardinality(Waiting(p)) = 1
  BY <1>4, AtMostOne
<1>8. IF Doomed(p) = {} THEN Cardinality(Doomed(p)) = 0 ELSE Cardinality(Doomed(p)) = 1
  BY <1>5, AtMostOne
<1>9. /\ queue[p] > 0 => queue[p] = 1 /\ Threads(p) = {} /\ Waiting(p) = {} /\ Doomed(p) = {}
      /\ Threads(p) # {} => Waiting(p) = {} /\ Doomed(p) = {}
      /\ Waiting(p) # {} => Doomed(p) = {}
  BY <1>3, <1>4, <1>5 DEF Once
<1> QED BY <1>6, <1>7, <1>8, <1>9

\* A launch that is alive is in one place only, however often its process execs and however
\* many cancels run, so that no thread resumes it while another one kills it (QueuedOnce:
\* is_process_handled between the intercept thread and the queues).
THEOREM NoLaunchIsQueuedTwice == LaunchAssumption /\ Spec => []QueuedOnce
<1> SUFFICES ASSUME LaunchAssumption PROVE Spec => []QueuedOnce
  OBVIOUS
<1>1. Init => Shape /\ OnceInv
  <2>1. ASSUME Init PROVE OnceInv
    <3>1. FoundInHeap
      BY <2>1 DEF Init, Idle, FoundInHeap
    <3>2. AllOnce
      BY <2>1 DEF Init, Idle, EmptyQueue, LaunchAssumption, AllOnce, Once, Known, InHand, Waits, Dooms
    <3> QED BY <3>1, <3>2 DEF OnceInv
  <2> QED BY <2>1, InvInit DEF IInv
<1>2. Shape /\ OnceInv /\ [Next]_vars => Shape' /\ OnceInv'
  BY ShapeStep, OnceInvStep
<1>3. Shape /\ OnceInv => QueuedOnce
  <2> SUFFICES ASSUME Shape, OnceInv, ~raced, NEW p \in Procs, proc[p] \in {"running", "suspended"}
               PROVE  Cardinality(Threads(p)) + Cardinality(Waiting(p)) + queue[p]
                        + Cardinality(Doomed(p)) <= 1
    BY DEF QueuedOnce
  <2>1. Once(p) /\ queue[p] \in Nat
    BY DEF OnceInv, AllOnce, Shape
  <2> QED BY <2>1, OnceIsCounted
<1> QED BY <1>1, <1>2, <1>3, PTL DEF Spec
=============================================================================
