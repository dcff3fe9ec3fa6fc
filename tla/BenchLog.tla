------------------------------- MODULE BenchLog -------------------------------
(***************************************************************************)
(* The live log of a benchmark job.  A pump tails the file and publishes   *)
(* byte ranges into the queue of each event stream, which drops what does  *)
(* not fit; a stream starts with a snapshot that states the tail of the    *)
(* log.  The dashboard splices what it receives onto what it shows, by     *)
(* offset, and reads over REST what it cannot splice.                      *)
(*                                                                         *)
(* A byte is its job and its position.                                     *)
(***************************************************************************)
EXTENDS Naturals, Sequences

CONSTANTS JobIds,   \* 1..n, in the order they run
          MaxLog,   \* the bytes that each job writes
          Backlog,  \* _MAX_BACKLOG
          TailSize, \* _SNAPSHOT_TAIL_BYTES
          ReadSize  \* max_bytes of read_log, for the pump and for the REST read

VARIABLES
  size,     \* of each job's log file
  running,  \* the job that runs, or 0
  last,     \* the job that was started last, or 0
  setups,   \* those of kind "setup", in their order
  pump,     \* per job: its offset, and "none", "tail", "final" or "gone"
  queue,    \* what waits for the stream's generator
  stream,   \* "closed", "snapshot" (subscribed, nothing sent yet) or "live"
  pane,     \* what the dashboard shows: the job, the bytes and the offset it believes in
  shown,    \* jobRef: the job of the last job event or snapshot
  fetch,    \* the REST read under way: "none", "asked" or "answered"
  missed,   \* history: a delta was dropped, or ignored while a read was under way, or a read failed
            \* or came to its limit
  late,     \* history: the snapshot was not about the last job, which had ended by then
  crossed   \* history: one job's output met another's: an answer for one was spliced onto the
            \* other, or a pump published its last delta when the next job had started

server == <<size, running, last, setups, pump>>
client == <<pane, shown, fetch>>
vars == <<server, queue, stream, client, missed, late, crossed>>

NoFetch == [pc |-> "none", job |-> 0, from |-> 0, start |-> 0, to |-> 0]

Init ==
    /\ size = [j \in JobIds |-> 0] /\ running = 0 /\ last = 0 /\ setups = <<>>
    /\ pump = [j \in JobIds |-> [pc |-> "none", offset |-> 0]]
    /\ queue = <<>> /\ stream = "closed"
    /\ pane = [job |-> 0, bytes |-> <<>>, end |-> 0] /\ shown = 0
    /\ fetch = NoFetch
    /\ missed = FALSE /\ late = FALSE /\ crossed = FALSE

\* The shape of the state.
TypeOK ==
    /\ \A j \in JobIds : size[j] \in 0 .. MaxLog[j] /\ pump[j].offset \in 0 .. size[j]
    /\ {running, last, shown, pane.job} \subseteq JobIds \cup {0}
    /\ \A j \in JobIds : pump[j].pc \in {"none", "tail", "final", "gone"}
    /\ Len(queue) <= Backlog
    /\ \A i \in DOMAIN setups : setups[i] \in JobIds
    /\ stream \in {"closed", "snapshot", "live"}
    /\ fetch.pc \in {"none", "asked", "answered"}

-----------------------------------------------------------------------------
(* The job, its pump and the queue *)

\* publish: a full backlog drops the event for that subscriber.
Publish(e) ==
    /\ queue' = IF stream # "closed" /\ Len(queue) < Backlog THEN Append(queue, e) ELSE queue
    /\ missed' = (missed \/ (stream # "closed" /\ Len(queue) = Backlog))

JobEvent(j) == [type |-> "job", job |-> j, start |-> 0, end |-> 0]

\* A job starts once the one before has ended; its listener replaces the pump.
StartJob ==
    /\ running = 0 /\ last + 1 \in JobIds
    /\ running' = last + 1 /\ last' = last + 1
    /\ setups' \in {setups, Append(setups, last + 1)}
    /\ pump' = [pump EXCEPT ![last + 1].pc = "tail"]
    /\ Publish(JobEvent(last + 1)) /\ late' = FALSE
    /\ UNCHANGED <<size, stream, client, crossed>>

WriteLog ==
    /\ running # 0 /\ size[running] < MaxLog[running]
    /\ size' = [size EXCEPT ![running] = @ + 1]
    /\ UNCHANGED <<running, last, setups, pump, queue, stream, client, missed, late, crossed>>

\* The reaper writes the exit line, then the listeners hear of the end.
EndJob ==
    /\ running # 0 /\ size[running] = MaxLog[running]
    /\ running' = 0
    /\ pump' = [pump EXCEPT ![running].pc = "final"]
    /\ Publish(JobEvent(running))
    /\ UNCHANGED <<size, last, setups, stream, client, late, crossed>>

\* How far one read_log gets.
ReadEnd(j, from) == IF from + ReadSize < size[j] THEN from + ReadSize ELSE size[j]

\* What a pump has read since its last delta.
Chunk(j) == [type |-> "log", job |-> j, start |-> pump[j].offset, end |-> ReadEnd(j, pump[j].offset)]

\* a plausible bug: the pump stops with the job
DrainUntilEnd(j) ==
    /\ pump[j].pc = "final" \/ (pump[j].pc = "tail" /\ pump[j].offset < size[j])
    /\ IF pump[j].pc = "tail"
       THEN Publish(Chunk(j)) /\ pump' = [pump EXCEPT ![j].offset = Chunk(j).end]
       ELSE pump' = [pump EXCEPT ![j].pc = "gone"] /\ UNCHANGED <<queue, missed>>
    /\ UNCHANGED <<size, running, last, setups, stream, client, late, crossed>>

\* _drain: what has been written since; after the end, until nothing is new.
Drain(j) ==
    /\ pump[j].pc \in {"tail", "final"}
    /\ IF pump[j].offset < size[j]
       THEN Publish(Chunk(j)) /\ pump' = [pump EXCEPT ![j].offset = Chunk(j).end]
       ELSE /\ pump[j].pc = "final"
            /\ pump' = [pump EXCEPT ![j].pc = "gone"]
            /\ UNCHANGED <<queue, missed>>
    /\ crossed' = (crossed \/ (j # last /\ pump[j].offset < size[j]))
    /\ UNCHANGED <<size, running, last, setups, stream, client, late>>

-----------------------------------------------------------------------------
(* The stream *)

\* The caller subscribes; a stream of the same tab that was open before is closed.
Connect ==
    /\ stream' = "snapshot" /\ queue' = <<>>
    /\ stream = "closed" \/ stream = "live"
    /\ missed' = FALSE
    /\ UNCHANGED <<server, client, late, crossed>>

Disconnect ==
    /\ stream # "closed"
    /\ stream' = "closed" /\ queue' = <<>>
    /\ UNCHANGED <<server, client, missed, late, crossed>>

Span(j, a, b) == [i \in 1 .. b - a |-> <<j, a + i>>]
TailOffset(j) == IF size[j] > TailSize THEN size[j] - TailSize ELSE 0

\* latest(kind="setup")
LastSetup == IF setups = <<>> THEN 0 ELSE setups[Len(setups)]

\* The job worth showing: what runs, else the last setup; a run that has ended is none.
Replayed == IF running # 0 THEN running ELSE LastSetup

\* stream: only then the snapshot is taken; it says which job to follow, and if there is one, the
\* tail of its log replaces the pane.
Snapshot ==
    /\ stream = "snapshot" /\ stream' = "live"
    /\ shown' = Replayed /\ late' = (Replayed # last)
    /\ pane' = IF Replayed = 0 THEN pane
               ELSE [job   |-> Replayed,
                     bytes |-> Span(Replayed, TailOffset(Replayed), size[Replayed]),
                     end   |-> size[Replayed]]
    /\ UNCHANGED <<server, queue, fetch, missed, crossed>>

-----------------------------------------------------------------------------
(* The dashboard *)

\* A different job's delta starts a fresh pane.
Fresh(d) == IF pane.job = d.job THEN pane ELSE [job |-> d.job, bytes |-> <<>>, end |-> d.start]

\* a plausible bug: an overlap is appended as if it were contiguous
SpliceAny(p, d) == [p EXCEPT !.bytes = @ \o Span(d.job, d.start, d.end), !.end = d.end]

Splice(p, d) ==
    IF p.end = d.start THEN [p EXCEPT !.bytes = @ \o Span(d.job, d.start, d.end), !.end = d.end] ELSE p

\* applyDelta: known, contiguous, or to be asked for, one read at a time.
Delta(d) ==
    LET p == Fresh(d)
        ask == d.end > p.end /\ d.start # p.end
    IN  /\ pane' = IF d.end <= p.end THEN p ELSE Splice(p, d)
        /\ fetch' = IF ask /\ shown = d.job /\ fetch.pc = "none"
                    THEN [NoFetch EXCEPT !.pc = "asked", !.job = d.job, !.from = p.end] ELSE fetch
        /\ missed' = (missed \/ (ask /\ (shown # d.job \/ fetch.pc # "none")))
        /\ UNCHANGED shown

Receive ==
    /\ stream = "live" /\ queue # <<>>
    /\ queue' = Tail(queue)
    /\ LET e == Head(queue)
       IN  IF e.type = "log" THEN Delta(e)
           ELSE shown' = e.job /\ UNCHANGED <<pane, fetch, missed>>
    /\ UNCHANGED <<server, stream, late, crossed>>

\* The request for a setup's log names no job: the last setup's is read.
Requested(j) == IF \E i \in DOMAIN setups : setups[i] = j THEN LastSetup ELSE j

\* read_log for the REST request: one limited read, from the start if the log is shorter.
Answer ==
    /\ fetch.pc = "asked"
    /\ LET j == Requested(fetch.job)
           start == IF fetch.from > size[j] THEN 0 ELSE fetch.from
       IN  /\ fetch' = [fetch EXCEPT !.pc = "answered", !.job = j, !.start = start, !.to = ReadEnd(j, start)]
           /\ missed' = (missed \/ ReadEnd(j, start) < size[j])
           /\ crossed' = (crossed \/ j # fetch.job)
    /\ UNCHANGED <<server, queue, stream, pane, shown, late>>

\* The request fails, and nothing is said of it: the next delta will try again.
AnswerFails ==
    /\ fetch.pc = "asked"
    /\ fetch' = NoFetch /\ missed' = TRUE
    /\ UNCHANGED <<server, queue, stream, pane, shown, late, crossed>>

\* catchUp: the answer is applied if the pane still ends where it was asked for.
CatchUp ==
    /\ fetch.pc = "answered"
    /\ fetch' = NoFetch
    /\ IF pane.end = fetch.from
       THEN /\ pane' = [pane EXCEPT !.bytes = @ \o Span(fetch.job, fetch.start, fetch.to), !.end = fetch.to]
            /\ crossed' = (crossed \/ pane.job # fetch.job)
       ELSE UNCHANGED <<pane, crossed>>
    /\ UNCHANGED <<server, queue, stream, shown, missed, late>>

Serve == StartJob \/ WriteLog \/ EndJob \/ \E j \in JobIds : Drain(j)
View == Snapshot \/ Receive \/ Answer \/ AnswerFails \/ CatchUp

Next == Serve \/ View \/ Connect \/ Disconnect

Spec == Init /\ [][Next]_vars /\ WF_vars(View) /\ \A j \in JobIds : WF_vars(Drain(j))

-----------------------------------------------------------------------------
\* The pane shows one contiguous span of the log it belongs to, which ends where it believes:
\* no byte twice, none left out and none of another job's, whatever the stream dropped and
\* however snapshots, deltas and REST answers overlap; unless the output of two jobs has met.  (applyDelta, catchUp, snapshot, _drain.)
PaneIsContiguous ==
    ~crossed => pane.bytes = Span(pane.job, pane.end - Len(pane.bytes), pane.end)

\* A stream that stays open shows the whole end of the last job's log, with the exit line that
\* is written after the pump's last regular read: if that job runs when the stream's snapshot is
\* taken, or starts after it, or is a setup; unless a delta was dropped or came while a read was
\* under way, as nothing follows the last one, a read failed or came to its limit, or the output
\* of two jobs has met.  (run, subscribe before snapshot; the fallback to the last setup.)
LogArrives ==
    <>[](stream # "closed" /\ last # 0 /\ running = 0) =>
        <>(missed \/ late \/ crossed \/ (last # 0 /\ pane.job = last /\ pane.end = MaxLog[last]))
=============================================================================
