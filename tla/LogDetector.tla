---------------------------- MODULE LogDetector ----------------------------
(***************************************************************************)
(* The scan that turns log lines into events of the diagnostics            *)
(* (detectors/rules.py) over one of its two sources: SmartTune's own error *)
(* lines, or the system journal, where the kernel's fault lines count.     *)
(*                                                                         *)
(* A scan asks for the lines from the second of its cursor on, skips those *)
(* it remembers, reports the others oldest first and then moves and saves  *)
(* the cursor.  The memory is lost with the process, the cursor is not.    *)
(* What a replay reports again the event table refuses by the line's       *)
(* identity, which has the boot in it.                                     *)
(***************************************************************************)
EXTENDS Naturals, Sequences, FiniteSets

CONSTANTS
  PerSecond, \* time stamps in a second
  Cap,       \* most lines of one query
  SeenMax,   \* lines remembered
  Late,      \* the longest time from a line's stamp to its writing
  Backfill,  \* how far a first scan goes back
  MaxTime,   \* bound: the clock
  MaxLines,  \* bound: lines
  MaxBoots   \* bound: boots

VARIABLES
  src,     \* "smartune" or "journal"
  now,
  log,     \* lines written
  up,      \* the detector runs and has its cursor
  cursor,
  saved,   \* DetectorCursor; 0 when there is none
  seen,    \* identities remembered, oldest first
  scan,    \* the scan under way: the lines still to process, the cursor it will leave
  boot,
  reports, \* how often the event table has a line, by boot
  excused  \* history: lines that a scan may rightly or knowingly miss (see LinesAreReported)

vars == <<src, now, log, up, cursor, saved, seen, scan, boot, reports, excused>>

Lines == [id : 1..MaxLines, ts : 1..MaxTime, kernel : BOOLEAN]
Idle == [on |-> FALSE, todo |-> {}, since |-> 0, high |-> 0]
Second(ts) == ts \div PerSecond
Latest(a, b) == IF a > b THEN a ELSE b

TypeOK ==
    /\ src \in {"smartune", "journal"} /\ now \in 1..MaxTime /\ log \subseteq Lines
    /\ up \in BOOLEAN /\ cursor \in 0..MaxTime /\ saved \in 0..MaxTime
    /\ seen \in Seq(1..MaxLines) /\ Len(seen) <= SeenMax
    /\ scan.todo \subseteq log /\ scan.since \in 0..MaxTime /\ scan.high \in 0..MaxTime
    /\ boot \in 1..MaxBoots /\ excused \subseteq log
    /\ reports \in [1..MaxLines -> [1..MaxBoots -> 0..MaxBoots]]

-----------------------------------------------------------------------------
\* lines that the journal's patterns match; every error line of SmartTune's log is reported
Matches(l) == src = "smartune" \/ l.kernel

\* a scan will not come back to this line once its cursor is at c
Passed(l, c) == IF src = "smartune" THEN l.ts < c ELSE Second(l.ts) < Second(c)

\* the cursor that the scan under way can leave at most
Reach == LET all == {l.ts : l \in scan.todo} \cup {scan.high, cursor, saved}
         IN CHOOSE t \in all : \A u \in all : u <= t

\* a line is stamped, and written a little later; a cursor that has overtaken it misses it
Write ==
    /\ Cardinality(log) < MaxLines
    /\ \E at \in 1..now, kernel \in BOOLEAN :
        LET line == [id |-> Cardinality(log) + 1, ts |-> at, kernel |-> kernel]
        IN /\ at + Late >= now /\ (kernel => src = "journal")
           /\ log' = log \cup {line}
           /\ excused' = IF Passed(line, Reach) THEN excused \cup {line} ELSE excused
    /\ UNCHANGED <<src, now, up, cursor, saved, seen, scan, boot, reports>>

\* initialize_cursors
Start ==
    /\ ~up
    /\ up' = TRUE
    /\ LET fallback == IF now < Backfill THEN 0 ELSE now - Backfill
       IN /\ cursor' = IF saved # 0 THEN saved ELSE fallback
          /\ excused' = IF saved # 0 THEN excused ELSE excused \cup {l \in log : l.ts < fallback}
    /\ UNCHANGED <<src, now, log, saved, seen, scan, boot, reports>>

-----------------------------------------------------------------------------
(* One scan.                                                               *)

\* the newest lines of a query's result, as many as its limit
Newest(lines) ==
    {l \in lines : Cardinality({m \in lines : m.ts > l.ts \/ (m.ts = l.ts /\ m.id > l.id)}) < Cap}

\* what the source returns from the cursor's second on; the journal up to the present second
Window ==
    {l \in log : /\ Second(l.ts) >= Second(cursor)
                 /\ src = "journal" => l.ts <= Second(now) * PerSecond}

Kernel == {l \in Window : l.kernel}

\* a mistake in the journal's queries: only the general one
AnsweredTogether == Newest(Window)
\* the journal's kernel lines are asked for separately, so that no others take their place
Answered == IF src = "journal" THEN Newest(Kernel) \cup Newest(Window) ELSE Newest(Window)

\* lines beyond the limit of their query
Beyond == IF src = "journal" THEN Kernel \ Newest(Kernel) ELSE Window \ Newest(Window)

Query ==
    /\ up /\ ~scan.on
    /\ scan' = [on |-> TRUE, todo |-> Answered, since |-> cursor, high |-> cursor]
    /\ excused' = excused \cup Beyond
    /\ UNCHANGED <<src, now, log, up, cursor, saved, seen, boot, reports>>

\* a mistake in the scan: a line at the cursor's very time is taken for a known one
BehindOrAt(l) == src = "smartune" /\ l.ts <= scan.since
\* lines of the cursor's second that SmartTune's scan skips
Behind(l) == src = "smartune" /\ l.ts < scan.since

\* a mistake in the event table: no identity, so that nothing is refused
InsertAlways(l) == [reports EXCEPT ![l.id][boot] = @ + 1]
\* record_event: the unique index on source, boot, identity and type
Insert(l) == IF reports[l.id][boot] = 0 THEN [reports EXCEPT ![l.id][boot] = 1] ELSE reports

\* _BoundedSeen.add
Remember(l) == LET all == Append(seen, l.id)
               IN IF Len(all) > SeenMax THEN Tail(all) ELSE all

Known(l) == \E i \in 1..Len(seen) : seen[i] = l.id

\* the body of the loop, for the oldest line; the event may fail to be stored
Process ==
    /\ scan.on
    /\ \E l \in scan.todo :
        /\ \A m \in scan.todo : l.ts <= m.ts
        /\ IF Behind(l) \/ Known(l)
           THEN /\ scan' = [scan EXCEPT !.todo = @ \ {l},
                                        !.high = IF src = "journal" THEN Latest(@, l.ts) ELSE @]
                /\ UNCHANGED <<seen, reports, excused>>
           ELSE /\ scan' = [scan EXCEPT !.todo = @ \ {l}, !.high = Latest(@, l.ts)]
                /\ seen' = Remember(l)
                /\ \/ ~Matches(l) /\ UNCHANGED <<reports, excused>>
                   \/ Matches(l) /\ reports' = Insert(l) /\ UNCHANGED excused
                   \/ Matches(l) /\ reports' = reports /\ excused' = excused \cup {l}
    /\ UNCHANGED <<src, now, log, up, cursor, saved, boot>>

\* the cursor is moved and saved, if the database lets it
Finish ==
    /\ scan.on /\ scan.todo = {}
    /\ scan' = Idle
    /\ cursor' = Latest(cursor, scan.high)
    /\ saved' \in {saved, cursor'}
    /\ UNCHANGED <<src, now, log, up, seen, boot, reports, excused>>

\* the process ends at any point; the machine may be started anew
Crash ==
    /\ up
    /\ up' = FALSE /\ scan' = Idle /\ seen' = << >> /\ cursor' = 0
    /\ boot' \in {boot, boot + 1} \cap 1..MaxBoots
    /\ UNCHANGED <<src, now, log, saved, reports, excused>>

Tick ==
    /\ now < MaxTime
    /\ now' = now + 1
    /\ UNCHANGED <<src, log, up, cursor, saved, seen, scan, boot, reports, excused>>

-----------------------------------------------------------------------------
Init ==
    /\ src \in {"smartune", "journal"} /\ now = 1 /\ log = {} /\ up = FALSE
    /\ cursor = 0 /\ saved = 0 /\ seen = << >> /\ scan = Idle /\ boot = 1
    /\ reports = [i \in 1..MaxLines |-> [b \in 1..MaxBoots |-> 0]] /\ excused = {}

Next == Write \/ Start \/ Query \/ Process \/ Finish \/ Crash \/ Tick

Spec == Init /\ [][Next]_vars

-----------------------------------------------------------------------------
Reported(l) == \E b \in 1..MaxBoots : reports[l.id][b] > 0

\* A matching line that the saved cursor has passed, or that the scan has taken for known, is in
\* the event table, whatever crashed in between: it is missing only if it was older than the
\* first scan's reach, beyond its query's limit, written after a later one had been scanned, or
\* refused by the database.
LinesAreReported ==
    \A l \in log :
        Matches(l) /\ (Passed(l, saved) \/ (~scan.on /\ (Passed(l, cursor) \/ Known(l))))
            => Reported(l) \/ l \in excused

\* No line is twice in the event table for one boot, although every restart scans some lines anew.
ReportedOnce == \A i \in 1..MaxLines, b \in 1..MaxBoots : reports[i][b] <= 1
=============================================================================
