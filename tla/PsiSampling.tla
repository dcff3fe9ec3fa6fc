---------------------------- MODULE PsiSampling ----------------------------
(***************************************************************************)
(* The pressure samples of one resource (psi.py).  Every user of the stall *)
(* information shares one PSIMonitor, its open file and its history,       *)
(* without a lock: the pressure thread, the dashboard's telemetry and the  *)
(* ranking of the top consumers.                                           *)
(*                                                                         *)
(* A reading stamps the time and rewinds the file, reads it, and compares  *)
(* and stores, which is taken as one step.  The file's position belongs to *)
(* all readers: what is read after another's read is the empty rest, which *)
(* counts as a total of zero.                                              *)
(***************************************************************************)
EXTENDS Naturals, FiniteSets

CONSTANTS
  Readers, \* threads that ask for the pressure
  Window,  \* seconds that a sample stays in the window
  MaxTime  \* bound: the clock

VARIABLES
  now,
  stalled, \* the seconds in which tasks were stalled
  pos,     \* the file's position: start or end
  reader,  \* each thread's reading
  last,    \* the last reading's time and total
  window   \* the samples of the window

vars == <<now, stalled, pos, reader, last, window>>

Total == Cardinality(stalled)

\* A sample says that of the seconds after from, up to to, amount were stalled.  odd is history:
\* another reading overlapped this one or the one it is compared with.
Sample == [from : 0..MaxTime, to : 0..MaxTime, amount : 0..MaxTime, odd : BOOLEAN]
Reading == [at : {"idle", "read", "store"}, ts : 0..MaxTime, total : 0..MaxTime,
            odd : BOOLEAN]
NoReading == [at |-> "idle", ts |-> 0, total |-> 0, odd |-> FALSE]

TypeOK ==
    /\ now \in 0..MaxTime /\ stalled \subseteq 1..MaxTime /\ pos \in {"start", "end"}
    /\ reader \in [Readers -> Reading]
    /\ last \in [known : BOOLEAN, ts : 0..MaxTime, total : 0..MaxTime, odd : BOOLEAN]
    /\ window \subseteq Sample

-----------------------------------------------------------------------------
Min(a, b) == IF a < b THEN a ELSE b
Others(r) == \E u \in Readers \ {r} : reader[u].at # "idle"

\* the time, and the file rewound for everyone
Rewind(r) ==
    /\ reader[r].at = "idle"
    /\ pos' = "start"
    /\ reader' = [u \in Readers |->
                    IF u = r THEN [NoReading EXCEPT !.at = "read", !.ts = now, !.odd = Others(r)]
                    ELSE [reader[u] EXCEPT !.odd = @ \/ reader[u].at # "idle"]]
    /\ UNCHANGED <<now, stalled, last, window>>

\* _parse_total of what is left of the file
Read(r) ==
    /\ reader[r].at = "read"
    /\ pos' = "end"
    /\ reader' = [reader EXCEPT ![r].at = "store",
                                ![r].total = IF pos = "start" THEN Total ELSE 0]
    /\ UNCHANGED <<now, stalled, last, window>>

\* the stalled part of the time between the two readings, kept between 0 and all of it; 0 if no
\* time has passed
Amount(ts, total) ==
    IF ts <= last.ts \/ total <= last.total THEN 0 ELSE Min(total - last.total, ts - last.ts)

\* a mistake in the memory: without a stall only the time is remembered
RememberedTime(r) == [known |-> TRUE, ts |-> reader[r].ts, total |-> last.total, odd |-> reader[r].odd]
\* what the next reading is compared with
Remembered(r) == [known |-> TRUE, ts |-> reader[r].ts, total |-> reader[r].total, odd |-> reader[r].odd]

\* the sample goes into the window, and what is too old leaves it; the first reading has
\* nothing to compare with
Store(r) ==
    /\ reader[r].at = "store"
    /\ last' = Remembered(r)
    /\ LET sample == [from |-> Min(last.ts, reader[r].ts), to |-> reader[r].ts,
                      amount |-> Amount(reader[r].ts, reader[r].total),
                      odd |-> last.odd \/ reader[r].odd]
       IN window' = IF last.known THEN {s \in window \cup {sample} : s.to + Window >= now} ELSE window
    /\ reader' = [reader EXCEPT ![r] = NoReading]
    /\ UNCHANGED <<now, stalled, pos>>

\* a second passes, in which tasks were stalled or not; a reading takes no time by itself
Tick ==
    /\ now < MaxTime /\ \A r \in Readers : reader[r].at = "idle"
    /\ now' = now + 1
    /\ stalled' \in {stalled, stalled \cup {now + 1}}
    /\ UNCHANGED <<pos, reader, last, window>>

-----------------------------------------------------------------------------
Init ==
    /\ now = 0 /\ stalled = {} /\ pos = "start" /\ window = {}
    /\ reader = [r \in Readers |-> NoReading]
    /\ last = [known |-> FALSE, ts |-> 0, total |-> 0, odd |-> FALSE]

Next == (\E r \in Readers : Rewind(r) \/ Read(r) \/ Store(r)) \/ Tick

Spec == Init /\ [][Next]_vars

-----------------------------------------------------------------------------
\* A sample is the stalled part of exactly the time since the reading before it.
True(s) == s.amount = Cardinality(stalled \cap ((s.from + 1)..s.to))

\* Readings that overlap may store wrong samples, but the damage ends with the next reading
\* that does not: every other sample is true.
OverlapsAreForgotten == \A s \in window : True(s) \/ s.odd
=============================================================================
