---------------------------- MODULE AppStatsCache ----------------------------
(***************************************************************************)
(* The per-app statistics of the monitor API: a refresher samples them     *)
(* while somebody asks, parks when nobody does or quiet mode is on, and is *)
(* woken by the next request, which samples by itself if it finds nothing. *)
(*                                                                         *)
(* Values are abstracted to their age.  A sample and a request take less   *)
(* than a unit of time.                                                    *)
(***************************************************************************)
EXTENDS Naturals

CONSTANTS Clients,
          Refresh,  \* _APP_STATS_REFRESH_INTERVAL_SEC
          Timeout   \* _APP_STATS_IDLE_TIMEOUT_SEC, rounded down

VARIABLES
  quiet,     \* quiet_mode.is_active()
  stats,     \* age of one of the two cached statistics, which are handled alike, or None
  idle,      \* time since last_request_ts
  event,     \* _app_stats_request_event
  ref,       \* the refresher: where it is and what is left of its sleep
  req,       \* per client: where its request is, and the age of its answer
  asked,     \* history: a request has been noted since the refresher last looked
  failing,   \* history: the refresher's last sample failed
  stranded   \* history: a request that quiet mode overtook filled the cache of the parked refresher

vars == <<quiet, stats, idle, event, ref, req, asked, failing, stranded>>

Cap == Timeout + Refresh + 1
None == Cap + 1
Idle == [pc |-> "idle", age |-> 0]

Init ==
    /\ quiet \in BOOLEAN /\ stats = None /\ idle = Cap /\ event = FALSE
    /\ ref = [pc |-> "look", left |-> 0]
    /\ req = [c \in Clients |-> Idle]
    /\ asked = FALSE /\ failing = FALSE /\ stranded = FALSE

\* The shape of the state; time passes only while the refresher sleeps or waits.
TypeOK ==
    /\ stats \in 0 .. None /\ idle \in 0 .. Cap
    /\ {quiet, event, asked, failing, stranded} \subseteq BOOLEAN
    /\ ref.pc \in {"look", "drop", "wait", "clear", "sample", "sleep"} /\ ref.left \in 0 .. Refresh
    /\ ref.left > 0 => ref.pc = "sleep"
    /\ \A c \in Clients : req[c].pc \in {"idle", "asked", "noted", "sample", "answered"} /\ req[c].age \in 0 .. None

-----------------------------------------------------------------------------
(* refresh_loop *)

Ref(pc) == ref' = [ref EXCEPT !.pc = pc]
Shared == <<quiet, idle, req>>

Look ==
    /\ ref.pc = "look"
    /\ Ref(IF quiet \/ idle > Timeout THEN "drop" ELSE "sample")
    /\ asked' = FALSE
    /\ UNCHANGED <<Shared, stats, event, failing, stranded>>

\* a plausible bug: what was cached stays for the next request
DropNothing ==
    /\ ref.pc = "drop" /\ Ref("wait")
    /\ UNCHANGED <<Shared, stats, event, asked, failing, stranded>>

\* a plausible bug: the event is cleared before the wait, not after it
DropAndClear ==
    /\ ref.pc = "drop" /\ Ref("wait")
    /\ stats' = None /\ stranded' = FALSE /\ event' = FALSE
    /\ UNCHANGED <<Shared, asked, failing>>

Drop ==
    /\ ref.pc = "drop" /\ Ref("wait")
    /\ stats' = None /\ stranded' = FALSE
    /\ UNCHANGED <<Shared, event, asked, failing>>

Wake ==
    /\ ref.pc = "wait" /\ event /\ Ref("clear")
    /\ UNCHANGED <<Shared, stats, event, asked, failing, stranded>>

Clear ==
    /\ ref.pc = "clear" /\ Ref("look")
    /\ event' = FALSE
    /\ UNCHANGED <<Shared, stats, asked, failing, stranded>>

\* after an error the old statistics stay
Sample(ok) ==
    /\ ref.pc = "sample" /\ ref' = [pc |-> "sleep", left |-> Refresh]
    /\ stats' = IF ok THEN 0 ELSE stats
    /\ failing' = ~ok
    /\ stranded' = (stranded /\ ~ok)
    /\ UNCHANGED <<Shared, event, asked>>

Awake ==
    /\ ref.pc = "sleep" /\ ref.left = 0 /\ Ref("look")
    /\ UNCHANGED <<Shared, stats, event, asked, failing, stranded>>

-----------------------------------------------------------------------------
(* get_app_resource_stats, get_app_disk_io_stats *)

Free(c) == req[c].pc \in {"idle", "answered"}
Become(c, pc, age) == req' = [req EXCEPT ![c] = [pc |-> pc, age |-> age]]

\* in quiet mode the answer is empty
Ask(c) ==
    /\ Free(c)
    /\ Become(c, IF quiet THEN "idle" ELSE "asked", 0)
    /\ UNCHANGED <<quiet, stats, idle, event, ref, asked, failing, stranded>>

Note(c) ==
    /\ req[c].pc = "asked"
    /\ idle' = 0 /\ asked' = TRUE
    /\ Become(c, "noted", stats)
    /\ UNCHANGED <<quiet, stats, event, ref, failing, stranded>>

Signal(c) ==
    /\ req[c].pc = "noted"
    /\ event' = TRUE
    /\ Become(c, IF req[c].age = None THEN "sample" ELSE "answered", req[c].age)
    /\ UNCHANGED <<quiet, stats, idle, ref, asked, failing, stranded>>

\* The sample is kept if there still is none; it may fail.
Fill(c, ok) ==
    /\ req[c].pc = "sample"
    /\ IF ok THEN Become(c, "answered", 0) ELSE Become(c, "idle", 0)
    /\ stats' = IF ok /\ stats = None THEN 0 ELSE stats
    /\ stranded' = (stranded \/ (stats' # stats /\ ref.pc = "wait" /\ ~event))
    /\ UNCHANGED <<quiet, idle, event, ref, asked, failing>>

-----------------------------------------------------------------------------
Quiet ==
    /\ quiet' = ~quiet
    /\ UNCHANGED <<stats, idle, event, ref, req, asked, failing, stranded>>

Tick ==
    /\ \/ ref.pc = "wait" /\ ~event
       \/ ref.pc = "sleep" /\ ref.left > 0
    /\ \A c \in Clients : Free(c)
    /\ stats' = IF stats >= Cap THEN stats ELSE stats + 1
    /\ idle' = IF idle = Cap THEN Cap ELSE idle + 1
    /\ ref' = [ref EXCEPT !.left = IF @ = 0 THEN 0 ELSE @ - 1]
    /\ req' = [c \in Clients |-> Idle]
    /\ UNCHANGED <<quiet, event, asked, failing, stranded>>

Next ==
    \/ Look \/ Drop \/ Wake \/ Clear \/ Awake \/ \E ok \in BOOLEAN : Sample(ok)
    \/ \E c \in Clients : Ask(c) \/ Note(c) \/ Signal(c) \/ \E ok \in BOOLEAN : Fill(c, ok)
    \/ Quiet \/ Tick

Spec == Init /\ [][Next]_vars

-----------------------------------------------------------------------------
\* What a request is answered with has been sampled within the refresher's period, also by the
\* first request after hours without any ("so the next request gets fresh data"); unless
\* the refresher's samples fail, or a request that quiet mode overtook has filled the cache of
\* the refresher that it parked.  (refresh_loop, get_app_resource_stats.)
StatsFresh ==
    \A c \in Clients : req[c].pc = "asked" /\ req'[c].pc = "noted" /\ ~failing /\ ~stranded =>
        req'[c].age \in 0 .. Refresh \cup {None}

\* The refresher never waits while a request that came after its last look wants it: that
\* request, or the event, is still to wake it.  (refresh_loop, _app_stats_request_event.)
NoRequestIsMissed ==
    ref.pc = "wait" /\ asked => event \/ \E c \in Clients : req[c].pc = "noted"
=============================================================================
