------------------------------- MODULE UiLease -------------------------------
(***************************************************************************)
(* The packaged monitor stops itself when the last dashboard tab has       *)
(* closed.  A tab posts a heartbeat at an interval and a release when its  *)
(* page is hidden; the requests are handled by threads of their own, so    *)
(* that they may overtake each other or get lost.  A watchdog polls the    *)
(* leases and stops the service when none is left.                         *)
(*                                                                         *)
(* Time advances in units of a few seconds.                                *)
(***************************************************************************)
EXTENDS Naturals, FiniteSets

CONSTANTS Tabs,
          Grace,     \* heartbeat_grace
          Short,     \* release_grace
          Interval,  \* the dashboard's heartbeat interval
          Startup,   \* startup_grace
          Misses     \* how many heartbeats in a row may get lost

VARIABLES
  page,      \* per tab: whether it shows, when its next heartbeat is due, how many were lost
  net,       \* requests on their way: [kind, tab]
  lease,     \* _sessions: what is left of the lease, 0 when it has lapsed or there is none
  any,       \* _any_seen
  left,      \* what is left of the startup grace
  polled,    \* the watchdog has looked since the clock last advanced
  service,   \* "up" or "stopping"
  held,      \* history: tabs whose page has been heard of since it was opened
  overtaken  \* history: tabs whose release arrived after a later heartbeat

vars == <<page, net, lease, any, left, polled, service, held, overtaken>>

Hidden == [open |-> FALSE, due |-> 0, lost |-> 0]

Init ==
    /\ page = [t \in Tabs |-> Hidden]
    /\ net = {}
    /\ lease = [t \in Tabs |-> 0]
    /\ any = FALSE /\ left = Startup
    /\ polled = FALSE /\ service = "up"
    /\ held = {} /\ overtaken = {}

\* The shape of the state.
TypeOK ==
    /\ page \in [Tabs -> [open : BOOLEAN, due : 0 .. Interval, lost : 0 .. Misses]]
    /\ net \subseteq [kind : {"heartbeat", "release"}, tab : Tabs]
    /\ lease \in [Tabs -> 0 .. Grace] /\ left \in 0 .. Startup
    /\ service \in {"up", "stopping"}
    /\ held \cup overtaken \subseteq Tabs

Post(kind, t) == net' = net \cup {[kind |-> kind, tab |-> t]}

-----------------------------------------------------------------------------
(* The dashboard *)

\* A page loads, or comes back from the back/forward cache, and posts at once.
Open(t) ==
    /\ ~page[t].open
    /\ page' = [page EXCEPT ![t] = [open |-> TRUE, due |-> Interval, lost |-> 0]]
    /\ Post("heartbeat", t)
    /\ held' = held \ {t}
    /\ UNCHANGED <<lease, any, left, polled, service, overtaken>>

\* pagehide, logout or a reload; a browser that is killed posts nothing.
Close(t, quietly) ==
    /\ page[t].open
    /\ page' = [page EXCEPT ![t] = Hidden]
    /\ IF quietly THEN UNCHANGED net ELSE Post("release", t)
    /\ held' = held \ {t}
    /\ UNCHANGED <<lease, any, left, polled, service, overtaken>>

Beat(t) ==
    /\ page[t].open /\ page[t].due = 0
    /\ \/ Post("heartbeat", t) /\ page' = [page EXCEPT ![t].due = Interval, ![t].lost = 0]
       \/ /\ page[t].lost < Misses
          /\ page' = [page EXCEPT ![t].due = Interval, ![t].lost = @ + 1]
          /\ UNCHANGED net
    /\ UNCHANGED <<lease, any, left, polled, service, held, overtaken>>

-----------------------------------------------------------------------------
(* UiLeaseManager *)

Arrive(m) == m \in net /\ net' = net \ {m} /\ any' = TRUE

\* a plausible bug: a heartbeat does not undo a release that was delayed
HeartbeatOnce(t) ==
    /\ Arrive([kind |-> "heartbeat", tab |-> t])
    /\ lease' = [lease EXCEPT ![t] = IF @ = 0 THEN Grace ELSE @]
    /\ held' = IF page[t].open THEN held \cup {t} ELSE held
    /\ overtaken' = overtaken \ {t}
    /\ UNCHANGED <<page, left, polled, service>>

Heartbeat(t) ==
    /\ Arrive([kind |-> "heartbeat", tab |-> t])
    /\ lease' = [lease EXCEPT ![t] = Grace]
    /\ held' = IF page[t].open THEN held \cup {t} ELSE held
    /\ overtaken' = overtaken \ {t}
    /\ UNCHANGED <<page, left, polled, service>>

\* A release never lengthens a lease.
Pulled(l) == IF l = 0 \/ l > Short THEN Short ELSE l

Release(t) ==
    /\ Arrive([kind |-> "release", tab |-> t])
    /\ lease' = [lease EXCEPT ![t] = Pulled(@)]
    /\ overtaken' = IF t \in held THEN overtaken \cup {t} ELSE overtaken
    /\ UNCHANGED <<page, left, polled, service, held>>

\* a plausible bug: without a dashboard there is nothing to stop for
ShouldStopSeen == any /\ \A t \in Tabs : lease[t] = 0

\* _should_stop: nobody came within the startup grace, or all who came have left.
ShouldStop == (\A t \in Tabs : lease[t] = 0) /\ (any \/ left = 0)

\* _watch: whatever arrives after its decision is too late.
Watch ==
    /\ service = "up"
    /\ polled' = TRUE
    /\ service' = IF ShouldStop THEN "stopping" ELSE "up"
    /\ UNCHANGED <<page, net, lease, any, left, held, overtaken>>

Less(n) == IF n = 0 THEN 0 ELSE n - 1

\* Requests arrive, heartbeats are posted and the watchdog polls within a unit of time.
Tick ==
    /\ net = {} /\ polled /\ service = "up"
    /\ \A t \in Tabs : page[t].open => page[t].due > 0
    /\ page' = [t \in Tabs |-> [page[t] EXCEPT !.due = Less(@)]]
    /\ lease' = [t \in Tabs |-> Less(lease[t])]
    /\ left' = Less(left)
    /\ polled' = FALSE
    /\ UNCHANGED <<net, any, service, held, overtaken>>

Next ==
    \/ \E t \in Tabs : Open(t) \/ Beat(t) \/ Heartbeat(t) \/ Release(t)
                       \/ \E quietly \in BOOLEAN : Close(t, quietly)
    \/ Watch \/ Tick

Fairness ==
    /\ WF_vars(Watch) /\ WF_vars(Tick)
    /\ \A t \in Tabs : WF_vars(Beat(t)) /\ WF_vars(Heartbeat(t)) /\ WF_vars(Release(t))

Spec == Init /\ [][Next]_vars /\ Fairness

-----------------------------------------------------------------------------
\* The service does not stop under a tab that is open and has been heard of, as long as not
\* too many of its heartbeats get lost in a row; unless the release of the page before a
\* reload arrived after the new page's heartbeat, as the short grace is over before the next
\* heartbeat.  (_should_stop, release, useUiLease.)
OpenTabKeepsService ==
    [][service' # service => \A t \in Tabs : page[t].open /\ t \in held => t \in overtaken]_vars

\* Once every tab is closed for good the service stops, also when no tab ever opened and when
\* the releases were never sent.  (_watch, _should_stop.)
ClosedUiStopsService == <>[](\A t \in Tabs : ~page[t].open) => <>(service = "stopping")
=============================================================================
