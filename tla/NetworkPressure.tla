-------------------------- MODULE NetworkPressure --------------------------
(***************************************************************************)
(* The pressure on each NIC (network.py) as the collector samples it and   *)
(* publishes it for the dashboard (network_pressure.py): the receiving     *)
(* direction, whose critical level caps other applications' traffic.       *)
(*                                                                         *)
(* Time goes by in seconds, scores are percent, and packets are counted in *)
(* hundreds, those that the ring has lost one by one.  The backlog of the  *)
(* softirqs, which counts like the ring's overflow, is left out, and so is *)
(* all of sending but its score.                                           *)
(***************************************************************************)
EXTENDS Integers, Sequences, SequencesExt, FiniteSetsExt

CONSTANTS
  Nics,
  Window,  \* seconds of history, 5 in the code
  MaxTime, \* bound: the clock
  MaxTurns \* bound: how often a NIC's traffic changes or its counters are reset

VARIABLES
  now,
  present,  \* the NICs of the machine
  counters, \* the kernel's counters of each
  util,     \* whether each is at its line rate
  monitor,  \* the NICs' monitors: the history, the distress that decays, and the scores
  snapshot, \* what is published
  trouble   \* history: when each NIC last lost packets in its ring, was in any trouble, had much
            \* traffic and had its counters reset; its last second, how often that was new, and
            \* whether it was a burst of loss

vars == <<now, present, counters, util, monitor, snapshot, trouble>>

Zero == [packets |-> 0, ring |-> 0, drops |-> 0]

\* What happens to a NIC in a second.  stray: a packet is lost on an idle link; of a busy link's
\* 10000 packets, burst: the ring loses 12, spill: it loses one, drops: half are lost elsewhere;
\* line: it is as fast as it can be.
Seconds == {"idle", "stray", "busy", "burst", "spill", "drops", "line"}
Counted(c, kind) ==
    CASE kind = "idle"  -> c
      [] kind = "stray" -> [c EXCEPT !.packets = @ + 1, !.ring = @ + 1]
      [] kind = "burst" -> [c EXCEPT !.packets = @ + 100, !.ring = @ + 12]
      [] kind = "spill" -> [c EXCEPT !.packets = @ + 100, !.ring = @ + 1]
      [] kind = "drops" -> [c EXCEPT !.packets = @ + 100, !.drops = @ + 50]
      [] OTHER          -> [c EXCEPT !.packets = @ + 100]

\* a monitor knows nothing before its first sample
NoMonitor == [history |-> <<>>, distress |-> 0, rx |-> 0, tx |-> 0, exhausted |-> FALSE]

-----------------------------------------------------------------------------
(* NetworkMonitor.                                                         *)

NoisyOr(a, b) == 100 - ((100 - a) * (100 - b)) \div 100

\* a mistake in the window: it never loses what is too old
KeptAll(h) == h
\* WindowDiffHistory.add, at the end: the samples of the window, which come last
Kept(h) == SubSeq(h, Min({i \in DOMAIN h : h[i].at + Window >= now}), Len(h))

\* _FIFO_HALF is one packet in 10000, _RX_DROP_HALF one in 20.
PerHalf(field) == IF field = "ring" THEN 10000 ELSE 2000

\* diff_rate: the ratio of packets lost between the ends of the window, in hundredths of its half
\* point; what is negative after a reset is no ratio
Halves(h, field) ==
    LET lost == Last(h).c[field] - Head(h).c[field]
        packets == Last(h).c.packets - Head(h).c.packets
    IN IF packets <= 0 \/ lost < 0 THEN 0 ELSE (PerHalf(field) * lost) \div packets

\* _sat: the share 1 - exp(-x), down to the step below
Sat(x) ==
    IF x >= 460 THEN 99 ELSE IF x >= 300 THEN 95 ELSE IF x >= 231 THEN 90 ELSE IF x >= 161 THEN 80
    ELSE IF x >= 121 THEN 70 ELSE IF x >= 100 THEN 63 ELSE IF x >= 70 THEN 50 ELSE IF x >= 36 THEN 30
    ELSE IF x >= 11 THEN 10 ELSE 0

\* a mistake in the distress: an idle link's loss counts in full
ActivityAlways(packets, dt) == 100
\* the activity gate: at 2000 packets a second a loss ratio is trusted
Activity(packets, dt) == Min({100, (5 * packets) \div dt})

Scaled(a, b) == (a * b) \div 100

\* the share of the distress that is left after dt seconds, 0.7 for each
Decayed(d, dt) == Scaled(d, IF dt <= 5 THEN <<70, 49, 34, 24, 17>>[dt] ELSE 12)

\* _update_pressure.  The first sample only starts the history.  At the line rate the smoothed
\* utilisation may have arrived at its gate or not; busy says whether it has.
Sampled(n, m, busy, tx) ==
    LET entry == [at |-> now, c |-> counters[n]]
        h == Kept(Append(m.history, entry))
        before == Last(m.history)
        dt == now - before.at
        fresh == counters[n].packets - before.c.packets
        active == IF fresh < 0 THEN 0 ELSE Activity(fresh, dt)
        instant == NoisyOr(Scaled(active, Scaled(30, Sat(Halves(h, "drops")))),
                           Scaled(active, Sat(Halves(h, "ring"))))
        distress == Max({Decayed(m.distress, dt), instant})
    IN IF m.history = <<>> THEN [m EXCEPT !.history = <<entry>>]
       ELSE [history |-> h, distress |-> distress,
             rx |-> NoisyOr(IF busy THEN 100 ELSE 0, distress), tx |-> tx,
             exhausted |-> Halves(h, "ring") >= 100]

-----------------------------------------------------------------------------
(* The levels.                                                             *)

\* _network_pressure_level and get_pressure_level, by the configured bands
Level(score) == IF score >= 90 THEN "critical" ELSE IF score >= 70 THEN "high"
                ELSE IF score >= 50 THEN "medium" ELSE "low"
Rank(level) == CASE level = "critical" -> 3 [] level = "high" -> 2 [] level = "medium" -> 1
                 [] OTHER -> 0

\* a mistake in the controller: every loss may be answered by a cap
ReceivingByScore(p) == Level(p.rx)
\* update_network_pressure_level: critical only when the host could not take the packets
Receiving(p) == IF Level(p.rx) = "critical" /\ ~p.exhausted THEN "high" ELSE Level(p.rx)

\* a mistake in the gauge: what the levels leave out is not left out here
CappedNot(p) == p.rx
Capped(p) == IF p.exhausted THEN p.rx ELSE Min({p.rx, 89})
\* _compute_fused_network_pressure: the worst NIC and direction
Gauge(published) == Max({0} \cup UNION {{Capped(published[n]), published[n].tx} : n \in DOMAIN published})

-----------------------------------------------------------------------------
\* How often the traffic has changed, and who may change once more.
Turn(n, kind) == IF now = 0 \/ kind = trouble[n].last THEN trouble[n].turns ELSE trouble[n].turns + 1

Tick(kind) ==
    /\ now < MaxTime /\ \A n \in Nics : Turn(n, kind[n]) <= MaxTurns
    /\ now' = now + 1
    /\ counters' = [n \in Nics |-> IF n \in present THEN Counted(counters[n], kind[n]) ELSE Zero]
    /\ util' = {n \in present : kind[n] = "line"}
    /\ trouble' = [n \in Nics |->
                     [trouble[n] EXCEPT
                        !.ring = IF n \in present /\ kind[n] \in {"burst", "spill", "stray"} THEN now' ELSE @,
                        !.traffic = IF n \in present /\ kind[n] \notin {"idle", "stray"} THEN now' ELSE @,
                        !.any = IF n \in present /\ kind[n] \notin {"idle", "busy"} THEN now' ELSE @,
                        !.last = kind[n], !.turns = Turn(n, kind[n]),
                        !.burst = n \in present /\ kind[n] = "burst"]]
    /\ UNCHANGED <<present, monitor, snapshot>>

\* a NIC is taken down and up, or away and back
Reset(n) ==
    /\ now > 0 /\ trouble[n].turns < MaxTurns
    /\ present' \in {present, present \ {n}, present \cup {n}}
    /\ counters' = [counters EXCEPT ![n] = Zero]
    /\ util' = util \ {n}
    /\ trouble' = 
         [trouble EXCEPT ![n] = [@ EXCEPT !.reset = now, !.burst = FALSE,
                                          !.turns = trouble[n].turns + 1]]
    /\ UNCHANGED <<now, monitor, snapshot>>

\* _network_pressure_collector_loop, once a second or later; quiet mode leaves seconds out.  NICs
\* are looked for when none is monitored, and one that has gone is given up.
Collect ==
    LET known == IF DOMAIN monitor = {} THEN present ELSE DOMAIN monitor
        m == [n \in known |-> IF n \in DOMAIN monitor THEN monitor[n] ELSE NoMonitor]
    IN /\ \A n \in known : m[n].history # <<>> => Last(m[n].history).at < now
       /\ \E busy \in SUBSET util, tx \in {0, 95} :
            monitor' = [n \in known \cap present |-> Sampled(n, m[n], n \in busy, tx)]
       /\ snapshot' = [n \in DOMAIN monitor' |->
                         [rx |-> monitor'[n].rx, tx |-> monitor'[n].tx,
                          exhausted |-> monitor'[n].exhausted]]
       /\ UNCHANGED <<now, present, counters, util, trouble>>

-----------------------------------------------------------------------------
Init ==
    /\ now = 0 /\ present \in SUBSET Nics /\ counters = [n \in Nics |-> Zero] /\ util = {}
    /\ monitor = <<>> /\ snapshot = <<>>
    /\ trouble = [n \in Nics |-> [ring |-> 0, any |-> 0, traffic |-> 0, reset |-> 0, burst |-> FALSE,
                                  last |-> "idle", turns |-> 0]]

Next ==
    \/ \E kind \in [Nics -> Seconds] : Tick(kind)
    \/ \E n \in Nics : Reset(n)
    \/ Collect

Spec == Init /\ [][Next]_vars

Published == [rx : 0..100, tx : 0..100, exhausted : BOOLEAN]

TypeOK ==
    /\ now \in 0..MaxTime /\ present \subseteq Nics /\ util \subseteq present
    /\ \A n \in Nics : counters[n] \in [packets : Nat, ring : Nat, drops : Nat]
    /\ DOMAIN monitor \subseteq Nics /\ DOMAIN snapshot = DOMAIN monitor
    /\ \A n \in DOMAIN snapshot : snapshot[n] \in Published
    /\ \A n \in DOMAIN monitor : Len(monitor[n].history) <= Window + 1

-----------------------------------------------------------------------------
\* the NICs that were sampled in this second
Fresh == {n \in DOMAIN monitor : Last(monitor[n].history).at = now}

\* Receiving is critical, and others' traffic is capped, only for a NIC whose ring has lost packets
\* within the window.
CriticalIsReal ==
    \A n \in Fresh : Receiving(snapshot[n]) = "critical" => now <= trouble[n].ring + Window

\* A burst of loss on a busy link is seen in the next sample, although the ratio is taken over the
\* whole window and the activity over the seconds that were left out; unless the window was begun by
\* this sample or the counters were reset within it.
LossIsSeen ==
    \A n \in Fresh :
        LET h == monitor[n].history
        IN Len(h) > 1 /\ trouble[n].burst /\ trouble[n].reset < Head(h).at
             => Receiving(snapshot[n]) = "critical"

\* A window after the last trouble the level is low again, and without traffic what little is
\* lost never raises it.
PressureFades ==
    \A n \in Fresh :
        Receiving(snapshot[n]) # "low" =>
            now <= trouble[n].any + Window /\ now <= trouble[n].traffic + Window + 1

\* The gauge shows the worst of the levels that the controller goes by.
GaugeShowsLevels ==
    Rank(Level(Gauge(snapshot)))
      = Max({0} \cup UNION {{Rank(Receiving(snapshot[n])), Rank(Level(snapshot[n].tx))}
                            : n \in DOMAIN snapshot})
=============================================================================
