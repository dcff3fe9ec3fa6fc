--------------------------- MODULE PressureLevels ---------------------------
(***************************************************************************)
(* From scores to levels: SystemPressureMonitor's refresh (monitor_api.py) *)
(* and the classification of its two channels, the system's and the        *)
(* disks' (pressure.py).                                                   *)
(*                                                                         *)
(* A refresh scores both channels, publishes their levels and raises the   *)
(* peaks under a lock, and tells its listeners after it; the balancer      *)
(* takes the peaks when it gets to them.  A refresh may fail halfway.      *)
(*                                                                         *)
(* Scores are integers, Critical the highest.  Smoothing takes the score   *)
(* somewhere between the old one and the raw one; since the raw one may be *)
(* any, so may the smoothed one.                                           *)
(* A refresh that is left out, in quiet mode or because the lock is taken, *)
(* is no step.                                                             *)
(***************************************************************************)
EXTENDS Naturals

CONSTANTS
  Medium, High, Critical, \* the scores at which the levels begin
  Hysteresis              \* how far a score falls below its level before that is given up

Scores == 0..Critical
Channels == {"system", "disk"}
Levels == {"low", "medium", "high", "critical"}

VARIABLES
  score,   \* each channel's smoothed score, NoScore at first
  sticky,  \* the level each channel was last classified as
  level,   \* the published levels
  peak,    \* the highest levels since the balancer last asked
  told,    \* what the listeners were told last: the levels, and whether the system is critical
  telling, \* the refresh has published and not told yet
  held     \* history: the levels published since the balancer last asked, and then

vars == <<score, sticky, level, peak, told, telling, held>>

NoScore == Critical + 1
None == "none"
Published == Levels \cup {None, "unknown"}

TypeOK ==
    /\ score \in [Channels -> Scores \cup {NoScore}] /\ sticky \in [Channels -> Levels \cup {None}]
    /\ level \in [Channels -> Published] /\ peak \in [Channels -> Published]
    /\ told \in [levels : [Channels -> Published], critical : BOOLEAN]
    /\ telling \in {"no", "critical", "levels"}
    /\ held \in [Channels -> SUBSET Published]

-----------------------------------------------------------------------------
(* The classification.                                                     *)

Plain(s) == IF s >= Critical THEN "critical" ELSE IF s >= High THEN "high"
            ELSE IF s >= Medium THEN "medium" ELSE "low"

Rank(l) == CASE l = "critical" -> 4 [] l = "high" -> 3 [] l = "medium" -> 2 [] l = "low" -> 1
             [] OTHER -> 0
Entry(l) == CASE l = "critical" -> Critical [] l = "high" -> High [] l = "medium" -> Medium
              [] OTHER -> 0

\* a mistake in the hysteresis: it is measured from the level that the score would have
StickyBelow(s, old) ==
    IF old = None \/ Rank(Plain(s)) >= Rank(old) \/ old = "critical" THEN Plain(s)
    ELSE IF s + Hysteresis < Entry(Plain(s)) THEN Plain(s) ELSE old
\* _apply_level_hysteresis: down from a level only when the score is clearly below its entry;
\* critical is left at once
Sticky(s, old) ==
    IF old = None \/ Rank(Plain(s)) >= Rank(old) \/ old = "critical" THEN Plain(s)
    ELSE IF s + Hysteresis < Entry(old) THEN Plain(s) ELSE old

-----------------------------------------------------------------------------
(* The refresh.                                                            *)

\* _update_pressure_level has given the levels l: publish them and raise the peaks
Publish(l) ==
    /\ level' = l
    /\ peak' = [c \in Channels |-> IF Rank(l[c]) > Rank(peak[c]) THEN l[c] ELSE peak[c]]
    /\ held' = [c \in Channels |-> held[c] \cup {l[c]}]
    /\ telling' = "critical"
    /\ UNCHANGED told

Refresh ==
    /\ telling = "no"
    /\ score' \in [Channels -> Scores]
    /\ sticky' = [c \in Channels |-> Sticky(score'[c], sticky[c])]
    /\ Publish(sticky')

\* a failure before the disks were classified, or after it: the level is unknown, the disks low
Failed ==
    /\ telling = "no"
    /\ \/ UNCHANGED <<score, sticky>>
       \/ \E s \in Scores :
            /\ score' = [score EXCEPT !["disk"] = s]
            /\ sticky' = [sticky EXCEPT !["disk"] = Sticky(s, @)]
    /\ Publish([c \in Channels |-> IF c = "system" THEN "unknown" ELSE "low"])

\* the listeners for critical, when the system has become critical or stopped being so
TellCritical ==
    /\ telling = "critical"
    /\ telling' = "levels"
    /\ told' = [told EXCEPT !.critical = level["system"] = "critical"]
    /\ UNCHANGED <<score, sticky, level, peak, held>>

\* the listeners for every change
TellLevels ==
    /\ telling = "levels"
    /\ telling' = "no"
    /\ told' = [told EXCEPT !.levels = level]
    /\ UNCHANGED <<score, sticky, level, peak, held>>

\* a mistake in taking the peaks: they begin at the bottom
Cleared == [c \in Channels |-> "low"]
\* the peaks begin again at the present levels
Restarted == level

\* consume_peak_pressure_level, by the balancer at any time
Consume ==
    /\ peak' = Restarted
    /\ held' = [c \in Channels |-> {level[c]}]
    /\ UNCHANGED <<score, sticky, level, told, telling>>

-----------------------------------------------------------------------------
Init ==
    /\ score = [c \in Channels |-> NoScore] /\ sticky = [c \in Channels |-> None]
    /\ level = [c \in Channels |-> IF c = "system" THEN None ELSE "low"]
    /\ peak = level /\ held = [c \in Channels |-> {level[c]}]
    /\ told = [levels |-> level, critical |-> FALSE] /\ telling = "no"

Next == Refresh \/ Failed \/ TellCritical \/ TellLevels \/ Consume

Spec == Init /\ [][Next]_vars

-----------------------------------------------------------------------------
\* However briefly a level lasted, the balancer gets it, or a higher one, the next time it asks.
NoPeakIsMissed == \A c \in Channels : \A l \in held[c] : Rank(l) <= Rank(peak[c])

\* A channel's level is the one of its smoothed score, or one that the score has left by no more
\* than the hysteresis; critical only by the score itself.
LevelFitsScore ==
    \A c \in Channels :
        sticky[c] # None =>
            /\ Rank(Plain(score[c])) <= Rank(sticky[c])
            /\ Entry(sticky[c]) <= score[c] + Hysteresis
            /\ sticky[c] = "critical" <=> score[c] = Critical
=============================================================================
