---------------------------- MODULE LevelTracker ----------------------------
(***************************************************************************)
(* The pressure changes of the diagnostics (episodes.py): a scan reads the *)
(* newest stored snapshot of the monitor and records a change of the       *)
(* pressure band once the readings have stayed on one side of the last     *)
(* recorded band for long enough.  The monitor stores its snapshots when   *)
(* it likes, so a scan may miss some and may read one twice.               *)
(*                                                                         *)
(* One life of the process: a new one starts at normal, with no readings.  *)
(***************************************************************************)
EXTENDS Naturals, Sequences

CONSTANTS
  Trigger, \* seconds of readings above the band that make a rise
  Clear,   \* seconds of readings below it that make a fall
  MaxTime  \* bound: the clock

Bands == 0..2  \* normal (low and medium too), high, critical

VARIABLES
  now,
  snapshot,  \* the newest stored snapshot
  confirmed, \* the band last confirmed
  dir,       \* the side the readings are on: settled, up, down
  since,     \* time of the first reading on that side
  read,      \* history: the distinct readings, oldest first
  changes    \* history: the changes recorded, and the number of readings at each

vars == <<now, snapshot, confirmed, dir, since, read, changes>>

Reading == [band : Bands, ts : 0..MaxTime]

TypeOK ==
    /\ now \in 0..MaxTime /\ snapshot \in Reading /\ confirmed \in Bands
    /\ dir \in {"settled", "up", "down"} /\ since \in 0..MaxTime
    /\ \A i \in 1..Len(read) : read[i] \in Reading
    /\ \A i \in 1..Len(changes) : changes[i] \in [from : Bands, to : Bands, at : 1..Len(read)]

Side(band, base) == IF band > base THEN "up" ELSE IF band < base THEN "down" ELSE "settled"
Dwell(side) == IF side = "up" THEN Trigger ELSE Clear

-----------------------------------------------------------------------------
\* a mistake in the dwell: a reading in another band begins it again
SinceInBand(side) ==
    IF dir = side /\ read[Len(read)].band = snapshot.band THEN since ELSE snapshot.ts
\* the time from which the readings have been on this side
Since(side) == IF dir = side THEN since ELSE snapshot.ts

\* a mistake in the end of a pending change: a settled reading only pauses it
PausedWhenSettled == UNCHANGED <<dir, since>>
EndedWhenSettled == dir' = "settled" /\ since' = 0

\* observe, with the newest snapshot
Observe ==
    LET side == Side(snapshot.band, confirmed)
    IN \/ /\ side = "settled"
          /\ EndedWhenSettled
          /\ UNCHANGED <<confirmed, changes>>
       \/ /\ side # "settled" /\ snapshot.ts - Since(side) < Dwell(side)
          /\ dir' = side /\ since' = Since(side)
          /\ UNCHANGED <<confirmed, changes>>
       \/ /\ side # "settled" /\ snapshot.ts - Since(side) >= Dwell(side)
          /\ confirmed' = snapshot.band /\ dir' = "settled" /\ since' = 0
          /\ changes' = Append(changes, [from |-> confirmed, to |-> snapshot.band, at |-> Len(read')])

\* run_once; the snapshots' times may repeat, their readings do not count twice
Scan ==
    /\ read' = IF read # << >> /\ read[Len(read)] = snapshot THEN read ELSE Append(read, snapshot)
    /\ Observe
    /\ UNCHANGED <<now, snapshot>>

\* the monitor stores a snapshot, at most one in a second
Store ==
    /\ snapshot.ts < now
    /\ \E band \in Bands : snapshot' = [band |-> band, ts |-> now]
    /\ UNCHANGED <<now, confirmed, dir, since, read, changes>>

Tick ==
    /\ now < MaxTime
    /\ now' = now + 1
    /\ UNCHANGED <<snapshot, confirmed, dir, since, read, changes>>

-----------------------------------------------------------------------------
Init ==
    /\ now = 0 /\ snapshot = [band |-> 0, ts |-> 0] /\ confirmed = 0
    /\ dir = "settled" /\ since = 0 /\ read = << >> /\ changes = << >>

Next == Scan \/ Store \/ Tick

Spec == Init /\ [][Next]_vars

-----------------------------------------------------------------------------
\* The readings i..n are on one side of the band, and for long enough.
Sustained(i, n, base) ==
    LET side == Side(read[n].band, base)
    IN /\ side # "settled"
       /\ read[n].ts - read[i].ts >= Dwell(side)
       /\ \A j \in i..n : Side(read[j].band, base) = side

LastChange == IF changes = << >> THEN 0 ELSE changes[Len(changes)].at

\* A change is recorded exactly when it is sustained: every recorded one was, since the change
\* before, and nothing has been sustained since the last one without being recorded, in whatever
\* bands the readings were.
ChangesAreSustained ==
    /\ \A c \in 1..Len(changes) :
        LET before == IF c = 1 THEN 1 ELSE changes[c - 1].at
        IN /\ \E i \in before..changes[c].at : Sustained(i, changes[c].at, changes[c].from)
           /\ changes[c].from = (IF c = 1 THEN 0 ELSE changes[c - 1].to)
    /\ \A i \in (LastChange + 1)..Len(read) : ~Sustained(i, Len(read), confirmed)
=============================================================================
