----------------------------- MODULE QuietMode -----------------------------
(***************************************************************************)
(* QuietModeManager: which run holds quiet mode, whether the gate that     *)
(* stands the collectors down is up, and the lease that keeps a hold from  *)
(* outliving a dead sampler.  Every method runs under one lock and is one  *)
(* operator here, except the watchdog's: it looks under the lock, and      *)
(* releases under the lock again.                                          *)
(*                                                                         *)
(* Time is reduced to what is_active() asks of it: a lease is "fresh",     *)
(* "expired" or, without a sampler, "endless".                             *)
(***************************************************************************)
CONSTANT Owners, Nobody

ASSUME NobodyIsNoOwner == Nobody \notin Owners

VARIABLES owner,       \* _owner
          gate,        \* _gate_up
          lease,       \* _deadline, compared with the clock
          userExited,  \* _user_exited
          watch        \* the watchdog is "looking", or has seen a lapse: "acting"

quietVars == <<owner, gate, lease, userExited, watch>>

QuietInit ==
    /\ owner = Nobody
    /\ gate = FALSE
    /\ lease = "expired"
    /\ userExited = FALSE
    /\ watch = "looking"

QuietTypeOK ==
    /\ owner \in Owners \cup {Nobody}
    /\ gate \in BOOLEAN
    /\ lease \in {"fresh", "expired", "endless"}
    /\ userExited \in BOOLEAN
    /\ watch \in {"looking", "acting"}
    /\ owner = Nobody => ~gate /\ ~userExited

Expired == owner # Nobody /\ lease = "expired"
IsActive == owner # Nobody /\ gate /\ ~Expired
HeldClean == owner # Nobody /\ ~userExited

\* a different owner is taken over from, an expired one counts as absent
Enter(r, ttl) ==
    /\ lease' = ttl
    /\ IF owner = r /\ ~Expired
       THEN UNCHANGED <<owner, gate, userExited>>
       ELSE owner' = r /\ gate' = TRUE /\ userExited' = FALSE
    /\ UNCHANGED watch

\* mutant: the gate stays up
ReleaseKeepsGate ==
    /\ owner' = Nobody
    /\ lease' = "expired"
    /\ userExited' = FALSE
    /\ UNCHANGED gate

Release ==
    /\ owner' = Nobody
    /\ gate' = FALSE
    /\ lease' = "expired"
    /\ userExited' = FALSE

\* mutant: whoever calls releases
ExitAnybody(r) == Release /\ UNCHANGED watch

\* a release by somebody who is not the holder does nothing
ExitQuiet(r) ==
    /\ IF owner = r THEN Release ELSE UNCHANGED <<owner, gate, lease, userExited>>
    /\ UNCHANGED watch

\* an expired lease is not revived
Heartbeat(r) ==
    /\ owner = r /\ ~Expired
    /\ lease' = "fresh"
    /\ UNCHANGED <<owner, gate, userExited, watch>>

\* mutant: the run is not marked as dirtied
SetGateOnly(up) ==
    /\ owner # Nobody
    /\ gate' = up
    /\ UNCHANGED <<owner, lease, userExited, watch>>

\* the UI switch: post_quiet_mode has seen a live hold, whose lease may be over by now
SetGate(up) ==
    /\ owner # Nobody
    /\ gate' = up
    /\ userExited' = (userExited \/ ~up)
    /\ UNCHANGED <<owner, lease, watch>>

Lapse ==
    /\ owner # Nobody /\ lease = "fresh"
    /\ lease' = "expired"
    /\ UNCHANGED <<owner, gate, userExited, watch>>

WatchLook ==
    /\ watch = "looking" /\ Expired
    /\ watch' = "acting"
    /\ UNCHANGED <<owner, gate, lease, userExited>>

\* exit() without an owner: whoever holds it by now loses it
WatchRelease ==
    /\ watch = "acting"
    /\ watch' = "looking"
    /\ Release
=============================================================================
