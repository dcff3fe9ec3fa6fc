------------------------------ MODULE JobSlot ------------------------------
(***************************************************************************)
(* What JobManager promises, whatever its threads do: benchmark processes  *)
(* run one at a time, and each runs at most once.                          *)
(***************************************************************************)
CONSTANT Runs
VARIABLE job   \* each run is "waiting", "running" or "over"

Init == job = [r \in Runs |-> "waiting"]

Free == \A r \in Runs : job[r] # "running"

Begin(r) == job[r] = "waiting" /\ Free /\ job' = [job EXCEPT ![r] = "running"]
End(r) == job[r] = "running" /\ job' = [job EXCEPT ![r] = "over"]

Next == \E r \in Runs : Begin(r) \/ End(r)

Spec == Init /\ [][Next]_job
=============================================================================
