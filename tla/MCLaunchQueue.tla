---------------------------- MODULE MCLaunchQueue ----------------------------
(***************************************************************************)
(* LaunchQueue for TLC: two apps of equal rank, one process each.          *)
(***************************************************************************)
EXTENDS LaunchQueue

MCAppOf == [p \in Procs |-> IF p = 1 THEN "x" ELSE "y"]
MCRank == [a \in Apps |-> 1]

=============================================================================
