------------------------------ MODULE MCLimits ------------------------------
(***************************************************************************)
(* LimitLifecycle for TLC: the apps that own the cgroups.                  *)
(***************************************************************************)
EXTENDS LimitLifecycle

CONSTANTS A, B

\* A controlled app that spans cgroups 1 and 2, and a second app in cgroup 3.
MCOwner == [c \in Cgroups |-> IF c \in {3, 4} THEN B ELSE A]

=============================================================================
