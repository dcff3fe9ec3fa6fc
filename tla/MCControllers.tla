--------------------------- MODULE MCControllers ---------------------------
(***************************************************************************)
(* Controllers for TLC: two apps in one terminal's scope, and one app of   *)
(* two cgroups at the shutdown; two applications for a pool of one mark.   *)
(***************************************************************************)
EXTENDS Controllers

MCPinned == [shared |-> {"a", "b"}, ending |-> {"a"}]
MCSlices == [shared |-> {"s"}, ending |-> {"s", "x"}]
MCHome   == [p \in {"shared", "ending"} |-> [x \in MCPinned[p] |-> MCSlices[p]]]
=============================================================================
