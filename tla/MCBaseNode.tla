----------------------------- MODULE MCBaseNode -----------------------------
(* The instance of BaseNode that TLC checks. *)
EXTENDS BaseNode

MCFairSpec == NodeSpec /\ NodeFairness
=============================================================================
