------------------------------ MODULE MCPlanLock ------------------------------
(***************************************************************************)
(* Instances of PlanLock for TLC.                                          *)
(***************************************************************************)
EXTENDS PlanLock

CONSTANTS ann, bob
=============================================================================
