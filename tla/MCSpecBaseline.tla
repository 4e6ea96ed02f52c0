---------------------------- MODULE MCSpecBaseline ----------------------------
(***************************************************************************)
(* The instance of SpecBaseline for TLC.                                   *)
(***************************************************************************)
EXTENDS SpecBaseline, BaselineDeltas, TLC
===============================================================================
