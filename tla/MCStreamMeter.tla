---------------------------- MODULE MCStreamMeter -----------------------------
(***************************************************************************)
(* Instances of StreamMeter for TLC: the roles of each run.                *)
(***************************************************************************)
EXTENDS StreamMeter

AllRoles == Reporting \cup Limited
=============================================================================
