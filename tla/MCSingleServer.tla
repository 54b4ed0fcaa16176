---------------------------- MODULE MCSingleServer ----------------------------
(* Instance of SingleServer for TLC.                                       *)
EXTENDS SingleServer
=============================================================================
