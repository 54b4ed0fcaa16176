--------------------------- MODULE MCUdpReceiver ---------------------------
(***************************************************************************)
(* Small instances of UdpReceiver for TLC.                                 *)
(***************************************************************************)
EXTENDS UdpReceiver, TLC

StreamSymmetry == Permutations(Stream)
=============================================================================
