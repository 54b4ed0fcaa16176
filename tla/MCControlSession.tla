--------------------------- MODULE MCControlSession ---------------------------
(***************************************************************************)
(* Instances of ControlSession for TLC: the kinds of test of each run.     *)
(***************************************************************************)
EXTENDS ControlSession

Tests(udp, dirs, n, conc, calm) ==
    [udp : {udp}, dir : dirs, parallel : n, conc : {conc}, reject : {FALSE}, calm : {calm}]

\* The combinations that work end to end, and a test whose options are refused.
\* A bidirectional test starts two threads for each stream.
Working ==
    UNION {Tests(FALSE, {"forward", "reverse"}, {1, 2}, FALSE, TRUE),
           Tests(FALSE, {"forward", "reverse"}, {1, 2}, TRUE, TRUE),
           Tests(TRUE, {"forward", "reverse"}, {1, 2}, FALSE, TRUE),
           Tests(TRUE, {"forward"}, {1, 2}, TRUE, TRUE),
           Tests(TRUE, {"bidir"}, {1}, FALSE, TRUE),
           Tests(TRUE, {"bidir"}, {1}, TRUE, TRUE),
           [udp : {FALSE}, dir : {"forward"}, parallel : {1}, conc : BOOLEAN,
            reject : {TRUE}, calm : {TRUE}]}

\* Every one-way test, with timeouts and faults.  The two server modes differ
\* less over UDP, where both collect the streams on a socket of their own.
Disturbed ==
    UNION {Tests(FALSE, {"forward", "reverse"}, {2}, FALSE, FALSE),
           Tests(FALSE, {"forward", "reverse"}, {2}, TRUE, FALSE),
           Tests(TRUE, {"forward", "reverse"}, {1}, FALSE, FALSE),
           Tests(TRUE, {"forward", "reverse"}, {2}, TRUE, FALSE)}

WorkingAndDisturbed == Working \cup Disturbed

TcpBidir == Tests(FALSE, {"bidir"}, {1}, FALSE, TRUE)

SingleTcp == Tests(FALSE, {"forward"}, {1}, FALSE, FALSE)
=============================================================================
