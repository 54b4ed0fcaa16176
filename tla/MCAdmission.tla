----------------------------- MODULE MCAdmission -----------------------------
(* Instance of Admission for TLC.  Widths and ranges are scaled down, with  *)
(* the values on both sides of every bound among the inputs.                *)
EXTENDS Admission, TLC

CONSTANTS c1, c2

\* A command line with nothing but what must be there.
Plain ==
    [time |-> 2, omit |-> 0, parallel |-> 1, len |-> None, udp |-> FALSE,
     bandwidth |-> None, reverse |-> FALSE, bidir |-> FALSE, window |-> None,
     tos |-> None, bytes |-> None, mss |-> None, congestion |-> None,
     blockcount |-> None, username |-> None, password |-> None,
     rsa_public_key |-> None]

Num(n, s) == [digits |-> n, suffix |-> s]
Key(loads, pair) == [loads |-> loads, pair |-> pair]

Ann(cli) == [cli EXCEPT !.username = "Ann", !.password = "pw",
                        !.rsa_public_key = Key(TRUE, "server")]

\* At and beyond the bounds of validate_options, of the texts and of the token.
Edges ==
    {Ann([Plain EXCEPT !.time = MaxTime, !.omit = MaxOmit, !.parallel = MaxParallel,
                       !.len = MaxLen, !.bidir = TRUE]),
     [Plain EXCEPT !.udp = TRUE],
     [Plain EXCEPT !.udp = TRUE, !.bandwidth = Num(0, ""), !.window = Num(2, "K"),
                   !.tos = Num(U8Max, ""), !.mss = 1, !.congestion = "bbr"],
     [Plain EXCEPT !.bandwidth = Num(2, "K"), !.bytes = Num(1, "M"), !.blockcount = 3,
                   !.reverse = TRUE, !.parallel = MaxParallel],
     [Plain EXCEPT !.time = MaxTime + 1, !.omit = MaxOmit],
     [Plain EXCEPT !.omit = MaxOmit + 1],
     [Plain EXCEPT !.parallel = 0],
     [Plain EXCEPT !.parallel = MaxParallel + 1],
     [Plain EXCEPT !.len = 0],
     [Plain EXCEPT !.len = MaxLen + 1],
     [Plain EXCEPT !.bandwidth = Num(5, "G")],
     [Plain EXCEPT !.window = Num(5, "K")],
     [Plain EXCEPT !.tos = Num(U8Max + 1, "")],
     [Plain EXCEPT !.bytes = Num(None, "M")],
     [Ann(Plain) EXCEPT !.username = ""],
     [Ann(Plain) EXCEPT !.rsa_public_key = Key(FALSE, "server")]}

Tokens ==
    {Ann(Plain), [Ann(Plain) EXCEPT !.password = "other"],
     [Ann(Plain) EXCEPT !.rsa_public_key = Key(TRUE, "else")]}

MCClis == c1 :> Edges @@ c2 :> Tokens

\* iperf3 leaves tcp out of a UDP test's options; a frame without a length.
MCFrames == c2 :> {} @@ c1 :>
    {[omit |-> 0, time |-> 1, parallel |-> 1, len |-> 1, udp |-> TRUE],
     [omit |-> 0, time |-> 1, parallel |-> 1]}

MCCopies == c1 :> 1 @@ c2 :> 2

MCLower == [n \in {"Ann", "ann", "bob", "BOB"} |->
               CASE n \in {"Ann", "ann"} -> "ann" [] n \in {"bob", "BOB"} -> "bob"]

KeyFile == [private |-> TRUE, loads |-> TRUE, pair |-> "server"]
Line(u, h) == [user |-> u, hash |-> h]
UserFile == [private |-> TRUE, lines |-> <<Line("ann", "pw"), Line("BOB", "other")>>]

Server(r, k, u) == [require_auth |-> r, key |-> k, users |-> u]

MCServers ==
    {Server(FALSE, None, None), Server(TRUE, KeyFile, None),
     Server(FALSE, KeyFile, UserFile),
     Server(TRUE, [KeyFile EXCEPT !.private = FALSE], UserFile),
     Server(TRUE, KeyFile,
            [UserFile EXCEPT !.lines = <<Line("ann", "pw"), Line("Ann", "other")>>])}
=============================================================================
