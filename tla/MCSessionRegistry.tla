------------------------- MODULE MCSessionRegistry -------------------------
(***************************************************************************)
(* Small instances of SessionRegistry for TLC.                             *)
(***************************************************************************)
EXTENDS SessionRegistry, TLC

CONSTANTS c1, c2, i1

\* Every client has an address of its own, named like its cookie.
OwnAddress == [c \in Cookie |-> c]
\* Two clients behind one address.
SharedAddress == c1 :> i1 @@ c2 :> i1

\* Session threads are alike, and so are clients with addresses of their own.
MCSymmetry == Permutations(Session) \cup Permutations(Cookie)
=============================================================================
