---------------------------- MODULE MessageChannel ----------------------------
(***************************************************************************)
(* What src/common/wire.rs promises for one direction of the control       *)
(* connection: a FIFO of whole messages.  There are no bytes here.  Module *)
(* Framing implements it once for each direction.                          *)
(***************************************************************************)
EXTENDS Naturals, Sequences

VARIABLES
    sent,       \* the messages one end has begun to send
    taken,      \* what the other end has read and acted upon
    broken      \* a send has failed part of the way: nothing is promised any more

vars == <<sent, taken, broken>>

Init ==
    /\ taken = <<>>
    /\ broken = FALSE

Send ==
    /\ Len(sent') = Len(sent) + 1
    /\ SubSeq(sent', 1, Len(sent)) = sent
    /\ UNCHANGED <<taken, broken>>

\* The next message is taken; taking it may make the reader answer with one of
\* its own, but that goes the other way.
Take ==
    /\ ~broken
    /\ Len(taken) < Len(sent)
    /\ taken' = Append(taken, sent[Len(taken) + 1])
    /\ UNCHANGED <<sent, broken>>

Break ==
    /\ broken' = TRUE
    /\ UNCHANGED taken

OutOfSync == broken /\ broken'

Next == Send \/ Take \/ Break \/ OutOfSync

Spec == Init /\ [][Next]_vars
=============================================================================
