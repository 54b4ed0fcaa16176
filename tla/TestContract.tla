----------------------------- MODULE TestContract -----------------------------
(***************************************************************************)
(* What one test promises to its two ends, whatever transport, direction   *)
(* and server mode it runs in: the abstract specification that module      *)
(* ControlSession implements.  There are no messages and no threads here,  *)
(* only what each end may believe about the other.                         *)
(***************************************************************************)
EXTENDS Naturals

VARIABLES
    calm,       \* nothing goes wrong in this test
    stage,      \* the server: "setup", "running", "reporting", "ok" or "failed"
    left,       \* the client's streams that are not over yet
    client      \* "busy", "informed" of the results, "done", "refused" or "gone"

vars == <<calm, stage, left, client>>

Over == {"ok", "failed"}

Init ==
    /\ calm \in BOOLEAN
    /\ stage = "setup"
    /\ left \in Nat
    /\ client = "busy"

\* All streams of the test are there.
Begin ==
    /\ stage = "setup"
    /\ stage' = "running"
    /\ UNCHANGED <<calm, left, client>>

\* A stream of the client has moved its data.
StreamEnds ==
    /\ left > 0
    /\ client \in {"busy", "informed"}
    /\ left' = left - 1
    /\ UNCHANGED <<calm, stage, client>>

\* The server publishes its results.  In a calm test every stream is over then.
Conclude ==
    /\ stage = "running"
    /\ calm => left = 0
    /\ stage' = "reporting"
    /\ UNCHANGED <<calm, left, client>>

\* The client learns the results, which the server has published.
Learn ==
    /\ client = "busy"
    /\ stage \notin {"setup", "running"}
    /\ client' = "informed"
    /\ UNCHANGED <<calm, stage, left>>

\* An informed client is done; one that was refused stops without results.
Finish ==
    /\ client = "informed"
    /\ client' = "done"
    /\ UNCHANGED <<calm, stage, left>>

Refused ==
    /\ client = "busy"
    /\ stage = "failed"
    /\ client' = "refused"
    /\ UNCHANGED <<calm, stage, left>>

Vanish ==
    /\ ~calm
    /\ client \in {"busy", "informed"}
    /\ client' = "gone"
    /\ UNCHANGED <<calm, stage, left>>

\* The server reports success only when the client has what it needs, or is no
\* longer there to need it.
Succeed ==
    /\ stage = "reporting"
    /\ client \in {"done", "gone"}
    /\ stage' = "ok"
    /\ UNCHANGED <<calm, left, client>>

Fail ==
    /\ stage \notin Over
    /\ stage' = "failed"
    /\ UNCHANGED <<calm, left, client>>

Next ==
    \/ Begin \/ StreamEnds \/ Conclude \/ Learn \/ Finish
    \/ Refused \/ Vanish \/ Succeed \/ Fail

Spec == Init /\ [][Next]_vars
=============================================================================
