----------------------------- MODULE UdpReceiver -----------------------------
(***************************************************************************)
(* A UDP test that a client sends and the server receives: the client's    *)
(* stream threads (start_udp), an unreliable network, accept_udp_streams,  *)
(* run_udp_receiver and the part of the session that starts, stops and     *)
(* joins the receiver (src/common/udp_session.rs, src/server.rs).          *)
(*                                                                         *)
(* A datagram is the number its header decodes to: 0, 1, ... for data, a   *)
(* negative number for the end-of-test sentinel.  The 37-byte cookie that  *)
(* opens a stream is no header, but it is long enough to be decoded as one *)
(* and its characters make a large number, CookieSeq.  iperf3 opens a      *)
(* stream with four bytes instead, too short for a header.  Byte counts,   *)
(* the omit window and jitter follow from the packets and are left out.    *)
(***************************************************************************)
EXTENDS Integers, Sequences, FiniteSets, Functions

CONSTANTS
    Stream,         \* the client's streams, one source address each
    MaxPackets,     \* bound: data datagrams a stream may send
    CookieSeq,      \* what bytes 8..16 of a cookie decode to
    InitDatagram,   \* what opens a stream: CookieSeq or Short
    Bidir,          \* opts.bidirectional: a control error also stops
    Reorder,        \* the network may reorder a stream's datagrams
    MaxLoss,        \* bound: datagrams the network loses
    MaxDup,         \* bound: datagrams the network duplicates
    Faults          \* other faults the environment may inject

Sentinel == -1
Short == -2
Data == 0 .. MaxPackets - 1
Datagram == Data \cup {Sentinel, InitDatagram}

ASSUME UdpAssumption ==
    /\ MaxPackets \in Nat
    /\ CookieSeq \in Nat /\ CookieSeq >= MaxPackets
    /\ InitDatagram \in {CookieSeq, Short}
    /\ Bidir \in BOOLEAN /\ Reorder \in BOOLEAN
    /\ MaxLoss \in Nat /\ MaxDup \in Nat
    /\ IsFiniteSet(Stream)
    /\ Faults \subseteq {"control", "noise", "socket", "dupinit"}

VARIABLES
    sender,     \* stream threads: "idle", "sending" or "finished"
    seq,        \* the next sequence number of each stream
    net,        \* datagrams in flight, per stream, in sending order
    phase,      \* the session: "accept", "run", "stopped", "joined", "failed"
    addrs,      \* streams registered so far, in order of registration
    stop,       \* stop_flag
    rpc,        \* the receiver thread: "off", "check", "recv" or "done"
    grace,      \* grace_deadline: "none", "armed" or "passed"
    max_seq, packets, lost, ooo, saw_sentinel,      \* StreamState
    losses, dups,   \* what the network has done so far (MaxLoss, MaxDup)
    netLost,    \* history: data datagrams lost by the network
    early,      \* history: data datagrams discarded by accept_udp_streams
    seen,       \* history: sequence numbers the receiver has counted
    exit        \* history: why the receiver left its loop

senderVars == <<sender, seq>>
sessionVars == <<phase, addrs, stop>>
stateVars == <<max_seq, packets, lost, ooo, saw_sentinel, seen>>
loopVars == <<rpc, grace, exit>>
faultVars == <<losses, dups, netLost>>
vars == <<senderVars, net, faultVars, sessionVars, loopVars, stateVars, early>>

TypeOK ==
    /\ sender \in [Stream -> {"idle", "sending", "finished"}]
    /\ seq \in [Stream -> Nat]
    /\ net \in [Stream -> Seq(Datagram)]
    /\ phase \in {"accept", "run", "stopped", "joined", "failed"}
    /\ addrs \in Seq(Stream)
    /\ stop \in BOOLEAN
    /\ rpc \in {"off", "check", "recv", "done"}
    /\ grace \in {"none", "armed", "passed"}
    /\ exit \in {"none", "sentinels", "deadline", "timeout", "error"}
    /\ max_seq \in [Stream -> Nat \cup {-1}]
    /\ packets \in [Stream -> Nat]
    /\ lost \in [Stream -> Nat]
    /\ ooo \in [Stream -> Nat]
    /\ saw_sentinel \in [Stream -> BOOLEAN]
    /\ losses \in Nat
    /\ dups \in Nat
    /\ netLost \in [Stream -> Nat]
    /\ early \in [Stream -> Nat]
    /\ seen \in [Stream -> SUBSET Nat]

Init ==
    /\ sender = [s \in Stream |-> "idle"]
    /\ seq = [s \in Stream |-> 0]
    /\ net = [s \in Stream |-> <<>>]
    /\ phase = "accept"
    /\ addrs = <<>>
    /\ stop = FALSE
    /\ rpc = "off"
    /\ grace = "none"
    /\ exit = "none"
    /\ max_seq = [s \in Stream |-> -1]
    /\ packets = [s \in Stream |-> 0]
    /\ lost = [s \in Stream |-> 0]
    /\ ooo = [s \in Stream |-> 0]
    /\ saw_sentinel = [s \in Stream |-> FALSE]
    /\ losses = 0
    /\ dups = 0
    /\ netLost = [s \in Stream |-> 0]
    /\ early = [s \in Stream |-> 0]
    /\ seen = [s \in Stream |-> {}]

-----------------------------------------------------------------------------
(* start_udp: a stream thread of the client.  It starts on CreateStreams   *)
(* and sends data right behind its cookie, without waiting for anything.   *)

Send(s, d) == net' = [net EXCEPT ![s] = Append(@, d)]

SendInit(s) ==
    /\ sender[s] = "idle"
    /\ sender' = [sender EXCEPT ![s] = "sending"]
    /\ Send(s, InitDatagram)
    /\ UNCHANGED <<seq, faultVars, sessionVars, loopVars, stateVars, early>>

SendData(s) ==
    /\ sender[s] = "sending"
    /\ seq[s] < MaxPackets
    /\ Send(s, seq[s])
    /\ seq' = [seq EXCEPT ![s] = @ + 1]
    /\ UNCHANGED <<sender, faultVars, sessionVars, loopVars, stateVars, early>>

\* The duration, a limit or a send error ends the loop; one sentinel is sent.
SendSentinel(s) ==
    /\ sender[s] = "sending"
    /\ sender' = [sender EXCEPT ![s] = "finished"]
    /\ Send(s, Sentinel)
    /\ UNCHANGED <<seq, faultVars, sessionVars, loopVars, stateVars, early>>

-----------------------------------------------------------------------------
(* The network (external).                                                 *)

\* A sequence without its i-th element.
Without(q, i) == SubSeq(q, 1, i - 1) \o SubSeq(q, i + 1, Len(q))
TakeFrom(s, i) == net' = [net EXCEPT ![s] = Without(@, i)]

\* The positions of a stream's datagrams that may be delivered next.
Deliverable(s) == {i \in DOMAIN net[s] : Reorder \/ i = 1}

Lose(s, i) ==
    /\ losses < MaxLoss
    /\ losses' = losses + 1
    /\ TakeFrom(s, i)
    /\ netLost' = [netLost EXCEPT ![s] = IF net[s][i] \in Data THEN @ + 1 ELSE @]
    /\ UNCHANGED <<senderVars, dups, sessionVars, loopVars, stateVars, early>>

Duplicate(s, i) ==
    /\ dups < MaxDup
    /\ net[s][i] = InitDatagram => "dupinit" \in Faults
    /\ dups' = dups + 1
    /\ Send(s, net[s][i])
    /\ UNCHANGED <<senderVars, losses, netLost, sessionVars, loopVars, stateVars, early>>

-----------------------------------------------------------------------------
(* accept_udp_streams.                                                     *)

\* Mutant: the check of `seen` is missing.
NewStream_Unchecked(s, d) == d = InitDatagram

\* The datagram opens a stream: it is an init, from an address not seen yet.
NewStream(s, d) == d = InitDatagram /\ s \notin Range(addrs)

\* One recv_from.  Anything that opens no stream is dropped, the data of the
\* streams already registered too.  With the last stream the session sends
\* TestStart and TestRunning and spawns the receiver.
AcceptDatagram(s, i) ==
    /\ phase = "accept"
    /\ TakeFrom(s, i)
    /\ addrs' = IF NewStream(s, net[s][i]) THEN Append(addrs, s) ELSE addrs
    /\ early' = [early EXCEPT ![s] = IF net[s][i] \in Data THEN @ + 1 ELSE @]
    /\ IF Len(addrs') = Cardinality(Stream)
         THEN phase' = "run" /\ rpc' = "check"
         ELSE UNCHANGED <<phase, rpc>>
    /\ UNCHANGED <<senderVars, faultVars, stop, grace, exit, stateVars>>

\* recv_from times out: the session ends with an error.
AcceptTimeout ==
    /\ phase = "accept"
    /\ phase' = "failed"
    /\ UNCHANGED <<senderVars, net, faultVars, addrs, stop, loopVars, stateVars, early>>

-----------------------------------------------------------------------------
(* The session thread while the receiver runs.                             *)

\* TestEnd arrives on the control channel: the client sends it when all its
\* stream threads have finished.
TestEndArrives ==
    /\ phase = "run"
    /\ \A s \in Stream : sender[s] = "finished"
    /\ phase' = "stopped"
    /\ stop' = TRUE
    /\ UNCHANGED <<senderVars, net, faultVars, addrs, loopVars, stateVars, early>>

\* wait_for_test_end fails (the peer vanished, or the deadline passed).  The
\* bidirectional branch ignores the error and stops the receiver; the other
\* branch returns it with `?` and leaves the receiver behind.
ControlFails ==
    /\ "control" \in Faults
    /\ phase = "run"
    /\ IF Bidir THEN phase' = "stopped" /\ stop' = TRUE
                ELSE phase' = "failed" /\ stop' = stop
    /\ UNCHANGED <<senderVars, net, faultVars, addrs, loopVars, stateVars, early>>

\* handle.join() returns the receipts.
Join ==
    /\ phase = "stopped"
    /\ rpc = "done"
    /\ phase' = "joined"
    /\ UNCHANGED <<senderVars, net, faultVars, addrs, stop, loopVars, stateVars, early>>

-----------------------------------------------------------------------------
(* run_udp_receiver.                                                       *)

\* The head of the loop: the stop flag, then the sentinels and the deadline.
LoopHead(finished, expired) ==
    /\ rpc = "check"
    /\ grace' = IF stop /\ grace = "none" THEN "armed" ELSE grace
    /\ IF stop /\ (finished \/ expired)
         THEN rpc' = "done" /\ exit' = IF finished THEN "sentinels" ELSE "deadline"
         ELSE rpc' = "recv" /\ UNCHANGED exit
    /\ UNCHANGED <<senderVars, net, faultVars, sessionVars, stateVars, early>>

\* Mutant: the loop ends on the sentinels only, the deadline is forgotten.
Check_NoDeadline == LoopHead(\A s \in Stream : saw_sentinel[s], FALSE)

\* Mutant: the sentinel of any one stream ends the loop.
Check_AnySentinel == LoopHead(\E s \in Stream : saw_sentinel[s], grace = "passed")

Check == LoopHead(\A s \in Stream : saw_sentinel[s], grace = "passed")

\* 500 ms have passed since the stop flag was first seen.
GraceElapses ==
    /\ grace = "armed"
    /\ grace' = "passed"
    /\ UNCHANGED <<senderVars, net, faultVars, sessionVars, rpc, exit, stateVars, early>>

\* Mutant: the gap counts the datagram that ends it.
Gap_OffByOne(s, d) == IF d > max_seq[s] + 1 THEN d - max_seq[s] ELSE 0

\* The sequence numbers that d jumps over: (hdr.seq - max_seq - 1).
Gap(s, d) == IF d > max_seq[s] + 1 THEN d - max_seq[s] - 1 ELSE 0

\* Mutant: a late datagram is taken off the losses.
Count_LateFound(s, d) ==
    /\ packets' = [packets EXCEPT ![s] = @ + 1]
    /\ IF d <= max_seq[s]
         THEN /\ ooo' = [ooo EXCEPT ![s] = @ + 1]
              /\ lost' = [lost EXCEPT ![s] = IF @ > 0 THEN @ - 1 ELSE 0]
              /\ UNCHANGED max_seq
         ELSE /\ lost' = [lost EXCEPT ![s] = @ + Gap(s, d)]
              /\ max_seq' = [max_seq EXCEPT ![s] = d]
              /\ UNCHANGED ooo
    /\ seen' = [seen EXCEPT ![s] = @ \cup {d}]

\* The accounting of one data datagram.
Count(s, d) ==
    /\ packets' = [packets EXCEPT ![s] = @ + 1]
    /\ IF d <= max_seq[s]
         THEN /\ ooo' = [ooo EXCEPT ![s] = @ + 1]
              /\ UNCHANGED <<lost, max_seq>>
         ELSE /\ lost' = [lost EXCEPT ![s] = @ + Gap(s, d)]
              /\ max_seq' = [max_seq EXCEPT ![s] = d]
              /\ UNCHANGED ooo
    /\ seen' = [seen EXCEPT ![s] = @ \cup {d}]

\* recv_from returns a datagram of a registered stream.
Receive(s, i) ==
    /\ rpc = "recv"
    /\ TakeFrom(s, i)
    /\ LET d == net[s][i]
       IN  CASE d = Short -> UNCHANGED stateVars
             [] d = Sentinel -> /\ saw_sentinel' = [saw_sentinel EXCEPT ![s] = TRUE]
                                /\ UNCHANGED <<max_seq, packets, lost, ooo, seen>>
             [] OTHER -> Count(s, d) /\ UNCHANGED saw_sentinel
    /\ rpc' = "check"
    /\ UNCHANGED <<senderVars, faultVars, sessionVars, grace, exit, early>>

\* A datagram from an unknown address, or one that is too short.
ReceiveNoise ==
    /\ "noise" \in Faults
    /\ rpc = "recv"
    /\ rpc' = "check"
    /\ UNCHANGED <<senderVars, net, faultVars, sessionVars, grace, exit, stateVars, early>>

\* No datagram for 100 ms (50 ms once stopping).
ReceiveTimeout ==
    /\ rpc = "recv"
    /\ IF stop THEN rpc' = "done" /\ exit' = "timeout"
               ELSE rpc' = "check" /\ UNCHANGED exit
    /\ UNCHANGED <<senderVars, net, faultVars, sessionVars, grace, stateVars, early>>

\* Any other error ends the loop.
ReceiveError ==
    /\ "socket" \in Faults
    /\ rpc = "recv"
    /\ rpc' = "done"
    /\ exit' = "error"
    /\ UNCHANGED <<senderVars, net, faultVars, sessionVars, grace, stateVars, early>>

-----------------------------------------------------------------------------
ClientStream(s) == SendInit(s) \/ SendData(s) \/ SendSentinel(s)

Network == \E s \in Stream : \E i \in DOMAIN net[s] : Lose(s, i) \/ Duplicate(s, i)

Session ==
    \/ \E s \in Stream : \E i \in Deliverable(s) : AcceptDatagram(s, i)
    \/ AcceptTimeout
    \/ TestEndArrives
    \/ ControlFails
    \/ Join

Recv ==
    \/ \E s \in Stream : \E i \in Deliverable(s) : Receive(s, i)
    \/ ReceiveNoise
    \/ ReceiveTimeout
    \/ ReceiveError

Next ==
    \/ \E s \in Stream : ClientStream(s)
    \/ Network
    \/ Session
    \/ Check
    \/ Recv
    \/ GraceElapses

Spec == Init /\ [][Next]_vars

\* Threads run, recv_from returns (it has a timeout) and time passes.  The
\* clients and the network owe nothing.
FairSpec ==
    Spec /\ WF_vars(Check) /\ WF_vars(Recv) /\ WF_vars(GraceElapses) /\ WF_vars(Join)

-----------------------------------------------------------------------------
(* Properties.                                                             *)

\* The counters of a receipt agree with each other however datagrams are lost,
\* duplicated and reordered: those that arrived in order and those counted as
\* lost make up the sequence numbers up to max_seq.
AccountingExact ==
    \A s \in Stream : packets[s] - ooo[s] + lost[s] = max_seq[s] + 1

\* Sequence numbers up to max_seq that never arrived.
Missing(s) == {q \in 0 .. max_seq[s] : q \notin seen[s]}

\* What `lost` and `ooo` mean: every number that is missing is counted as lost,
\* and the excess (a late datagram stays counted as lost when it arrives) is at
\* most the number of late or duplicate datagrams.
LossBounds ==
    \A s \in Stream : /\ Cardinality(Missing(s)) <= lost[s]
                      /\ lost[s] <= Cardinality(Missing(s)) + ooo[s]

\* The test starts only when every stream has been registered exactly once,
\* whatever inits are repeated: receipts can be collected in stream order.
StreamsRegisteredOnce ==
    /\ IsInjective(addrs)
    /\ rpc # "off" => Range(addrs) = Stream

\* On a network that keeps order and does not duplicate, a receiver that stops
\* because of the sentinels has counted everything that reached it.
SentinelMeansComplete ==
    (exit = "sentinels" /\ ~Reorder /\ dups = 0)
    => \A s \in Stream : packets[s] = seq[s] - netLost[s] - early[s]

\* Every datagram counted as lost is accounted for: on a network that keeps order
\* and does not duplicate, the network lost it, or accept_udp_streams discarded
\* it while it waited for other streams.
LossExplained ==
    (~Reorder /\ dups = 0) => \A s \in Stream : lost[s] <= netLost[s] + early[s]

\* The grace deadline works: once the session has set the stop flag it gets the
\* receipts, even if the sentinels are lost and datagrams keep arriving.
JoinReturns == stop ~> phase = "joined"

\* README: "The server now serves tests until killed".  A session that is over
\* leaves no receiver running (it would keep the UDP port bound).
NoReceiverLeftBehind == phase = "failed" ~> rpc \in {"off", "done"}

-----------------------------------------------------------------------------
(* The inductive invariant behind LossExplained and SentinelMeansComplete. *)

\* The network as it has been so far keeps order and does not duplicate.
Orderly == ~Reorder /\ dups = 0

\* The data of a stream that is on its way.
InNet(s) == {q \in Data : \E i \in DOMAIN net[s] : net[s][i] = q}

\* Datagrams are in flight in the order of their sending: first the init, then
\* data with rising numbers, last the sentinel.
Queued(s) ==
    \A i, j \in DOMAIN net[s] :
        i < j => /\ net[s][j] # InitDatagram
                 /\ net[s][i] # Sentinel
                 /\ net[s][i] \in Data /\ net[s][j] \in Data => net[s][i] < net[s][j]

\* What a datagram in flight says of the two ends: data has not been overtaken,
\* the init is not registered yet, the sentinel was the sender's last word.
Pending(s) ==
    \A i \in DOMAIN net[s] :
        /\ net[s][i] \in Data => max_seq[s] < net[s][i] /\ net[s][i] < seq[s]
        /\ net[s][i] = InitDatagram => s \notin Range(addrs)
        /\ net[s][i] = Sentinel => sender[s] = "finished"

\* A stream before its first datagram and after its last.
Bounds(s) ==
    /\ sender[s] = "idle" => net[s] = <<>> /\ s \notin Range(addrs)
    /\ saw_sentinel[s] => net[s] = <<>> /\ sender[s] = "finished"
    /\ max_seq[s] < seq[s]

\* Every datagram sent is counted, lost, discarded or on its way, and none is late.
Conserved(s) ==
    /\ seq[s] = packets[s] + netLost[s] + early[s] + Cardinality(InNet(s))
    /\ ooo[s] = 0

OrderInv ==
    /\ Orderly => \A s \in Stream : Queued(s) /\ Pending(s) /\ Bounds(s) /\ Conserved(s)
    /\ exit = "sentinels" => \A s \in Stream : saw_sentinel[s]
=============================================================================
