---------------------------- MODULE ControlSession ----------------------------
(***************************************************************************)
(* One test between the client (src/client.rs, src/common/stream.rs) and   *)
(* a server session (src/server.rs): the control channel, the client's     *)
(* main loop and stream threads, and the server's session thread.          *)
(*                                                                         *)
(* The control channel is two FIFO sequences of tokens.  A token is a      *)
(* control byte, a framed JSON document ("json") or the two bytes of a     *)
(* port number ("port").  A frame starts with a zero byte, which is no     *)
(* control byte; a control byte read as the start of a frame makes a       *)
(* length beyond MAX_JSON_FRAME_LEN.  Both mistakes are InvalidData.       *)
(*                                                                         *)
(* The data plane is reduced to what can block or end a thread: which of   *)
(* the client's connections the server has accepted, and who still holds   *)
(* one open.  The UDP receiver itself is module UdpReceiver, the accept    *)
(* loop of the concurrent server is module SessionRegistry.                *)
(***************************************************************************)
EXTENDS Naturals, Sequences, FiniteSets

CONSTANTS
    N,          \* bound: the largest opts.parallel
    Configs,    \* the kinds of test: options and server mode
    Timeouts,   \* handshake_timeout is Some(..) and a wait may exceed it
    Faults,     \* what may go wrong on the client's side, in a test that is not calm
    None

Direction == {"forward", "reverse", "bidir"}
Config == [udp : BOOLEAN, dir : Direction, parallel : 1 .. N, conc : BOOLEAN,
           reject : BOOLEAN, calm : BOOLEAN]

ASSUME ControlAssumption ==
    /\ N \in Nat \ {0}
    /\ Configs \subseteq Config
    /\ Timeouts \in BOOLEAN
    /\ Faults \subseteq {"killed", "silent", "connect", "lossy"}
    /\ None \notin Nat

VARIABLES
    cfg,        \* the test that is run
    c2s, s2c,   \* the control channel, one direction each
    spc,        \* the session thread
    plan,       \* what the session still has to wait for in the test phase
    conns,      \* the streams the session has accepted
    arrivals,   \* streams that have connected, not accepted yet
    cpc,        \* the client's main loop: client_recv, drain_receipts, try_recv, ...
    th,         \* the client's stream threads
    receiptQ,   \* receipt_rx: receipts not drained yet
    endQ,       \* rx_channel: TestEnd messages of threads, not polled yet
    receipts,   \* test.receipts.len()
    finished,   \* streams_finished
    testEndSent,
    gotResults, \* the client has read the server's Results
    gone,       \* how the client has vanished, or "no"
    report      \* history: receipts in the Results the client sent, or None

sVars == <<spc, plan, conns>>
cVars == <<cpc, receipts, finished, testEndSent, gotResults, report>>
tVars == <<th, receiptQ, endQ>>
vars == <<cfg, c2s, s2c, sVars, arrivals, cVars, tVars, gone>>

Thread == {"tx", "rx"} \X (1 .. N)

\* create_streams: a bidirectional client starts a sender and a receiver for
\* each stream, every one with a connection (or UDP socket) of its own.
Used ==
    {t \in Thread : /\ t[2] <= cfg.parallel
                    /\ t[1] = "tx" => cfg.dir # "reverse"
                    /\ t[1] = "rx" => cfg.dir # "forward"}

Ended == {"ok", "err"}

ControlByte == {"ParamExchange", "CreateStreams", "SetDataPort", "TestStart",
                "TestRunning", "TestEnd", "ExchangeResults", "DisplayResults",
                "IperfDone", "AccessDenied"}
Token == ControlByte \cup {"json", "port"}

\* What a session waits for between TestRunning and ExchangeResults.  "end!"
\* is wait_for_test_end(..)?, "end?" ignores its error; the others join.
Wait == {"end!", "end?", "readers", "senders", "receiver"}

TypeOK ==
    /\ cfg \in Configs
    /\ c2s \in Seq(Token)
    /\ s2c \in Seq(Token)
    /\ spc \in {"start", "options", "collect", "run", "await_results", "final"} \cup Ended
    /\ plan \in Seq(Wait)
    /\ conns \subseteq Used
    /\ arrivals \in Seq(Used)
    /\ cpc \in {"recv", "drain", "poll", "results", "done"}
    /\ th \in [Used -> {"none", "start", "open", "receipt", "notified", "closed"}]
    /\ receiptQ \in 0 .. Cardinality(Used)
    /\ endQ \in 0 .. Cardinality(Used)
    /\ receipts \in 0 .. Cardinality(Used)
    /\ finished \in 0 .. Cardinality(Used)
    /\ testEndSent \in BOOLEAN
    /\ gotResults \in BOOLEAN
    /\ gone \in {"no", "killed", "silent"}
    /\ report \in Nat \cup {None}

\* The control connection is accepted and its cookie read.
Init ==
    /\ cfg \in Configs
    /\ c2s = <<>>
    /\ s2c = <<>>
    /\ spc = "start"
    /\ plan = <<>>
    /\ conns = {}
    /\ arrivals = <<>>
    /\ cpc = "recv"
    /\ th = [t \in Used |-> "none"]
    /\ receiptQ = 0
    /\ endQ = 0
    /\ receipts = 0
    /\ finished = 0
    /\ testEndSent = FALSE
    /\ gotResults = FALSE
    /\ gone = "no"
    /\ report = None

\* In a calm test no wait exceeds its timeout and nothing goes wrong.
MayTimeOut == Timeouts /\ ~cfg.calm
MayFail(fault) == fault \in Faults /\ ~cfg.calm

\* The client process acts.
Live == gone = "no" /\ cpc # "done"
\* The client's sockets are closed: the server reads EOF after what was sent.
CEof == cpc = "done" \/ gone = "killed"

-----------------------------------------------------------------------------
(* The server's session thread.                                            *)

ToClient(msgs) == s2c' = s2c \o msgs

SStep(next) == spc' = next /\ UNCHANGED <<cfg, arrivals, cVars, tVars, gone>>

\* negotiate_options: ParamExchange goes out, the options are awaited.
SendParams ==
    /\ spc = "start"
    /\ ToClient(<<"ParamExchange">>)
    /\ SStep("options")
    /\ UNCHANGED <<c2s, plan, conns>>

\* The options arrive.  validate_options or check_auth refuse them with
\* AccessDenied, or the session asks for the streams; a concurrent UDP session
\* announces the port of its own socket first.
RecvOptions ==
    /\ spc = "options"
    /\ c2s # <<>>
    /\ c2s' = Tail(c2s)
    /\ IF cfg.reject
         THEN ToClient(<<"AccessDenied">>) /\ SStep("err")
         ELSE /\ ToClient(IF cfg.udp /\ cfg.conc THEN <<"SetDataPort", "port", "CreateStreams">>
                                                 ELSE <<"CreateStreams">>)
              /\ SStep("collect")
    /\ UNCHANGED <<plan, conns>>

\* Mutant: a reverse session that goes on to the results when its senders are done.
ReversePlan_NoWait == <<"senders">>

\* The reverse branches.  In a concurrent UDP session both the branch and the
\* code after it wait for a TestEnd.
ReversePlan ==
    IF cfg.udp /\ cfg.conc THEN <<"senders", "end?", "end?">> ELSE <<"senders", "end?">>

\* The branches of run_tcp_branch, run_udp_branch and their counterparts in
\* serve_session_from_channel: what is waited for, in that order.
Plan ==
    CASE cfg.dir = "reverse"             -> ReversePlan
      [] ~cfg.udp /\ cfg.dir = "forward" -> <<"end!", "readers">>
      [] ~cfg.udp /\ cfg.dir = "bidir"   -> <<"end!", "readers", "senders">>
      [] cfg.udp /\ cfg.dir = "forward"  -> <<"end!", "receiver">>
      [] cfg.udp /\ cfg.dir = "bidir"    -> <<"senders", "end?", "receiver">>

\* Mutant: the loop over 0..n stops one stream early.
Complete_OffByOne(cs) == Cardinality(cs) + 1 >= cfg.parallel

\* Mutant: the loop over 0..=n waits for one stream more.
Complete_OneMore(cs) == Cardinality(cs) > cfg.parallel

\* The accept loops run over 0..parallel.
Complete(cs) == Cardinality(cs) = cfg.parallel

\* One more stream is accepted: from the listener, from the channel the accept
\* loop fills, or as a stream-init datagram.  The last one starts the test.
Collect ==
    /\ spc = "collect"
    /\ arrivals # <<>>
    /\ arrivals' = Tail(arrivals)
    /\ conns' = conns \cup {Head(arrivals)}
    /\ IF Complete(conns')
         THEN /\ ToClient(<<"TestStart", "TestRunning">>)
              /\ spc' = "run"
              /\ plan' = Plan
         ELSE UNCHANGED <<s2c, spc, plan>>
    /\ UNCHANGED <<cfg, c2s, cVars, tVars, gone>>

\* Mutant: recv() instead of recv_timeout() on the channel of data connections.
CollectTimeout_UdpOnly ==
    /\ spc = "collect" /\ arrivals = <<>> /\ MayTimeOut /\ cfg.udp
    /\ SStep("err")
    /\ UNCHANGED <<c2s, s2c, plan, conns>>

\* The wait for a stream times out.  accept() on the listener has no timeout.
CollectTimeout ==
    /\ spc = "collect"
    /\ arrivals = <<>>
    /\ MayTimeOut
    /\ cfg.udp \/ cfg.conc
    /\ SStep("err")
    /\ UNCHANGED <<c2s, s2c, plan, conns>>

\* A read of the control channel that finds nothing fails, with UnexpectedEof
\* when the peer has closed it, else with the read timeout.
ReadFails == c2s = <<>> /\ (CEof \/ MayTimeOut)

\* Before the test any error ends the session: a failed read of the options,
\* and a write to a control connection that has been reset.
HandshakeFails ==
    /\ \/ spc = "options" /\ ReadFails
       \/ gone = "killed" /\ spc \in {"start", "options"}
       \/ /\ gone = "killed" /\ spc = "collect"
          /\ arrivals # <<>> /\ Complete(conns \cup {Head(arrivals)})
    /\ SStep("err")
    /\ UNCHANGED <<c2s, s2c, plan, conns>>

Waiting(w) == spc = "run" /\ plan # <<>> /\ Head(plan) = w

\* wait_for_test_end gives up: ? ends the session, let _ = goes on.
EndFails ==
    IF Head(plan) = "end!" THEN SStep("err") /\ plan' = plan
                           ELSE SStep("run") /\ plan' = Tail(plan)

\* Mutant: TestEnd is peeked at and left for the reader of the results.
AwaitTestEnd_Peeks ==
    /\ Waiting("end!") \/ Waiting("end?")
    /\ c2s # <<>>
    /\ Head(c2s) = "TestEnd"
    /\ SStep("run") /\ plan' = Tail(plan)
    /\ UNCHANGED <<c2s, s2c, conns>>

\* wait_for_test_end reads a byte: TestEnd is what it waits for, another control
\* byte is logged, the start of a frame is no control byte.
AwaitTestEnd ==
    /\ Waiting("end!") \/ Waiting("end?")
    /\ c2s # <<>>
    /\ c2s' = Tail(c2s)
    /\ CASE Head(c2s) = "TestEnd" -> SStep("run") /\ plan' = Tail(plan)
         [] Head(c2s) = "json"    -> EndFails
         [] OTHER                 -> SStep("run") /\ plan' = plan
    /\ UNCHANGED <<s2c, conns>>

AwaitTestEndFails ==
    /\ Waiting("end!") \/ Waiting("end?")
    /\ ReadFails
    /\ EndFails
    /\ UNCHANGED <<c2s, s2c, conns>>

\* A reader (recv_stream_bytes) ends when its peer closes the connection.  The
\* concurrent accept loop leaves the handshake timeout on a data socket, the
\* single-session server clears it.
ReaderEnds(t) == th[t] = "closed" \/ CEof \/ (cfg.conc /\ MayTimeOut)

\* A sender ends at its deadline unless it is blocked in a write: its peer
\* neither reads nor closes.  UDP never blocks; the kernel gives up on a peer
\* that no longer acknowledges.
SenderEnds(t) ==
    \/ cfg.udp
    \/ t[1] = "rx" /\ th[t] = "open"
    \/ th[t] = "closed"
    \/ CEof \/ gone = "silent"
    \/ cfg.conc /\ MayTimeOut

\* The threads of the test phase are joined.  The UDP receiver has been told to
\* stop and ends within its grace period (UdpReceiver!JoinReturns).
Join ==
    /\ \/ Waiting("readers") /\ \A t \in conns : ReaderEnds(t)
       \/ Waiting("senders") /\ \A t \in conns : SenderEnds(t)
       \/ Waiting("receiver")
    /\ SStep("run")
    /\ plan' = Tail(plan)
    /\ UNCHANGED <<c2s, s2c, conns>>

\* exchange_results: the server's Results follow the ExchangeResults byte, then
\* it reads the client's.
ExchangeResults ==
    /\ spc = "run" /\ plan = <<>>
    /\ ToClient(<<"ExchangeResults", "json">>)
    /\ SStep("await_results")
    /\ UNCHANGED <<c2s, plan, conns>>

\* recv_framed_json gets a frame, and finalize_test sends DisplayResults.
RecvResults ==
    /\ spc = "await_results"
    /\ c2s # <<>> /\ Head(c2s) = "json"
    /\ c2s' = Tail(c2s)
    /\ ToClient(<<"DisplayResults">>)
    /\ SStep("final")
    /\ UNCHANGED <<plan, conns>>

\* The frame's length starts with a control byte that was not read before: the
\* length is too large.  One byte alone is not a length yet.
ResultsOutOfSync ==
    /\ spc = "await_results"
    /\ Len(c2s) > 1 /\ Head(c2s) # "json"
    /\ SStep("err")
    /\ UNCHANGED <<c2s, s2c, plan, conns>>

\* No complete frame: a closed peer is tolerated (is_peer_closed), a timeout not.
ResultsFail ==
    /\ spc = "await_results"
    /\ c2s = <<>> \/ (Len(c2s) = 1 /\ Head(c2s) # "json")
    /\ \/ CEof /\ c2s' = <<>> /\ ToClient(<<"DisplayResults">>) /\ SStep("final")
       \/ MayTimeOut /\ ~CEof /\ SStep("err") /\ UNCHANGED <<c2s, s2c>>
    /\ UNCHANGED <<plan, conns>>

\* finalize_test reads a byte: IperfDone ends the session, another control byte
\* is logged, the start of a frame is an error.
AwaitDone ==
    /\ spc = "final"
    /\ c2s # <<>>
    /\ c2s' = Tail(c2s)
    /\ SStep(CASE Head(c2s) = "IperfDone" -> "ok" [] Head(c2s) = "json" -> "err" [] OTHER -> "final")
    /\ UNCHANGED <<s2c, plan, conns>>

AwaitDoneFails ==
    /\ spc = "final"
    /\ ReadFails
    /\ SStep(IF CEof THEN "ok" ELSE "err")
    /\ UNCHANGED <<c2s, s2c, plan, conns>>

Server ==
    \/ SendParams \/ RecvOptions \/ Collect \/ CollectTimeout \/ HandshakeFails
    \/ AwaitTestEnd \/ AwaitTestEndFails \/ Join
    \/ ExchangeResults \/ RecvResults \/ ResultsOutOfSync \/ ResultsFail
    \/ AwaitDone \/ AwaitDoneFails

-----------------------------------------------------------------------------
(* The client's stream threads.                                            *)

Closed == spc \in Ended

\* The server side of t's connection is closed.  A connection left in the
\* listener's backlog is taken by the next session for a control connection,
\* and dropped when that handshake times out.
Released(t) == Closed /\ (t \in conns \/ cfg.conc \/ MayTimeOut)

\* The server's end of t's TCP connection is read and written.
Served(t) == Released(t) \/ (t \in conns /\ spc # "collect")

TStep(t, from, to) ==
    /\ Live
    /\ th[t] \in from
    /\ th' = [th EXCEPT ![t] = to]
    /\ UNCHANGED <<cfg, c2s, s2c, sVars, cVars, gone>>

\* connect: the connection is made and its cookie sent.
Open(t) ==
    /\ TStep(t, {"start"}, "open")
    /\ arrivals' = Append(arrivals, t)
    /\ UNCHANGED <<receiptQ, endQ>>

\* The stream-init datagram of a UDP stream is lost.
OpenLost(t) ==
    /\ MayFail("lossy") /\ cfg.udp
    /\ TStep(t, {"start"}, "open")
    /\ UNCHANGED <<arrivals, receiptQ, endQ>>

\* The transfer loop of an open stream is over.  A TCP receiver looks at its
\* deadline only after a read has returned.
Finish(t) ==
    /\ cfg.udp \/ t[1] = "tx" \/ Served(t)
    /\ TStep(t, {"open"}, "receipt")
    /\ receiptQ' = receiptQ + 1
    /\ UNCHANGED <<arrivals, endQ>>

\* The connection (or UDP bind) fails: the thread reports an empty receipt.
ConnectFails(t) ==
    /\ MayFail("connect")
    /\ TStep(t, {"start"}, "receipt")
    /\ receiptQ' = receiptQ + 1
    /\ UNCHANGED <<arrivals, endQ>>

\* Mutant: an error path that emits and falls through to the emit at the end.
Notify_Twice(t) ==
    /\ TStep(t, {"receipt"}, "notified")
    /\ endQ' = endQ + 2
    /\ UNCHANGED <<arrivals, receiptQ>>

\* The second half of emit_stream_finished, on the other channel.
Notify(t) ==
    /\ TStep(t, {"receipt"}, "notified")
    /\ endQ' = endQ + 1
    /\ UNCHANGED <<arrivals, receiptQ>>

\* The thread returns and drops its socket.
Close(t) ==
    /\ TStep(t, {"notified"}, "closed")
    /\ UNCHANGED <<arrivals, receiptQ, endQ>>

Threads(t) ==
    Open(t) \/ OpenLost(t) \/ Finish(t) \/ ConnectFails(t) \/ Notify(t) \/ Close(t)

-----------------------------------------------------------------------------
(* The client's main loop.                                                 *)

CAt(pc) == Live /\ cpc = pc

CUnchanged == UNCHANGED <<cfg, sVars, arrivals, gone>>

\* client_recv finds no byte: WouldBlock, or an error that is only logged.
RecvNothing ==
    /\ CAt("recv")
    /\ s2c = <<>>
    /\ cpc' = "drain"
    /\ CUnchanged
    /\ UNCHANGED <<c2s, s2c, tVars, receipts, finished, testEndSent, gotResults, report>>

\* client_recv reads msg; handle_message_client runs and the loop goes to pc.
Handle(msg, pc) ==
    /\ CAt("recv")
    /\ s2c # <<>> /\ Head(s2c) = msg
    /\ cpc' = pc
    /\ CUnchanged
    /\ UNCHANGED <<endQ, finished, testEndSent, gotResults>>

HandleParamExchange ==
    /\ Handle("ParamExchange", "drain")
    /\ s2c' = Tail(s2c)
    /\ c2s' = Append(c2s, "json")
    /\ UNCHANGED <<th, receiptQ, receipts, report>>

\* The two bytes of the port are read with the socket in blocking mode.
HandleSetDataPort ==
    /\ Handle("SetDataPort", "drain")
    /\ s2c' = Tail(Tail(s2c))
    /\ UNCHANGED <<c2s, th, receiptQ, receipts, report>>

HandleCreateStreams ==
    /\ Handle("CreateStreams", "drain")
    /\ s2c' = Tail(s2c)
    /\ th' = [t \in Used |-> "start"]
    /\ UNCHANGED <<c2s, receiptQ, receipts, report>>

HandleTestState ==
    /\ Handle("TestStart", "drain") \/ Handle("TestRunning", "drain")
    /\ s2c' = Tail(s2c)
    /\ UNCHANGED <<c2s, th, receiptQ, receipts, report>>

\* Mutant: the Results are built from the receipts the main loop has drained so far.
HandleExchangeResults_NoDrain ==
    /\ Handle("ExchangeResults", "results")
    /\ s2c' = Tail(s2c)
    /\ c2s' = Append(c2s, "json")
    /\ report' = receipts
    /\ UNCHANGED <<th, receiptQ, receipts>>

\* exchange_results drains the receipts, sends the client's Results and switches
\* the socket to blocking mode to read the server's.
HandleExchangeResults ==
    /\ Handle("ExchangeResults", "results")
    /\ s2c' = Tail(s2c)
    /\ c2s' = Append(c2s, "json")
    /\ receipts' = receipts + receiptQ
    /\ receiptQ' = 0
    /\ report' = receipts'
    /\ UNCHANGED th

HandleDisplayResults ==
    /\ Handle("DisplayResults", "done")
    /\ s2c' = Tail(s2c)
    /\ c2s' = Append(c2s, "IperfDone")
    /\ receipts' = receipts + receiptQ
    /\ receiptQ' = 0
    /\ UNCHANGED <<th, report>>

HandleAccessDenied ==
    /\ Handle("AccessDenied", "done")
    /\ s2c' = Tail(s2c)
    /\ receipts' = receipts + receiptQ
    /\ receiptQ' = 0
    /\ UNCHANGED <<c2s, th, report>>

\* The blocking read of the server's Results returns, or fails when the server
\* has closed the connection.
ReadResults ==
    /\ CAt("results")
    /\ \/ s2c # <<>> /\ Head(s2c) = "json" /\ s2c' = Tail(s2c) /\ gotResults' = TRUE
       \/ s2c = <<>> /\ Closed /\ UNCHANGED <<s2c, gotResults>>
    /\ cpc' = "drain"
    /\ CUnchanged
    /\ UNCHANGED <<c2s, tVars, receipts, finished, testEndSent, report>>

\* drain_receipts.
Drain ==
    /\ CAt("drain")
    /\ cpc' = "poll"
    /\ receipts' = receipts + receiptQ
    /\ receiptQ' = 0
    /\ CUnchanged
    /\ UNCHANGED <<c2s, s2c, th, endQ, finished, testEndSent, gotResults, report>>

\* streams_finished >= expected_streams
AllFinished(n) == n >= Cardinality(Used)

\* try_recv on the channel of finished streams; the last one sends TestEnd.
Poll ==
    /\ CAt("poll")
    /\ cpc' = "recv"
    /\ IF endQ = 0
         THEN UNCHANGED <<endQ, finished, testEndSent, c2s>>
         ELSE /\ endQ' = endQ - 1
              /\ finished' = finished + 1
              /\ IF AllFinished(finished') /\ ~testEndSent
                   THEN testEndSent' = TRUE /\ c2s' = Append(c2s, "TestEnd")
                   ELSE UNCHANGED <<testEndSent, c2s>>
    /\ CUnchanged
    /\ UNCHANGED <<s2c, th, receiptQ, receipts, gotResults, report>>

Client ==
    \/ RecvNothing
    \/ HandleParamExchange \/ HandleSetDataPort \/ HandleCreateStreams \/ HandleTestState
    \/ HandleExchangeResults \/ HandleDisplayResults \/ HandleAccessDenied
    \/ ReadResults \/ Drain \/ Poll

\* The client process is killed, or its host falls silent.
Vanish ==
    /\ Live
    /\ gone' \in {f \in {"killed", "silent"} : MayFail(f)}
    /\ UNCHANGED <<cfg, c2s, s2c, sVars, arrivals, cVars, tVars>>

Next == Server \/ Client \/ Vanish \/ \E t \in Used : Threads(t)

Spec == Init /\ [][Next]_vars

\* Threads run and the two main threads are scheduled.  A TCP sender whose
\* connection nobody serves may stay blocked in a write for ever.  A thread
\* takes a handful of steps and ends, so one condition for all of them lets
\* none starve.
ThreadProgress ==
    \E t \in Used :
        \/ Open(t) \/ OpenLost(t) \/ ConnectFails(t) \/ Notify(t) \/ Close(t)
        \/ Finish(t) /\ (cfg.udp \/ Served(t))

FairSpec ==
    /\ Spec
    /\ WF_vars(Server)
    /\ WF_vars(Client)
    /\ WF_vars(ThreadProgress)

-----------------------------------------------------------------------------
(* The refinement mapping to TestContract.                                 *)

\* Streams whose threads have yet to report.
Unfinished == {t \in Used : th[t] \in {"none", "start", "open"}}

StageOf ==
    CASE spc \in {"start", "options", "collect"} -> "setup"
      [] spc = "run"                             -> "running"
      [] spc \in {"await_results", "final"}      -> "reporting"
      [] spc = "ok"                              -> "ok"
      [] spc = "err"                             -> "failed"

ClientOf ==
    IF gone # "no" THEN "gone"
    ELSE IF cpc = "done" THEN IF gotResults THEN "done" ELSE "refused"
                         ELSE IF gotResults THEN "informed" ELSE "busy"

Contract == INSTANCE TestContract
    WITH calm <- cfg.calm, stage <- StageOf, left <- Cardinality(Unfinished), client <- ClientOf

-----------------------------------------------------------------------------
(* Properties.                                                             *)

\* The session and its client keep the contract of a test (TestContract): the
\* server publishes results only when, in a calm test, every stream of the client
\* has ended; the client learns them only after that, ends only when it has them
\* or was refused, and the server returns Ok only to a client that is done or gone.
KeepsContract == Contract!Spec

\* In a calm test the Results the client sends hold the receipt of every stream.
\* The receipt and the TestEnd message of a thread go over two channels, and
\* TestEnd may arrive between drain_receipts and try_recv of one turn of
\* client_loop; the drain at the start of exchange_results picks such a receipt up.
ResultsComplete == cfg.calm /\ report # None => report = Cardinality(Used)

\* As long as no wait exceeds its timeout, the server never reads a control byte
\* where it expects the client's Results: whatever the client has sent before,
\* wait_for_test_end has consumed.
FramesInSync ==
    cfg.calm /\ spc = "await_results" /\ c2s # <<>> => Head(c2s) = "json"

\* A finished one-way (normal or reverse) single-session TCP test leaves no data
\* connection in the listener's backlog, where the next accept_control would take it for a
\* control connection.
BacklogDrained ==
    spc = "ok" /\ ~cfg.udp /\ ~cfg.conc /\ cfg.dir # "bidir" => arrivals = <<>>

\* A session that ends without an error had its client, if that is still there,
\* read the server's Results and end its test.
AgreeOnSuccess == spc = "ok" /\ gone = "no" => cpc = "done" /\ gotResults

\* A test nobody disturbs runs to its end on both sides: the client terminates,
\* and the session returns Ok, or Err if it has refused the options.
BothComplete ==
    cfg.calm => <>(cpc = "done" /\ spc = IF cfg.reject THEN "err" ELSE "ok")

\* README: "A vanished peer no longer hangs the server forever".  With a
\* handshake timeout the session ends, whatever becomes of the client.
ServerEnds == <>(spc \in Ended)

\* A UDP or concurrent session has a timeout in every wait and always ends: when
\* the client is killed or falls silent, when it fails to open a stream and when
\* a stream-init datagram is lost.
TimedSessionEnds == cfg.udp \/ cfg.conc => ServerEnds

-----------------------------------------------------------------------------
(* The inductive invariant behind the theorems of ControlSession_proofs.   *)

\* x is somewhere in the queue q; it is there once at most; every y in q has an x
\* before it; SetDataPort can only be the head of q, and a port follows it.
Has(q, x) == \E i \in DOMAIN q : q[i] = x
Once(q, x) == \A i, j \in DOMAIN q : q[i] = x /\ q[j] = x => i = j
Before(q, x, y) == \A i \in DOMAIN q : q[i] = y => \E j \in 1 .. i - 1 : q[j] = x
PortNext(q) == \A i \in DOMAIN q : q[i] = "SetDataPort" => i = 1 /\ Len(q) > 1 /\ q[2] = "port"

\* Threads that have sent their receipt, and those that have sent TestEnd too.
Reported == {t \in Used : th[t] \in {"receipt", "notified", "closed"}}
Notified == {t \in Used : th[t] \in {"notified", "closed"}}

\* No receipt and no TestEnd of a thread is lost between the channels and the
\* counters of client_loop.
Counts ==
    /\ Cardinality(Reported) = receipts + receiptQ
    /\ Cardinality(Notified) = finished + endQ
    /\ testEndSent => finished >= Cardinality(Used)

NotStarted == \A t \in Used : th[t] = "none"

\* Up to the options the two ends take turns.  While the streams are collected
\* and the test runs, the client has at most its TestEnd to say.
Talk ==
    /\ spc = "start" => s2c = <<>> /\ c2s = <<>>
    /\ spc = "options" => \/ s2c = <<"ParamExchange">> /\ c2s = <<>>
                          \/ s2c = <<>> /\ c2s = <<"json">>
    /\ spc \in {"start", "options"} => NotStarted
    /\ spc \in {"collect", "run"} => c2s = <<>> \/ (c2s = <<"TestEnd">> /\ testEndSent)
    /\ Has(c2s, "IperfDone") => cpc = "done"

\* How far the session is when the client has a message still to read.
Sent ==
    /\ Has(s2c, "ParamExchange") => spc \in {"options", "err"}
    /\ Has(s2c, "AccessDenied") => spc = "err"
    /\ Has(s2c, "ExchangeResults") \/ Has(s2c, "json") =>
            spc \in {"await_results", "final"} \cup Ended
    /\ Has(s2c, "DisplayResults") => spc \in {"final"} \cup Ended
    /\ Has(s2c, "CreateStreams") => NotStarted
    /\ Once(s2c, "CreateStreams")
    /\ PortNext(s2c)

\* The server's Results precede DisplayResults, and the client reads them first.
ResultsFirst ==
    /\ gotResults \/ Before(s2c, "json", "DisplayResults")
    /\ spc \in {"await_results", "final", "ok"} => gotResults \/ Has(s2c, "json")
    /\ cpc = "done" => /\ spc \in {"final"} \cup Ended
                       /\ gotResults \/ spc = "err"
    /\ spc = "ok" /\ gone = "no" => cpc = "done"

\* In a calm test nothing but TestEnd takes the session past its wait for it.
Calm ==
    cfg.calm =>
    /\ gone = "no"
    /\ spc = "run" /\ ~Has(plan, "end!") /\ ~Has(plan, "end?") => testEndSent /\ c2s = <<>>
    /\ spc \in {"await_results", "final", "ok"} \/ Has(s2c, "ExchangeResults") => testEndSent
    /\ spc = "await_results" => \A i \in DOMAIN c2s : c2s[i] = "json"

ControlInv == TypeOK /\ Counts /\ Talk /\ Sent /\ ResultsFirst /\ Calm

\* A connection is in the backlog once, or accepted once, and made by a thread that
\* has started; a test runs only when as many streams as opts.parallel are accepted.
ConnInv ==
    /\ \A i, j \in DOMAIN arrivals : arrivals[i] = arrivals[j] => i = j
    /\ \A i \in DOMAIN arrivals : arrivals[i] \notin conns /\ th[arrivals[i]] \notin {"none", "start"}
    /\ \A t \in conns : th[t] \notin {"none", "start"}
    /\ spc \in {"run", "await_results", "final", "ok"} => Complete(conns)
=============================================================================
