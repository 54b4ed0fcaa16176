----------------------------- MODULE SingleServer -----------------------------
(***************************************************************************)
(* The server that runs one test at a time (`--max-concurrent 1`, the      *)
(* default): run_server_loop calls serve_one_session again and again on    *)
(* one listener (src/server.rs).  The listener's queue outlives a session, *)
(* and both accept_control and accept_streams_via_listener take the oldest *)
(* connection from it, whoever opened it.                                  *)
(*                                                                         *)
(* What a session and its client say to each other is module               *)
(* ControlSession; here a test either completes or fails.  TCP tests are   *)
(* one-way: a bidirectional one does not complete (see ControlSession).    *)
(* Clients that keep a session busy for ever are left out: one that is     *)
(* suspended while the server sends to it, and one that trickles bytes.    *)
(***************************************************************************)
EXTENDS Naturals, Sequences, FiniteSets

CONSTANTS
    Client,     \* client runs, each with a fresh cookie
    Parallel,   \* opts.parallel
    OneOff,     \* config.one_off
    Faults,     \* what may go wrong
    None        \* no control connection

Role == {"control", "data"}
Conn == [client : Client, role : Role]

ASSUME SingleAssumption ==
    /\ Parallel \in Nat \ {0}
    /\ OneOff \in BOOLEAN
    /\ Faults \subseteq {"killed", "silent", "connect", "slow", "panic"}
    /\ None \notin Conn

VARIABLES
    pc,         \* "accept", "options", "collect", "run", "join" or "stopped"
    backlog,    \* the listener's queue of connections, oldest first
    control,    \* the connection accept_control has taken, or None
    streams,    \* the owners of the data connections the session has accepted
    client,     \* what has become of each client
    udp,        \* the clients that run a (forward) UDP test
    toOpen,     \* stream threads of each client that have yet to connect
    failed,     \* stream threads of the session's client whose connect has failed
    leaked      \* a receiver thread of an earlier session holds the UDP port

vars == <<pc, backlog, control, streams, client, udp, toOpen, failed, leaked>>

\* A "dropped" client has lost its control connection without a word; its
\* process runs on, and so do its stream threads.  The kernel of a "killed" client
\* closes its connections; a "silent" one has lost its host or its network, and
\* nothing more is heard of it.
ClientState == {"idle", "waiting", "opening", "testing",
                "done", "denied", "dropped", "killed", "silent"}
Gone == {"killed", "silent"}

TypeOK ==
    /\ pc \in {"accept", "options", "collect", "run", "join", "stopped"}
    /\ backlog \in Seq(Conn)
    /\ control \in Conn \cup {None}
    /\ streams \in Seq(Client)
    /\ client \in [Client -> ClientState]
    /\ udp \in SUBSET Client
    /\ toOpen \in [Client -> Nat]
    /\ failed \in Nat
    /\ leaked \in BOOLEAN

Init ==
    /\ pc = "accept"
    /\ backlog = <<>>
    /\ control = None
    /\ streams = <<>>
    /\ client = [c \in Client |-> "idle"]
    /\ udp \in SUBSET Client
    /\ toOpen = [c \in Client |-> 0]
    /\ failed = 0
    /\ leaked = FALSE

-----------------------------------------------------------------------------
(* The clients.                                                            *)

Queue(c, role) == backlog' = Append(backlog, [client |-> c, role |-> role])

\* A client connects and sends its cookie.  Once a one-off server has stopped,
\* nobody listens.
Connect(c) ==
    /\ pc # "stopped"
    /\ client[c] = "idle"
    /\ client' = [client EXCEPT ![c] = "waiting"]
    /\ Queue(c, "control")
    /\ UNCHANGED <<pc, control, streams, udp, toOpen, failed, leaked>>

\* A stream thread connects, whether or not the session is still there...
OpenStream(c) ==
    /\ pc # "stopped"
    /\ toOpen[c] > 0
    /\ toOpen' = [toOpen EXCEPT ![c] = @ - 1]
    /\ Queue(c, "data")
    /\ UNCHANGED <<pc, control, streams, client, udp, failed, leaked>>

\* ... or cannot, and ends with an empty receipt; its client does not tell the server.
StreamFails(c) ==
    /\ "connect" \in Faults \/ pc = "stopped"
    /\ toOpen[c] > 0
    /\ toOpen' = [toOpen EXCEPT ![c] = @ - 1]
    /\ failed' = IF client[c] = "opening" THEN failed + 1 ELSE failed
    /\ UNCHANGED <<pc, backlog, control, streams, client, udp, leaked>>

\* The client process is killed or its host falls silent; what has arrived from it
\* stays in the queue.
Vanish(c, how) ==
    /\ how \in Faults
    /\ client[c] \in {"waiting", "opening", "testing"}
    /\ client' = [client EXCEPT ![c] = how]
    /\ toOpen' = [toOpen EXCEPT ![c] = 0]
    /\ UNCHANGED <<pc, backlog, control, streams, udp, failed, leaked>>

-----------------------------------------------------------------------------
(* The server.                                                             *)

\* Mutant: an error or a panic is propagated out of the loop.
Over_Returns == "stopped"

\* serve_one_session is over, with Ok, Err or (catch_unwind) a panic.
Over == IF OneOff THEN "stopped" ELSE "accept"

\* The session's sockets are closed; of the clients that lose a connection, those
\* whose test was still to be run or running are left in state st.
EndSession(lost, st) ==
    /\ pc' = Over
    /\ control' = None
    /\ streams' = <<>>
    /\ failed' = 0
    /\ client' = [c \in Client |->
                    IF c \in lost /\ client[c] \in {"waiting", "opening", "testing"}
                    THEN st
                    ELSE client[c]]

Me == control.client
Alive == client[Me] \notin Gone

\* accept_control: the oldest connection becomes the control connection, whatever
\* its opener meant it for...
AcceptControl ==
    /\ pc = "accept"
    /\ backlog # <<>>
    /\ backlog' = Tail(backlog)
    /\ pc' = "options"
    /\ control' = Head(backlog)
    /\ UNCHANGED <<streams, client, udp, toOpen, failed, leaked>>

\* ... unless its cookie cannot be read: the peer is gone, or too slow.
CookieFails ==
    /\ pc = "accept"
    /\ backlog # <<>>
    /\ client[Head(backlog).client] \in Gone \/ "slow" \in Faults
    /\ backlog' = Tail(backlog)
    /\ EndSession({Head(backlog).client}, "dropped")
    /\ UNCHANGED <<udp, toOpen, leaked>>

\* negotiate_options and validate_options let the test through.  A TCP session
\* announces CreateStreams and collects the streams from the listener; a UDP one
\* binds its own socket, and its streams do not pass through the listener.
Negotiate ==
    /\ pc = "options"
    /\ control.role = "control"
    /\ Alive
    /\ IF Me \in udp
       THEN /\ ~leaked
            /\ pc' = "run"
            /\ client' = [client EXCEPT ![Me] = "testing"]
            /\ UNCHANGED toOpen
       ELSE /\ pc' = "collect"
            /\ client' = [client EXCEPT ![Me] = "opening"]
            /\ toOpen' = [toOpen EXCEPT ![Me] = Parallel]
    /\ UNCHANGED <<backlog, control, streams, udp, failed, leaked>>

\* Mutant: the streams are announced before the options are validated.
Deny_AfterCreateStreams ==
    /\ pc = "options"
    /\ control.role = "control"
    /\ Alive
    /\ toOpen' = [toOpen EXCEPT ![Me] = Parallel]
    /\ EndSession({Me}, "denied")
    /\ UNCHANGED <<backlog, udp, leaked>>

\* validate_options or check_auth refuses the test: AccessDenied.
Deny ==
    /\ pc = "options"
    /\ control.role = "control"
    /\ Alive
    /\ EndSession({Me}, "denied")
    /\ UNCHANGED <<backlog, udp, toOpen, leaked>>

\* The options do not come: the connection is a stream's (what it carries is no
\* options frame), its client is gone or slow, or the UDP port is taken.
NegotiateFails ==
    /\ pc = "options"
    /\ \/ control.role = "data"
       \/ ~Alive
       \/ "slow" \in Faults
       \/ Me \in udp /\ leaked
    /\ EndSession({Me}, "dropped")
    /\ UNCHANGED <<backlog, udp, toOpen, leaked>>

\* Mutant: the cookie is not compared.
AcceptStream_AnyCookie ==
    /\ pc = "collect"
    /\ backlog # <<>>
    /\ backlog' = Tail(backlog)
    /\ streams' = Append(streams, Head(backlog).client)
    /\ IF Len(streams) + 1 = Parallel
       THEN /\ pc' = "run"
            /\ client' = [client EXCEPT ![Me] = IF Alive THEN "testing" ELSE @]
       ELSE UNCHANGED <<pc, client>>
    /\ UNCHANGED <<control, udp, toOpen, failed, leaked>>

\* accept_streams_via_listener: the next connection must carry the session's
\* cookie.  After the last one the session sends TestStart and TestRunning.
AcceptStream ==
    /\ pc = "collect"
    /\ backlog # <<>>
    /\ Head(backlog).client = Me
    /\ backlog' = Tail(backlog)
    /\ streams' = Append(streams, Me)
    /\ IF Len(streams) + 1 = Parallel
       THEN /\ pc' = "run"
            /\ client' = [client EXCEPT ![Me] = IF Alive THEN "testing" ELSE @]
       ELSE UNCHANGED <<pc, client>>
    /\ UNCHANGED <<control, udp, toOpen, failed, leaked>>

\* Mutant: another client's connection is passed over and closed.
AcceptStreamFails_PassesOver ==
    /\ pc = "collect"
    /\ backlog # <<>>
    /\ Head(backlog).client # Me \/ ~Alive \/ "slow" \in Faults
    /\ backlog' = Tail(backlog)
    /\ UNCHANGED <<pc, control, streams, client, udp, toOpen, failed, leaked>>

\* Another client's connection, or one whose cookie cannot be read, ends the
\* session: both connections are closed.
AcceptStreamFails ==
    /\ pc = "collect"
    /\ backlog # <<>>
    /\ \/ Head(backlog).client # Me
       \/ ~Alive
       \/ "slow" \in Faults
    /\ backlog' = Tail(backlog)
    /\ EndSession({Me, Head(backlog).client}, "dropped")
    /\ UNCHANGED <<udp, toOpen, leaked>>

\* A session that receives over TCP has read TestEnd and joins its readers, which
\* wait for the end of every stream without a timeout.
TestEnd ==
    /\ pc = "run"
    /\ Me \notin udp
    /\ Alive
    /\ pc' = "join"
    /\ UNCHANGED <<backlog, control, streams, client, udp, toOpen, failed, leaked>>

\* The test and the exchange of results run to IperfDone.  A session that sends, or
\* runs over UDP, does not pass through the join.
Complete ==
    /\ pc \in {"run", "join"}
    /\ Alive
    /\ EndSession({Me}, "done")
    /\ UNCHANGED <<backlog, udp, toOpen, leaked>>

\* The control connection fails during the test or the exchange of results.  A UDP
\* session that fails before the end of the test leaves its receiver behind.  The
\* streams of a killed client end, those of a silent one do not.
RunFails ==
    /\ \/ pc = "run" /\ ~Alive
       \/ pc = "join" /\ client[Me] = "killed"
       \/ pc \in {"run", "join"} /\ Alive /\ "slow" \in Faults
    /\ leaked' \in {leaked, leaked \/ Me \in udp}
    /\ EndSession({Me}, "dropped")
    /\ UNCHANGED <<backlog, udp, toOpen>>

\* A session panics; run_server_loop catches it and goes on.
Panic ==
    /\ "panic" \in Faults
    /\ pc \in {"options", "collect", "run", "join"}
    /\ leaked' \in {leaked, leaked \/ (pc = "run" /\ Me \in udp)}
    /\ EndSession({Me}, "dropped")
    /\ UNCHANGED <<backlog, udp, toOpen>>

Serve ==
    \/ AcceptControl
    \/ CookieFails
    \/ Negotiate
    \/ Deny
    \/ NegotiateFails
    \/ AcceptStream
    \/ AcceptStreamFails
    \/ TestEnd
    \/ Complete
    \/ RunFails

Next ==
    \/ Serve
    \/ Panic
    \/ \E c \in Client : Connect(c) \/ OpenStream(c) \/ StreamFails(c)
    \/ \E c \in Client, how \in Gone : Vanish(c, how)

\* The server takes its next step when it can, stream threads connect or fail;
\* clients come and go as they like, and no session has to panic.
Spec ==
    /\ Init
    /\ [][Next]_vars
    /\ WF_vars(Serve)
    /\ \A c \in Client : WF_vars(OpenStream(c) \/ StreamFails(c))

-----------------------------------------------------------------------------
(* Properties.                                                             *)

\* How many connections of a client wait in the listener's queue.
Queued(c, role) ==
    Cardinality({i \in DOMAIN backlog : backlog[i] = [client |-> c, role |-> role]})

\* The streams a session collects are those of the client whose options it has
\* negotiated, never a connection another client opened meanwhile, and none goes
\* astray: as long as that client is there, the collected ones, those in the
\* listener's queue, those about to be opened and those whose connect failed make up
\* opts.parallel (accept_streams_via_listener), and a TCP test runs with all of them.
StreamsAccounted ==
    /\ \A i \in DOMAIN streams : streams[i] = Me
    /\ pc = "collect" =>
         /\ control.role = "control"
         /\ Len(streams) < Parallel
         /\ client[Me] \in {"opening"} \cup Gone
         /\ Alive => Len(streams) + Queued(Me, "data") + toOpen[Me] + failed = Parallel
    /\ pc \in {"run", "join"} /\ Me \notin udp => Len(streams) = Parallel

\* What one session leaves in the listener's queue for the next: only a client
\* whose session failed can have a stream waiting there, or about to be opened,
\* outside its own session.  A test that has run to its end, or that has been
\* denied, cannot disturb a later one.
OnlyFailedLeaveStreams ==
    \A c \in Client :
        client[c] \notin {"opening", "dropped"} \cup Gone =>
            Queued(c, "data") = 0 /\ toOpen[c] = 0

\* The accept of accept_streams_via_listener has no deadline.  It waits for a stream
\* that nobody is going to open, because the client is gone or the stream's thread
\* could not connect; the next client's connection ends the wait.
Starved ==
    /\ pc = "collect"
    /\ backlog = <<>>
    /\ toOpen[Me] = 0
    /\ ~Alive \/ failed > 0

\* join_stream_totals waits for readers without a deadline, for the end of streams
\* whose host is silent.
Wedged ==
    pc = "join" /\ client[Me] = "silent"

\* Whatever becomes of a session (an error, a panic, a client that is killed or
\* silent, a stream that is not opened), the loop gets back to accepting the next
\* client, unless it is blocked in the accept of the data streams or in the join of
\* the readers as described above; a one-off server stops after its first session.
LoopsUnlessBlocked ==
    []<>(pc = "accept" \/ (OneOff /\ pc = "stopped") \/ Starved \/ Wedged)

\* A client that has connected is not left in the queue for ever: it gets its test,
\* is denied, or loses its connection, even behind a client for whose streams the
\* server is starved.  Only a host silent between TestEnd and the end of its streams
\* keeps those after it waiting.
Answered ==
    \A c \in Client :
        client[c] = "waiting" ~> client[c] # "waiting" \/ pc = "stopped" \/ Wedged

-----------------------------------------------------------------------------
(* The inductive invariant behind the proofs (SingleServer_proofs).        *)

Holds(c) == IF control = [client |-> c, role |-> "control"] THEN 1 ELSE 0

\* A client has at most one control connection, which is in the queue only as long
\* as the client waits, and is the session's while it opens streams and tests.
ClientInv(c) ==
    /\ Queued(c, "control") + Holds(c) <= IF client[c] = "idle" THEN 0 ELSE 1
    /\ Queued(c, "control") > 0 => client[c] \in {"waiting"} \cup Gone
    /\ client[c] \notin {"opening", "dropped"} \cup Gone =>
         Queued(c, "data") = 0 /\ toOpen[c] = 0
    /\ client[c] \in Gone => toOpen[c] = 0
    /\ client[c] = "opening" => pc = "collect" /\ Holds(c) = 1
    /\ client[c] = "testing" => pc \in {"run", "join"} /\ Holds(c) = 1

\* The state of the session's client follows the step the session is at.
SessionInv ==
    /\ control = None <=> pc \in {"accept", "stopped"}
    /\ pc \in {"accept", "stopped", "options"} => streams = <<>> /\ failed = 0
    /\ pc = "options" =>
         client[Me] \in (IF control.role = "control" THEN {"waiting"} ELSE {"dropped"}) \cup Gone
    /\ pc \in {"run", "join"} =>
         control.role = "control" /\ client[Me] \in {"testing"} \cup Gone
    /\ pc = "join" => Me \notin udp
    /\ StreamsAccounted

SingleInv == TypeOK /\ SessionInv /\ \A c \in Client : ClientInv(c)
=============================================================================
