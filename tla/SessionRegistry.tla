--------------------------- MODULE SessionRegistry ---------------------------
(***************************************************************************)
(* The concurrent server (`--max-concurrent N`, N > 1): one accept loop,   *)
(* the cookie registry, the per-IP session counter and one thread per      *)
(* session (src/server.rs, src/common/session.rs).                         *)
(*                                                                         *)
(* A connection is [cookie, role].  The server never sees the role: it     *)
(* tells a control connection from a data stream only by whether the       *)
(* cookie is registered.  The role says what the client opened it for.     *)
(*                                                                         *)
(* The accept loop holds the registry lock from the lookup to the insert,  *)
(* so each of its branches is one step.  A session thread locks the        *)
(* registry only to remove its entry and the counter only to drop its      *)
(* per-IP handle: these are two steps, in that order.                      *)
(***************************************************************************)
EXTENDS Naturals, Sequences, FiniteSets

CONSTANTS
    Cookie,         \* one fresh cookie per client run (generate_cookie)
    IP,             \* source addresses
    IpOf,           \* the address each client connects from
    Session,        \* identities of session threads
    None,           \* no registry entry, no connection
    MaxConcurrent,  \* config.max_concurrent
    PerIpCap,       \* PER_IP_SESSION_CAP
    Parallel,       \* opts.parallel: data streams the server collects
    Faults          \* which faults the environment may inject

Role == {"control", "data"}
Conn == [cookie : Cookie, role : Role]

ASSUME ConstantsAssumption ==
    /\ IpOf \in [Cookie -> IP]
    /\ None \notin Session \cup Conn
    /\ MaxConcurrent \in Nat
    /\ PerIpCap \in Nat
    /\ Parallel \in Nat \ {0}
    /\ Faults \subseteq {"panic", "accept", "slow"}

VARIABLES
    up,         \* the accept loop has not returned an error
    backlog,    \* the listener's queue of connections, oldest first
    registry,   \* cookie -> the session whose handle is stored, or None
    perIp,      \* PerIpCounter: an address absent from the map counts 0
    pc,         \* where each session thread is
    sess,       \* the cookie and first connection a session was made from
    queued,     \* streams waiting in the session's data channel
    got,        \* streams accept_streams_from_channel has taken
    want,       \* streams the session's client opens (twice n in bidir)
    client,     \* client runs: "idle", "running" or "ended"
    toOpen      \* client stream threads that have yet to connect

serverVars == <<registry, perIp, pc, sess, queued, got, want>>
clientVars == <<client, toOpen>>
vars == <<up, backlog, serverVars, clientVars>>

\* Inside serve_session_from_channel.
Serving == {"negotiating", "collecting", "running"}
\* The thread exists, and with it its per-IP handle.
Alive == Serving \cup {"returned", "unregistered"}
PC == Alive \cup {"free", "panicked"}

\* registry.len()
Registered == {c \in Cookie : registry[c] # None}
\* The session threads that hold a PerIpHandle for this address.
Holders(ip) == {s \in Session : pc[s] \in Alive /\ IpOf[sess[s].cookie] = ip}

TypeOK ==
    /\ up \in BOOLEAN
    /\ backlog \in Seq(Conn)
    /\ registry \in [Cookie -> Session \cup {None}]
    /\ perIp \in [IP -> Nat]
    /\ pc \in [Session -> PC]
    /\ sess \in [Session -> Conn \cup {None}]
    /\ queued \in [Session -> Nat]
    /\ got \in [Session -> Nat]
    /\ want \in [Session -> Nat]
    /\ client \in [Cookie -> {"idle", "running", "ended"}]
    /\ toOpen \in [Cookie -> Nat]

Init ==
    /\ up = TRUE
    /\ backlog = <<>>
    /\ registry = [c \in Cookie |-> None]
    /\ perIp = [ip \in IP |-> 0]
    /\ pc = [s \in Session |-> "free"]
    /\ sess = [s \in Session |-> None]
    /\ queued = [s \in Session |-> 0]
    /\ got = [s \in Session |-> 0]
    /\ want = [s \in Session |-> 0]
    /\ client = [c \in Cookie |-> "idle"]
    /\ toOpen = [c \in Cookie |-> 0]

-----------------------------------------------------------------------------
(* The client side, as the server can observe it.                          *)

\* run_client: connect() opens the control connection and sends the cookie.
Connect(c) ==
    /\ up
    /\ client[c] = "idle"
    /\ client' = [client EXCEPT ![c] = "running"]
    /\ backlog' = Append(backlog, [cookie |-> c, role |-> "control"])
    /\ UNCHANGED <<up, serverVars, toOpen>>

\* A stream thread of create_streams connects, however late it is scheduled.
OpenStream(c) ==
    /\ up
    /\ toOpen[c] > 0
    /\ toOpen' = [toOpen EXCEPT ![c] = @ - 1]
    /\ backlog' = Append(backlog, [cookie |-> c, role |-> "data"])
    /\ UNCHANGED <<up, serverVars, client>>

\* The client process ends or is killed; what it has sent stays in the backlog.
ClientEnds(c) ==
    /\ up
    /\ client[c] = "running"
    /\ client' = [client EXCEPT ![c] = "ended"]
    /\ toOpen' = [toOpen EXCEPT ![c] = 0]
    /\ UNCHANGED <<up, backlog, serverVars>>

-----------------------------------------------------------------------------
(* run_concurrent_accept_loop: one action per branch of an iteration.  The *)
(* connection is the oldest of the backlog; accept() and the blocking      *)
(* recv_cookie touch no shared state, so they are part of the branch.      *)

\* The oldest connection, taken by accept().
Accepted(k) ==
    /\ up
    /\ backlog # <<>>
    /\ k = Head(backlog)
    /\ backlog' = Tail(backlog)

\* recv_cookie fails: the peer closed, or (fault "slow") it timed out.
CookieReadFails(k) ==
    /\ Accepted(k)
    /\ client[k.cookie] = "ended" \/ "slow" \in Faults
    /\ UNCHANGED <<up, serverVars, clientVars>>

\* The cookie is registered: the stream goes to the session's channel, or is
\* dropped when the session has already dropped its receiver.
Attach(k) ==
    /\ Accepted(k)
    /\ registry[k.cookie] # None
    /\ LET s == registry[k.cookie]
       IN  queued' = [queued EXCEPT ![s] = IF pc[s] \in Serving THEN @ + 1 ELSE @]
    /\ UNCHANGED <<up, registry, perIp, pc, sess, got, want, clientVars>>

\* The registry is full or the per-IP count is at its cap: AccessDenied.  The
\* client ends when the refused connection is its control channel.
Refuse(k) ==
    /\ \/ Cardinality(Registered) >= MaxConcurrent
       \/ perIp[IpOf[k.cookie]] >= PerIpCap
    /\ IF k.role = "control"
         THEN /\ client' = [client EXCEPT ![k.cookie] = "ended"]
              /\ toOpen' = [toOpen EXCEPT ![k.cookie] = 0]
         ELSE UNCHANGED clientVars
    /\ UNCHANGED <<up, serverVars>>

\* Mutant: the capacity checks come before the cookie lookup.
Deny_BeforeLookup(k) ==
    /\ Accepted(k)
    /\ Refuse(k)

\* An unknown cookie that cannot become a session.
Deny(k) ==
    /\ Accepted(k)
    /\ registry[k.cookie] = None
    /\ Refuse(k)

\* PerIpCounter::try_acquire, for a count below the cap.
Acquired(ip) == [perIp EXCEPT ![ip] = @ + 1]

\* try_acquire, the insert of the handle and the spawn of the thread.
StartSession(k, s) ==
    /\ pc[s] = "free"
    /\ perIp' = Acquired(IpOf[k.cookie])
    /\ registry' = [registry EXCEPT ![k.cookie] = s]
    /\ pc' = [pc EXCEPT ![s] = "negotiating"]
    /\ sess' = [sess EXCEPT ![s] = k]
    /\ UNCHANGED <<up, queued, got, want, clientVars>>

\* Mutant: `>` for `>=` in the registry's capacity check.
Admit_OffByOne(k, s) ==
    /\ Accepted(k)
    /\ registry[k.cookie] = None
    /\ Cardinality(Registered) <= MaxConcurrent
    /\ perIp[IpOf[k.cookie]] < PerIpCap
    /\ StartSession(k, s)

\* Mutant: the lock is released between the lookup and the insert.
Admit_NoLookup(k, s) ==
    /\ Accepted(k)
    /\ Cardinality(Registered) < MaxConcurrent
    /\ perIp[IpOf[k.cookie]] < PerIpCap
    /\ StartSession(k, s)

\* A new session: acquire the per-IP handle, insert the handle, spawn.
Admit(k, s) ==
    /\ Accepted(k)
    /\ registry[k.cookie] = None
    /\ Cardinality(Registered) < MaxConcurrent
    /\ perIp[IpOf[k.cookie]] < PerIpCap
    /\ StartSession(k, s)

\* accept() or a socket option fails: `?` returns from the loop, run_server
\* returns and the process ends with every session thread.
LoopFails ==
    /\ "accept" \in Faults
    /\ up
    /\ up' = FALSE
    /\ UNCHANGED <<backlog, serverVars, clientVars>>

-----------------------------------------------------------------------------
(* A session thread.                                                       *)

\* Options accepted.  A TCP session sends CreateStreams and the client starts
\* its stream threads: n, or 2n when it runs bidirectionally.  A UDP session
\* collects on a socket of its own.  Only a control connection carries
\* options: the 0x01 payload of a data stream is no JSON frame.
Negotiate(s) ==
    /\ up
    /\ pc[s] = "negotiating"
    /\ sess[s].role = "control"
    /\ client[sess[s].cookie] = "running"
    /\ \/ /\ pc' = [pc EXCEPT ![s] = "running"]
          /\ UNCHANGED <<want, toOpen>>
       \/ /\ pc' = [pc EXCEPT ![s] = "collecting"]
          /\ \E n \in {Parallel, 2 * Parallel} :
                /\ want' = [want EXCEPT ![s] = n]
                /\ toOpen' = [toOpen EXCEPT ![sess[s].cookie] = n]
    /\ UNCHANGED <<up, backlog, registry, perIp, sess, queued, got, client>>

\* accept_streams_from_channel takes one stream; after the last of them the
\* session sends TestStart and TestRunning.
Collect(s) ==
    /\ up
    /\ pc[s] = "collecting"
    /\ queued[s] > 0
    /\ queued' = [queued EXCEPT ![s] = @ - 1]
    /\ got' = [got EXCEPT ![s] = @ + 1]
    /\ pc' = [pc EXCEPT ![s] = IF got[s] + 1 = Parallel THEN "running" ELSE @]
    /\ UNCHANGED <<up, backlog, registry, perIp, sess, want, clientVars>>

\* The Session is dropped, and its receiver with the streams still queued.
DropSession(s) ==
    /\ queued' = [queued EXCEPT ![s] = 0]
    /\ got' = [got EXCEPT ![s] = 0]
    /\ want' = [want EXCEPT ![s] = 0]

\* Mutant: the entry is removed as soon as the session returns, by the callee.
Return_Unregisters(s) ==
    /\ up
    /\ pc[s] \in Serving
    /\ pc[s] = "collecting" => queued[s] = 0
    /\ pc' = [pc EXCEPT ![s] = "returned"]
    /\ registry' = [registry EXCEPT ![sess[s].cookie] = None]
    /\ DropSession(s)
    /\ UNCHANGED <<up, backlog, perIp, sess, clientVars>>

\* serve_session_from_channel returns, Ok or Err, and drops the session with
\* its receiver.  While collecting, only an empty channel can time out.
Return(s) ==
    /\ up
    /\ pc[s] \in Serving
    /\ pc[s] = "collecting" => queued[s] = 0
    /\ pc' = [pc EXCEPT ![s] = "returned"]
    /\ DropSession(s)
    /\ UNCHANGED <<up, backlog, registry, perIp, sess, clientVars>>

\* Mutant: the entry is not removed (an early return on the error path).
Unregister_Skipped(s) ==
    /\ up
    /\ pc[s] = "returned"
    /\ pc' = [pc EXCEPT ![s] = "unregistered"]
    /\ UNCHANGED <<up, backlog, registry, perIp, sess, queued, got, want, clientVars>>

\* registry_cleanup.lock().unwrap().remove(&cookie)
Unregister(s) ==
    /\ up
    /\ pc[s] = "returned"
    /\ registry' = [registry EXCEPT ![sess[s].cookie] = None]
    /\ pc' = [pc EXCEPT ![s] = "unregistered"]
    /\ UNCHANGED <<up, backlog, perIp, sess, queued, got, want, clientVars>>

\* PerIpHandle::drop: saturating_sub(1), and the entry is removed at zero.
Released(ip) == [perIp EXCEPT ![ip] = IF @ > 0 THEN @ - 1 ELSE 0]

\* Mutant: the handle is forgotten rather than dropped.
DropGuard_Leaks(s) ==
    /\ up
    /\ pc[s] = "unregistered"
    /\ pc' = [pc EXCEPT ![s] = "free"]
    /\ sess' = [sess EXCEPT ![s] = None]
    /\ UNCHANGED <<up, backlog, registry, perIp, queued, got, want, clientVars>>

\* The closure ends: _ip_guard is dropped and the thread exits.
DropGuard(s) ==
    /\ up
    /\ pc[s] = "unregistered"
    /\ perIp' = Released(IpOf[sess[s].cookie])
    /\ pc' = [pc EXCEPT ![s] = "free"]
    /\ sess' = [sess EXCEPT ![s] = None]
    /\ UNCHANGED <<up, backlog, registry, queued, got, want, clientVars>>

\* Mutant: the count is given back by a statement rather than by a guard.
Panic_Leaks(s) ==
    /\ "panic" \in Faults
    /\ up
    /\ pc[s] \in Serving
    /\ pc' = [pc EXCEPT ![s] = "panicked"]
    /\ DropSession(s)
    /\ UNCHANGED <<up, backlog, registry, perIp, sess, clientVars>>

\* A panic in serve_session_from_channel unwinds the closure: the session and
\* _ip_guard are dropped, the statement that removes the entry never runs.
Panic(s) ==
    /\ "panic" \in Faults
    /\ up
    /\ pc[s] \in Serving
    /\ perIp' = Released(IpOf[sess[s].cookie])
    /\ pc' = [pc EXCEPT ![s] = "panicked"]
    /\ DropSession(s)
    /\ UNCHANGED <<up, backlog, registry, sess, clientVars>>

-----------------------------------------------------------------------------
AcceptLoop ==
    \E k \in Conn :
        \/ CookieReadFails(k)
        \/ Attach(k)
        \/ Deny(k)
        \/ \E s \in Session : Admit(k, s)

SessionThread(s) ==
    \/ Negotiate(s)
    \/ Collect(s)
    \/ Return(s)
    \/ Unregister(s)
    \/ DropGuard(s)
    \/ Panic(s)

Client(c) == Connect(c) \/ OpenStream(c) \/ ClientEnds(c)

Next ==
    \/ AcceptLoop
    \/ LoopFails
    \/ \E s \in Session : SessionThread(s)
    \/ \E c \in Cookie : Client(c)

Spec == Init /\ [][Next]_vars

\* The accept loop iterates and threads run.  A session's every wait has a
\* deadline (handshake_timeout on the control and data sockets and on the
\* channel), so it returns; clients owe nothing, except that none of them sends
\* test data forever (a reader's deadline restarts with every byte).
Fairness ==
    /\ WF_vars(AcceptLoop)
    /\ \A s \in Session :
          /\ WF_vars(Return(s))
          /\ WF_vars(Collect(s))
          /\ WF_vars(Unregister(s))
          /\ WF_vars(DropGuard(s))

FairSpec == Spec /\ Fairness

-----------------------------------------------------------------------------
(* Properties.                                                             *)

\* README "--max-concurrent N > 1 enables up to N simultaneous tests": never
\* more than MaxConcurrent threads are inside serve_session_from_channel, even
\* though a slot is freed while its thread is still exiting.
SimultaneousTestsBounded ==
    Cardinality({s \in Session : pc[s] \in Serving}) <= MaxConcurrent

\* PerIpCounter is exact in every interleaving of accepts, exits and panics:
\* the count of an address is the number of threads holding its handle, so
\* saturating_sub never saturates, and it stays within PER_IP_SESSION_CAP.
PerIpExact ==
    \A ip \in IP : /\ perIp[ip] = Cardinality(Holders(ip))
                   /\ perIp[ip] <= PerIpCap

\* A thread that has not yet removed its entry owns the entry of its cookie:
\* two live sessions never share a cookie, and the sender of a channel that a
\* session waits on is still registered (data_rx.recv never finds it closed).
SessionOwnsEntry ==
    \A s \in Session :
        pc[s] \in Serving \cup {"returned"} => registry[sess[s].cookie] = s

\* Every entry leads to a thread made for that cookie which has not removed
\* it, or which died in a panic before it could.
EntryHasSession ==
    \A c \in Registered :
        LET s == registry[c]
        IN  /\ sess[s] # None
            /\ sess[s].cookie = c
            /\ pc[s] \in Serving \cup {"returned", "panicked"}

\* The places in the backlog of a client's connections of one role.
InBacklog(c, r) == {i \in DOMAIN backlog : backlog[i] = [cookie |-> c, role |-> r]}

\* When cookies are read in time, no data stream of a session that is still
\* collecting goes astray: each is unopened, in the backlog, in the channel or
\* collected.  In particular none of them has become a session of its own.
StreamsReachSession ==
    \A s \in Session :
        (pc[s] = "collecting" /\ client[sess[s].cookie] = "running"
            /\ "slow" \notin Faults)
        => LET c == sess[s].cookie
           IN  want[s] = toOpen[c] + Cardinality(InBacklog(c, "data")) + queued[s] + got[s]

\* An entry is never overwritten, and only its own session removes it, after
\* serve_session_from_channel has returned.
EntryRemovedByOwner ==
    [][\A c \in Cookie :
          registry[c] # None /\ registry'[c] # registry[c]
          => /\ registry'[c] = None
             /\ pc[registry[c]] = "returned"
             /\ pc'[registry[c]] = "unregistered"]_vars

\* Every slot is given back: a registered cookie is eventually unregistered, whether
\* its client completes the test, is killed, falls silent or never opens its streams.
\* Only the entry of a panicked session stays.  (A client that trickles test data for
\* ever is not among these: no timeout of a session is one of the whole session.)
SlotReleased ==
    \A c \in Cookie :
        registry[c] # None ~> \/ registry[c] = None
                              \/ pc[registry[c]] = "panicked"

\* Nothing leaks over a whole run of the server: once the last client has come,
\* the backlog empties, every slot but that of a panicked session is free and
\* every count is back to zero, for good.  Sessions made by mistake from a data
\* connection that arrives after its session has gone are included.
ServerDrains ==
    <>[](/\ backlog = <<>>
         /\ \A c \in Registered : pc[registry[c]] = "panicked"
         /\ \A ip \in IP : perIp[ip] = 0)

-----------------------------------------------------------------------------
(* The inductive invariant behind the theorems of SessionRegistry_proofs.  *)

\* A thread, alive or panicked, remembers the connection it was made from.
SessionHasConn ==
    \A s \in Session : pc[s] \in Alive \cup {"panicked"} => sess[s] \in Conn

\* The registry never holds more than MaxConcurrent entries.
RegistryBounded ==
    IsFiniteSet(Registered) /\ Cardinality(Registered) <= MaxConcurrent

\* Finitely many threads hold a handle of an address.
HoldersFinite == \A ip \in IP : IsFiniteSet(Holders(ip))

RegistryInv ==
    /\ TypeOK
    /\ SessionHasConn
    /\ SessionOwnsEntry
    /\ EntryHasSession
    /\ RegistryBounded
    /\ HoldersFinite
    /\ PerIpExact

-----------------------------------------------------------------------------
(* The inductive invariant behind StreamsReachSession.                     *)

\* No stream of the client has been asked for yet.
NoStreams(c) == toOpen[c] = 0 /\ InBacklog(c, "data") = {}

\* No thread has been made from a connection of the client.
NoSession(c) == \A s \in Session : sess[s] # None => sess[s].cookie # c

\* A client opens one control connection, and nothing else before that has become
\* a session and the session has negotiated the options.
ControlFirst(c) ==
    /\ client[c] = "idle" \/ InBacklog(c, "control") # {} => NoStreams(c) /\ NoSession(c)
    /\ client[c] = "idle" => InBacklog(c, "control") = {}
    /\ \A i, j \in InBacklog(c, "control") : i = j

\* The channel of a session is empty before its streams are asked for and after
\* its receiver is dropped.
ChannelInv(s) ==
    /\ pc[s] \notin Serving => queued[s] = 0 /\ got[s] = 0
    /\ pc[s] = "negotiating" /\ sess[s].role = "control" =>
            NoStreams(sess[s].cookie) /\ queued[s] = 0 /\ got[s] = 0

StreamsInv ==
    /\ \A c \in Cookie : ControlFirst(c)
    /\ \A s \in Session : ChannelInv(s)
    /\ StreamsReachSession
=============================================================================
