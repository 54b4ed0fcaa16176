------------------------------- MODULE Framing -------------------------------
(***************************************************************************)
(* The control connection of one test, byte by byte: src/common/wire.rs    *)
(* and src/common/cookie.rs over the sockets of src/common/protocol.rs,    *)
(* driven by the conversations of src/server.rs and src/client.rs.         *)
(*                                                                         *)
(* Each direction is a pipe of at most Cap bytes, the socket buffers.  A   *)
(* call of send takes as many bytes as it likes of those that fit, a call  *)
(* of recv returns as many as it likes of those that are there: a step     *)
(* moves one byte, a call that moves n of them is n steps in a row.  The   *)
(* server's socket blocks, up to its timeouts.  The client's socket is     *)
(* non-blocking, except while it reads a port number or the server's       *)
(* Results; its sends never wait.                                          *)
(*                                                                         *)
(* Module ControlSession takes a message for one token of a FIFO queue and *)
(* says when each end sends which.  Here the messages are taken apart.     *)
(***************************************************************************)
EXTENDS Naturals, Sequences, SequencesExt

CONSTANTS
    Cap,            \* bytes that fit into one direction of the connection
    CookieLen,      \* COOKIE_LEN
    MaxFrame,       \* MAX_JSON_FRAME_LEN
    Configs         \* the conversations: see ConfigType

\* The cookie is sent by one call of send on a fresh connection, and so are the
\* options: both fit into an empty socket buffer.
ASSUME CapAssumption ==
    /\ Cap \in Nat
    /\ \A k \in Configs : CookieLen <= Cap /\ 4 + k.options <= Cap

VARIABLES
    cfg,        \* the conversation
    pipe,       \* [End -> bytes]: sent by that end and not yet read
    out,        \* [End -> bytes]: what write_all has yet to send
    buf,        \* [End -> bytes]: what read_exact has read of the current message
    at,         \* the server: the step of its Script it is at, Failed or Succeeded
    cpc,        \* the client: "loop", "write", "port", "results" or "done"
    then,       \* where the client goes on after a successful write
    testEnd,    \* the client's streams: "no", "due" to end, "sent"
    gone,       \* the client: "no", "killed", or "silent" with its socket open
    said,       \* [End -> messages]: those the end has begun to send
    heard,      \* [End -> messages]: those the end has read
    torn        \* the ends of which a send has failed

vars == <<cfg, pipe, out, buf, at, cpc, then, testEnd, gone, said, heard, torn>>

-----------------------------------------------------------------------------
(* Messages and their bytes.                                               *)

\* Message, #[repr(i8)]: the codes that are used between client and server.
TestStart == 1
TestRunning == 2
TestEnd == 4
ParamExchange == 9
CreateStreams == 10
ExchangeResults == 13
DisplayResults == 14
IperfDone == 16
SetDataPort == 17
AccessDenied == 255

Msg(kind, val) == [kind |-> kind, val |-> val]
Ctl(code) == Msg("ctl", code)

\* to_be_bytes of an unsigned integer of w bytes, and from_be_bytes.
Bytes(n, w) == [i \in 1 .. w |-> (n \div 256 ^ (w - i)) % 256]
Value(bs) ==
    LET v[i \in 0 .. Len(bs)] == IF i = 0 THEN 0 ELSE 256 * v[i - 1] + bs[i] IN v[Len(bs)]

\* A JSON document of n bytes.  It starts with {, ends with } and contains no
\* byte below 32; with a byte missing, added or changed it is not a document.
Json(n) == [i \in 1 .. n |-> CASE i = 1 -> 123 [] i = n -> 125 [] OTHER -> 34]

Cookie == [i \in 1 .. CookieLen |-> 97]
Port == 18 * 256 + DisplayResults

\* Mutant: the length counts the prefix as well.
Encode_LengthOfFrame(m) ==
    CASE m.kind = "ctl"  -> Bytes(m.val, 1)
      [] m.kind = "u16"  -> Bytes(m.val, 2)
      [] m.kind = "json" -> Bytes(m.val + 4, 4) \o Json(m.val)

\* send_control_byte, send_u16_be, send_framed_json: what write_all is given.
Encode(m) ==
    CASE m.kind = "ctl"  -> Bytes(m.val, 1)
      [] m.kind = "u16"  -> Bytes(m.val, 2)
      [] m.kind = "json" -> Bytes(m.val, 4) \o Json(m.val)

\* How many bytes read_exact (recv_cookie) is to collect for a message of this
\* kind when bs are there: of a frame first the length, then the body.
Wanted(kind, bs) ==
    CASE kind = "ctl"    -> 1
      [] kind = "u16"    -> 2
      [] kind = "cookie" -> CookieLen
      [] kind = "json"   -> IF Len(bs) < 4 THEN 4 ELSE 4 + Value(SubSeq(bs, 1, 4))

\* recv_framed_json refuses the length.
TooLarge(kind, bs) == kind = "json" /\ Len(bs) = 4 /\ Value(bs) > MaxFrame

\* All the bytes of the message are there, or its length is refused.
Whole(kind, bs) == Len(bs) = Wanted(kind, bs) \/ TooLarge(kind, bs)

\* The bytes are a message of their kind.
Parses(kind, bs) ==
    kind = "json" => Len(bs) > 5 /\ SubSeq(bs, 5, Len(bs)) = Json(Len(bs) - 4)

Decode(kind, bs) ==
    CASE kind = "json"   -> Msg("json", Len(bs) - 4)
      [] kind = "cookie" -> Msg("cookie", CookieLen)
      [] OTHER           -> Msg(kind, Value(bs))

-----------------------------------------------------------------------------
(* The two ends.                                                           *)

End == {"c", "s"}
Other(e) == IF e = "c" THEN "s" ELSE "c"

Send(m) == [op |-> "send", kind |-> m.kind, val |-> m.val]
Recv(kind) == [op |-> "recv", kind |-> kind, val |-> 0]
Until(code) == [op |-> "until", kind |-> "ctl", val |-> code]

\* What a session does with its control connection, in order: accept_control,
\* negotiate_options, the refusal or the start of the test, wait_for_test_end,
\* exchange_results, finalize_test.
ScriptOf(k) ==
    <<Recv("cookie"), Send(Ctl(ParamExchange)), Recv("json")>> \o
    IF k.reject
      THEN <<Send(Ctl(AccessDenied))>>
      ELSE (IF k.port THEN <<Send(Ctl(SetDataPort)), Send(Msg("u16", Port))>> ELSE <<>>) \o
           <<Send(Ctl(CreateStreams)), Send(Ctl(TestStart)), Send(Ctl(TestRunning)),
             Until(TestEnd),
             Send(Ctl(ExchangeResults)), Send(Msg("json", k.server)), Recv("json"),
             Send(Ctl(DisplayResults)), Until(IperfDone)>>

Scripts == [k \in Configs |-> ScriptOf(k)]
Script == Scripts[cfg]

\* The steps of wait_for_test_end, exchange_results and finalize_test in a Script that
\* has them.
AwaitTestEnd == Len(Script) - 5
Exchange == Len(Script) - 4
SendResults == Len(Script) - 3
RecvResults == Len(Script) - 2
Display == Len(Script) - 1

\* The session has returned Err or Ok, and its socket is closed.
Failed == 0
Succeeded == Len(Script) + 1
SClosed == at \in {Failed, Succeeded}
CClosed == cpc = "done" \/ gone = "killed"

ConfigType ==
    [options : Nat, client : Nat, server : Nat, port : BOOLEAN, reject : BOOLEAN,
     sends : BOOLEAN, calm : BOOLEAN]

TypeOK ==
    /\ cfg \in Configs /\ cfg \in ConfigType
    /\ \A e \in End : /\ \A bs \in {pipe[e], out[e], buf[e]} : bs \in Seq(0 .. 255)
                       /\ Len(pipe[e]) <= Cap
    /\ at \in 0 .. Succeeded
    /\ out["s"] # <<>> <=> ~SClosed /\ Script[at].op = "send"
    /\ cpc \in {"loop", "write", "port", "results", "done"}
    /\ out["c"] # <<>> <=> cpc = "write"
    /\ buf["c"] # <<>> => cpc \in {"port", "results"}
    /\ then \in {"loop", "results", "done"}
    /\ testEnd \in {"no", "due", "sent"}
    /\ gone \in {"no", "killed", "silent"}
    /\ torn \subseteq End

\* connect has sent the cookie.
Init ==
    /\ cfg \in Configs
    /\ pipe = [e \in End |-> IF e = "c" THEN Cookie ELSE <<>>]
    /\ out = [e \in End |-> <<>>]
    /\ buf = [e \in End |-> <<>>]
    /\ at = 1
    /\ cpc = "loop"
    /\ then = "loop"
    /\ testEnd = "no"
    /\ gone = "no"
    /\ said = [e \in End |-> IF e = "c" THEN <<Msg("cookie", CookieLen)>> ELSE <<>>]
    /\ heard = [e \in End |-> <<>>]
    /\ torn = {}

\* The loop of write_all: the next byte goes into the pipe.
Push(e) ==
    /\ Len(pipe[e]) < Cap
    /\ pipe' = [pipe EXCEPT ![e] = Append(@, Head(out[e]))]

\* The loop of read_exact: the next byte comes out of the other end's pipe.
Pull(e) ==
    /\ pipe[Other(e)] # <<>>
    /\ pipe' = [pipe EXCEPT ![Other(e)] = Tail(@)]
Read(e) == Append(buf[e], Head(pipe[Other(e)]))

Hear(e, m) == heard' = [heard EXCEPT ![e] = Append(@, m)]

-----------------------------------------------------------------------------
(* The server.                                                             *)

Doing(ops) == ~SClosed /\ Script[at].op \in ops

SUnchanged == UNCHANGED <<cfg, cpc, then, testEnd, gone>>

\* The server goes to step i of its Script: a message to send is encoded.
Enter(i) ==
    /\ buf' = [buf EXCEPT !["s"] = <<>>]
    /\ IF i \in 1 .. Len(Script)
         THEN LET m == Msg(Script[i].kind, Script[i].val)
                  sends == Script[i].op = "send"
              IN  /\ at' = i
                  /\ out' = [out EXCEPT !["s"] = IF sends THEN Encode(m) ELSE <<>>]
                  /\ said' = IF sends THEN [said EXCEPT !["s"] = Append(@, m)] ELSE said
         ELSE /\ at' = IF cfg.reject THEN Failed ELSE i
              /\ out' = [out EXCEPT !["s"] = <<>>]
              /\ UNCHANGED said

\* The step is wait_for_test_end of a reverse or bidirectional test, where the server
\* sends: its result is ignored (let _ =), whatever the error.
Ignored == cfg.sends /\ ~cfg.reject /\ at = AwaitTestEnd

\* The step after one that found the connection closed (is_peer_closed).  From
\* exchange_results on that is tolerated, by the function or by its caller.
AfterClosed ==
    IF Ignored THEN at + 1
    ELSE IF cfg.reject \/ at < Exchange THEN Failed
    ELSE CASE at = Exchange                     -> Display
           [] at \in {SendResults, RecvResults} -> at + 1
           [] OTHER                             -> Succeeded

\* Mutant: is_peer_closed also matches WouldBlock, the error of a timeout.
AfterTimeout_Closed == AfterClosed

\* The step after one that has timed out: exchange_results goes on when sending the
\* Results has failed, whatever the error.
AfterTimeout == IF Ignored \/ (~cfg.reject /\ at = SendResults) THEN at + 1 ELSE Failed

\* A turn of the loop of write_all.
SWrite ==
    /\ Doing({"send"})
    /\ Push("s")
    /\ IF Len(out["s"]) = 1
         THEN Enter(at + 1)
         ELSE out' = [out EXCEPT !["s"] = Tail(@)] /\ UNCHANGED <<buf, at, said>>
    /\ SUnchanged
    /\ UNCHANGED <<heard, torn>>

\* Mutant: the control socket has no write timeout.
SWriteFails_NoTimeout ==
    /\ Doing({"send"}) /\ CClosed
    /\ Enter(AfterClosed)
    /\ torn' = torn \cup {"s"}
    /\ SUnchanged
    /\ UNCHANGED <<pipe, heard>>

\* send fails: the connection is closed, or the write timeout is over.
SWriteFails ==
    /\ Doing({"send"})
    /\ \/ CClosed /\ Enter(AfterClosed)
       \/ ~cfg.calm /\ Len(pipe["s"]) = Cap /\ Enter(AfterTimeout)
    /\ torn' = torn \cup {"s"}
    /\ SUnchanged
    /\ UNCHANGED <<pipe, heard>>

\* Message::try_from
Known(byte) == byte \in (1 .. 17) \cup {254, 255}

\* The awaited message is there.  Another control byte than the one waited for is
\* logged and the wait goes on.
Taken(step, m) ==
    /\ Hear("s", m)
    /\ IF step.op = "recv" \/ m.val = step.val THEN Enter(at + 1)
       ELSE IF Known(m.val) THEN Enter(at)
       ELSE Enter(IF Ignored THEN at + 1 ELSE Failed)

\* A turn of the loop of read_exact.
SRead ==
    /\ Doing({"recv", "until"})
    /\ Pull("s")
    /\ LET kind == Script[at].kind
           bs == Read("s")
       IN  CASE ~Whole(kind, bs) ->
                  buf' = [buf EXCEPT !["s"] = bs] /\ UNCHANGED <<out, at, said, heard>>
             [] Whole(kind, bs) /\ Parses(kind, bs) ->
                  Taken(Script[at], Decode(kind, bs))
             [] OTHER ->
                  Enter(Failed) /\ UNCHANGED heard
    /\ SUnchanged
    /\ UNCHANGED torn

SReadFails ==
    /\ Doing({"recv", "until"})
    /\ pipe["c"] = <<>>
    /\ \/ CClosed /\ Enter(AfterClosed)
       \/ ~CClosed /\ ~cfg.calm /\ Enter(AfterTimeout)
    /\ SUnchanged
    /\ UNCHANGED <<pipe, heard, torn>>

Server == SWrite \/ SWriteFails \/ SRead \/ SReadFails

-----------------------------------------------------------------------------
(* The client: one thread, its socket non-blocking.                        *)

CAt(pc) == gone = "no" /\ cpc = pc

CUnchanged == UNCHANGED <<cfg, at, gone>>

\* write_all is given a message; once all of it is sent the client goes to next.
CSend(m, next) ==
    /\ cpc' = "write"
    /\ then' = next
    /\ out' = [out EXCEPT !["c"] = Encode(m)]
    /\ said' = [said EXCEPT !["c"] = Append(@, m)]

CGoTo(pc) == cpc' = pc /\ UNCHANGED <<then, out, said>>

\* client_recv reads a byte and handle_message_client acts on it; an unknown one
\* is only logged.
HandleMessage ==
    /\ CAt("loop")
    /\ Pull("c")
    /\ LET byte == Head(pipe["s"]) IN
       /\ Hear("c", Ctl(byte))
       /\ CASE byte = ParamExchange   -> CSend(Msg("json", cfg.options), "loop")
            [] byte = ExchangeResults -> CSend(Msg("json", cfg.client), "results")
            [] byte = DisplayResults  -> CSend(Ctl(IperfDone), "done")
            [] byte = SetDataPort     -> CGoTo("port")
            [] byte \in {IperfDone, AccessDenied} -> CGoTo("done")
            [] OTHER                  -> CGoTo("loop")
       /\ testEnd' = IF byte = CreateStreams /\ testEnd = "no" THEN "due" ELSE testEnd
    /\ CUnchanged
    /\ UNCHANGED <<buf, torn>>

\* The last stream thread has reported to client_loop.
SendTestEnd ==
    /\ CAt("loop")
    /\ testEnd = "due"
    /\ testEnd' = "sent"
    /\ CSend(Ctl(TestEnd), "loop")
    /\ CUnchanged
    /\ UNCHANGED <<pipe, buf, heard, torn>>

\* Mutant: one call of send instead of write_all.
CWrite_Once ==
    /\ CAt("write")
    /\ Push("c")
    /\ out' = [out EXCEPT !["c"] = Tail(@)]
    /\ cpc' = then
    /\ CUnchanged
    /\ UNCHANGED <<buf, then, testEnd, said, heard, torn>>

CWrite ==
    /\ CAt("write")
    /\ Push("c")
    /\ out' = [out EXCEPT !["c"] = Tail(@)]
    /\ cpc' = IF Len(out["c"]) = 1 THEN then ELSE "write"
    /\ CUnchanged
    /\ UNCHANGED <<buf, then, testEnd, said, heard, torn>>

\* send returns WouldBlock, or the connection is closed: the error is logged, the
\* rest of the message is dropped.  exchange_results returns without reading.
CWriteFails ==
    /\ CAt("write")
    /\ Len(pipe["c"]) = Cap \/ SClosed
    /\ out' = [out EXCEPT !["c"] = <<>>]
    /\ cpc' = IF then = "done" THEN "done" ELSE "loop"
    /\ torn' = torn \cup {"c"}
    /\ CUnchanged
    /\ UNCHANGED <<pipe, buf, then, testEnd, said, heard>>

\* A turn of read_exact for the port or the server's Results, in blocking mode.
CRead ==
    /\ CAt("port") \/ CAt("results")
    /\ Pull("c")
    /\ LET kind == IF cpc = "port" THEN "u16" ELSE "json"
           bs == Read("c")
       IN  IF Whole(kind, bs)
             THEN /\ buf' = [buf EXCEPT !["c"] = <<>>]
                  /\ CGoTo("loop")
                  /\ IF Parses(kind, bs) THEN Hear("c", Decode(kind, bs)) ELSE UNCHANGED heard
             ELSE /\ buf' = [buf EXCEPT !["c"] = bs]
                  /\ CGoTo(cpc)
                  /\ UNCHANGED heard
    /\ CUnchanged
    /\ UNCHANGED <<testEnd, torn>>

\* Mutant: the socket stays non-blocking, and a recv that finds nothing fails.
CReadFails_WouldBlock ==
    /\ CAt("port") \/ CAt("results")
    /\ pipe["s"] = <<>>
    /\ buf' = [buf EXCEPT !["c"] = <<>>]
    /\ CGoTo("loop")
    /\ CUnchanged
    /\ UNCHANGED <<pipe, testEnd, heard, torn>>

\* The server has closed the connection: the error is logged.
CReadFails ==
    /\ CAt("port") \/ CAt("results")
    /\ pipe["s"] = <<>> /\ SClosed
    /\ buf' = [buf EXCEPT !["c"] = <<>>]
    /\ CGoTo("loop")
    /\ CUnchanged
    /\ UNCHANGED <<pipe, testEnd, heard, torn>>

Client ==
    HandleMessage \/ SendTestEnd \/ CWrite \/ CWriteFails \/ CRead \/ CReadFails

\* The client process is killed, or its host falls silent.
Vanish ==
    /\ ~cfg.calm
    /\ gone = "no" /\ cpc # "done"
    /\ gone' \in {"killed", "silent"}
    /\ UNCHANGED <<cfg, pipe, out, buf, at, cpc, then, testEnd, said, heard, torn>>

\* The kernel: a connection closed with unread bytes in its buffer is reset, and
\* the other end loses what it has not read yet.
Reset ==
    /\ \/ CClosed /\ pipe["s"] # <<>>
       \/ SClosed /\ pipe["c"] # <<>>
    /\ pipe' = [e \in End |-> <<>>]
    /\ UNCHANGED <<cfg, out, buf, at, cpc, then, testEnd, gone, said, heard, torn>>

Next == Server \/ Client \/ Vanish \/ Reset

\* Both threads are scheduled; outside a calm conversation timeouts expire.
Spec == Init /\ [][Next]_vars /\ WF_vars(Server) /\ WF_vars(Client)

-----------------------------------------------------------------------------
(* Properties.                                                             *)

ToServer == INSTANCE MessageChannel
    WITH sent <- said["c"], taken <- heard["s"], broken <- "c" \in torn

ToClient == INSTANCE MessageChannel
    WITH sent <- said["s"], taken <- heard["c"], broken <- torn # {}

\* Each direction of the control connection is a FIFO of whole messages
\* (MessageChannel), however send and recv cut the bytes up: no byte of a JSON
\* frame, a port or a cookie is taken for a control byte, or the other way
\* round, as long as no send has failed half way (write_all, read_exact).
KeepsChannels == ToServer!Spec /\ ToClient!Spec

\* When the session returns Ok and its client is still there, the client has
\* ended its test, and if no send has failed both have the other's Results.
ExchangedOnSuccess ==
    at = Succeeded /\ gone # "killed" =>
        /\ cpc = "done"
        /\ torn = {} => /\ Contains(heard["c"], Msg("json", cfg.server))
                        /\ Contains(heard["s"], Msg("json", cfg.client))

\* A calm conversation whose Results fit into the client's socket buffer comes
\* to its end on both sides, although the server sends its Results before it
\* reads and the client never waits for room.  A refused client learns it.
Completes ==
    cfg.calm /\ 4 + cfg.client <= Cap =>
        <>(cpc = "done" /\ at = IF cfg.reject THEN Failed ELSE Succeeded)

\* With timeouts on both reads and writes the session ends whatever the client
\* does: stop in the middle of a frame, stop reading, or be killed.
SessionEnds == ~cfg.calm => <>SClosed
=============================================================================
