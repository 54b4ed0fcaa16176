# TLA+ models of rustperf3

rustperf3 measures network throughput between a client and a server and speaks
the iPerf3 protocol. This directory holds TLA+ models of its parts, the TLC
configurations that check them on small instances, and theorems that TLAPS proves
for instances of every size. Paths are those of the repository; line numbers are
in `PROJECT.json`, under `map`.

## The system

| Part | State | Operations | Module |
|---|---|---|---|
| Concurrent server (`server.rs`, `session.rs`) | cookie registry, per-IP counter, one channel and thread per session | accept, read cookie, attach stream / deny / start session; negotiate, collect, return, unregister, drop guard | SessionRegistry |
| Single-session server (`server.rs`) | the listener and its queue | `serve_one_session` in a loop, panics caught | SingleServer |
| Options and authentication (`cli.rs`, `client.rs`, `wire.rs`, `server.rs`, `auth.rs`) | each session's options, the cache of tokens seen | command line to Config to JSON; `validate_options`, `check_auth`, `check_and_record` | Options, Admission |
| Control protocol, server side (`server.rs`) | position in the session, control channel | options, CreateStreams, TestStart/Running, wait for TestEnd, join, Results, IperfDone | ControlSession |
| Client main loop (`client.rs`, `test.rs`) | receipts, count of finished streams, TestEnd sent | `client_recv`, one handler per message, `drain_receipts`, `try_recv` | ControlSession |
| Wire format and sockets (`wire.rs`, `cookie.rs`, `protocol.rs`) | bytes in the socket buffers | `write_all`, `read_exact`, control bytes, ports, JSON frames | Framing |
| Stream threads and transfer loops (`stream.rs`, `pacing.rs`, `interval.rs`, `server.rs`) | receipt, token bucket, interval reporter, deadline, limits | transfer, sleep, flush, stop | StreamMeter |
| UDP registration and receiver (`udp_session.rs`, `udp_header.rs`) | registered addresses, per-stream counters, stop flag, grace deadline | register, receive, count, stop | UdpReceiver |

What is hard to get right here, with the lines, is listed under `hazards` in
`PROJECT.json`. In short: a registry is shared by an accept loop and exiting
threads; one listener's queue is shared by successive sessions; a session has
several waits, some with a timeout, some without, some whose error is ignored;
receipts and end messages travel on different channels; frames arrive in pieces,
and one end never waits for room to send; datagrams are lost, duplicated and
reordered; rows, limits, rates and the omit window are decided by comparisons at
boundaries in seven loops.

What each part should guarantee:

- the server serves at most `max_concurrent` tests, a slot and a per-IP count
  are held exactly as long as their session, a stream reaches its own session;
- the loop of the single-session server goes on after any session, and a session
  never runs with another client's streams;
- both sides run the same test, with numbers that do not overflow, and only an
  admitted one;
- an undisturbed test completes on both sides with complete Results, a disturbed
  one ends, and success is never reported for a test whose Results got lost;
- messages arrive whole and in order, however the bytes are cut up;
- the loss figures are consistent whatever the network does, and the receiver
  ends when it is told to;
- the rows of a stream cover the test without gap or overlap and add up to its
  receipt, and limits, rate and omit window are respected.

## Modules

### SessionRegistry

`run_concurrent_accept_loop` and the life of the threads it spawns. `registry`
and `perIp` are the two shared maps. `backlog` is the listener's queue. `pc` is
a thread's position: inside `serve_session_from_channel` (`negotiating`,
`collecting`, `running`), `returned`, `unregistered` (the entry removed, the
guard not dropped yet), `free` again, or `panicked`. An iteration of the loop
looks at the registry under its lock and is one action, depending on the outcome:
`CookieReadFails`, `Attach`, `Deny`, `Admit`; `LoopFails` is the `?` on accept.
A late data connection whose session is gone becomes a session of its own, as
in the code. Clients connect, open their streams and may end at any time.

### SingleServer

`run_server_loop` with one session after another on one listener. `backlog`
outlives a session. `accept_control` and `accept_streams_via_listener` both take its
oldest connection, so a stream of a failed session may become the next session's
control connection, and a second client that connects while streams are
collected fails the first client's session. A UDP session that fails before the
end of the test may leave its receiver behind (`leaked`), and later UDP tests then
cannot bind the port. What session and client say to each other is left to
ControlSession: here a test completes, is denied, or fails. Of its waits two matter
to the loop, since they have no deadline: `collect`, the accept of the data streams,
and `join`, where a session that receives over TCP has read TestEnd and waits for the
end of its streams. A client may be killed (its connections close), fall silent (they
do not), or fail to open a stream, of which it tells the server nothing. Left out are
clients that keep a session busy for ever: one suspended while the server sends to
it, and one that trickles bytes.

### Options and Admission

Options has the pure part: texts with suffixes (`parse`, `parse_size`,
`parse_tos`), `try_into_mode`, `ClientOptions` with the fields serde leaves out
and puts back, `validate_options`. Admission is the state machine around it:
`run_server` decides whether it may start, clients are launched from command
lines or are other programs that send frames of their own, and each session
validates, loads key and users, decodes the token, checks its timestamp, and
goes through the cache. `check_and_record` is two steps, since it reads the clock
before it takes the lock. Integer widths, ranges and multipliers are constants
that TLC's instance scales down. Encryption is abstract: a token can be decoded
with the key pair it was made for and no two encryptions are equal; equal
passwords, and only those, have equal hashes. Of the format checks of
`decode_authtoken_bytes` that of the user name is kept; time stamps and hashes are
well formed in the model. AgreeOnTest compares what the client's Config and the
received options mean for the test; that the client opens as many streams
(`create_streams`) as the server awaits is part of it for one-way tests only, since
for bidirectional ones the client opens twice as many.

### ControlSession and TestContract

One test between a client and a session, in both server modes, over TCP and
UDP, in all directions. The control channel is two sequences of tokens (control
byte, JSON frame, port). The session is a program counter and `plan`, the list
of what it still waits for before the results, which is different in each branch
of the code. The client's loop has three steps to a turn (`client_recv` with its
handler, `drain_receipts`, `try_recv`), which interleave with the stream
threads: a thread opens, finishes, puts its receipt on one channel, then its end
message on the other, and only then closes its socket. A killed client closes
its sockets, a silent one does not. `cfg.calm` says that in this test nothing goes
wrong and nothing times out; in the others `Timeouts` and `Faults` say what may,
and each action says which waits have a timeout.

TestContract is the abstract specification: a server that is setting up, running,
reporting, and then over; a client that learns results only after they are
published and ends informed, refused or gone; in a calm test results are
published only when every stream is over, and Ok is returned only to a client that is
done or gone. `KeepsContract` says that ControlSession implements it under the
mapping `StageOf`, `ClientOf` and the number of unfinished streams.

### Framing and MessageChannel

The control connection byte by byte. `pipe` is the two socket buffers of `Cap` bytes,
`out` and `buf` are what `write_all` has yet to send and `read_exact` has
collected. A step moves one byte, so calls of send and recv may cut the stream
anywhere. The server follows a `Script`, the order in which `serve_one_session`
reads and writes; its socket blocks up to its timeouts. Which errors it goes on
after is `AfterClosed` and `AfterTimeout`; a session that sends (reverse or
bidirectional) ignores those of `wait_for_test_end` (`Ignored`). The client's socket is
non-blocking except while it reads a port or the Results, so a full buffer fails
its send half way. `Reset` is what the kernel does to a connection closed with unread
data. MessageChannel is the abstract FIFO of whole messages that ControlSession
takes for granted; `KeepsChannels` says that each direction implements it until a
send fails.

### UdpReceiver

A UDP test sent by the client: stream threads that send an init datagram, data
and a sentinel; a network that may lose, duplicate and reorder; registration
in `accept_udp_streams`; the loop of `run_udp_receiver` (`Check` is the loop
head with the stop flag and the grace deadline, `Receive` and the other
`Receive...` actions are the arms of the match on `recv_from`); and the part of the
session that sets the stop flag and joins. A datagram is the number its header
decodes to, so a cookie that reaches the receiver is a datagram with a large
sequence number. History variables record what the network lost, what
registration discarded and which numbers were counted.

### StreamMeter

The transfer loop of one stream. The seven loops of the program differ in whether
they look at `-n`/`-k`, report intervals, flush the last one, have a deadline and
are paced, so one module with a `role` stands for all. `given` says which of the two
limits the command line has. A transfer happens at any time from `now` on; a send
moves 1 to `Blk` bytes, a recv 1 to `Buf`, the size of its buffer. It updates the
receipt and runs `IntervalReporter::on_bytes`. A paced loop that is ahead of its
rate sleeps for the time `TokenBucket::wait` returns, rounded up to a tick, and goes
back to its head.

The parts meet at narrow interfaces, and each module assumes what another shows.
ControlSession takes messages to arrive whole and in order, which is KeepsChannels;
takes streams in the order the accept loop hands them over and lets the wait for the
UDP receiver return, which is StreamsReachSession and JoinReturns; and takes
options for accepted or refused, which is Admission. SessionRegistry lets every
session return, which is TimedSessionEnds. SingleServer lets a session complete
while its client is there, which is BothComplete for the tests it has.

## Runs

| Run | Checks | Bounds |
|---|---|---|
| `registry_safety` | SimultaneousTestsBounded, SessionOwnsEntry, EntryHasSession, EntryRemovedByOwner | 3 clients, 3 threads, 2 slots, panics, failing accepts, slow cookies |
| `registry_live` | PerIpExact, StreamsReachSession, SlotReleased, ServerDrains | 2 clients behind one address, 2 threads, panics |
| `single_loop` | StreamsAccounted, OnlyFailedLeaveStreams, LoopsUnlessBlocked, Answered | 3 clients of 2 streams, TCP or UDP, killed or silent clients, failing connects, panics |
| `admission` | AgreeOnTest, NumbersSafe, GateHolds, NotTwiceWithinTtl, Decided | 2 clients, 21 command lines and frames at and beyond every limit, a frame that arrives in two sessions, 5 server configurations, 3 instants |
| `control` | TypeOK, ResultsComplete, FramesInSync, BacklogDrained, KeepsContract, BothComplete, TimedSessionEnds | every combination that works with 1 and 2 streams, calm; every one-way test with 2 streams (1 over UDP on the single-session server) with timeouts, killed or silent client, failing connects, lost init datagrams |
| `framing` | TypeOK, ExchangedOnSuccess, KeepsChannels, Completes, SessionEnds | buffers of 6 bytes, Results that fit and that do not, with and without a port, refused, calm or not, a server that receives or sends |
| `udp_chaos` | AccountingExact, LossBounds, StreamsRegisteredOnce | 2 streams of 2 datagrams, reordering, one loss, one duplicate |
| `udp_fifo` | SentinelMeansComplete, LossExplained, JoinReturns | 2 streams of 2 datagrams, two losses, order kept, bidirectional session |
| `meter` | RowsAddUp, RowsTile, OmitSplit, WithinLimit, KeepsRate | all seven loops, 8 bytes in 7 ticks, blocks of 2 and buffers of 3 bytes, any of `-n 5` and `-k 2`, intervals of 2, a rate of a byte a tick |
| `udp_leak`, `control_bidir`, `control_single` | one property each, which the code violates | smallest instance that shows it |

The bounds let the interesting cases happen. Three clients overfill two slots;
a third thread lets a session start while another exits. Three clients on one
listener let a failed session's streams meet both a second and a third client.
The clock of `admission` passes the TTL of the cache once. Two streams let
receipts and end messages arrive in any order around a drain. Six bytes hold a cookie,
the options and the shorter Results, and nothing longer, so that every buffer
fills up. Two datagrams and a sentinel on each of two streams give every relative
order of late, duplicate and missing ones. Seven ticks hold three boundaries, an
omit window and stalls longer than an interval. Symmetry is used only in
runs without liveness, over thread identities, over clients with addresses of
their own, and over streams. Deadlock is not checked: every model ends, when the
clients are through and the threads have returned or when the test is over.

Each property has a mutant in `PROJECT.json`: a plausible slip in the code, such as
a dropped guard or an off-by-one, under which TLC finds the property violated.

### Fairness

Liveness assumes only that threads that can run do run: the accept loop and a
session's own steps, the receiver's loop and its clock, the session and the client's
main loop, and the client's stream threads; in Framing and Admission, that a timeout
expires and a lock is granted. Nothing is assumed of the network, or of a client
that has vanished, and no session has to panic. Two limits come from the code. A TCP
sender whose connection nobody serves may stay blocked in a write, so `Finish` is
fair only for streams that are served. In SessionRegistry `Return` is fair because
every wait of a concurrent session has a deadline; a client that trickles test data
for ever is excluded, because a reader's deadline starts anew with each byte.

### Where code and documentation disagree

- `control_bidir`: a bidirectional TCP client opens two connections per stream,
  the server accepts one, and both wait. README.md:36-38 says it works;
  `tests/self_test.rs` ignores the test because it hangs.
- `control_single`: the single-session TCP server accepts data streams without a
  timeout, so a vanished client hangs it in spite of README.md:101-102.
  In SingleServer the loop can stop in two places. In `Starved` it accepts data
  streams that nobody is going to open, since the client is gone or a connect has
  failed; the next client to connect ends this. In `Wedged` it joins readers of a
  host that fell silent after TestEnd, and nothing ends that. LoopsUnlessBlocked
  shows that these are the only ones, and Answered that only the second keeps later
  clients waiting.
- `udp_leak`: an error while a forward UDP test waits for TestEnd leaves the
  receiver thread running.

The models also contain behaviour that no run reports:

- A reverse UDP session of the concurrent server waits for TestEnd twice, and
  `client.rs` sends one. With timeouts the session loses the whole run timeout
  and goes on; `control` leaves this combination out of its calm tests.
- The server's UDP send loop ignores `-n` and `-k`, which README.md:65-67 says all
  send loops respect; it is not in `Limited`. TCP is never paced, although
  `test.rs:96-98` says `-b` applies to it; only UDP loops are in `Paced`.
- `test.rs:102-104` says that a server with one slot rejects other clients with
  AccessDenied; they wait in the listener's queue, or fail the session that is
  collecting its streams.
- After the client's Results have been sent half (`client.rs:207`), it goes back to
  its loop and reads the server's Results as control bytes. The server ignores a
  timeout while it sends its own.
- The entry of a session thread that panics stays in the registry
  (EntryHasSession and SlotReleased allow for it).
- Data that arrives while other UDP streams are still awaited counts as lost
  (LossExplained). A repeated cookie that reaches the UDP receiver counts as a
  large gap.
- After a stall the interval rows lag behind the clock, since `on_bytes` closes
  one interval per call.
- A TestEnd that arrives after its ignored timeout is read as a frame length and
  ends the session with an error; FramesInSync is therefore about calm tests.
  Framing has the bytes of this case.
- README.md:42-44 says concurrent UDP sessions are rejected; the code serves
  them, and so does the model.

## Proofs

| Module | Theorems |
|---|---|
| `ControlSession_steps`, `ControlSession_proofs` | ControlInvariant, ImplementsContract, TypeCorrect, FramesAlwaysInSync, ResultsAlwaysComplete, AlwaysAgreeOnSuccess, OneWayBacklogDrained |
| `SingleServer_proofs` | SingleInvariant, TypeCorrect, StreamsAlwaysAccounted, OnlyFailedLeaveStreamsAlways |
| `Options_proofs`, `Admission_proofs` | RoundTrip; AdmissionInvariant, TypeCorrect, GateAlwaysHolds, NeverTwiceWithinTtl, AlwaysAgreeOnTest, NumbersAlwaysSafe |
| `SessionRegistry_proofs` | RegistryInvariant, TypeCorrect, PerIpCounterExact, EntryOwned, ConcurrencyBounded, EntryRemovedOnlyByOwner, EntryAlwaysHasSession, StreamsAlwaysReachSession |
| `UdpReceiver_proofs` | AccountingCorrect, LossCorrect, RegistrationCorrect, SentinelCorrect, LossAlwaysExplained, TypeCorrect |
| `StreamMeter_proofs` | MeterConsistent, RowsAddUpAlways, RowsTileAlways, OmitSplitAlways, LimitKept, RateKept, TypeCorrect |

They hold for all constants that satisfy the modules' named assumptions, which say
little more than what the constants' types are, and in Options that the limits of
`validate_options` leave room in a u32.

*ControlSession.* `ControlInv` holds for every configuration, all faults and
timeouts. `Counts` relates the client's counters and the two channels to the threads
that have reported and notified. `Talk` and `Sent` say which messages can be in the
two queues at each position of server and client, once or not at all, and in which
order; `ResultsFirst` that Results are published before DisplayResults is sent;
`Calm` what a calm test adds, above all that TestEnd is sent only when every thread
has reported. From it the theorems follow: Results are complete since whoever has
notified has reported before, and the drain in `exchange_results` takes every
receipt; the server finds Results where it expects them since TestEnd has been
consumed. ImplementsContract maps each action to a step of TestContract or a
stutter: Conclude needs `Calm`, Succeed needs that IperfDone is sent only by a
client that has read the Results. The lemmas about single steps are in
`ControlSession_steps`. OneWayBacklogDrained rests on `ConnInv`: a connection is in
the backlog once or accepted once, and a test runs only when as many are accepted as
there are streams, which are then all of them. The property leaves out bidirectional
TCP tests, whose client makes twice as many connections as the accept loop takes.

*SingleServer.* `SingleInv` ties the state of each client to where its
connections are: at most one control connection, in the queue or with the
session, and streams outside a session only for clients whose session failed; and
it counts the streams of the client being served: collected, queued, yet to be
opened, or failed. The
count of queued connections is a cardinality of positions; the first lemmas say how
it changes when a queue grows at its end and shrinks at its head.

*Admission.* RoundTrip says that deserialising what was serialised gives the
same options, whatever is left out. `AdmissionInv` carries it to the sessions: what
a session has received is what the client's Config says, validated before it
goes on, with files and token checked at each stage. The cache is the
interesting part: a recorded token is in the cache with the deadline of its last
recording, or that deadline has passed (`CacheInv`); this holds although a session may
use a time read earlier than another's, since no time read is ahead of the
clock.

*SessionRegistry.* `RegistryInv` adds to the checked invariants that a live or
panicked thread has a connection, that the registry is finite and within
`MaxConcurrent`, and that the holders of an address are finite. The bound on tests
served at once is not inductive alone: it follows since serving threads own
entries of different cookies, which injects them into the registry. The count of
an address is exact because `Admit` adds one holder and one to the count, and
`DropGuard` and `Panic` take one of each. StreamsReachSession needs `StreamsInv`:
a client's control connection is served before it opens streams (`ControlFirst`),
and a channel is empty before its streams are asked for and after its receiver
is dropped (`ChannelInv`).

*UdpReceiver.* AccountingExact is inductive with the types. LossBounds needs
to know that numbers counted are at most `max_seq`, so that a gap adds exactly the
missing numbers it jumps over, and a late datagram removes at most one from the
missing ones while it adds one to `ooo`. Registration is a separate
invariant of the phases: the receiver is off until the addresses are complete.
SentinelCorrect and LossAlwaysExplained are about a network that keeps order and
does not duplicate; there `OrderInv` says that every datagram sent is
counted, lost, discarded or on its way, that those on their way are in the order
of their numbers with the sentinel last, and that no datagram is late.

*StreamMeter.* RowsTile needs to know where the next row will start
(`NextRowInv`: at the end of the last one) and how the clock relates to boundary
and receipt (`ClockInv`); RowsAddUp needs `BytesInv`, that the printed
bytes and those of the open interval are the receipt's. KeepsRate is inductive
with the types, since a send happens only at a time the rate has caught up with;
so is WithinLimit, where a quotient below `-k` puts the bytes below as many blocks.

Only model-checked: all liveness properties (the prover has no support for
fairness and ENABLED), among them LoopsUnlessBlocked and Answered of SingleServer,
and Framing, whose frames are decoded by recursion over bytes.

## Not modelled

Jitter, CPU usage, affinity, socket tuning and TCP_INFO, formatting and JSON
output, and the program's entry point: they compute values or call the
operating system, and no decision of the program depends on them. Cryptography
(see Admission) and the generation of cookies, which are assumed distinct. What
the argument parser does before `try_into_mode`. A poisoned lock of the registry
or of the cache, which would need a panic while the lock is held.
