----------------------------- MODULE StreamMeter ------------------------------
(***************************************************************************)
(* The transfer loop of one data stream, on either side, how it is paced   *)
(* (TokenBucket, src/common/pacing.rs) and what it measures: the receipt   *)
(* (bytes, omit window, time stamps) and the rows of its IntervalReporter  *)
(* (src/common/interval.rs).                                               *)
(*                                                                         *)
(* The loops of the program are alike and differ in three things, so a     *)
(* role names the loop and the sets below say what each does:              *)
(*   client_tx     Stream::start             client_udp_tx  start_udp      *)
(*   client_rx     Stream::start_recv        client_udp_rx  start_udp_recv *)
(*   server_rx     recv_stream_bytes         server_tx      run_tcp_send_  *)
(*   server_udp_tx run_udp_send_streams                     streams        *)
(* Time is counted in ticks; Instant::now() never goes back.               *)
(***************************************************************************)
EXTENDS Integers, Sequences

CONSTANTS
    Roles,       \* the loops that are considered
    Interval,    \* the reporter's interval, in ticks
    Omit,        \* opts.omit, in ticks
    Deadline,    \* opts.time + opts.omit, in ticks
    MaxTime,     \* bound: the last tick
    Cap,         \* bound: the bytes a stream moves
    Blk,         \* opts.len: no send moves more than this
    Buf,         \* the receive buffer, max(opts.len, 65536): no recv moves more
    MaxBytes,    \* opts.total_bytes where it is Some
    MaxBlocks,   \* opts.total_blocks where it is Some
    Rate,        \* the bandwidth in bytes a tick; 0 is unlimited
    None

Limited == {"client_tx", "client_udp_tx", "server_tx"}
Reporting == {"client_tx", "client_rx", "server_rx", "server_tx",
              "client_udp_rx", "server_udp_tx"}
Flushing == {"client_tx", "client_rx", "server_rx"}
Untimed == {"server_rx"}
Paced == {"client_udp_tx", "server_udp_tx"}
Sending == Limited \cup Paced

ASSUME MeterAssumption ==
    /\ Roles \subseteq Reporting \cup Limited
    /\ Interval \in Nat \ {0}
    /\ Omit \in Nat
    /\ Deadline \in Nat
    /\ MaxTime \in Nat
    /\ Cap \in Nat
    /\ Blk \in Nat \ {0}
    /\ Buf \in Nat
    /\ Blk <= Buf
    /\ MaxBytes \in Nat
    /\ MaxBlocks \in Nat
    /\ Rate \in Nat
    /\ None \notin Int

VARIABLES
    role,
    given,          \* the limits the command line gives, of -n and -k
    pc,             \* "loop" or "done"
    now,            \* the time of the latest step
    slept,          \* history: how long the loop last slept to keep to its rate
    bytes, bytesOmit, firstByteAt, firstMeasuredAt, lastByteAt,  \* the receipt
    boundary,       \* next_boundary; origin is firstByteAt
    bytesIn,        \* bytes_in_interval
    rows,           \* the rows printed so far
    printed         \* history: the bytes of those rows

receipt == <<bytes, bytesOmit, firstByteAt, firstMeasuredAt, lastByteAt>>
reporter == <<boundary, bytesIn, rows, printed>>
vars == <<role, given, pc, now, slept, receipt, reporter>>

\* start and end as seconds since the first byte, as in IntervalSnapshot.
Row == [start : Nat, end : Nat, bytes : Nat]

Instant == Nat \cup {None}

TypeOK ==
    /\ role \in Roles
    /\ given \in SUBSET {"-n", "-k"}
    /\ pc \in {"loop", "done"}
    /\ now \in Nat
    /\ slept \in Nat
    /\ bytes \in Nat
    /\ bytesOmit \in Nat
    /\ firstByteAt \in Instant
    /\ firstMeasuredAt \in Instant
    /\ lastByteAt \in Instant
    /\ boundary \in Instant
    /\ bytesIn \in Nat
    /\ rows \in Seq(Row)
    /\ printed \in Nat

Init ==
    /\ role \in Roles
    /\ given \in SUBSET {"-n", "-k"}
    /\ pc = "loop"
    /\ now = 0
    /\ slept = 0
    /\ bytes = 0
    /\ bytesOmit = 0
    /\ firstByteAt = None
    /\ firstMeasuredAt = None
    /\ lastByteAt = None
    /\ boundary = None
    /\ bytesIn = 0
    /\ rows = <<>>
    /\ printed = 0

\* Mutant: the limits are compared with the block about to be sent left out of account.
MaySend_Inclusive ==
    /\ role \in Untimed \/ now < Deadline
    /\ role \in Limited =>
          /\ "-n" \in given => bytes <= MaxBytes
          /\ "-k" \in given => bytes \div Blk <= MaxBlocks

\* The head of the loop: the deadline and, where the loop looks at them, the limits
\* of -n and -k that are given.
MaySend ==
    /\ role \in Untimed \/ now < Deadline
    /\ role \in Limited =>
          /\ "-n" \in given => bytes < MaxBytes
          /\ "-k" \in given => bytes \div Blk < MaxBlocks

\* TokenBucket::wait, for the bucket the loop starts at time 0 and records every send
\* in: at time t the stream has sent what its rate allows, or is to sleep for the w
\* ticks that take it there.
OnTime(t) == role \in Paced /\ Rate > 0 => bytes <= Rate * t

\* Mutant: the time that has passed is not taken off.
Ahead_SinceStart(t, w) == ~OnTime(t) /\ w > 0 /\ Rate * (w - 1) < bytes /\ bytes <= Rate * w

Ahead(t, w) == ~OnTime(t) /\ w > 0 /\ Rate * (t + w - 1) < bytes /\ bytes <= Rate * (t + w)

\* The loop sleeps, wakes at time u or later, and goes back to its head: it looks at
\* the deadline again only then.
Sleep(t, w, u) ==
    /\ pc = "loop"
    /\ MaySend
    /\ Ahead(t, w)
    /\ u >= t + w
    /\ now' = u
    /\ slept' = w
    /\ UNCHANGED <<role, given, pc, receipt, reporter>>

PrintRow(start, end, n) ==
    /\ rows' = Append(rows, [start |-> start, end |-> end, bytes |-> n])
    /\ printed' = printed + n

\* Mutant: on_bytes skips the bytes of the call that crosses the boundary.
OnBytes_Drops(n, t, origin, bound) ==
    IF t >= bound
      THEN /\ PrintRow(bound - Interval - origin, bound - origin, bytesIn)
           /\ bytesIn' = 0
           /\ boundary' = bound + Interval
      ELSE /\ bytesIn' = bytesIn + n
           /\ boundary' = bound
           /\ UNCHANGED <<rows, printed>>

\* Mutant: on_bytes starts the next interval at the time of the call.
OnBytes_Rebases(n, t, origin, bound) ==
    IF t >= bound
      THEN /\ PrintRow(bound - Interval - origin, bound - origin, bytesIn + n)
           /\ bytesIn' = 0
           /\ boundary' = t + Interval
      ELSE /\ bytesIn' = bytesIn + n
           /\ boundary' = bound
           /\ UNCHANGED <<rows, printed>>

\* IntervalReporter::on_bytes: at most one row for each call.
OnBytes(n, t, origin, bound) ==
    IF t >= bound
      THEN /\ PrintRow(bound - Interval - origin, bound - origin, bytesIn + n)
           /\ bytesIn' = 0
           /\ boundary' = bound + Interval
      ELSE /\ bytesIn' = bytesIn + n
           /\ boundary' = bound
           /\ UNCHANGED <<rows, printed>>

FirstBoundary(t) == t + Interval

\* Mutant: the omit window is counted from the start of the test.
InOmit_SinceStart(t, first) == t < Omit

\* The omit window is counted from the first byte of the stream.
InOmit(t, first) == t - first < Omit

\* The most that one call moves: a send its block, a recv what its buffer holds.
Chunk == IF role \in Sending THEN Blk ELSE Buf

\* A send or recv that returns n > 0 bytes at time t.
Transfer(n, t) ==
    /\ pc = "loop"
    /\ MaySend
    /\ OnTime(t)
    /\ now' = t
    /\ bytes' = bytes + n
    /\ firstByteAt' = IF firstByteAt = None THEN t ELSE firstByteAt
    /\ lastByteAt' = t
    /\ IF InOmit(t, firstByteAt')
         THEN bytesOmit' = bytesOmit + n /\ UNCHANGED firstMeasuredAt
         ELSE /\ firstMeasuredAt' = IF firstMeasuredAt = None THEN t ELSE firstMeasuredAt
              /\ UNCHANGED bytesOmit
    /\ IF role \in Reporting
         THEN OnBytes(n, t, firstByteAt', IF boundary = None THEN FirstBoundary(t) ELSE boundary)
         ELSE UNCHANGED reporter
    /\ UNCHANGED <<role, given, pc, slept>>

\* IntervalReporter::flush(last_byte_at); the caller prints a row with bytes.
Flush ==
    IF role \in Flushing /\ lastByteAt # None /\ bytesIn > 0
      THEN LET start == boundary - Interval - firstByteAt
               since == lastByteAt - firstByteAt
           IN  /\ PrintRow(start, IF since > start THEN since ELSE start, bytesIn)
               /\ bytesIn' = 0
               /\ UNCHANGED boundary
      ELSE UNCHANGED reporter

\* The loop ends at its deadline or limit, at EOF or with an error, and flushes.
Stop ==
    /\ pc = "loop"
    /\ pc' = "done"
    /\ Flush
    /\ UNCHANGED <<role, given, now, slept, receipt>>

Next ==
    \/ \E n \in 1 .. Chunk, t \in now .. MaxTime : bytes + n <= Cap /\ Transfer(n, t)
    \/ \E t \in now .. MaxTime, w \in 1 .. MaxTime, u \in now .. MaxTime : Sleep(t, w, u)
    \/ Stop

Spec == Init /\ [][Next]_vars

-----------------------------------------------------------------------------
(* Properties.                                                             *)

\* The rows of a stream add up to what its receipt and the summary report: a
\* loop that flushes has, when it ends, printed every byte exactly once.
RowsAddUp == pc = "done" /\ role \in Flushing => printed = bytes

\* The rows tile the time since the first byte: the first starts at 0, each
\* starts where the one before ends, none runs backwards, and none ends after
\* the last byte, however calls of on_bytes fall on the boundaries.
RowsTile ==
    \A k \in 1 .. Len(rows) :
        /\ rows[k].start = (IF k = 1 THEN 0 ELSE rows[k - 1].end)
        /\ rows[k].start <= rows[k].end
        /\ rows[k].end <= lastByteAt - firstByteAt

\* The steady-state figure relates the bytes after the omit window to the time
\* after it: bytes_measured() is positive exactly if first_measured_at is set,
\* and then the measured span starts behind the whole omit window and is not
\* negative.
OmitSplit ==
    /\ bytesOmit <= bytes
    /\ firstMeasuredAt # None <=> bytes > bytesOmit
    /\ firstMeasuredAt # None =>
          firstByteAt + Omit <= firstMeasuredAt /\ firstMeasuredAt <= lastByteAt

\* A send loop that looks at the limits of -n and -k, before each send only, overshoots
\* either by less than one block, although a send may move part of a block and the
\* blocks of -k are counted as bytes / len.
WithinLimit ==
    role \in Limited =>
        /\ "-n" \in given => bytes < MaxBytes + Blk
        /\ "-k" \in given => bytes < MaxBlocks * Blk + Blk

\* A paced loop keeps to its rate: it is never more than one block ahead of it, and
\* never sleeps longer than a block takes, although it looks at the bucket before
\* each send only and sends whole blocks.
KeepsRate ==
    role \in Paced /\ Rate > 0 =>
        /\ bytes <= Rate * now + Blk
        /\ slept > 0 => Rate * (slept - 1) < Blk
=============================================================================
