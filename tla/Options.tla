------------------------------- MODULE Options -------------------------------
(***************************************************************************)
(* From the command line to the options the server works with: Cli is      *)
(* turned into a Config (src/cli.rs), the client turns its Config into     *)
(* ClientOptions (send_options, src/client.rs), which travel as JSON with  *)
(* the fields at their defaults left out (src/common/wire.rs), and the     *)
(* server checks their ranges (validate_options, src/server.rs).           *)
(*                                                                         *)
(* The widths of integers, the ranges and the multipliers are constants,   *)
(* so that instances for TLC can scale them down.                          *)
(***************************************************************************)
EXTENDS Naturals, Sequences, FiniteSets

CONSTANTS
    None,                       \* an Option that is not there
    Err,                        \* a Result that is an error
    U8Max, U32Max, U64Max,      \* the largest u8, u32 and u64
    Kilo, Kibi,                 \* 1000 for rates, 1024 for sizes
    TcpLen, UdpLen,             \* DEFAULT_TCP_LEN, DEFAULT_UDP_LEN
    UdpBandwidth,               \* DEFAULT_UDP_BANDWIDTH_BPS
    MaxParallel, MaxLen,        \* MAX_PARALLEL_STREAMS, MAX_PAYLOAD_LEN
    MaxTime, MaxOmit            \* MAX_TEST_DURATION_SECS, MAX_OMIT_SECS

ASSUME OptionsAssumption ==
    /\ {U8Max, U32Max, U64Max, MaxParallel, MaxLen, MaxTime, MaxOmit} \subseteq Nat
    /\ 2 * MaxParallel <= U32Max
    /\ MaxTime + MaxOmit <= U32Max
    /\ None # Err
    /\ {None, Err} \cap (Nat \cup BOOLEAN) = {}

-----------------------------------------------------------------------------
(* Texts with a number and a suffix.                                       *)

Power == [s \in {"", "K", "M", "G"} |-> CASE s = "" -> 0 [] s = "K" -> 1
                                          [] s = "M" -> 2 [] s = "G" -> 3]

\* A text is its digits, None if they are no number, and its suffix.  The empty
\* text reads as 0.  The product is checked against the width of u64.
Scaled(text, base) ==
    LET n == text.digits * base ^ Power[text.suffix]
    IN  IF text.digits = None THEN Err
        ELSE IF text.digits > U64Max \/ n > U64Max THEN Err
        ELSE n

parse(text) == Scaled(text, Kilo)
parse_size(text) == Scaled(text, Kibi)

\* -w takes a size that fits in a u32.
WindowSize(text) ==
    LET n == parse_size(text)
    IN  IF n = Err THEN Err ELSE IF n > U32Max THEN Err ELSE n

parse_tos(text) ==
    IF text.digits = None THEN Err
    ELSE IF text.digits > U8Max THEN Err
    ELSE text.digits

\* An option is parsed if it is given.
Given(opt, parsed, default) == IF opt = None THEN default ELSE parsed

-----------------------------------------------------------------------------
(* Cli and Config.                                                         *)

\* The argument parser refuses --reverse with --bidir.
Direction(cli) ==
    IF cli.bidir THEN "bidirectional" ELSE IF cli.reverse THEN "reverse" ELSE "forward"

\* try_into_mode, for a client: a Config, or Err if a text cannot be read.
try_into_mode(cli) ==
    LET bandwidth == Given(cli.bandwidth, parse(cli.bandwidth),
                           IF cli.udp THEN UdpBandwidth ELSE 0)
        window == Given(cli.window, WindowSize(cli.window), None)
        tos == Given(cli.tos, parse_tos(cli.tos), None)
        bytes == Given(cli.bytes, parse_size(cli.bytes), None)
    IN  IF Err \in {bandwidth, window, tos, bytes}
        THEN Err
        ELSE [time |-> cli.time, omit |-> cli.omit, parallel |-> cli.parallel,
              len |-> Given(cli.len, cli.len, IF cli.udp THEN UdpLen ELSE TcpLen),
              udp |-> cli.udp,
              bandwidth |-> bandwidth,
              direction |-> Direction(cli),
              window_size |-> window, tos |-> tos, total_bytes |-> bytes,
              mss |-> cli.mss, congestion |-> cli.congestion,
              total_blocks |-> cli.blockcount,
              username |-> cli.username, password |-> cli.password,
              rsa_public_key |-> cli.rsa_public_key]

\* What a direction makes of the two sides.
client_sends(direction) == direction \in {"forward", "bidirectional"}
client_receives(direction) == direction \in {"reverse", "bidirectional"}

\* How many streams create_streams opens: for each number a sender, a receiver, or
\* one of each.
create_streams(config) ==
    LET n == IF config.parallel = 0 THEN 1 ELSE config.parallel
    IN  (IF client_sends(config.direction) THEN n ELSE 0)
          + (IF client_receives(config.direction) THEN n ELSE 0)

-----------------------------------------------------------------------------
(* ClientOptions.                                                          *)

\* The options a client sends, with the token it has built, if any.
ClientOptions(config, token) ==
    [tcp |-> ~config.udp, udp |-> config.udp,
     omit |-> config.omit, time |-> config.time,
     parallel |-> config.parallel, len |-> config.len,
     bandwidth |-> config.bandwidth,
     reverse |-> config.direction = "reverse",
     bidirectional |-> config.direction = "bidirectional",
     window_size |-> config.window_size, mss |-> config.mss,
     congestion |-> config.congestion, tos |-> config.tos,
     total_bytes |-> config.total_bytes, total_blocks |-> config.total_blocks,
     authtoken |-> token]

Required == {"omit", "time", "parallel", "len"}
Flag == {"tcp", "udp", "reverse", "bidirectional"}
Optional == {"window_size", "mss", "congestion", "tos", "total_bytes", "total_blocks",
             "authtoken"}
Field == Required \cup Flag \cup Optional \cup {"bandwidth"}

\* Mutant: a rate of zero is not the default.
Default_UdpRate ==
    [f \in Field \ Required |-> CASE f \in Flag -> FALSE
                                  [] f \in Optional -> None
                                  [] f = "bandwidth" -> UdpBandwidth]

\* #[serde(default)] of every field that may be missing.
Default ==
    [f \in Field \ Required |-> CASE f \in Flag -> FALSE
                                  [] f \in Optional -> None
                                  [] f = "bandwidth" -> 0]

\* skip_serializing_if: flags that are not set, Options that are None and a rate
\* of zero are left out; tcp is always written.
Skipped(f, v) ==
    \/ f \in Flag \ {"tcp"} /\ v = FALSE
    \/ f \in Optional /\ v = None
    \/ f = "bandwidth" /\ v = 0

Serialize(o) == [f \in {g \in Field : ~Skipped(g, o[g])} |-> o[f]]

\* A frame that lacks a required field is refused.  (client_version is required too;
\* it is always sent and never read.)
Deserialize(frame) ==
    IF Required \subseteq DOMAIN frame
    THEN [f \in Field |-> IF f \in DOMAIN frame THEN frame[f] ELSE Default[f]]
    ELSE Err

-----------------------------------------------------------------------------
(* The server's side.                                                      *)

\* Mutant: any test length that fits in a u32 is accepted.
validate_options_AnyLength(o) ==
    /\ o.parallel # 0 /\ o.parallel <= MaxParallel
    /\ o.len # 0 /\ o.len <= MaxLen
    /\ o.time <= U32Max
    /\ o.omit <= MaxOmit

validate_options(o) ==
    /\ o.parallel # 0 /\ o.parallel <= MaxParallel
    /\ o.len # 0 /\ o.len <= MaxLen
    /\ o.time <= MaxTime
    /\ o.omit <= MaxOmit
    /\ o.time + o.omit <= U32Max

\* run_tcp_branch and run_udp_branch look at bidirectional first, then at reverse.
server_sends(o) == o.bidirectional \/ o.reverse
server_receives(o) == o.bidirectional \/ ~o.reverse

\* How many streams the server waits for, whatever the direction.
streams_awaited(o) == o.parallel

-----------------------------------------------------------------------------
(* What the properties say of a Config k and of options o.                 *)

\* The same test, one side's sender being the other's receiver.
Agree(k, o) ==
    /\ o.udp = k.udp /\ o.tcp = ~k.udp
    /\ o.bandwidth = k.bandwidth
    /\ \A f \in (Required \cup Optional) \ {"authtoken"} : o[f] = k[f]
    /\ client_sends(k.direction) = server_receives(o)
    /\ client_receives(k.direction) = server_sends(o)

Sound(k) ==
    /\ {k.time, k.omit, k.parallel} \subseteq Nat
    /\ k.direction \in {"forward", "reverse", "bidirectional"}
=============================================================================
