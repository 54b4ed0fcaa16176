---------------------------- MODULE Options_proofs ----------------------------
(***************************************************************************)
(* TLAPS proofs about the options of a test, for any command line and any  *)
(* widths and ranges.                                                      *)
(***************************************************************************)
EXTENDS Options, TLAPS

-----------------------------------------------------------------------------
(* The options survive the trip through JSON.                              *)

\* Every field left out of the frame is at the default the reader puts in.
LEMMA SkippedIsDefault ==
    ASSUME NEW f \in Field, NEW v, Skipped(f, v)
    PROVE  f \notin Required /\ v = Default[f]
<1>1. f \in (Flag \ {"tcp"}) \cup Optional \cup {"bandwidth"}
  BY DEF Skipped
<1>2. f \notin Required
  BY <1>1 DEF Required, Flag, Optional
<1>3. CASE f \in Flag
  <2>1. v = FALSE
    BY <1>3 DEF Skipped, Flag, Optional
  <2>2. Default[f] = FALSE
    BY <1>2, <1>3 DEF Default, Flag, Optional
  <2> QED
    BY <1>2, <2>1, <2>2, Zenon
<1>4. CASE f \in Optional
  <2>1. v = None
    BY <1>4 DEF Skipped, Flag, Optional
  <2>2. Default[f] = None
    BY <1>2, <1>4 DEF Default, Flag, Optional
  <2> QED
    BY <1>2, <2>1, <2>2
<1>5. CASE f = "bandwidth"
  <2>1. v = 0
    BY <1>5 DEF Skipped, Flag, Optional
  <2>2. Default[f] = 0
    BY <1>2, <1>5 DEF Default, Flag, Optional
  <2> QED
    BY <1>2, <2>1, <2>2
<1> QED
  BY <1>1, <1>3, <1>4, <1>5

\* What the server reads is what the client wrote, field by field, whichever fields
\* are at their defaults (ClientOptions and its serde attributes).
THEOREM RoundTrip ==
    ASSUME NEW o, o = [f \in Field |-> o[f]]
    PROVE  Deserialize(Serialize(o)) = o
<1> DEFINE kept == {g \in Field : ~Skipped(g, o[g])}
           frame0 == Serialize(o)
<1>1. DOMAIN frame0 = kept /\ \A f \in kept : frame0[f] = o[f]
  BY DEF Serialize
<1>2. Required \subseteq kept
  BY SkippedIsDefault DEF Field
<1>3. Deserialize(frame0) =
        [f \in Field |-> IF f \in kept THEN frame0[f] ELSE Default[f]]
  BY <1>1, <1>2 DEF Deserialize
<1>4. ASSUME NEW f \in Field
      PROVE  (IF f \in kept THEN frame0[f] ELSE Default[f]) = o[f]
  BY <1>1, SkippedIsDefault
<1> QED
  BY <1>3, <1>4

\* ClientOptions has exactly these fields.
LEMMA OptionsFields ==
    ASSUME NEW k, NEW t
    PROVE  ClientOptions(k, t) = [f \in Field |-> ClientOptions(k, t)[f]]
<1>1. DOMAIN ClientOptions(k, t) = Field
  BY DEF ClientOptions, Field, Required, Flag, Optional
<1> QED
  BY <1>1 DEF ClientOptions

\* send_options puts the token into the options as it is.
LEMMA OptionsToken ==
    ASSUME NEW k, NEW t
    PROVE  ClientOptions(k, t).authtoken = t
  BY DEF ClientOptions

-----------------------------------------------------------------------------
(* What the two sides make of them.                                        *)

\* A command line that can be read keeps its numbers and has one of three directions.
LEMMA ModeSound ==
    ASSUME NEW cli, {cli.time, cli.omit, cli.parallel} \subseteq Nat, try_into_mode(cli) # Err
    PROVE  Sound(try_into_mode(cli))
<1>1. /\ try_into_mode(cli).time = cli.time
      /\ try_into_mode(cli).omit = cli.omit
      /\ try_into_mode(cli).parallel = cli.parallel
      /\ try_into_mode(cli).direction = Direction(cli)
  BY DEF try_into_mode
<1> QED
  BY <1>1 DEF Sound, Direction

\* The numbers of the options are the client's.
LEMMA OptionsNumbers ==
    ASSUME NEW k, NEW o, o = ClientOptions(k, o.authtoken), Sound(k)
    PROVE  /\ o.time = k.time /\ o.omit = k.omit /\ o.parallel = k.parallel /\ o.len = k.len
           /\ {o.time, o.omit, o.parallel} \subseteq Nat
<1>1. o.time = k.time /\ o.omit = k.omit /\ o.parallel = k.parallel /\ o.len = k.len
  BY DEF ClientOptions
<1> QED
  BY <1>1 DEF Sound

\* A Config and the options made of it ask for the same test.
LEMMA OptionsAgree ==
    ASSUME NEW k, NEW o, o = ClientOptions(k, o.authtoken), Sound(k)
    PROVE  Agree(k, o)
<1>1. o.udp = k.udp /\ o.tcp = ~k.udp /\ o.bandwidth = k.bandwidth
  BY DEF ClientOptions
<1>2. \A f \in (Required \cup Optional) \ {"authtoken"} : o[f] = k[f]
  BY DEF ClientOptions, Required, Optional
<1>3. /\ o.reverse = (k.direction = "reverse")
      /\ o.bidirectional = (k.direction = "bidirectional")
  BY DEF ClientOptions
<1>4. /\ client_sends(k.direction) = server_receives(o)
      /\ client_receives(k.direction) = server_sends(o)
  <2>1. CASE k.direction = "forward"
    <3>1. o.reverse = FALSE /\ o.bidirectional = FALSE
      BY <1>3, <2>1, Zenon
    <3> QED
      BY <2>1, <3>1 DEF client_sends, client_receives, server_sends, server_receives
  <2>2. CASE k.direction = "reverse"
    <3>1. o.reverse = TRUE /\ o.bidirectional = FALSE
      BY <1>3, <2>2, Zenon
    <3> QED
      BY <2>2, <3>1 DEF client_sends, client_receives, server_sends, server_receives
  <2>3. CASE k.direction = "bidirectional"
    <3>1. o.reverse = FALSE /\ o.bidirectional = TRUE
      BY <1>3, <2>3, Zenon
    <3> QED
      BY <2>3, <3>1 DEF client_sends, client_receives, server_sends, server_receives
  <2> QED
    BY <2>1, <2>2, <2>3 DEF Sound
<1> QED
  BY <1>1, <1>2, <1>4 DEF Agree
=============================================================================
