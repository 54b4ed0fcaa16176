--------------------------- MODULE Admission_proofs ---------------------------
(***************************************************************************)
(* TLAPS proofs about admission, for any command lines, configurations,     *)
(* widths, ranges and skew, and any number of clients and sessions.        *)
(*                                                                         *)
(***************************************************************************)
EXTENDS Admission, Options_proofs, Integers

-----------------------------------------------------------------------------
(* The invariant.                                                          *)

\* A session is one of a client's, and every client has its own.
LEMMA SessionParts ==
    /\ \A s \in Session : s[1] \in Client /\ s = <<s[1], s[2]>>
    /\ \A c \in Client : <<c, 1>> \in Session
<1>1. ASSUME NEW c \in Client PROVE Copies[c] \in Nat \ {0}
  BY AdmissionAssumption, Zenon
<1> QED
  BY <1>1 DEF Session

\* The server has not started, no client has sent anything and the cache is empty.
LEMMA InitInv == Init => AdmissionInv
<1> SUFFICES ASSUME Init PROVE AdmissionInv
  OBVIOUS
<1>1. DOMAIN seen = {} /\ DOMAIN recorded = {}
  BY Zenon DEF Init
<1>2. 0 \in 0 .. MaxClock
  BY AdmissionAssumption
<1>3. /\ phase \in [Client -> Phase]
      /\ stage \in [Session -> Stage]
      /\ now \in [Session -> 0 .. MaxClock]
  BY <1>2, Zenon DEF Init, Phase, Stage
<1>4. TypeOK
  BY <1>1, <1>2, <1>3, Zenon DEF Init, TypeOK
<1>5. \A c \in Client : ClientInv(c)
  BY Zenon DEF Init, ClientInv
<1>6. \A s \in Session : SessionInv(s)
  BY Zenon DEF Init, SessionInv
<1>7. CacheInv
  BY <1>1 DEF Init, CacheInv
<1> QED
  BY <1>4, <1>5, <1>6, <1>7, Zenon DEF Init, AdmissionInv

\* How a step of session s0 moves its stage and its client's phase.
Moves(s0, st) ==
    \/ st = "admitted" /\ Admit(s0)
    \/ st = "denied" /\ Refuse(s0)
    \/ st \in {"auth", "checked", "clocked", "failed"} /\ Continue(s0, st)

\* A session that moves to its next stage, and tells its client, leaves the other sessions
\* and every client as the invariant says (Admit, Refuse, Continue).
LEMMA MovesKeep ==
    ASSUME AdmissionInv, NEW s0 \in Session, NEW st, Moves(s0, st),
           stage[s0] # "admitted", UNCHANGED <<conf, frame>>
    PROVE  /\ phase' \in [Client -> Phase]
           /\ stage' \in [Session -> Stage]
           /\ stage' = [stage EXCEPT ![s0] = st]
           /\ \A c \in Client : ClientInv(c)'
<1>1. s0[1] \in Client /\ s0 = <<s0[1], s0[2]>> /\ \A c \in Client : <<c, 1>> \in Session
  BY SessionParts, Zenon
<1>2. phase \in [Client -> Phase] /\ stage \in [Session -> Stage]
  BY Zenon DEF AdmissionInv, TypeOK
<1>3. stage' = [stage EXCEPT ![s0] = st]
  BY Zenon DEF Moves, Admit, Refuse, Continue
<1>4. \/ phase' = phase
      \/ /\ s0[2] = 1
         /\ \/ st = "admitted" /\ phase' = [phase EXCEPT ![s0[1]] = "creating"]
            \/ st = "denied" /\ phase' = [phase EXCEPT ![s0[1]] = "denied"]
  BY Zenon DEF Moves, Admit, Refuse, Continue, Answer
<1>5. phase' \in [Client -> Phase] /\ stage' \in [Session -> Stage]
  BY <1>1, <1>2, <1>3, <1>4, Zenon DEF Moves, Phase, Stage
<1>6. ASSUME NEW c \in Client PROVE ClientInv(c)'
  <2>1. ClientInv(c)
    BY Zenon DEF AdmissionInv
  <2>2. phase'[c] \in {"new", "usage", "ready"} => phase'[c] = phase[c]
    BY <1>1, <1>2, <1>4, Zenon
  <2>3. phase'[c] = "creating" => stage'[<<c, 1>>] = "admitted"
    <3>1. CASE phase[c] = "creating"
      BY <1>1, <1>2, <1>3, <2>1, <3>1, Zenon DEF ClientInv
    <3>2. CASE phase[c] # "creating"
      BY <1>1, <1>2, <1>3, <1>4, <3>2, Zenon
    <3> QED
      BY <3>1, <3>2, Zenon
  <2> QED
    BY <2>1, <2>2, <2>3, Zenon DEF ClientInv, Own
<1> QED
  BY <1>3, <1>5, <1>6, Zenon

\* A step of session s0 leaves the other sessions as they are.
LEMMA OthersKeep ==
    ASSUME AdmissionInv, NEW s0 \in Session, NEW st, stage' = [stage EXCEPT ![s0] = st],
           UNCHANGED <<config, up, frame>>,
           DOMAIN recorded \subseteq DOMAIN recorded',
           NEW s \in Session, s # s0, opts'[s] = opts[s]
    PROVE  SessionInv(s)'
<1>1. SessionInv(s) /\ stage'[s] = stage[s]
  BY Zenon DEF AdmissionInv, TypeOK
<1>2. Token(s)' = Token(s)
  BY Zenon DEF Token
<1>3. auth_configured' = auth_configured
  BY Zenon DEF auth_configured
<1>4. Loaded(s)' = Loaded(s) /\ authorize(Token(s))' = authorize(Token(s))
  BY <1>2 DEF Loaded, authorize, decode_authtoken_bytes, load_authorized_users
<1> QED
  BY <1>1, <1>2, <1>3, <1>4, Zenon DEF SessionInv

\* The clock and the start of the server.
LEMMA ServerKeeps == AdmissionInv /\ (Tick \/ run_server) => AdmissionInv'
<1> SUFFICES ASSUME AdmissionInv, Tick \/ run_server PROVE AdmissionInv'
  OBVIOUS
<1>1. UNCHANGED <<config, phase, conf, frame, stage, opts, now, seen, recorded>>
  BY Zenon DEF Tick, run_server, clientVars, serverVars
<1>2. \/ clock' = clock + 1 /\ clock < MaxClock /\ up' = up
      \/ /\ clock' = clock /\ up = "down" /\ up' \in {"listening", "exited"}
         /\ up' = "listening" => (config.require_auth => auth_configured)
  BY Zenon DEF Tick, run_server
<1>3. clock \in 0 .. MaxClock /\ MaxClock \in Nat
  BY AdmissionAssumption, Zenon DEF AdmissionInv, TypeOK
<1>4. clock' \in 0 .. MaxClock /\ clock' >= clock
  BY <1>2, <1>3
<1>5. TypeOK'
  BY <1>1, <1>2, <1>4, Zenon DEF AdmissionInv, TypeOK
<1>6. auth_configured' = auth_configured
  BY <1>1, Zenon DEF auth_configured
<1>7. ASSUME NEW c \in Client PROVE ClientInv(c)'
  BY <1>1, Zenon DEF AdmissionInv, ClientInv, Own
<1>8. ASSUME NEW s \in Session PROVE SessionInv(s)'
  <2>1. SessionInv(s) /\ (stage[s] # "free" => up' = up)
    BY <1>2, Zenon DEF AdmissionInv, SessionInv
  <2>2. Loaded(s)' = Loaded(s) /\ Token(s)' = Token(s)
        /\ authorize(Token(s))' = authorize(Token(s))
    BY <1>1, Zenon DEF Loaded, Token, authorize, decode_authtoken_bytes
  <2> QED
    BY <1>1, <1>6, <2>1, <2>2, Zenon DEF SessionInv
<1>9. CacheInv'
  <2>1. CacheInv /\ \A t \in DOMAIN recorded : recorded[t].at + Ttl \in Int
    BY AdmissionAssumption DEF AdmissionInv, TypeOK, Ttl
  <2>2. \A s \in Session : now[s] \in Int
    BY <1>3 DEF AdmissionInv, TypeOK
  <2> QED
    BY <1>1, <1>3, <1>4, <2>1, <2>2 DEF CacheInv
<1> QED
  BY <1>1, <1>2, <1>5, <1>6, <1>7, <1>8, <1>9, Zenon DEF AdmissionInv

\* A step of client c0 before the server answers it.
LEMMA ClientKeeps ==
    ASSUME AdmissionInv, NEW c0 \in Client, NEW p \in Phase \ {"creating", "new"},
           phase' = [phase EXCEPT ![c0] = p], frame[c0] = None,
           UNCHANGED <<config, up, clock, serverVars>>,
           DOMAIN conf' = Client, DOMAIN frame' = Client,
           \A c \in Client \ {c0} : conf'[c] = conf[c] /\ frame'[c] = frame[c],
           ClientInv(c0)'
    PROVE  AdmissionInv'
<1>1. UNCHANGED <<stage, opts, now, seen, recorded>>
  BY Zenon DEF serverVars
<1>2. phase \in [Client -> Phase] /\ phase' \in [Client -> Phase]
  BY Zenon DEF AdmissionInv, TypeOK, Phase
<1>3. TypeOK'
  BY <1>1, <1>2, Zenon DEF AdmissionInv, TypeOK
<1>4. ASSUME NEW c \in Client, c # c0 PROVE ClientInv(c)'
  BY <1>1, <1>2, <1>4, Zenon DEF AdmissionInv, ClientInv, Own
<1>5. auth_configured' = auth_configured
  BY Zenon DEF auth_configured
<1>6. ASSUME NEW s \in Session PROVE SessionInv(s)'
  <2>1. SessionInv(s) /\ s[1] \in Client
    BY SessionParts, Zenon DEF AdmissionInv
  <2>2. stage[s] # "free" => frame'[s[1]] = frame[s[1]]
    BY <2>1, Zenon DEF SessionInv
  <2>3. Loaded(s)' = Loaded(s) /\ Token(s)' = Token(s)
        /\ authorize(Token(s))' = authorize(Token(s))
    BY <1>1, Zenon DEF Loaded, Token, authorize, decode_authtoken_bytes
  <2> QED
    BY <1>1, <1>5, <2>1, <2>2, <2>3, Zenon DEF SessionInv
<1>7. CacheInv'
  BY <1>1, Zenon DEF AdmissionInv, CacheInv
<1> QED
  BY <1>1, <1>3, <1>4, <1>5, <1>6, <1>7, Zenon DEF AdmissionInv

\* into_mode gives a client a Config with natural numbers, or none.
LEMMA LaunchKeeps ==
    ASSUME AdmissionInv, NEW c \in Client, NEW cli \in Clis[c], Launch(c, cli)
    PROVE  AdmissionInv'
<1>1. frame[c] = None /\ frame' = frame /\ phase[c] = "new"
  BY Zenon DEF Launch, AdmissionInv, ClientInv
<1>2. PICK p \in {"usage", "ready"} :
         /\ phase' = [phase EXCEPT ![c] = p]
         /\ p = "ready" => try_into_mode(cli) # Err
  BY Zenon DEF Launch
<1>3. DOMAIN conf' = Client /\ \A d \in Client \ {c} : conf'[d] = conf[d]
  BY Zenon DEF Launch, AdmissionInv
<1>4. conf'[c] = try_into_mode(cli) /\ phase'[c] = p
  BY <1>2, Zenon DEF Launch, AdmissionInv, TypeOK
<1>5. ClientInv(c)'
  <2>1. {cli.time, cli.omit, cli.parallel} \subseteq Nat
    BY AdmissionAssumption, Zenon
  <2> QED
    BY <1>1, <1>2, <1>4, <2>1, ModeSound, Zenon DEF ClientInv
<1>6. UNCHANGED <<config, up, clock, serverVars>> /\ DOMAIN frame' = Client
  BY Zenon DEF Launch, AdmissionInv
<1>7. p \in Phase \ {"creating", "new"}
  BY Zenon DEF Phase
<1> QED
  BY <1>1, <1>2, <1>3, <1>5, <1>6, <1>7, ClientKeeps, Zenon

\* send_options: by RoundTrip the frame says what the Config says.
LEMMA SendKeeps ==
    ASSUME AdmissionInv, NEW c \in Client, send_options(c)
    PROVE  AdmissionInv'
<1> DEFINE o == ClientOptions(conf[c], build_authtoken(c))
<1>1. frame[c] = None /\ conf' = conf /\ Sound(conf[c])
  BY Zenon DEF send_options, AdmissionInv, ClientInv
<1>2. frame' = [frame EXCEPT ![c] = Serialize(o)] /\ phase' = [phase EXCEPT ![c] = "sent"]
  BY Zenon DEF send_options
<1>3. frame'[c] = Serialize(o) /\ phase'[c] = "sent"
  BY <1>2, Zenon DEF AdmissionInv, TypeOK
<1>4. Deserialize(frame'[c]) = o /\ o.authtoken = build_authtoken(c)
  <2>1. o = [f \in Field |-> o[f]]
    BY OptionsFields, Zenon
  <2>2. o.authtoken = build_authtoken(c)
    BY OptionsToken, Zenon
  <2> HIDE DEF o
  <2>3. Deserialize(Serialize(o)) = o
    BY <2>1, RoundTrip, Zenon
  <2> QED
    BY <1>3, <2>2, <2>3, Zenon
<1>5. Own(c)'
  BY <1>1, <1>4, Zenon DEF Own
<1>6. ClientInv(c)'
  BY <1>3, <1>5, Zenon DEF ClientInv
<1>7. UNCHANGED <<config, up, clock, serverVars>> /\ DOMAIN frame' = Client /\ DOMAIN conf' = Client
      /\ \A d \in Client \ {c} : conf'[d] = conf[d] /\ frame'[d] = frame[d]
  BY <1>1, <1>2, Zenon DEF send_options, AdmissionInv
<1>8. "sent" \in Phase \ {"creating", "new"}
  BY Zenon DEF Phase
<1> QED
  BY <1>1, <1>2, <1>6, <1>7, <1>8, ClientKeeps, Zenon

\* A frame of another program is one of Frames, and its sender has no Config.
LEMMA SendForeignKeeps ==
    ASSUME AdmissionInv, NEW c \in Client, NEW f \in Frames[c], SendForeign(c, f)
    PROVE  AdmissionInv'
<1>1. frame[c] = None /\ conf' = conf /\ conf[c] = None
  BY Zenon DEF SendForeign, AdmissionInv, ClientInv
<1>2. frame' = [frame EXCEPT ![c] = f] /\ phase' = [phase EXCEPT ![c] = "sent"]
  BY Zenon DEF SendForeign
<1>3. frame'[c] = f /\ phase'[c] = "sent"
  BY <1>2, Zenon DEF AdmissionInv, TypeOK
<1>4. ClientInv(c)'
  BY <1>1, <1>3, Zenon DEF ClientInv
<1>5. UNCHANGED <<config, up, clock, serverVars>> /\ DOMAIN frame' = Client /\ DOMAIN conf' = Client
      /\ \A d \in Client \ {c} : conf'[d] = conf[d] /\ frame'[d] = frame[d]
  BY <1>1, <1>2, Zenon DEF SendForeign, AdmissionInv
<1>6. "sent" \in Phase \ {"creating", "new"}
  BY Zenon DEF Phase
<1> QED
  BY <1>1, <1>2, <1>4, <1>5, <1>6, ClientKeeps, Zenon

\* A step of session s0 that leaves the cache alone.
LEMMA SessionKeeps ==
    ASSUME AdmissionInv, NEW s0 \in Session, NEW st, Moves(s0, st),
           stage[s0] # "admitted",
           UNCHANGED <<config, up, clock, conf, frame, seen, recorded>>,
           DOMAIN opts' = Session, \A s \in Session \ {s0} : opts'[s] = opts[s],
           now' \in [Session -> 0 .. MaxClock], \A s \in Session : now'[s] <= clock,
           SessionInv(s0)'
    PROVE  AdmissionInv'
<1>1. /\ phase' \in [Client -> Phase] /\ stage' \in [Session -> Stage]
      /\ stage' = [stage EXCEPT ![s0] = st] /\ \A c \in Client : ClientInv(c)'
  BY MovesKeep, Zenon
<1>2. ASSUME NEW s \in Session PROVE SessionInv(s)'
  BY <1>1, OthersKeep, Zenon
<1>3. ASSUME NEW s \in Session PROVE stage'[s] \notin {"free", "failed"} => opts'[s] # Err
  BY <1>1, <1>2, Zenon DEF SessionInv, Stage
<1>4. TypeOK'
  BY <1>1, <1>3, Zenon DEF AdmissionInv, TypeOK
<1>5. CacheInv'
  BY Zenon DEF AdmissionInv, CacheInv
<1>6. (up = "listening" => (config.require_auth => auth_configured))'
  BY Zenon DEF AdmissionInv, auth_configured
<1> QED
  BY <1>1, <1>2, <1>4, <1>5, <1>6, Zenon DEF AdmissionInv

\* negotiate_options and validate_options: only options within their ranges go on.
LEMMA NegotiateKeeps ==
    ASSUME AdmissionInv, NEW s \in Session, negotiate_options(s)
    PROVE  AdmissionInv'
<1> DEFINE o == Deserialize(frame[s[1]])
<1>1. /\ up = "listening" /\ stage[s] = "free" /\ frame[s[1]] # None
      /\ opts' = [opts EXCEPT ![s] = o]
      /\ UNCHANGED <<config, up, clock, conf, frame, now, seen, recorded>>
  BY Zenon DEF negotiate_options
<1>2. PICK st \in {"failed", "denied", "admitted", "auth"} :
        /\ Moves(s, st)
        /\ st # "failed" => o # Err
        /\ st \in {"admitted", "auth"} => validate_options(o)
        /\ st = "admitted" => ~auth_configured
        /\ st = "auth" => auth_configured
  BY Zenon DEF negotiate_options, Moves, Continue
<1>3. opts'[s] = o /\ DOMAIN opts' = Session /\ \A t \in Session \ {s} : opts'[t] = opts[t]
  BY <1>1, Zenon DEF AdmissionInv
<1>4. stage' = [stage EXCEPT ![s] = st]
  BY <1>1, <1>2, MovesKeep, Zenon
<1>5. SessionInv(s)'
  <2>1. stage'[s] = st
    BY <1>4, Zenon DEF AdmissionInv, TypeOK
  <2>2. auth_configured' = auth_configured
    BY <1>1, Zenon DEF auth_configured
  <2> HIDE DEF o
  <2>3. opts'[s] = Deserialize(frame'[s[1]])
    BY <1>1, <1>3, Zenon DEF o
  <2> QED
    BY <1>1, <1>2, <1>3, <2>1, <2>2, <2>3, Zenon DEF SessionInv
<1>6. now' \in [Session -> 0 .. MaxClock] /\ \A t \in Session : now'[t] <= clock
  BY <1>1, Zenon DEF AdmissionInv, TypeOK, CacheInv
<1> QED
  BY <1>1, <1>2, <1>3, <1>5, <1>6, SessionKeeps, Zenon

\* check_auth_inner up to the cache: the files and the token are as Loaded says.
LEMMA CheckKeeps ==
    ASSUME AdmissionInv, NEW s \in Session, check_auth_inner(s)
    PROVE  AdmissionInv'
<1>1. /\ stage[s] = "auth"
      /\ UNCHANGED <<config, up, clock, conf, frame, opts, now, seen, recorded>>
  BY Zenon DEF check_auth_inner
<1>2. PICK st \in {"denied", "checked"} : Moves(s, st) /\ (st = "checked" => Loaded(s))
  BY Zenon DEF check_auth_inner, Moves, Loaded
<1>3. stage' = [stage EXCEPT ![s] = st]
  BY <1>1, <1>2, MovesKeep, Zenon
<1>4. SessionInv(s)'
  <2>1. stage'[s] = st /\ SessionInv(s)
    BY <1>3, Zenon DEF AdmissionInv, TypeOK
  <2>2. auth_configured' = auth_configured
    BY <1>1, Zenon DEF auth_configured
  <2>3. Loaded(s)' = Loaded(s)
    BY <1>1, Zenon DEF Loaded, Token, decode_authtoken_bytes
  <2> QED
    BY <1>1, <1>2, <2>1, <2>2, <2>3, Zenon DEF SessionInv
<1>5. /\ DOMAIN opts' = Session /\ \A t \in Session \ {s} : opts'[t] = opts[t]
      /\ now' \in [Session -> 0 .. MaxClock] /\ \A t \in Session : now'[t] <= clock
  BY <1>1, Zenon DEF AdmissionInv, TypeOK, CacheInv
<1> QED
  BY <1>1, <1>2, <1>4, <1>5, SessionKeeps, Zenon

\* The time a session has read for the cache is not ahead of the clock.
LEMMA ReadClockKeeps ==
    ASSUME AdmissionInv, NEW s \in Session, ReadClock(s)
    PROVE  AdmissionInv'
<1>1. /\ stage[s] = "checked" /\ now' = [now EXCEPT ![s] = clock]
      /\ UNCHANGED <<config, up, clock, conf, frame, opts, seen, recorded>>
  BY Zenon DEF ReadClock
<1>2. Moves(s, "clocked")
  BY Zenon DEF ReadClock, Moves
<1>3. stage' = [stage EXCEPT ![s] = "clocked"]
  BY <1>1, <1>2, MovesKeep, Zenon
<1>4. SessionInv(s)'
  <2>1. stage'[s] = "clocked" /\ SessionInv(s)
    BY <1>3, Zenon DEF AdmissionInv, TypeOK
  <2>2. auth_configured' = auth_configured
    BY <1>1, Zenon DEF auth_configured
  <2>3. Loaded(s)' = Loaded(s)
    BY <1>1, Zenon DEF Loaded, Token, decode_authtoken_bytes
  <2> QED
    BY <1>1, <2>1, <2>2, <2>3, Zenon DEF SessionInv
<1>5. clock \in 0 .. MaxClock /\ MaxClock \in Nat
  BY AdmissionAssumption, Zenon DEF AdmissionInv, TypeOK
<1>6. /\ DOMAIN opts' = Session /\ \A t \in Session \ {s} : opts'[t] = opts[t]
      /\ now' \in [Session -> 0 .. MaxClock] /\ \A t \in Session : now'[t] <= clock
  BY <1>1, <1>5 DEF AdmissionInv, TypeOK, CacheInv
<1> QED
  BY <1>1, <1>2, <1>4, <1>6, SessionKeeps, Zenon

\* What check_and_record does to the cache: nothing recorded is lost, and a token is
\* recorded again only when its time is over.
LEMMA CacheStep ==
    ASSUME AdmissionInv, NEW s \in Session, check_and_record(s)
    PROVE  /\ DOMAIN recorded \subseteq DOMAIN recorded'
           /\ DOMAIN seen' \subseteq DOMAIN recorded'
           /\ \A t \in DOMAIN seen' : seen'[t] \in Nat
           /\ \A t \in DOMAIN recorded' : recorded'[t] \in [times : Nat, at : 0 .. MaxClock]
           /\ CacheInv'
           /\ \A t \in DOMAIN recorded : recorded'[t] # recorded[t] => clock >= recorded[t].at + Ttl
<1> DEFINE t0 == now[s]
<1>1. /\ clock \in Nat /\ t0 \in 0 .. MaxClock /\ t0 \in Nat /\ t0 <= clock /\ Ttl \in Nat
      /\ DOMAIN seen \subseteq DOMAIN recorded /\ \A t \in DOMAIN seen : seen[t] \in Nat
      /\ \A t \in DOMAIN recorded :
           /\ recorded[t] \in [times : Nat, at : 0 .. MaxClock]
           /\ recorded[t].at \in Nat /\ recorded[t].times \in Nat
  BY AdmissionAssumption DEF AdmissionInv, TypeOK, CacheInv, Ttl
<1>2. /\ \A t \in DOMAIN recorded :
           \/ t \in DOMAIN seen /\ seen[t] = recorded[t].at + Ttl
           \/ clock >= recorded[t].at + Ttl
      /\ \A t \in Session : now[t] <= clock
      /\ UNCHANGED <<clock, now>>
  BY Zenon DEF AdmissionInv, CacheInv, check_and_record
<1>3. ASSUME NEW t \in DOMAIN recorded, t \notin Retained(t0)
      PROVE  clock >= recorded[t].at + Ttl
  BY <1>1, <1>2, <1>3 DEF Retained
<1>4. CASE Token(s) \in Retained(t0)
  <2>1. seen' = Kept(t0) /\ recorded' = recorded
    BY <1>4, Zenon DEF check_and_record
  <2>2. DOMAIN seen' = Retained(t0) /\ Retained(t0) \subseteq DOMAIN seen
        /\ \A t \in Retained(t0) : seen'[t] = seen[t]
    BY <2>1, Zenon DEF Kept, Retained
  <2> HIDE DEF t0
  <2>3. CacheInv'
    BY <1>2, <1>3, <2>1, <2>2, Zenon DEF CacheInv
  <2> QED
    BY <1>1, <2>1, <2>2, <2>3, Zenon
<1>5. CASE Token(s) \notin Retained(t0)
  <2> DEFINE k == Token(s)
             n == 1 + (IF k \in DOMAIN recorded THEN recorded[k].times ELSE 0)
  <2>1. Record(k, t0)
    BY <1>5, Zenon DEF check_and_record
  <2>2. /\ DOMAIN seen' = Retained(t0) \cup {k} /\ Retained(t0) \subseteq DOMAIN seen
        /\ seen'[k] = t0 + Ttl /\ \A t \in Retained(t0) \ {k} : seen'[t] = seen[t]
    BY <2>1, Zenon DEF Record, Retained
  <2>3. /\ DOMAIN recorded' = DOMAIN recorded \cup {k}
        /\ recorded'[k] = [times |-> n, at |-> t0]
        /\ \A t \in DOMAIN recorded \ {k} : recorded'[t] = recorded[t]
    BY <2>1, Zenon DEF Record
  <2>4. n \in Nat
    BY <1>1
  <2> HIDE DEF t0, k, n
  <2>5. recorded'[k] \in [times : Nat, at : 0 .. MaxClock] /\ recorded'[k].at = t0
    BY <1>1, <2>3, <2>4
  <2>6. \A t \in DOMAIN recorded' : recorded'[t] \in [times : Nat, at : 0 .. MaxClock]
    BY <1>1, <2>3, <2>5, Zenon
  <2>7. \A t \in DOMAIN seen' : seen'[t] \in Nat
    BY <1>1, <2>2
  <2>8. ASSUME NEW t \in DOMAIN recorded'
        PROVE  \/ t \in DOMAIN seen' /\ seen'[t] = recorded'[t].at + Ttl
               \/ clock' >= recorded'[t].at + Ttl
    BY <1>2, <1>3, <2>2, <2>3, <2>5, Zenon
  <2>9. CacheInv'
    BY <1>2, <2>8, Zenon DEF CacheInv
  <2>10. \A t \in DOMAIN recorded : recorded'[t] # recorded[t] => clock >= recorded[t].at + Ttl
    BY <1>3, <1>5, <2>3, Zenon DEF k
  <2> QED
    BY <1>1, <2>2, <2>3, <2>6, <2>7, <2>9, <2>10, Zenon
<1> QED
  BY <1>4, <1>5, Zenon

\* check_and_record: a token leaves the cache only when its time is over, and a session
\* is admitted only with a token that is recorded and authorized.
LEMMA RecordKeeps ==
    ASSUME AdmissionInv, NEW s \in Session, check_and_record(s)
    PROVE  AdmissionInv'
<1>1. stage[s] = "clocked" /\ UNCHANGED <<config, up, clock, conf, frame, opts, now>>
  BY Zenon DEF check_and_record
<1>2. PICK st \in {"denied", "admitted"} :
        /\ Moves(s, st)
        /\ st = "admitted" => Token(s) \in DOMAIN recorded' /\ authorize(Token(s))
  BY Zenon DEF check_and_record, Moves, Record
<1>3. /\ phase' \in [Client -> Phase] /\ stage' \in [Session -> Stage]
      /\ stage' = [stage EXCEPT ![s] = st] /\ \A c \in Client : ClientInv(c)'
  BY <1>1, <1>2, MovesKeep, Zenon
<1>4. DOMAIN recorded \subseteq DOMAIN recorded' /\ CacheInv'
  BY CacheStep, Zenon
<1>5. SessionInv(s)'
  <2>1. stage'[s] = st /\ SessionInv(s)
    BY <1>3, Zenon DEF AdmissionInv, TypeOK
  <2>2. auth_configured' = auth_configured
    BY <1>1, Zenon DEF auth_configured
  <2>3. Loaded(s)' = Loaded(s) /\ Token(s)' = Token(s)
        /\ authorize(Token(s))' = authorize(Token(s))
    BY <1>1, Zenon DEF Loaded, Token, authorize, decode_authtoken_bytes
  <2> QED
    BY <1>1, <1>2, <2>1, <2>2, <2>3, Zenon DEF SessionInv
<1>6. ASSUME NEW t \in Session PROVE SessionInv(t)'
  BY <1>1, <1>3, <1>4, <1>5, OthersKeep, Zenon
<1>7. ASSUME NEW t \in Session PROVE stage'[t] \notin {"free", "failed"} => opts'[t] # Err
  BY <1>3, <1>6, Zenon DEF SessionInv, Stage
<1>8. TypeOK'
  BY <1>1, <1>3, <1>7, CacheStep, Zenon DEF AdmissionInv, TypeOK
<1>9. (up = "listening" => (config.require_auth => auth_configured))'
  BY <1>1, Zenon DEF AdmissionInv, auth_configured
<1> QED
  BY <1>1, <1>3, <1>4, <1>6, <1>8, <1>9, Zenon DEF AdmissionInv

\* A step that changes nothing keeps the invariant.
LEMMA StutterKeeps == AdmissionInv /\ UNCHANGED vars => AdmissionInv'
<1> SUFFICES ASSUME AdmissionInv, UNCHANGED vars PROVE AdmissionInv'
  OBVIOUS
<1>1. UNCHANGED <<config, up, clock, phase, conf, frame, stage, opts, now, seen, recorded>>
  BY Zenon DEF vars, clientVars, serverVars
<1>2. TypeOK' /\ CacheInv'
  BY <1>1, Zenon DEF AdmissionInv, TypeOK, CacheInv
<1>3. ASSUME NEW c \in Client PROVE ClientInv(c)'
  BY <1>1, Zenon DEF AdmissionInv, ClientInv, Own
<1>4. ASSUME NEW s \in Session PROVE SessionInv(s)'
  BY <1>1, Zenon DEF AdmissionInv, SessionInv, Loaded, Token, authorize, decode_authtoken_bytes,
              auth_configured
<1> QED
  BY <1>1, <1>2, <1>3, <1>4, Zenon DEF AdmissionInv, auth_configured

\* The invariant holds whatever the clients, the sessions and the clock do.
THEOREM AdmissionInvariant == Spec => []AdmissionInv
<1>1. ASSUME AdmissionInv, [Next]_vars PROVE AdmissionInv'
  <2>1. ASSUME NEW s \in Session, Serve(s) PROVE AdmissionInv'
    BY <1>1, <2>1, NegotiateKeeps, CheckKeeps, ReadClockKeeps, RecordKeeps, Zenon DEF Serve
  <2> QED
    BY <1>1, <2>1, ServerKeeps, LaunchKeeps, SendKeeps, SendForeignKeeps, StutterKeeps, Zenon DEF Next
<1> QED
  BY <1>1, InitInv, PTL DEF Spec

-----------------------------------------------------------------------------
(* What it means.                                                          *)

\* Every variable keeps its type.
THEOREM TypeCorrect == Spec => []TypeOK
<1>1. AdmissionInv => TypeOK
  BY Zenon DEF AdmissionInv
<1> QED
  BY <1>1, AdmissionInvariant, PTL

\* No session is admitted past check_auth, with or without --require-auth, except on a
\* token for the server's key and one of its users that the cache has recorded.
THEOREM GateAlwaysHolds == Spec => []GateHolds
<1>1. AdmissionInv => GateHolds
  <2> SUFFICES ASSUME AdmissionInv, NEW s \in Session, stage[s] = "admitted",
                      config.require_auth \/ auth_configured
               PROVE  /\ Loaded(s) /\ Token(s) \in DOMAIN recorded
                      /\ authorize(Token(s))
    BY Zenon DEF GateHolds, Loaded
  <2> QED
    BY Zenon DEF AdmissionInv, SessionInv
<1> QED
  BY <1>1, AdmissionInvariant, PTL

\* No token passes the cache twice within its TTL, however the sessions that read the
\* clock before the lock are delayed.
THEOREM NeverTwiceWithinTtl == Spec => NotTwiceWithinTtl
<1> DEFINE P == \A t \in DOMAIN recorded :
                  recorded'[t] # recorded[t] => clock >= recorded[t].at + Ttl
<1>1. ASSUME AdmissionInv, Next PROVE P
  <2>1. ASSUME NEW s \in Session, Serve(s) PROVE P
    <3>1. CASE check_and_record(s)
      BY <1>1, <3>1, CacheStep, Zenon
    <3>2. CASE ~check_and_record(s)
      BY <2>1, <3>2, Zenon DEF Serve, negotiate_options, check_auth_inner, ReadClock
    <3> QED
      BY <3>1, <3>2, Zenon
  <2>2. CASE ~\E s \in Session : Serve(s)
    <3>1. recorded' = recorded
      BY <1>1, <2>2, Zenon DEF Next, Tick, run_server, Launch, send_options, SendForeign, serverVars
    <3> QED
      BY <3>1, Zenon
  <2> QED
    BY <2>1, <2>2, Zenon
<1>2. AdmissionInv /\ [Next]_vars => [P]_vars
  BY <1>1, Zenon
<1> HIDE DEF P
<1>3. Spec => [][P]_vars
  BY <1>2, AdmissionInvariant, PTL DEF Spec
<1> QED
  BY <1>3, Zenon DEF NotTwiceWithinTtl, P

\* What the server holds of a client it has admitted is its Config.
LEMMA AdmittedOwn ==
    ASSUME AdmissionInv, NEW c \in Client, phase[c] = "creating", conf[c] # None
    PROVE  /\ Sound(conf[c])
           /\ opts[<<c, 1>>] = ClientOptions(conf[c], opts[<<c, 1>>].authtoken)
           /\ validate_options(opts[<<c, 1>>])
<1>1. <<c, 1>> \in Session /\ <<c, 1>>[1] = c
  BY SessionParts, Zenon
<1>2. stage[<<c, 1>>] = "admitted" /\ SessionInv(<<c, 1>>) /\ ClientInv(c)
  BY <1>1, Zenon DEF AdmissionInv, ClientInv
<1>3. /\ opts[<<c, 1>>] = Deserialize(frame[c]) /\ frame[c] # None
      /\ validate_options(opts[<<c, 1>>])
  BY <1>1, <1>2, Zenon DEF SessionInv
<1> QED
  BY <1>2, <1>3, Zenon DEF ClientInv, Own

\* Client and server agree on every test the server lets in (send_options against
\* negotiate_options).
THEOREM AlwaysAgreeOnTest == Spec => []AgreeOnTest
<1>1. ASSUME AdmissionInv, NEW c \in Client, phase[c] = "creating", conf[c] # None,
             NEW k, k = conf[c], NEW o, o = opts[<<c, 1>>]
      PROVE  /\ Agree(k, o)
             /\ k.direction # "bidirectional" => create_streams(k) = streams_awaited(o)
  <2>1. Sound(k) /\ o = ClientOptions(k, o.authtoken) /\ validate_options(o)
    BY <1>1, AdmittedOwn, Zenon
  <2>2. Agree(k, o) /\ o.parallel = k.parallel
    BY <2>1, OptionsAgree, OptionsNumbers, Zenon
  <2>3. k.parallel \in Nat \ {0}
    BY <2>1, <2>2, Zenon DEF validate_options, Sound
  <2>4. k.direction # "bidirectional" => k.direction \in {"forward", "reverse"}
    BY <2>1, Zenon DEF Sound
  <2>5. k.direction # "bidirectional" => create_streams(k) = k.parallel
    BY <2>3, <2>4 DEF create_streams, client_sends, client_receives
  <2> QED
    BY <2>2, <2>5, Zenon DEF streams_awaited
<1>2. AdmissionInv => AgreeOnTest
  BY <1>1, Zenon DEF AgreeOnTest
<1> QED
  BY <1>2, AdmissionInvariant, PTL

\* The u32 arithmetic of an admitted test (time + omit, parallel * 2, len) is safe on
\* the server, and on the client, which checks nothing itself.
THEOREM NumbersAlwaysSafe == Spec => []NumbersSafe
<1>1. /\ U32Max \in Nat /\ MaxParallel \in Nat /\ MaxTime \in Nat /\ MaxOmit \in Nat
      /\ MaxLen \in Nat /\ 2 * MaxParallel <= U32Max /\ MaxTime + MaxOmit <= U32Max
  BY OptionsAssumption, Zenon
<1>2. ASSUME AdmissionInv, NEW c \in Client, phase[c] = "creating", conf[c] # None
      PROVE  /\ conf[c].time + conf[c].omit <= U32Max
             /\ 2 * conf[c].parallel <= U32Max
             /\ conf[c].len # 0
  <2> DEFINE o == opts[<<c, 1>>]
  <2>1. Sound(conf[c]) /\ o = ClientOptions(conf[c], o.authtoken) /\ validate_options(o)
    BY <1>2, AdmittedOwn, Zenon
  <2>2. /\ o.time = conf[c].time /\ o.omit = conf[c].omit
        /\ o.parallel = conf[c].parallel /\ o.len = conf[c].len
    BY <2>1, OptionsNumbers, Zenon
  <2> QED
    BY <1>1, <2>1, <2>2 DEF Sound, validate_options
<1>3. ASSUME AdmissionInv, NEW s \in Session, stage[s] = "admitted"
      PROVE  /\ opts[s].time + opts[s].omit <= MaxTime + MaxOmit
             /\ opts[s].parallel \in 1 .. MaxParallel
  <2> DEFINE o == opts[s]
  <2>1. /\ s[1] \in Client /\ frame[s[1]] # None /\ o = Deserialize(frame[s[1]])
        /\ validate_options(o) /\ o # Err /\ ClientInv(s[1])
    BY <1>3, SessionParts, Zenon DEF AdmissionInv, SessionInv
  <2>2. {o.time, o.omit, o.parallel} \subseteq Nat
    <3>1. CASE Own(s[1])
      BY <2>1, <3>1, OptionsNumbers DEF Own
    <3>2. CASE frame[s[1]] \in Frames[s[1]]
      <4>1. Required \subseteq DOMAIN frame[s[1]]
        BY <2>1, Zenon DEF Deserialize
      <4>2. ASSUME NEW f \in Required PROVE o[f] \in Nat
        BY <2>1, <3>2, <4>1, AdmissionAssumption DEF Deserialize, Field
      <4> QED
        BY <4>2, Zenon DEF Required
    <3> QED
      BY <2>1, <3>1, <3>2, Zenon DEF ClientInv
  <2> QED
    BY <1>1, <2>1, <2>2 DEF validate_options
<1>4. AdmissionInv => NumbersSafe
  BY <1>2, <1>3, Zenon DEF NumbersSafe
<1> QED
  BY <1>4, AdmissionInvariant, PTL
=============================================================================
