------------------------------ MODULE Admission ------------------------------
(***************************************************************************)
(* How a test is let in: run_server settles whether clients must           *)
(* authenticate, a client sends its options with a token                   *)
(* (build_authtoken), and each session validates the options and checks    *)
(* the token (check_auth, src/server.rs; src/common/auth.rs).  Sessions    *)
(* run concurrently and share the cache of tokens already seen             *)
(* (NonceCache).  What the options mean is module Options.                 *)
(***************************************************************************)
EXTENDS Options

CONSTANTS
    Client,     \* runs of the client
    Clis,       \* the command lines each client may be started with
    Frames,     \* the frames it may send instead if it is another program
    Copies,     \* how many sessions each client's options frame may reach
    Servers,    \* the configurations the server may be started with
    Lower,      \* to_ascii_lowercase on names
    BadName,    \* empty names and passwords, or with control characters
    Skew,       \* TIMESTAMP_SKEW_SECS
    MaxClock    \* bound: the clock stops there

ASSUME AdmissionAssumption ==
    /\ \A c \in Client : \A cli \in Clis[c] : {cli.time, cli.omit, cli.parallel} \subseteq Nat
    /\ \A c \in Client : \A f \in Frames[c] : \A x \in Required \cap DOMAIN f : f[x] \in Nat
    /\ Copies \in [Client -> Nat \ {0}]
    /\ Skew \in Nat
    /\ MaxClock \in Nat

\* Session <<c, 1>> is the one client c talks to; in the others its frame arrives again.
Session == UNION {{c} \X (1 .. Copies[c]) : c \in Client}

\* NonceCache::new.
Ttl == 2 * Skew

VARIABLES
    config,     \* the server's configuration
    up,         \* "down", "listening", or "exited"
    clock,      \* the time, for SystemTime and for Instant
    phase,      \* what each client has come to
    conf,       \* the Config of each client, if it is this one
    frame,      \* the options frame each client has sent
    stage,      \* how far each session has come
    opts,       \* the options each session has received
    now,        \* the time each session has read for the cache
    seen,       \* NONCE_CACHE: token -> deadline
    recorded    \* history: token -> how often it was recorded, and the time read last

serverVars == <<stage, opts, now, seen, recorded>>
clientVars == <<phase, conf, frame>>
vars == <<config, up, clock, clientVars, serverVars>>

Phase == {"new", "usage", "ready", "sent", "creating", "denied"}
Stage == {"free", "auth", "checked", "clocked", "admitted", "denied", "failed"}

TypeOK ==
    /\ config \in Servers
    /\ up \in {"down", "listening", "exited"}
    /\ clock \in 0 .. MaxClock
    /\ phase \in [Client -> Phase]
    /\ stage \in [Session -> Stage]
    /\ now \in [Session -> 0 .. MaxClock]
    /\ DOMAIN seen \subseteq DOMAIN recorded
    /\ \A t \in DOMAIN seen : seen[t] \in Nat
    /\ \A t \in DOMAIN recorded : recorded[t] \in [times : Nat, at : 0 .. MaxClock]
    /\ \A s \in Session : stage[s] \notin {"free", "failed"} => opts[s] # Err

Init ==
    /\ config \in Servers
    /\ up = "down"
    /\ clock = 0
    /\ frame = [c \in Client |-> None]
    /\ phase = [c \in Client |-> "new"]
    /\ conf = [c \in Client |-> None]
    /\ stage = [s \in Session |-> "free"]
    /\ opts = [s \in Session |-> None]
    /\ now = [s \in Session |-> 0]
    /\ seen = [t \in {} |-> 0]
    /\ recorded = [t \in {} |-> 0]

Tick ==
    /\ clock < MaxClock
    /\ clock' = clock + 1
    /\ UNCHANGED <<config, up, clientVars, serverVars>>

-----------------------------------------------------------------------------
(* The server starts.                                                      *)

auth_configured == config.key # None /\ config.users # None

\* Mutant: one of the two files is enough.
run_server_EitherFile ==
    /\ up = "down"
    /\ IF config.require_auth /\ config.key = None /\ config.users = None
       THEN up' = "exited"
       ELSE up' \in {"listening", "exited"}
    /\ UNCHANGED <<config, clock, clientVars, serverVars>>

\* run_server refuses to start if authentication is required and not configured;
\* the address may be taken.
run_server ==
    /\ up = "down"
    /\ IF config.require_auth /\ ~auth_configured
       THEN up' = "exited"
       ELSE up' \in {"listening", "exited"}
    /\ UNCHANGED <<config, clock, clientVars, serverVars>>

-----------------------------------------------------------------------------
(* The client.                                                             *)

\* into_mode: a command line that cannot be read ends the process.
Launch(c, cli) ==
    /\ phase[c] = "new"
    /\ conf' = [conf EXCEPT ![c] = try_into_mode(cli)]
    /\ phase' = [phase EXCEPT ![c] = IF try_into_mode(cli) = Err THEN "usage" ELSE "ready"]
    /\ UNCHANGED <<config, up, clock, frame, serverVars>>

\* build_authtoken, for a key that load_public_key_pem can load: the claim, under
\* that key.  Encryption is randomised: no two tokens are the same.
build_authtoken(c) ==
    LET k == conf[c]
    IN  IF k.rsa_public_key = None \/ k.username = None THEN None
        ELSE IF ~k.rsa_public_key.loads \/ {k.username, k.password} \cap BadName # {} THEN None
        ELSE [timestamp |-> clock, username |-> k.username, hash |-> k.password,
              key |-> k.rsa_public_key.pair, nonce |-> c]

\* send_options, on ParamExchange.
send_options(c) ==
    /\ up = "listening"
    /\ phase[c] = "ready"
    /\ frame' = [frame EXCEPT ![c] = Serialize(ClientOptions(conf[c], build_authtoken(c)))]
    /\ phase' = [phase EXCEPT ![c] = "sent"]
    /\ UNCHANGED <<config, up, clock, conf, serverVars>>

\* Another program that speaks the protocol sends its options.
SendForeign(c, f) ==
    /\ up = "listening"
    /\ phase[c] = "new"
    /\ frame' = [frame EXCEPT ![c] = f]
    /\ phase' = [phase EXCEPT ![c] = "sent"]
    /\ UNCHANGED <<config, up, clock, conf, serverVars>>

\* The client of a session learns what has become of it; nobody reads what the
\* other sessions its frame has reached answer.
Answer(s, p) ==
    phase' = IF s[2] = 1 THEN [phase EXCEPT ![s[1]] = p] ELSE phase

-----------------------------------------------------------------------------
(* The session.                                                            *)

\* The session goes on to CreateStreams...
Admit(s) == stage' = [stage EXCEPT ![s] = "admitted"] /\ Answer(s, "creating")

\* Mutant: the connection is closed without AccessDenied.
Refuse_Silent(s) == stage' = [stage EXCEPT ![s] = "denied"] /\ UNCHANGED phase

\* ... or ends with AccessDenied.
Refuse(s) == stage' = [stage EXCEPT ![s] = "denied"] /\ Answer(s, "denied")

Continue(s, st) == stage' = [stage EXCEPT ![s] = st] /\ UNCHANGED phase

\* negotiate_options reads the frame, validate_options checks it, and check_auth lets
\* the session pass where authentication is not configured.
negotiate_options(s) ==
    LET o == Deserialize(frame[s[1]])
    IN  /\ up = "listening"
        /\ stage[s] = "free"
        /\ frame[s[1]] # None
        /\ opts' = [opts EXCEPT ![s] = o]
        /\ IF o = Err THEN stage' = [stage EXCEPT ![s] = "failed"] /\ UNCHANGED phase
           ELSE IF ~validate_options(o) THEN Refuse(s)
           ELSE IF ~auth_configured THEN Admit(s)
           ELSE Continue(s, "auth")
        /\ UNCHANGED <<config, up, clock, conf, frame, now, seen, recorded>>

load_private_key_pem(f) == f.private /\ f.loads

\* The users by their lower-case name; Err if the file may be read by others, has a
\* line without a hash, or names a user twice.
load_authorized_users(f) ==
    LET line == f.lines
        name(i) == Lower[line[i].user]
    IN  IF \/ ~f.private
           \/ \E i \in DOMAIN line : line[i].hash = None
           \/ \E i, j \in DOMAIN line : i # j /\ name(i) = name(j)
        THEN Err
        ELSE {[user |-> name(i), hash |-> line[i].hash] : i \in DOMAIN line}

\* The token decrypts with the server's key and its user name is not malformed.  Its
\* time stamp and its hash always parse: build_authtoken formats both.
decode_authtoken_bytes(token) ==
    token.key = config.key.pair /\ token.username \notin BadName

\* |now - timestamp| <= skew.
validate_timestamp(token) ==
    clock <= token.timestamp + Skew /\ token.timestamp <= clock + Skew

authorize(token) ==
    [user |-> Lower[token.username], hash |-> token.hash]
        \in load_authorized_users(config.users)

Token(s) == opts[s].authtoken

\* check_auth_inner, up to the cache: the files, the token and its timestamp.
check_auth_inner(s) ==
    /\ stage[s] = "auth"
    /\ IF /\ load_private_key_pem(config.key)
          /\ load_authorized_users(config.users) # Err
          /\ Token(s) # None
          /\ decode_authtoken_bytes(Token(s))
          /\ validate_timestamp(Token(s))
       THEN Continue(s, "checked")
       ELSE Refuse(s)
    /\ UNCHANGED <<config, up, clock, conf, frame, opts, now, seen, recorded>>

\* check_and_record reads the clock before it takes the lock.
ReadClock(s) ==
    /\ stage[s] = "checked"
    /\ now' = [now EXCEPT ![s] = clock]
    /\ Continue(s, "clocked")
    /\ UNCHANGED <<config, up, clock, conf, frame, opts, seen, recorded>>

\* Mutant: entries are evicted one tick early.
Retained_Early(t0) == {t \in DOMAIN seen : seen[t] > t0 + 1}

\* seen.retain(...).
Retained(t0) == {t \in DOMAIN seen : seen[t] > t0}

Kept(t0) == [t \in Retained(t0) |-> seen[t]]

Record(t, t0) ==
    /\ seen' = [u \in Retained(t0) \cup {t} |-> IF u = t THEN t0 + Ttl ELSE seen[u]]
    /\ recorded' = [u \in DOMAIN recorded \cup {t} |->
                      IF u # t THEN recorded[u]
                      ELSE [times |-> 1 + (IF t \in DOMAIN recorded
                                           THEN recorded[t].times ELSE 0),
                            at |-> t0]]

\* The rest of check_and_record under the lock: expired entries go, a token that is
\* still there is refused, any other is recorded; then authorize decides.
check_and_record(s) ==
    LET t == Token(s)
    IN  /\ stage[s] = "clocked"
        /\ IF t \in Retained(now[s])
           THEN seen' = Kept(now[s]) /\ Refuse(s) /\ UNCHANGED recorded
           ELSE /\ Record(t, now[s])
                /\ IF authorize(t) THEN Admit(s) ELSE Refuse(s)
        /\ UNCHANGED <<config, up, clock, conf, frame, opts, now>>

-----------------------------------------------------------------------------
Serve(s) ==
    \/ negotiate_options(s)
    \/ check_auth_inner(s)
    \/ ReadClock(s)
    \/ check_and_record(s)

Next ==
    \/ Tick
    \/ run_server
    \/ \E c \in Client : \E cli \in Clis[c] : Launch(c, cli)
    \/ \E c \in Client : send_options(c)
    \/ \E c \in Client : \E f \in Frames[c] : SendForeign(c, f)
    \/ \E s \in Session : Serve(s)

\* A session takes its next step when it can; in particular the lock is granted.
Spec == Init /\ [][Next]_vars /\ \A s \in Session : WF_vars(Serve(s))

-----------------------------------------------------------------------------
(* Properties.                                                             *)

\* The test the server is about to run is the one the client was asked for on its
\* command line: after the trip through JSON, where defaults are left out, both
\* sides agree on transport, lengths, rate and limits, and one side's sender is the
\* other's receiver.  In a one-way test the client opens (parallel.max(1)) as many
\* streams as the server waits for; in a bidirectional one it opens twice as many.
AgreeOnTest ==
    \A c \in Client : phase[c] = "creating" /\ conf[c] # None =>
        LET k == conf[c]
            o == opts[<<c, 1>>]
        IN  /\ Agree(k, o)
            /\ k.direction # "bidirectional" => create_streams(k) = streams_awaited(o)

\* No arithmetic on the options goes wrong on either side.  The client never
\* checks its own numbers: it adds time and omit, doubles parallel and divides by
\* len in u32 once CreateStreams has come, and only the server's validate_options
\* stands between the command line and an overflow.
NumbersSafe ==
    /\ \A c \in Client : phase[c] = "creating" /\ conf[c] # None =>
         /\ conf[c].time + conf[c].omit <= U32Max
         /\ 2 * conf[c].parallel <= U32Max
         /\ conf[c].len # 0
    /\ \A s \in Session : stage[s] = "admitted" =>
         /\ opts[s].time + opts[s].omit <= MaxTime + MaxOmit
         /\ opts[s].parallel \in 1 .. MaxParallel

\* With --require-auth, and with both files configured even without it, a session is
\* admitted only on a token made with the server's key for a user of its file, and
\* only when the token has gone through the cache.
GateHolds ==
    \A s \in Session :
        stage[s] = "admitted" /\ (config.require_auth \/ auth_configured) =>
            /\ Token(s) # None
            /\ Token(s) \in DOMAIN recorded
            /\ decode_authtoken_bytes(Token(s))
            /\ load_private_key_pem(config.key)
            /\ authorize(Token(s))

\* check_and_record refuses a token it has recorded less than the cache's TTL ago,
\* although sessions read the clock before they take the lock, in any order.
NotTwiceWithinTtl ==
    [][\A t \in DOMAIN recorded :
         recorded'[t] # recorded[t] => clock >= recorded[t].at + Ttl]_vars

\* Every client whose options can be read is admitted or told that it is not.
Decided ==
    \A c \in Client :
        phase[c] = "sent" ~> phase[c] \in {"creating", "denied"} \/ stage[<<c, 1>>] = "failed"

-----------------------------------------------------------------------------
(* The inductive invariant behind the proofs (Admission_proofs).           *)

\* The frame c has sent says what its Config says.
Own(c) ==
    /\ Sound(conf[c])
    /\ LET o == Deserialize(frame[c])
       IN  o = ClientOptions(conf[c], o.authtoken)

ClientInv(c) ==
    /\ phase[c] \in {"new", "usage", "ready"} => frame[c] = None
    /\ phase[c] = "new" => conf[c] = None
    /\ phase[c] = "ready" => Sound(conf[c])
    /\ frame[c] # None => (conf[c] = None /\ frame[c] \in Frames[c]) \/ Own(c)
    /\ phase[c] = "creating" => stage[<<c, 1>>] = "admitted"

\* The files and the token have passed check_auth_inner up to the cache.
Loaded(s) ==
    /\ load_private_key_pem(config.key)
    /\ Token(s) # None
    /\ decode_authtoken_bytes(Token(s))

SessionInv(s) ==
    /\ stage[s] # "free" =>
         /\ up = "listening"
         /\ frame[s[1]] # None
         /\ opts[s] = Deserialize(frame[s[1]])
    /\ stage[s] \in {"auth", "checked", "clocked", "admitted"} => validate_options(opts[s])
    /\ stage[s] \in {"auth", "checked", "clocked", "denied", "admitted"} => opts[s] # Err
    /\ stage[s] \in {"auth", "checked", "clocked"} => auth_configured
    /\ stage[s] \in {"checked", "clocked"} => Loaded(s)
    /\ stage[s] = "admitted" =>
         ~auth_configured \/ (Loaded(s) /\ Token(s) \in DOMAIN recorded /\ authorize(Token(s)))

\* A token that has been recorded is in the cache until its time is over.
CacheInv ==
    /\ \A t \in DOMAIN recorded :
         \/ t \in DOMAIN seen /\ seen[t] = recorded[t].at + Ttl
         \/ clock >= recorded[t].at + Ttl
    /\ \A s \in Session : now[s] <= clock

AdmissionInv ==
    /\ TypeOK
    /\ DOMAIN conf = Client /\ DOMAIN frame = Client /\ DOMAIN opts = Session
    /\ up = "listening" => (config.require_auth => auth_configured)
    /\ \A c \in Client : ClientInv(c)
    /\ \A s \in Session : SessionInv(s)
    /\ CacheInv
=============================================================================
