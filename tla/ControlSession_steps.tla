------------------------ MODULE ControlSession_steps ------------------------
(***************************************************************************)
(* What one step of a test keeps: the types, the counters of client_loop,  *)
(* the order of the messages on the control channel, and the contract of   *)
(* its two ends.  Module ControlSession_proofs puts the steps together.    *)
(***************************************************************************)
EXTENDS ControlSession, Integers, TLAPS

-----------------------------------------------------------------------------
(* Queues of tokens.                                                       *)

\* What is in a queue when something joins it.
LEMMA HasConcat ==
    ASSUME NEW S, NEW p \in Seq(S), NEW q \in Seq(S), NEW x
    PROVE  Has(p \o q, x) <=> Has(p, x) \/ Has(q, x)
<1>1. ASSUME NEW i \in DOMAIN p PROVE i \in DOMAIN (p \o q) /\ (p \o q)[i] = p[i]
  OBVIOUS
<1>2. ASSUME NEW i \in DOMAIN q
      PROVE  Len(p) + i \in DOMAIN (p \o q) /\ (p \o q)[Len(p) + i] = q[i]
  OBVIOUS
<1>3. ASSUME NEW i \in DOMAIN (p \o q), i \notin DOMAIN p
      PROVE  i - Len(p) \in DOMAIN q /\ (p \o q)[i] = q[i - Len(p)]
  BY <1>3
<1> QED
  BY <1>1, <1>2, <1>3, Zenon DEF Has

\* What a queue holds after one more message has been sent.
LEMMA HasAppend ==
    ASSUME NEW S, NEW q \in Seq(S), NEW e \in S, NEW x
    PROVE  Has(Append(q, e), x) <=> Has(q, x) \/ e = x
<1>1. ASSUME NEW i \in DOMAIN q PROVE i \in DOMAIN Append(q, e) /\ Append(q, e)[i] = q[i]
  OBVIOUS
<1>2. Len(q) + 1 \in DOMAIN Append(q, e) /\ Append(q, e)[Len(q) + 1] = e
  OBVIOUS
<1>3. ASSUME NEW i \in DOMAIN Append(q, e), i # Len(q) + 1 PROVE i \in DOMAIN q
  BY <1>3
<1> QED
  BY <1>1, <1>2, <1>3, Zenon DEF Has

\* What is in a queue when its head leaves.
LEMMA HasTail ==
    ASSUME NEW S, NEW q \in Seq(S), q # <<>>
    PROVE  /\ Tail(q) \in Seq(S)
           /\ Head(q) \in S
           /\ Has(q, Head(q))
           /\ \A x : Has(Tail(q), x) => Has(q, x)
           /\ \A x : Has(q, x) /\ Head(q) # x => Has(Tail(q), x)
<1>1. Tail(q) \in Seq(S) /\ Head(q) \in S /\ 1 \in DOMAIN q /\ q[1] = Head(q)
  OBVIOUS
<1>2. ASSUME NEW i \in DOMAIN Tail(q) PROVE i + 1 \in DOMAIN q /\ Tail(q)[i] = q[i + 1]
  OBVIOUS
<1>3. ASSUME NEW i \in DOMAIN q, i # 1 PROVE i - 1 \in DOMAIN Tail(q) /\ Tail(q)[i - 1] = q[i]
  BY <1>3
<1> QED
  BY <1>1, <1>2, <1>3, Zenon DEF Has

\* What is in the short queues that are sent at once.
LEMMA HasNone == \A x : ~Has(<<>>, x)
<1>1. DOMAIN <<>> = {}
  OBVIOUS
<1> QED
  BY <1>1, Zenon DEF Has

\* What the server sends in one go: one, two or three messages.
LEMMA HasOne == \A a, x : Has(<<a>>, x) <=> a = x
<1>1. \A a : DOMAIN <<a>> = {1} /\ <<a>>[1] = a
  OBVIOUS
<1> QED
  BY <1>1, Zenon DEF Has

\* Two messages hold these two and nothing else.
LEMMA HasTwo == \A a, b, x : Has(<<a, b>>, x) <=> a = x \/ b = x
<1>1. \A a, b : DOMAIN <<a, b>> = {1, 2} /\ <<a, b>>[1] = a /\ <<a, b>>[2] = b
  OBVIOUS
<1> QED
  BY <1>1 DEF Has

\* Three messages hold these three and nothing else.
LEMMA HasThree == \A a, b, c, x : Has(<<a, b, c>>, x) <=> a = x \/ b = x \/ c = x
<1>1. \A a, b, c : DOMAIN <<a, b, c>> = {1, 2, 3}
  OBVIOUS
<1>2. \A a, b, c : <<a, b, c>>[1] = a /\ <<a, b, c>>[2] = b /\ <<a, b, c>>[3] = c
  OBVIOUS
<1> QED
  BY <1>1, <1>2 DEF Has

\* An order of two messages outlives whatever joins the queue, and the departure
\* of any other message than the first of the two.
LEMMA BeforeConcat ==
    ASSUME NEW S, NEW p \in Seq(S), NEW q \in Seq(S), NEW x, NEW y,
           Before(p, x, y), Has(q, y) => Has(p, x)
    PROVE  Before(p \o q, x, y)
<1> SUFFICES ASSUME NEW i \in DOMAIN (p \o q), (p \o q)[i] = y
             PROVE  \E j \in 1 .. i - 1 : (p \o q)[j] = x
  BY DEF Before
<1>1. CASE i \in DOMAIN p
  <2>1. p[i] = y
    BY <1>1
  <2>2. PICK j \in 1 .. i - 1 : p[j] = x
    BY <1>1, <2>1, Zenon DEF Before
  <2>3. (p \o q)[j] = x
    BY <1>1, <2>2
  <2> QED
    BY <2>3, Zenon
<1>2. CASE i \notin DOMAIN p
  <2>1. i - Len(p) \in DOMAIN q /\ q[i - Len(p)] = y /\ i > Len(p)
    BY <1>2
  <2>2. PICK j \in DOMAIN p : p[j] = x
    BY <2>1, Zenon DEF Has
  <2>3. j \in 1 .. i - 1 /\ (p \o q)[j] = x
    BY <2>1, <2>2
  <2> QED
    BY <2>3, Zenon
<1> QED
  BY <1>1, <1>2, Zenon

\* When messages come in order, the later one is not at the head of the queue, and taking
\* another one off keeps the order.
LEMMA BeforeTail ==
    ASSUME NEW S, NEW q \in Seq(S), q # <<>>, NEW x, NEW y, Before(q, x, y)
    PROVE  /\ Head(q) # y
           /\ Head(q) # x => Before(Tail(q), x, y)
<1>1. 1 \in DOMAIN q /\ q[1] = Head(q)
  OBVIOUS
<1>2. Head(q) # y
  <2>1. 1 .. 1 - 1 = {}
    OBVIOUS
  <2> QED
    BY <1>1, <2>1, Zenon DEF Before
<1>3. ASSUME Head(q) # x, NEW i \in DOMAIN Tail(q), Tail(q)[i] = y
      PROVE  \E j \in 1 .. i - 1 : Tail(q)[j] = x
  <2>1. i + 1 \in DOMAIN q /\ q[i + 1] = y
    BY <1>3
  <2>2. PICK j \in 1 .. (i + 1) - 1 : q[j] = x
    BY <2>1, Zenon DEF Before
  <2>3. j # 1
    BY <1>1, <1>3, <2>2
  <2>4. j - 1 \in 1 .. i - 1 /\ Tail(q)[j - 1] = x
    BY <1>3, <2>1, <2>2, <2>3
  <2> QED
    BY <2>4, Zenon
<1> QED
  BY <1>2, <1>3, Zenon DEF Before

\* A single CreateStreams, and the place of SetDataPort, outlive other messages
\* that join and the head that leaves.
LEMMA OnceConcat ==
    ASSUME NEW S, NEW p \in Seq(S), NEW q \in Seq(S), NEW x, Once(p, x), ~Has(q, x)
    PROVE  Once(p \o q, x)
<1>1. ASSUME NEW i \in DOMAIN (p \o q), (p \o q)[i] = x PROVE i \in DOMAIN p /\ p[i] = x
  <2>1. CASE i \in DOMAIN p
    BY <1>1, <2>1
  <2>2. CASE i \notin DOMAIN p
    <3>1. i - Len(p) \in DOMAIN q /\ q[i - Len(p)] = x
      BY <1>1, <2>2
    <3> QED
      BY <3>1, Zenon DEF Has
  <2> QED
    BY <2>1, <2>2, Zenon
<1> QED
  BY <1>1, Zenon DEF Once

\* A message that is there once is gone when it has been taken.
LEMMA OnceTail ==
    ASSUME NEW S, NEW q \in Seq(S), q # <<>>, NEW x, Once(q, x)
    PROVE  Once(Tail(q), x) /\ (Head(q) = x => ~Has(Tail(q), x))
<1>1. ASSUME NEW i \in DOMAIN Tail(q) PROVE i + 1 \in DOMAIN q /\ Tail(q)[i] = q[i + 1] /\ i + 1 # 1
  OBVIOUS
<1>2. 1 \in DOMAIN q /\ q[1] = Head(q)
  OBVIOUS
<1>3. Head(q) = x => ~Has(Tail(q), x)
  BY <1>1, <1>2, Zenon DEF Once, Has
<1>4. ASSUME NEW i \in DOMAIN Tail(q), NEW j \in DOMAIN Tail(q), Tail(q)[i] = x, Tail(q)[j] = x
      PROVE  i = j
  <2>1. i + 1 = j + 1
    BY <1>1, <1>4, Zenon DEF Once
  <2> QED
    BY <2>1
<1> QED
  BY <1>3, <1>4, Zenon DEF Once

\* A port still follows its SetDataPort when more messages are sent.
LEMMA PortNextConcat ==
    ASSUME NEW S, NEW p \in Seq(S), NEW q \in Seq(S), PortNext(p), ~Has(q, "SetDataPort")
    PROVE  PortNext(p \o q)
<1> SUFFICES ASSUME NEW i \in DOMAIN (p \o q), (p \o q)[i] = "SetDataPort"
             PROVE  i = 1 /\ Len(p \o q) > 1 /\ (p \o q)[2] = "port"
  BY DEF PortNext
<1>1. CASE i \in DOMAIN p
  <2>1. p[i] = "SetDataPort"
    BY <1>1
  <2>2. i = 1 /\ Len(p) > 1 /\ p[2] = "port"
    BY <1>1, <2>1, Zenon DEF PortNext
  <2> QED
    BY <2>2
<1>2. CASE i \notin DOMAIN p
  <2>1. i - Len(p) \in DOMAIN q /\ q[i - Len(p)] = "SetDataPort"
    BY <1>2
  <2> QED
    BY <2>1, Zenon DEF Has
<1> QED
  BY <1>1, <1>2, Zenon

\* Nothing but SetDataPort is taken off the queue before its port.
LEMMA PortNextTail ==
    ASSUME NEW S, NEW q \in Seq(S), q # <<>>, PortNext(q)
    PROVE  ~Has(Tail(q), "SetDataPort") /\ PortNext(Tail(q))
<1>1. ASSUME NEW i \in DOMAIN Tail(q) PROVE i + 1 \in DOMAIN q /\ Tail(q)[i] = q[i + 1] /\ i + 1 # 1
  OBVIOUS
<1> QED
  BY <1>1, Zenon DEF PortNext, Has

-----------------------------------------------------------------------------
(* Types.                                                                  *)

\* TypeOK without the bounds of the counters, which follow from Counts.
Types ==
    /\ cfg \in Configs
    /\ c2s \in Seq(Token)
    /\ s2c \in Seq(Token)
    /\ spc \in {"start", "options", "collect", "run", "await_results", "final", "ok", "err"}
    /\ plan \in Seq(Wait)
    /\ conns \subseteq Used
    /\ arrivals \in Seq(Used)
    /\ cpc \in {"recv", "drain", "poll", "results", "done"}
    /\ th \in [Used -> {"none", "start", "open", "receipt", "notified", "closed"}]
    /\ receiptQ \in Nat /\ endQ \in Nat /\ receipts \in Nat /\ finished \in Nat
    /\ testEndSent \in BOOLEAN
    /\ gotResults \in BOOLEAN
    /\ gone \in {"no", "killed", "silent"}
    /\ report \in Nat \cup {None}

\* The messages the two ends send are sequences of tokens.
LEMMA TokenSeqs ==
    /\ <<>> \in Seq(Token)
    /\ <<"ParamExchange">> \in Seq(Token)
    /\ <<"AccessDenied">> \in Seq(Token)
    /\ <<"CreateStreams">> \in Seq(Token)
    /\ <<"SetDataPort", "port", "CreateStreams">> \in Seq(Token)
    /\ <<"TestStart", "TestRunning">> \in Seq(Token)
    /\ <<"ExchangeResults", "json">> \in Seq(Token)
    /\ <<"DisplayResults">> \in Seq(Token)
    /\ {"ParamExchange", "CreateStreams", "SetDataPort", "TestStart", "TestRunning", "TestEnd",
        "ExchangeResults", "DisplayResults", "IperfDone", "AccessDenied", "json", "port"} \subseteq Token
<1>1. {"ParamExchange", "CreateStreams", "SetDataPort", "TestStart", "TestRunning", "TestEnd",
       "ExchangeResults", "DisplayResults", "IperfDone", "AccessDenied", "json", "port"} \subseteq Token
  BY DEF Token, ControlByte
<1> QED
  BY <1>1

\* While cfg stays, so do the threads of the test.
LEMMA UsedStays == ASSUME cfg' = cfg PROVE Used' = Used
BY Zenon DEF Used

\* The session's plans.
LEMMA PlanType ==
    ASSUME cfg \in Config
    PROVE  Plan \in Seq(Wait) /\ (Has(Plan, "end!") \/ Has(Plan, "end?"))
<1>1. Plan \in {<<"senders", "end?", "end?">>, <<"senders", "end?">>, <<"end!", "readers">>,
               <<"end!", "readers", "senders">>, <<"end!", "receiver">>, <<"senders", "end?", "receiver">>}
  BY Zenon DEF Plan, ReversePlan, Config, Direction
<1>2. /\ <<"senders", "end?", "end?">> \in Seq(Wait) /\ <<"senders", "end?">> \in Seq(Wait)
      /\ <<"end!", "readers">> \in Seq(Wait) /\ <<"end!", "readers", "senders">> \in Seq(Wait)
      /\ <<"end!", "receiver">> \in Seq(Wait) /\ <<"senders", "end?", "receiver">> \in Seq(Wait)
  BY DEF Wait
<1>3. /\ Has(<<"senders", "end?", "end?">>, "end?") /\ Has(<<"senders", "end?">>, "end?")
      /\ Has(<<"end!", "readers">>, "end!") /\ Has(<<"end!", "readers", "senders">>, "end!")
      /\ Has(<<"end!", "receiver">>, "end!") /\ Has(<<"senders", "end?", "receiver">>, "end?")
  BY HasTwo, HasThree, Zenon
<1> QED
  BY <1>1, <1>2, <1>3, Zenon

\* What queue operations make of sequences.
LEMMA SeqFacts ==
    ASSUME NEW S
    PROVE  /\ <<>> \in Seq(S)
           /\ \A p, q \in Seq(S) : p \o q \in Seq(S)
           /\ \A p \in Seq(S), e \in S : Append(p, e) \in Seq(S)
           /\ \A p \in Seq(S) : p # <<>> => Tail(p) \in Seq(S) /\ Head(p) \in S
OBVIOUS

\* Every action keeps the types: the session's.
LEMMA ServerTypes ==
    ASSUME Types, Server
    PROVE  Types' /\ cfg' = cfg
<1> USE DEF Types, SStep, ToClient, sVars, cVars, tVars
<1>0. cfg \in Config
  BY ControlAssumption, Zenon
<1>1. CASE SendParams
  <2>1. s2c' \in Seq(Token)
    BY <1>1, SeqFacts, TokenSeqs, Zenon DEF SendParams
  <2> QED
    BY <1>1, <2>1, UsedStays, Zenon DEF SendParams
<1>2. CASE RecvOptions
  <2>1. CASE cfg.reject
    <3>0. c2s # <<>> /\ c2s' = Tail(c2s) /\ s2c' = s2c \o <<"AccessDenied">>
      BY <1>2, <2>1, Zenon DEF RecvOptions
    <3>1. s2c' \in Seq(Token) /\ c2s' \in Seq(Token)
      BY <3>0, SeqFacts, TokenSeqs, Zenon
    <3> QED
      BY <1>2, <2>1, <3>1, UsedStays, Zenon DEF RecvOptions
  <2>2. CASE ~cfg.reject
    <3>1. /\ c2s # <<>> /\ c2s' = Tail(c2s)
          /\ s2c' \in {s2c \o <<"SetDataPort", "port", "CreateStreams">>, s2c \o <<"CreateStreams">>}
      BY <1>2, <2>2, Zenon DEF RecvOptions
    <3>2. /\ s2c \o <<"SetDataPort", "port", "CreateStreams">> \in Seq(Token)
          /\ s2c \o <<"CreateStreams">> \in Seq(Token)
      BY SeqFacts, TokenSeqs, Zenon
    <3>3. s2c' \in Seq(Token) /\ c2s' \in Seq(Token)
      BY <3>1, <3>2, SeqFacts, Zenon
    <3> QED
      BY <1>2, <2>2, <3>3, UsedStays, Zenon DEF RecvOptions
  <2> QED
    BY <2>1, <2>2, Zenon
<1>3. CASE Collect
  <2>1. arrivals' \in Seq(Used) /\ conns' \subseteq Used
    BY <1>3, SeqFacts, Zenon DEF Collect
  <2>0. s2c' \in {s2c, s2c \o <<"TestStart", "TestRunning">>} /\ plan' \in {plan, Plan}
    BY <1>3, Zenon DEF Collect
  <2>2. s2c' \in Seq(Token) /\ plan' \in Seq(Wait)
    <3>1. s2c \o <<"TestStart", "TestRunning">> \in Seq(Token) /\ Plan \in Seq(Wait)
      BY <1>0, SeqFacts, TokenSeqs, PlanType, Zenon
    <3> QED
      BY <2>0, <3>1, Zenon
  <2>3. spc' \in {"collect", "run"}
    BY <1>3, Zenon DEF Collect
  <2> QED
    BY <1>3, <2>1, <2>2, <2>3, UsedStays, Zenon DEF Collect
<1>4. CASE CollectTimeout \/ HandshakeFails \/ ResultsOutOfSync
  <2>1. spc' = "err" /\ UNCHANGED <<cfg, c2s, s2c, plan, conns, arrivals, cVars, tVars, gone>>
    BY <1>4, Zenon DEF CollectTimeout, HandshakeFails, ResultsOutOfSync
  <2> QED
    BY <2>1, UsedStays, Zenon
<1>5. CASE AwaitTestEnd
  <2>1. plan # <<>> /\ Tail(plan) \in Seq(Wait) /\ c2s' \in Seq(Token)
    BY <1>5, SeqFacts, Zenon DEF AwaitTestEnd, Waiting
  <2>2. spc' \in {"run", "err"} /\ plan' \in {plan, Tail(plan)} /\ cfg' = cfg /\ UNCHANGED <<arrivals, cVars, tVars, gone>>
    BY <1>5, Zenon DEF AwaitTestEnd, EndFails
  <2> QED
    BY <1>5, <2>1, <2>2, UsedStays, Zenon DEF AwaitTestEnd
<1>6. CASE AwaitTestEndFails
  <2>1. plan # <<>> /\ Tail(plan) \in Seq(Wait)
    BY <1>6, SeqFacts, Zenon DEF AwaitTestEndFails, Waiting
  <2>2. spc' \in {"run", "err"} /\ plan' \in {plan, Tail(plan)} /\ cfg' = cfg /\ UNCHANGED <<arrivals, cVars, tVars, gone>>
    BY <1>6, Zenon DEF AwaitTestEndFails, EndFails
  <2> QED
    BY <1>6, <2>1, <2>2, UsedStays, Zenon DEF AwaitTestEndFails
<1>7. CASE Join
  <2>1. plan # <<>> /\ Tail(plan) \in Seq(Wait)
    BY <1>7, SeqFacts, Zenon DEF Join, Waiting
  <2> QED
    BY <1>7, <2>1, UsedStays, Zenon DEF Join
<1>8. CASE ExchangeResults
  <2>1. s2c' \in Seq(Token)
    BY <1>8, SeqFacts, TokenSeqs, Zenon DEF ExchangeResults
  <2> QED
    BY <1>8, <2>1, UsedStays, Zenon DEF ExchangeResults
<1>9. CASE RecvResults
  <2>1. s2c' \in Seq(Token) /\ c2s' \in Seq(Token)
    BY <1>9, SeqFacts, TokenSeqs, Zenon DEF RecvResults
  <2> QED
    BY <1>9, <2>1, UsedStays, Zenon DEF RecvResults
<1>10. CASE ResultsFail
  <2>0. s2c' \in {s2c, s2c \o <<"DisplayResults">>} /\ c2s' \in {c2s, <<>>}
    BY <1>10, Zenon DEF ResultsFail
  <2>1. s2c' \in Seq(Token) /\ c2s' \in Seq(Token)
    <3>1. s2c \o <<"DisplayResults">> \in Seq(Token) /\ <<>> \in Seq(Token)
      BY SeqFacts, TokenSeqs, Zenon
    <3> QED
      BY <2>0, <3>1, Zenon
  <2>2. spc' \in {"final", "err"} /\ cfg' = cfg /\ UNCHANGED <<arrivals, cVars, tVars, gone>>
    BY <1>10, Zenon DEF ResultsFail
  <2> QED
    BY <1>10, <2>1, <2>2, UsedStays, Zenon DEF ResultsFail
<1>11. CASE AwaitDone
  <2>1. c2s' \in Seq(Token) /\ spc' \in {"ok", "err", "final"}
    BY <1>11, SeqFacts, Zenon DEF AwaitDone
  <2> QED
    BY <1>11, <2>1, UsedStays, Zenon DEF AwaitDone
<1>12. CASE AwaitDoneFails
  <2>1. spc' \in {"ok", "err"}
    BY <1>12, Zenon DEF AwaitDoneFails
  <2> QED
    BY <1>12, <2>1, UsedStays, Zenon DEF AwaitDoneFails
<1> QED
  BY <1>1, <1>2, <1>3, <1>4, <1>5, <1>6, <1>7, <1>8, <1>9, <1>10, <1>11, <1>12, Zenon DEF Server

\* A port number always follows the SetDataPort byte.
LEMMA PortFollows ==
    ASSUME Types, Sent, s2c # <<>>, Head(s2c) = "SetDataPort"
    PROVE  /\ Tail(s2c) # <<>> /\ Head(Tail(s2c)) = "port"
           /\ Tail(Tail(s2c)) \in Seq(Token)
<1>1. s2c \in Seq(Token) /\ 1 \in DOMAIN s2c /\ s2c[1] = "SetDataPort"
  BY DEF Types
<1>2. Len(s2c) > 1 /\ s2c[2] = "port"
  BY <1>1, Zenon DEF Sent, PortNext
<1>3. Tail(s2c) \in Seq(Token) /\ Len(Tail(s2c)) = Len(s2c) - 1
  BY <1>1, <1>2
<1>4. Tail(s2c) # <<>>
  <2>1. Len(<<>>) = 0 /\ Len(Tail(s2c)) # 0
    BY <1>1, <1>2, <1>3
  <2> QED
    BY <2>1, Zenon
<1>5. Head(Tail(s2c)) = Tail(s2c)[1] /\ Tail(s2c)[1] = s2c[2]
  BY <1>1, <1>2, <1>3, <1>4
<1>6. Tail(Tail(s2c)) \in Seq(Token)
  BY <1>3, <1>4, SeqFacts, Zenon
<1> QED
  BY <1>2, <1>4, <1>5, <1>6, Zenon

\* The client's main loop.
LEMMA ClientTypes ==
    ASSUME Types, Sent, Client
    PROVE  Types' /\ cfg' = cfg
<1> USE DEF Types, CAt, CUnchanged, sVars, tVars
<1>1. CASE RecvNothing
  BY <1>1, UsedStays, Zenon DEF RecvNothing
<1>2. CASE HandleParamExchange
  <2>1. s2c' \in Seq(Token) /\ c2s' \in Seq(Token)
    BY <1>2, SeqFacts, TokenSeqs, Zenon DEF HandleParamExchange, Handle
  <2> QED
    BY <1>2, <2>1, UsedStays, Zenon DEF HandleParamExchange, Handle
<1>3. CASE HandleSetDataPort
  <2>1. s2c' \in Seq(Token)
    BY <1>3, PortFollows, Zenon DEF HandleSetDataPort, Handle
  <2> QED
    BY <1>3, <2>1, UsedStays, Zenon DEF HandleSetDataPort, Handle
<1>4. CASE HandleCreateStreams
  <2>1. s2c' \in Seq(Token)
    BY <1>4, SeqFacts, Zenon DEF HandleCreateStreams, Handle
  <2>2. th' \in [Used -> {"none", "start", "open", "receipt", "notified", "closed"}]
    BY <1>4, Zenon DEF HandleCreateStreams
  <2> QED
    BY <1>4, <2>1, <2>2, UsedStays, Zenon DEF HandleCreateStreams, Handle
<1>5. CASE HandleTestState
  <2>1. s2c' \in Seq(Token)
    BY <1>5, SeqFacts, Zenon DEF HandleTestState, Handle
  <2> QED
    BY <1>5, <2>1, UsedStays, Zenon DEF HandleTestState, Handle
<1>6. receipts + receiptQ \in Nat /\ 0 \in Nat
  OBVIOUS
<1>7. CASE HandleExchangeResults
  <2>1. s2c' \in Seq(Token) /\ c2s' \in Seq(Token)
    BY <1>7, SeqFacts, TokenSeqs, Zenon DEF HandleExchangeResults, Handle
  <2> QED
    BY <1>6, <1>7, <2>1, UsedStays, Zenon DEF HandleExchangeResults, Handle
<1>8. CASE HandleDisplayResults
  <2>1. s2c' \in Seq(Token) /\ c2s' \in Seq(Token)
    BY <1>8, SeqFacts, TokenSeqs, Zenon DEF HandleDisplayResults, Handle
  <2> QED
    BY <1>6, <1>8, <2>1, UsedStays, Zenon DEF HandleDisplayResults, Handle
<1>9. CASE HandleAccessDenied
  <2>1. s2c' \in Seq(Token)
    BY <1>9, SeqFacts, Zenon DEF HandleAccessDenied, Handle
  <2> QED
    BY <1>6, <1>9, <2>1, UsedStays, Zenon DEF HandleAccessDenied, Handle
<1>10. CASE ReadResults
  <2>1. s2c' \in Seq(Token) /\ gotResults' \in BOOLEAN
    BY <1>10, SeqFacts, Zenon DEF ReadResults
  <2> QED
    BY <1>10, <2>1, UsedStays, Zenon DEF ReadResults
<1>11. CASE Drain
  BY <1>6, <1>11, UsedStays, Zenon DEF Drain
<1>12. CASE Poll
  <2>1. endQ' \in Nat /\ finished' \in Nat
    BY <1>12 DEF Poll
  <2>2. c2s' \in {c2s, Append(c2s, "TestEnd")} /\ testEndSent' \in {testEndSent, TRUE}
    BY <1>12, Zenon DEF Poll
  <2>3. Append(c2s, "TestEnd") \in Seq(Token)
    BY SeqFacts, TokenSeqs, Zenon
  <2>4. c2s' \in Seq(Token) /\ testEndSent' \in BOOLEAN
    BY <2>2, <2>3, Zenon
  <2> QED
    BY <1>12, <2>1, <2>4, UsedStays, Zenon DEF Poll
<1> QED
  BY <1>1, <1>2, <1>3, <1>4, <1>5, <1>7, <1>8, <1>9, <1>10, <1>11, <1>12, Zenon DEF Client

\* The stream threads.
LEMMA ThreadTypes ==
    ASSUME Types, NEW t \in Used, Threads(t)
    PROVE  Types' /\ cfg' = cfg
<1> USE DEF Types, TStep, sVars, cVars
<1>1. /\ th' \in [Used -> {"none", "start", "open", "receipt", "notified", "closed"}]
      /\ UNCHANGED <<cfg, c2s, s2c, sVars, cVars, gone>>
  <2>1. ASSUME NEW v \in {"none", "start", "open", "receipt", "notified", "closed"}
        PROVE  [th EXCEPT ![t] = v] \in [Used -> {"none", "start", "open", "receipt", "notified", "closed"}]
    BY Zenon
  <2> QED
    BY <2>1, Zenon DEF Threads, Open, OpenLost, Finish, ConnectFails, Notify, Close
<1>2. receiptQ' \in Nat /\ endQ' \in Nat
  <2>1. receiptQ' \in {receiptQ, receiptQ + 1} /\ endQ' \in {endQ, endQ + 1}
    BY Zenon DEF Threads, Open, OpenLost, Finish, ConnectFails, Notify, Close
  <2>2. receiptQ + 1 \in Nat /\ endQ + 1 \in Nat
    OBVIOUS
  <2> QED
    BY <2>1, <2>2, Zenon
<1>3. arrivals' \in {arrivals, Append(arrivals, t)}
  BY Zenon DEF Threads, Open, OpenLost, Finish, ConnectFails, Notify, Close
<1>4. arrivals' \in Seq(Used)
  <2>1. Append(arrivals, t) \in Seq(Used)
    BY SeqFacts, Zenon
  <2> QED
    BY <1>3, <2>1, Zenon
<1> QED
  BY <1>1, <1>2, <1>4, UsedStays, Zenon

-----------------------------------------------------------------------------
(* Counts.                                                                 *)

\* Counts only depends on the threads and the counters.
LEMMA CountsStay ==
    ASSUME Counts, UNCHANGED <<cfg, th, receiptQ, endQ, receipts, finished, testEndSent>>
    PROVE  Counts'
<1>1. Used' = Used
  BY UsedStays, Zenon
<1>2. Reported' = Reported /\ Notified' = Notified
  BY <1>1, Zenon DEF Reported, Notified
<1> QED
  BY <1>1, <1>2, Zenon DEF Counts

\* drain_receipts moves receipts from the channel to test.receipts.
LEMMA CountsDrained ==
    ASSUME Types, Counts, UNCHANGED <<cfg, th, endQ, finished, testEndSent>>,
           receipts' = receipts + receiptQ, receiptQ' = 0
    PROVE  Counts'
<1>1. Used' = Used
  BY UsedStays, Zenon
<1>2. Reported' = Reported /\ Notified' = Notified
  BY <1>1, Zenon DEF Reported, Notified
<1>3. receipts' + receiptQ' = receipts + receiptQ
  BY DEF Types
<1> QED
  BY <1>1, <1>2, <1>3, Zenon DEF Counts

\* client_loop moves receipts and end messages from the queues to its own counters.
LEMMA CountsClient ==
    ASSUME Types, Counts, Sent, Client, Cardinality(Used) \in Nat
    PROVE  Counts'
<1> USE DEF CUnchanged, Handle, tVars
<1>1. CASE RecvNothing \/ HandleParamExchange \/ HandleSetDataPort \/ HandleTestState \/ ReadResults
  BY <1>1, CountsStay, Zenon
     DEF RecvNothing, HandleParamExchange, HandleSetDataPort, HandleTestState, ReadResults
<1>2. CASE HandleExchangeResults \/ HandleDisplayResults \/ HandleAccessDenied \/ Drain
  BY <1>2, CountsDrained, Zenon
     DEF HandleExchangeResults, HandleDisplayResults, HandleAccessDenied, Drain
<1>3. CASE HandleCreateStreams
  <2>1. Used' = Used
    BY <1>3, UsedStays, Zenon DEF HandleCreateStreams
  <2>2. NotStarted
    <3>1. Has(s2c, "CreateStreams")
      BY <1>3, HasTail, Zenon DEF HandleCreateStreams, Types
    <3> QED
      BY <3>1, Zenon DEF Sent
  <2>3. Reported = {} /\ Notified = {}
    BY <2>2, Zenon DEF Reported, Notified, NotStarted
  <2>4. Reported' = {} /\ Notified' = {}
    BY <1>3, <2>1, Zenon DEF HandleCreateStreams, Reported, Notified
  <2> QED
    BY <1>3, <2>1, <2>3, <2>4, Zenon DEF HandleCreateStreams, Counts
<1>4. CASE Poll
  <2>1. Used' = Used
    BY <1>4, UsedStays, Zenon DEF Poll
  <2>2. Reported' = Reported /\ Notified' = Notified
    BY <1>4, <2>1, Zenon DEF Poll, Reported, Notified
  <2>3. finished' + endQ' = finished + endQ /\ finished' >= finished
    <3>1. \/ endQ' = endQ /\ finished' = finished
          \/ endQ # 0 /\ endQ' = endQ - 1 /\ finished' = finished + 1
      BY <1>4, Zenon DEF Poll
    <3> QED
      BY <3>1 DEF Types
  <2>4. testEndSent' => testEndSent \/ finished' >= Cardinality(Used)
    BY <1>4, Zenon DEF Poll, AllFinished
  <2>5. testEndSent' => finished' >= Cardinality(Used)
    <3>1. ASSUME testEndSent PROVE finished' >= Cardinality(Used)
      <4>1. finished >= Cardinality(Used)
        BY <3>1, Zenon DEF Counts
      <4>2. finished \in Nat /\ finished' \in Nat /\ Cardinality(Used) \in Nat
        BY <1>4, ClientTypes, Zenon DEF Client, Types
      <4> QED
        BY <2>3, <4>1, <4>2
    <3> QED
      BY <2>4, <3>1, Zenon
  <2> QED
    BY <1>4, <2>1, <2>2, <2>3, <2>5, Zenon DEF Poll, Counts
<1> QED
  BY <1>1, <1>2, <1>3, <1>4, Zenon DEF Client

-----------------------------------------------------------------------------
(* The order of the messages.                                              *)

Order == Talk /\ Sent /\ ResultsFirst /\ Calm

\* A step that leaves the control channel and both its ends where they are.
LEMMA QuietStep ==
    ASSUME Order, UNCHANGED <<cfg, c2s, s2c, spc, plan, testEndSent, gotResults, gone>>,
           cpc' = "done" <=> cpc = "done", NotStarted => NotStarted'
    PROVE  Order'
<1>1. Talk'
  BY Zenon DEF Order, Talk
<1>2. Sent'
  BY Zenon DEF Order, Sent
<1>3. ResultsFirst'
  BY Zenon DEF Order, ResultsFirst
<1>4. Calm'
  BY Zenon DEF Order, Calm
<1> QED
  BY <1>1, <1>2, <1>3, <1>4, Zenon DEF Order

\* The threads have not started as long as no thread does anything.
LEMMA NotStartedStays ==
    ASSUME UNCHANGED <<cfg, th>>
    PROVE  NotStarted => NotStarted'
BY UsedStays, Zenon DEF NotStarted

\* The session gives up.
LEMMA ErrStep ==
    ASSUME Order, spc' = "err",
           UNCHANGED <<cfg, s2c, cpc, th, testEndSent, gotResults, gone>>,
           Has(c2s', "IperfDone") => Has(c2s, "IperfDone")
    PROVE  Order'
<1>1. Talk'
  BY Zenon DEF Order, Talk
<1>2. Sent'
  BY NotStartedStays, Zenon DEF Order, Sent, Ended
<1>3. ResultsFirst'
  BY Zenon DEF Order, ResultsFirst, Ended
<1>4. Calm'
  BY Zenon DEF Order, Calm
<1> QED
  BY <1>1, <1>2, <1>3, <1>4, Zenon DEF Order

\* The client reads a message and answers nothing yet.
LEMMA SentTail ==
    ASSUME Types, Sent, s2c # <<>>, s2c' = Tail(s2c), spc' = spc,
           Has(Tail(s2c), "CreateStreams") /\ NotStarted => NotStarted'
    PROVE  Sent'
<1>1. \A x : Has(Tail(s2c), x) => Has(s2c, x)
  BY HasTail, Zenon DEF Types
<1>2. Once(Tail(s2c), "CreateStreams") /\ PortNext(Tail(s2c))
  BY OnceTail, PortNextTail, Zenon DEF Types, Sent
<1> QED
  BY <1>1, <1>2, Zenon DEF Sent

\* Reading a message does not disturb Calm.
LEMMA CalmTail ==
    ASSUME Types, Calm, s2c # <<>>, s2c' = Tail(s2c),
           UNCHANGED <<cfg, spc, plan, testEndSent, gone>>,
           c2s' = c2s \/ spc \notin {"run", "await_results"}
    PROVE  Calm'
<1>1. Has(s2c', "ExchangeResults") => Has(s2c, "ExchangeResults")
  BY HasTail, Zenon DEF Types
<1>2. CASE c2s' = c2s
  BY <1>1, <1>2, Zenon DEF Calm
<1>3. CASE spc \notin {"run", "await_results"}
  BY <1>1, <1>3, Zenon DEF Calm
<1> QED
  BY <1>2, <1>3, Zenon

\* Reading anything but the Results leaves them before DisplayResults.
LEMMA ResultsFirstTail ==
    ASSUME Types, ResultsFirst, s2c # <<>>, Head(s2c) # "json", s2c' = Tail(s2c),
           UNCHANGED <<spc, gotResults, gone>>, cpc' = "done" <=> cpc = "done"
    PROVE  ResultsFirst'
<1>1. Has(s2c, "json") => Has(Tail(s2c), "json")
  BY HasTail, Zenon DEF Types
<1>2. Before(s2c, "json", "DisplayResults") => Before(Tail(s2c), "json", "DisplayResults")
  BY BeforeTail, Zenon DEF Types
<1> QED
  BY <1>1, <1>2, Zenon DEF ResultsFirst

\* The session sends m: it is not about to name a port or ask for streams.
LEMMA SentConcat ==
    ASSUME Types, Sent, NEW m \in Seq(Token), s2c' = s2c \o m,
           ~Has(m, "CreateStreams"), ~Has(m, "SetDataPort")
    PROVE  /\ Once(s2c', "CreateStreams") /\ PortNext(s2c')
           /\ \A x : Has(s2c', x) <=> Has(s2c, x) \/ Has(m, x)
BY HasConcat, OnceConcat, PortNextConcat, Zenon DEF Types, Sent

\* ParamExchange is the first word of the session.
LEMMA SendParamsOrder ==
    ASSUME Types, Order, SendParams
    PROVE  Order'
<1> USE DEF Order, SStep, ToClient, cVars, tVars
<1> DEFINE m == <<"ParamExchange">>
<1>1. /\ spc = "start" /\ spc' = "options" /\ s2c = <<>> /\ c2s = <<>> /\ c2s' = c2s /\ s2c' = s2c \o m
      /\ UNCHANGED <<cfg, th, cpc, testEndSent, gotResults, gone>> /\ NotStarted
  BY Zenon DEF SendParams, Talk
<1>2. s2c' = m /\ m \in Seq(Token)
  BY <1>1, TokenSeqs
<1>3. \A x : Has(m, x) <=> x = "ParamExchange"
  BY HasOne, Zenon
<1>4. Talk'
  <2>1. ~Has(c2s', "IperfDone")
    BY <1>1, HasNone, Zenon
  <2> QED
    BY <1>1, <1>2, <2>1, NotStartedStays, Zenon DEF Talk
<1>5. Sent'
  <2>1. ~Has(m, "CreateStreams") /\ ~Has(m, "SetDataPort")
    BY <1>3, Zenon
  <2>2. Once(s2c', "CreateStreams") /\ PortNext(s2c')
    BY <1>1, <1>2, <2>1, SentConcat, Zenon
  <2> QED
    BY <1>1, <1>2, <1>3, <2>2, Zenon DEF Sent
<1>6. ResultsFirst'
  <2>1. Before(s2c', "json", "DisplayResults")
    BY <1>2, <1>3, Zenon DEF Before, Has
  <2>2. cpc # "done"
    BY <1>1, Zenon DEF ResultsFirst, Ended
  <2> QED
    BY <1>1, <2>1, <2>2, Zenon DEF ResultsFirst
<1>7. Calm'
  BY <1>1, <1>2, <1>3, Zenon DEF Calm
<1> QED
  BY <1>4, <1>5, <1>6, <1>7, Zenon

\* The options are the only thing the client has said.  The session refuses them,
\* or asks for the streams.
LEMMA RecvOptionsOrder ==
    ASSUME Types, Order, RecvOptions
    PROVE  Order'
<1> USE DEF Order, SStep, ToClient, cVars, tVars
<1>1. /\ spc = "options" /\ s2c = <<>> /\ c2s = <<"json">> /\ NotStarted /\ c2s' = Tail(c2s)
      /\ UNCHANGED <<cfg, th, cpc, testEndSent, gotResults, gone>>
  BY Zenon DEF RecvOptions, Talk
<1>2. c2s' = <<>>
  BY <1>1
<1>3. NotStarted' /\ cpc # "done" /\ ~Has(c2s', "IperfDone")
  <2>1. NotStarted'
    BY <1>1, NotStartedStays, Zenon
  <2>2. cpc # "done"
    BY <1>1, Zenon DEF ResultsFirst, Ended
  <2>3. ~Has(c2s', "IperfDone")
    BY <1>2, HasNone, Zenon
  <2> QED
    BY <2>1, <2>2, <2>3, Zenon
<1>4. CASE cfg.reject
  <2>1. spc' = "err" /\ s2c' = s2c \o <<"AccessDenied">>
    BY <1>4, Zenon DEF RecvOptions
  <2>2. s2c' = <<"AccessDenied">> /\ <<"AccessDenied">> \in Seq(Token)
    BY <1>1, <2>1, TokenSeqs
  <2>3. \A x : Has(<<"AccessDenied">>, x) <=> x = "AccessDenied"
    BY HasOne, Zenon
  <2>4. Once(s2c', "CreateStreams") /\ PortNext(s2c')
    <3>1. ~Has(<<"AccessDenied">>, "CreateStreams") /\ ~Has(<<"AccessDenied">>, "SetDataPort")
      BY <2>3, Zenon
    <3> QED
      BY <2>1, <2>2, <3>1, SentConcat, Zenon
  <2>5. Before(s2c', "json", "DisplayResults")
    BY <2>2, <2>3, Zenon DEF Before, Has
  <2>6. Talk'
    BY <1>3, <2>1, Zenon DEF Talk
  <2>7. Sent'
    BY <1>3, <2>1, <2>2, <2>3, <2>4, Zenon DEF Sent
  <2>8. ResultsFirst'
    BY <1>1, <1>3, <2>1, <2>5, Zenon DEF ResultsFirst
  <2>9. Calm'
    BY <1>1, <2>1, <2>2, <2>3, Zenon DEF Calm
  <2> QED
    BY <2>6, <2>7, <2>8, <2>9, Zenon
<1>5. CASE ~cfg.reject
  <2>1. /\ spc' = "collect"
        /\ \/ s2c' = s2c \o <<"SetDataPort", "port", "CreateStreams">>
           \/ s2c' = s2c \o <<"CreateStreams">>
    BY <1>5, Zenon DEF RecvOptions
  <2>2. s2c' = <<"SetDataPort", "port", "CreateStreams">> \/ s2c' = <<"CreateStreams">>
    BY <1>1, <2>1
  <2>3. \A x : Has(s2c', x) => x = "SetDataPort" \/ x = "port" \/ x = "CreateStreams"
    <3>1. CASE s2c' = <<"SetDataPort", "port", "CreateStreams">>
      BY <3>1, HasThree, Zenon
    <3>2. CASE s2c' = <<"CreateStreams">>
      BY <3>2, HasOne, Zenon
    <3> QED
      BY <2>2, <3>1, <3>2, Zenon
  <2>4. Once(s2c', "CreateStreams") /\ PortNext(s2c')
    <3>1. CASE s2c' = <<"SetDataPort", "port", "CreateStreams">>
      BY <3>1 DEF Once, PortNext
    <3>2. CASE s2c' = <<"CreateStreams">>
      BY <3>2 DEF Once, PortNext
    <3> QED
      BY <2>2, <3>1, <3>2, Zenon
  <2>5. Before(s2c', "json", "DisplayResults")
    <3>1. ~Has(s2c', "DisplayResults")
      BY <2>3, Zenon
    <3> QED
      BY <3>1, Zenon DEF Before, Has
  <2>6. Talk'
    BY <1>2, <1>3, <2>1, Zenon DEF Talk
  <2>7. Sent'
    BY <1>3, <2>1, <2>3, <2>4, Zenon DEF Sent
  <2>8. ResultsFirst'
    BY <1>1, <1>3, <2>1, <2>5, Zenon DEF ResultsFirst
  <2>9. Calm'
    BY <1>1, <2>1, <2>2, <2>3, Zenon DEF Calm
  <2> QED
    BY <2>6, <2>7, <2>8, <2>9, Zenon
<1> QED
  BY <1>4, <1>5, Zenon

\* A stream is accepted.  With the last one the session announces the test.
LEMMA CollectOrder ==
    ASSUME Types, Order, Collect
    PROVE  Order'
<1> USE DEF Order, ToClient, cVars, tVars
<1> DEFINE m == <<"TestStart", "TestRunning">>
<1>1. /\ spc = "collect" /\ cfg \in Config
      /\ UNCHANGED <<cfg, th, c2s, cpc, testEndSent, gotResults, gone>>
  BY ControlAssumption, Zenon DEF Collect, Types
<1>2. CASE ~Complete(conns')
  BY <1>1, <1>2, QuietStep, NotStartedStays, Zenon DEF Collect
<1>3. CASE Complete(conns')
  <2>1. s2c' = s2c \o m /\ spc' = "run" /\ plan' = Plan /\ m \in Seq(Token)
    BY <1>3, TokenSeqs, Zenon DEF Collect
  <2>2. \A x : Has(m, x) <=> x = "TestStart" \/ x = "TestRunning"
    BY HasTwo, Zenon
  <2>3. ~Has(m, "CreateStreams") /\ ~Has(m, "SetDataPort") /\ ~Has(m, "DisplayResults")
        /\ ~Has(m, "ParamExchange") /\ ~Has(m, "AccessDenied") /\ ~Has(m, "ExchangeResults")
        /\ ~Has(m, "json")
    BY <2>2, Zenon
  <2>4. /\ Once(s2c', "CreateStreams") /\ PortNext(s2c')
        /\ \A x : Has(s2c', x) <=> Has(s2c, x) \/ Has(m, x)
    BY <2>1, <2>3, SentConcat, Zenon
  <2>5. Talk'
    BY <1>1, <2>1, Zenon DEF Talk
  <2>6. Sent'
    BY <1>1, <2>1, <2>3, <2>4, NotStartedStays, Zenon DEF Sent, Ended
  <2>7. ResultsFirst'
    <3>1. Before(s2c, "json", "DisplayResults") => Before(s2c', "json", "DisplayResults")
      BY <2>1, <2>3, BeforeConcat, Zenon DEF Types
    <3> QED
      BY <1>1, <2>1, <3>1, Zenon DEF ResultsFirst, Ended
  <2>8. Calm'
    <3>1. Has(Plan, "end!") \/ Has(Plan, "end?")
      BY <1>1, PlanType, Zenon
    <3> QED
      BY <1>1, <2>1, <2>3, <2>4, <3>1, Zenon DEF Calm
  <2> QED
    BY <2>5, <2>6, <2>7, <2>8, Zenon
<1> QED
  BY <1>2, <1>3, Zenon

\* What the server gives up on.
LEMMA GiveUpOrder ==
    ASSUME Order, CollectTimeout \/ HandshakeFails \/ ResultsOutOfSync
    PROVE  Order'
BY ErrStep, Zenon DEF CollectTimeout, HandshakeFails, ResultsOutOfSync, SStep, cVars, tVars

\* While the test runs, a step of the session that sends nothing keeps the order
\* if it keeps Calm.
LEMMA RunStep ==
    ASSUME Order, spc = "run", spc' = "run", c2s' \in {c2s, <<>>}, Calm',
           UNCHANGED <<cfg, s2c, cpc, th, testEndSent, gotResults, gone>>
    PROVE  Order'
<1> USE DEF Order
<1>1. Talk'
  BY HasNone, Zenon DEF Talk
<1>2. Sent'
  BY NotStartedStays, Zenon DEF Sent
<1>3. ResultsFirst'
  BY Zenon DEF ResultsFirst
<1> QED
  BY <1>1, <1>2, <1>3, Zenon

\* Only a TestEnd can be there when wait_for_test_end reads.
LEMMA AwaitTestEndOrder ==
    ASSUME Types, Order, AwaitTestEnd
    PROVE  Order'
<1> USE DEF Order, SStep, cVars, tVars
<1>1. spc = "run" /\ c2s = <<"TestEnd">> /\ testEndSent /\ c2s' = Tail(c2s) /\ s2c' = s2c
  BY Zenon DEF AwaitTestEnd, Waiting, Talk
<1>2. c2s' = <<>> /\ Head(c2s) = "TestEnd"
  BY <1>1
<1>3. spc' = "run" /\ UNCHANGED <<cfg, cpc, th, testEndSent, gotResults, gone>>
  <2>1. spc' \in {"run", "err"} /\ (spc' = "err" => Head(c2s) = "json")
        /\ UNCHANGED <<cfg, cpc, th, testEndSent, gotResults, gone>>
    BY Zenon DEF AwaitTestEnd, EndFails
  <2>2. Head(c2s) # "json"
    BY <1>2, Zenon
  <2> QED
    BY <2>1, <2>2, Zenon
<1>4. Calm'
  BY <1>1, <1>2, <1>3, Zenon DEF Calm
<1> QED
  BY <1>1, <1>2, <1>3, <1>4, RunStep, Zenon

\* wait_for_test_end fails only when the test is not calm.
LEMMA AwaitTestEndFailsOrder ==
    ASSUME Types, Order, AwaitTestEndFails
    PROVE  Order'
<1> USE DEF Order, SStep, cVars, tVars
<1>1. /\ spc = "run" /\ ReadFails /\ spc' \in {"run", "err"}
      /\ UNCHANGED <<cfg, c2s, s2c, cpc, th, testEndSent, gotResults, gone>>
  BY Zenon DEF AwaitTestEndFails, Waiting, EndFails
<1>2. CASE spc' = "err"
  BY <1>1, <1>2, ErrStep, Zenon
<1>3. CASE spc' = "run"
  <2>1. cpc # "done"
    BY <1>1, Zenon DEF ResultsFirst, Ended
  <2>2. ~cfg.calm
    BY <1>1, <2>1, Zenon DEF ReadFails, CEof, MayTimeOut, Calm
  <2>3. Calm'
    BY <1>1, <2>2, Zenon DEF Calm
  <2> QED
    BY <1>1, <1>3, <2>3, RunStep, Zenon
<1> QED
  BY <1>1, <1>2, <1>3, Zenon

\* A join leaves the wait for TestEnd in the plan.
LEMMA JoinOrder ==
    ASSUME Types, Order, Join
    PROVE  Order'
<1> USE DEF Order, SStep, cVars, tVars
<1>1. /\ spc = "run" /\ spc' = "run" /\ plan # <<>> /\ plan' = Tail(plan)
      /\ Head(plan) \in {"readers", "senders", "receiver"}
      /\ UNCHANGED <<cfg, c2s, s2c, cpc, th, testEndSent, gotResults, gone>>
  BY Zenon DEF Join, Waiting
<1>2. Head(plan) # "end!" /\ Head(plan) # "end?"
  BY <1>1, Zenon
<1>3. (Has(plan, "end!") => Has(plan', "end!")) /\ (Has(plan, "end?") => Has(plan', "end?"))
  BY <1>1, <1>2, HasTail, Zenon DEF Types
<1>4. Calm'
  BY <1>1, <1>3, Zenon DEF Calm
<1> QED
  BY <1>1, <1>4, RunStep, Zenon

\* The session publishes its Results when its plan is done.
LEMMA ExchangeResultsOrder ==
    ASSUME Types, Order, ExchangeResults
    PROVE  Order'
<1> USE DEF Order, SStep, ToClient, cVars, tVars
<1> DEFINE m == <<"ExchangeResults", "json">>
<1>1. /\ spc = "run" /\ spc' = "await_results" /\ plan = <<>> /\ s2c' = s2c \o m /\ m \in Seq(Token)
      /\ UNCHANGED <<cfg, c2s, th, cpc, testEndSent, gotResults, gone>>
  BY TokenSeqs, Zenon DEF ExchangeResults
<1>2. \A x : Has(m, x) <=> x = "ExchangeResults" \/ x = "json"
  BY HasTwo, Zenon
<1>3. ~Has(m, "CreateStreams") /\ ~Has(m, "SetDataPort") /\ ~Has(m, "DisplayResults")
      /\ ~Has(m, "ParamExchange") /\ ~Has(m, "AccessDenied") /\ Has(m, "json")
  BY <1>2, Zenon
<1>4. /\ Once(s2c', "CreateStreams") /\ PortNext(s2c')
      /\ \A x : Has(s2c', x) <=> Has(s2c, x) \/ Has(m, x)
  BY <1>1, <1>3, SentConcat, Zenon
<1>5. Talk'
  BY <1>1, Zenon DEF Talk
<1>6. Sent'
  BY <1>1, <1>3, <1>4, NotStartedStays, Zenon DEF Sent, Ended
<1>7. ResultsFirst'
  <2>1. Before(s2c, "json", "DisplayResults") => Before(s2c', "json", "DisplayResults")
    BY <1>1, <1>3, BeforeConcat, Zenon DEF Types
  <2> QED
    BY <1>1, <1>3, <1>4, <2>1, Zenon DEF ResultsFirst, Ended
<1>8. Calm'
  <2>1. ~Has(plan, "end!") /\ ~Has(plan, "end?")
    BY <1>1, HasNone, Zenon
  <2>2. cfg.calm => testEndSent /\ c2s = <<>>
    BY <1>1, <2>1, Zenon DEF Calm
  <2>3. DOMAIN <<>> = {}
    OBVIOUS
  <2> QED
    BY <1>1, <2>2, <2>3, Zenon DEF Calm
<1> QED
  BY <1>5, <1>6, <1>7, <1>8, Zenon

\* DisplayResults goes out behind the session's Results.
LEMMA DisplayOrder ==
    ASSUME Types, Order, spc = "await_results", spc' = "final",
           s2c' = s2c \o <<"DisplayResults">>, Has(c2s', "IperfDone") => Has(c2s, "IperfDone"),
           UNCHANGED <<cfg, th, cpc, testEndSent, gotResults, gone>>
    PROVE  Order'
<1> USE DEF Order
<1> DEFINE m == <<"DisplayResults">>
<1>1. m \in Seq(Token)
  BY TokenSeqs, Zenon
<1>2. \A x : Has(m, x) <=> x = "DisplayResults"
  BY HasOne, Zenon
<1>3. ~Has(m, "CreateStreams") /\ ~Has(m, "SetDataPort") /\ ~Has(m, "ParamExchange")
      /\ ~Has(m, "AccessDenied") /\ ~Has(m, "ExchangeResults") /\ ~Has(m, "json")
  BY <1>2, Zenon
<1>4. /\ Once(s2c', "CreateStreams") /\ PortNext(s2c')
      /\ \A x : Has(s2c', x) <=> Has(s2c, x) \/ Has(m, x)
  BY <1>1, <1>3, SentConcat, Zenon
<1>5. Talk'
  BY Zenon DEF Talk
<1>6. Sent'
  BY <1>3, <1>4, NotStartedStays, Zenon DEF Sent, Ended
<1>7. ResultsFirst'
  <2>1. gotResults \/ (Has(s2c, "json") /\ Before(s2c, "json", "DisplayResults"))
    BY Zenon DEF ResultsFirst
  <2>2. gotResults \/ Before(s2c', "json", "DisplayResults")
    BY <1>1, <2>1, BeforeConcat, Zenon DEF Types
  <2> QED
    BY <1>4, <2>1, <2>2, Zenon DEF ResultsFirst, Ended
<1>8. Calm'
  BY <1>3, <1>4, Zenon DEF Calm
<1> QED
  BY <1>5, <1>6, <1>7, <1>8, Zenon

\* The client's Results are read, or it has closed the connection instead.
LEMMA ResultsOrder ==
    ASSUME Types, Order, RecvResults \/ ResultsFail
    PROVE  Order'
<1> USE DEF SStep, ToClient, cVars, tVars
<1>1. CASE RecvResults
  <2>1. c2s # <<>> /\ c2s' = Tail(c2s)
    BY <1>1, Zenon DEF RecvResults
  <2>2. Has(c2s', "IperfDone") => Has(c2s, "IperfDone")
    BY <2>1, HasTail, Zenon DEF Types
  <2> QED
    BY <1>1, <2>2, DisplayOrder, Zenon DEF RecvResults
<1>2. CASE ResultsFail
  <2>1. CASE CEof /\ c2s' = <<>> /\ ToClient(<<"DisplayResults">>) /\ SStep("final")
    <3>1. ~Has(c2s', "IperfDone")
      BY <2>1, HasNone, Zenon
    <3> QED
      BY <1>2, <2>1, <3>1, DisplayOrder, Zenon DEF ResultsFail
  <2>2. CASE MayTimeOut /\ ~CEof /\ SStep("err") /\ UNCHANGED <<c2s, s2c>>
    BY <2>2, ErrStep, Zenon
  <2> QED
    BY <1>2, <2>1, <2>2, Zenon DEF ResultsFail
<1> QED
  BY <1>1, <1>2, Zenon

\* The session is over when the client has said IperfDone or is gone.
LEMMA DoneOrder ==
    ASSUME Types, Order, AwaitDone \/ AwaitDoneFails
    PROVE  Order'
<1> USE DEF SStep, cVars, tVars
<1>1. /\ spc = "final" /\ spc' \in {"ok", "err", "final"}
      /\ UNCHANGED <<cfg, s2c, th, cpc, testEndSent, gotResults, gone>>
  BY Zenon DEF AwaitDone, AwaitDoneFails
<1>2. Has(c2s', "IperfDone") => Has(c2s, "IperfDone")
  <2>1. c2s' = c2s \/ (c2s # <<>> /\ c2s' = Tail(c2s))
    BY Zenon DEF AwaitDone, AwaitDoneFails
  <2> QED
    BY <2>1, HasTail, Zenon DEF Types
<1>3. CASE spc' = "err"
  BY <1>1, <1>2, <1>3, ErrStep, Zenon
<1>4. CASE spc' \in {"ok", "final"}
  <2> USE DEF Order
  <2>1. spc' = "ok" /\ gone = "no" => cpc = "done"
    <3>1. CASE AwaitDone
      <4>1. spc' = "ok" => Head(c2s) = "IperfDone"
        BY <3>1, Zenon DEF AwaitDone
      <4>2. Head(c2s) = "IperfDone" => Has(c2s, "IperfDone")
        BY <3>1, HasTail, Zenon DEF AwaitDone, Types
      <4> QED
        BY <4>1, <4>2, Zenon DEF Talk
    <3>2. CASE AwaitDoneFails
      BY <3>2, Zenon DEF AwaitDoneFails, CEof
    <3> QED
      BY <3>1, <3>2, Zenon
  <2>2. Talk'
    BY <1>1, <1>2, <1>4, Zenon DEF Talk
  <2>3. Sent'
    BY <1>1, <1>4, NotStartedStays, Zenon DEF Sent, Ended
  <2>4. ResultsFirst'
    BY <1>1, <1>4, <2>1, Zenon DEF ResultsFirst, Ended
  <2>5. Calm'
    BY <1>1, <1>4, Zenon DEF Calm
  <2> QED
    BY <2>2, <2>3, <2>4, <2>5, Zenon
<1> QED
  BY <1>1, <1>3, <1>4, Zenon

\* Every step of the session keeps the order.
LEMMA ServerOrder ==
    ASSUME Types, Order, Server
    PROVE  Order'
BY SendParamsOrder, RecvOptionsOrder, CollectOrder, GiveUpOrder, AwaitTestEndOrder,
   AwaitTestEndFailsOrder, JoinOrder, ExchangeResultsOrder, ResultsOrder, DoneOrder, Zenon DEF Server

\* The client reads a message that is neither CreateStreams nor Results.
LEMMA ReadOrder ==
    ASSUME Types, Order, s2c # <<>>, Head(s2c) \notin {"json", "CreateStreams", "ParamExchange"},
           s2c' = Tail(s2c), UNCHANGED <<cfg, c2s, spc, plan, th, testEndSent, gotResults, gone>>,
           cpc' = "done" <=> cpc = "done"
    PROVE  Order'
<1> USE DEF Order
<1>1. Talk'
  <2>1. Has(s2c, Head(s2c))
    BY HasTail, Zenon DEF Types
  <2>2. ~Has(<<>>, Head(s2c)) /\ ~Has(<<"ParamExchange">>, Head(s2c))
    <3>1. "ParamExchange" # Head(s2c)
      OBVIOUS
    <3> QED
      BY <3>1, HasNone, HasOne, Zenon
  <2>3. spc \notin {"start", "options"}
    BY <2>1, <2>2, Zenon DEF Talk
  <2> QED
    BY <2>3, Zenon DEF Talk
<1>2. Sent'
  BY SentTail, NotStartedStays, Zenon
<1>3. ResultsFirst'
  BY ResultsFirstTail, Zenon
<1>4. Calm'
  BY CalmTail, Zenon
<1> QED
  BY <1>1, <1>2, <1>3, <1>4, Zenon

\* Whatever else the client says, it has not said IperfDone with it.
LEMMA SaysMore ==
    ASSUME Types, NEW e \in Token, e # "IperfDone"
    PROVE  Has(Append(c2s, e), "IperfDone") => Has(c2s, "IperfDone")
<1>1. c2s \in Seq(Token)
  BY Zenon DEF Types
<1> QED
  BY <1>1, HasAppend

\* The client answers ParamExchange with its options.
LEMMA HandleParamExchangeOrder ==
    ASSUME Types, Order, HandleParamExchange
    PROVE  Order'
<1> USE DEF Order, Handle, CUnchanged, sVars
<1>1. /\ s2c # <<>> /\ Head(s2c) = "ParamExchange" /\ s2c' = Tail(s2c) /\ c2s' = Append(c2s, "json")
      /\ cpc # "done" /\ cpc' # "done"
      /\ UNCHANGED <<cfg, spc, plan, th, testEndSent, gotResults, gone>>
  BY Zenon DEF HandleParamExchange, CAt
<1>2. Has(s2c, "ParamExchange")
  BY <1>1, HasTail, Zenon DEF Types
<1>3. spc \in {"options", "err"}
  BY <1>2, Zenon DEF Sent
<1>4. Has(c2s', "IperfDone") => Has(c2s, "IperfDone")
  <2>1. "json" \in Token /\ "json" # "IperfDone"
    BY TokenSeqs, Zenon
  <2> QED
    BY <1>1, <2>1, SaysMore, Zenon
<1>5. Talk'
  <2>1. CASE spc = "options"
    <3>1. s2c = <<"ParamExchange">> /\ c2s = <<>> /\ NotStarted
      BY <1>2, <2>1, HasNone, Zenon DEF Talk
    <3>2. s2c' = <<>> /\ c2s' = <<"json">>
      BY <1>1, <3>1
    <3> QED
      BY <1>1, <1>4, <2>1, <3>1, <3>2, NotStartedStays, Zenon DEF Talk
  <2>2. CASE spc = "err"
    BY <1>1, <1>4, <2>2, Zenon DEF Talk
  <2> QED
    BY <1>3, <2>1, <2>2, Zenon
<1>6. Sent'
  BY <1>1, SentTail, NotStartedStays, Zenon
<1>7. ResultsFirst'
  BY <1>1, ResultsFirstTail, Zenon
<1>8. Calm'
  BY <1>1, <1>3, CalmTail, Zenon
<1> QED
  BY <1>5, <1>6, <1>7, <1>8, Zenon

\* The client reads SetDataPort and its port.
LEMMA HandleSetDataPortOrder ==
    ASSUME Types, Order, HandleSetDataPort
    PROVE  Order'
<1> USE DEF Order, Handle, CUnchanged, sVars
<1>1. /\ s2c # <<>> /\ Head(s2c) = "SetDataPort" /\ s2c' = Tail(Tail(s2c))
      /\ cpc # "done" /\ cpc' # "done"
      /\ UNCHANGED <<cfg, c2s, spc, plan, th, testEndSent, gotResults, gone>>
  BY Zenon DEF HandleSetDataPort, CAt
<1> DEFINE q == Tail(s2c)
<1>2. s2c \in Seq(Token) /\ q \in Seq(Token) /\ q # <<>> /\ Head(q) = "port"
  BY <1>1, PortFollows, HasTail, Zenon DEF Types
<1>3. /\ \A x : Has(Tail(q), x) => Has(s2c, x)
      /\ Has(s2c, "json") => Has(Tail(q), "json")
  <2>1. \A x : Has(Tail(q), x) => Has(q, x)
    BY <1>2, HasTail, Zenon
  <2>2. \A x : Has(q, x) => Has(s2c, x)
    BY <1>1, <1>2, HasTail, Zenon
  <2>3. Has(s2c, "json") => Has(q, "json")
    BY <1>1, <1>2, HasTail, Zenon
  <2>4. Has(q, "json") => Has(Tail(q), "json")
    BY <1>2, HasTail, Zenon
  <2> QED
    BY <2>1, <2>2, <2>3, <2>4, Zenon
<1>4. Once(Tail(q), "CreateStreams") /\ PortNext(Tail(q))
  <2>1. Once(q, "CreateStreams") /\ PortNext(q)
    BY <1>1, <1>2, OnceTail, PortNextTail, Zenon DEF Sent
  <2> QED
    BY <1>2, <2>1, OnceTail, PortNextTail, Zenon
<1>5. Before(s2c, "json", "DisplayResults") => Before(Tail(q), "json", "DisplayResults")
  <2>1. Before(s2c, "json", "DisplayResults") => Before(q, "json", "DisplayResults")
    BY <1>1, <1>2, BeforeTail, Zenon
  <2>2. Before(q, "json", "DisplayResults") => Before(Tail(q), "json", "DisplayResults")
    BY <1>2, BeforeTail, Zenon
  <2> QED
    BY <2>1, <2>2, Zenon
<1>6. Talk'
  <2>1. Has(s2c, "SetDataPort")
    BY <1>1, HasTail, Zenon DEF Types
  <2>2. ~Has(<<>>, "SetDataPort") /\ ~Has(<<"ParamExchange">>, "SetDataPort")
    BY HasNone, HasOne, Zenon
  <2>3. spc \notin {"start", "options"}
    BY <2>1, <2>2, Zenon DEF Talk
  <2> QED
    BY <1>1, <2>3, Zenon DEF Talk
<1>7. Sent'
  BY <1>1, <1>3, <1>4, NotStartedStays, Zenon DEF Sent
<1>8. ResultsFirst'
  BY <1>1, <1>3, <1>5, Zenon DEF ResultsFirst
<1>9. Calm'
  BY <1>1, <1>3, Zenon DEF Calm
<1> QED
  BY <1>6, <1>7, <1>8, <1>9, Zenon

\* The client starts its threads, once.
LEMMA HandleCreateStreamsOrder ==
    ASSUME Types, Order, HandleCreateStreams
    PROVE  Order'
<1> USE DEF Order, Handle, CUnchanged, sVars
<1>1. /\ s2c # <<>> /\ Head(s2c) = "CreateStreams" /\ s2c' = Tail(s2c)
      /\ cpc # "done" /\ cpc' # "done"
      /\ UNCHANGED <<cfg, c2s, spc, plan, testEndSent, gotResults, gone>>
  BY Zenon DEF HandleCreateStreams, CAt
<1>2. Has(s2c, "CreateStreams") /\ ~Has(Tail(s2c), "CreateStreams")
  BY <1>1, HasTail, OnceTail, Zenon DEF Types, Sent
<1>3. Talk'
  <2>1. ~Has(<<>>, "CreateStreams") /\ ~Has(<<"ParamExchange">>, "CreateStreams")
    BY HasNone, HasOne, Zenon
  <2>2. spc \notin {"start", "options"}
    BY <1>2, <2>1, Zenon DEF Talk
  <2> QED
    BY <1>1, <2>2, Zenon DEF Talk
<1>4. Sent'
  BY <1>1, <1>2, SentTail, Zenon
<1>5. ResultsFirst'
  BY <1>1, ResultsFirstTail, Zenon
<1>6. Calm'
  BY <1>1, CalmTail, Zenon
<1> QED
  BY <1>3, <1>4, <1>5, <1>6, Zenon

\* The client answers ExchangeResults with its Results.
LEMMA HandleExchangeResultsOrder ==
    ASSUME Types, Order, HandleExchangeResults
    PROVE  Order'
<1> USE DEF Order, Handle, CUnchanged, sVars
<1>1. /\ s2c # <<>> /\ Head(s2c) = "ExchangeResults" /\ s2c' = Tail(s2c) /\ c2s' = Append(c2s, "json")
      /\ cpc # "done" /\ cpc' # "done"
      /\ UNCHANGED <<cfg, spc, plan, th, testEndSent, gotResults, gone>>
  BY Zenon DEF HandleExchangeResults, CAt
<1>2. spc \in {"await_results", "final"} \cup Ended
  <2>1. Has(s2c, "ExchangeResults")
    BY <1>1, HasTail, Zenon DEF Types
  <2> QED
    BY <2>1, Zenon DEF Sent
<1>3. spc \notin {"start", "options", "collect", "run"}
  BY <1>2, Zenon DEF Ended
<1>4. Talk'
  <2>1. "json" \in Token /\ "json" # "IperfDone"
    BY TokenSeqs, Zenon
  <2>2. Has(c2s', "IperfDone") => Has(c2s, "IperfDone")
    BY <1>1, <2>1, SaysMore, Zenon
  <2> QED
    BY <1>1, <1>3, <2>2, Zenon DEF Talk
<1>5. Sent'
  BY <1>1, SentTail, NotStartedStays, Zenon
<1>6. ResultsFirst'
  BY <1>1, ResultsFirstTail, Zenon
<1>7. Calm'
  <2>1. ASSUME \A i \in DOMAIN c2s : c2s[i] = "json", NEW i \in DOMAIN c2s' PROVE c2s'[i] = "json"
    BY <1>1, <2>1 DEF Types
  <2>2. Has(s2c', "ExchangeResults") => Has(s2c, "ExchangeResults")
    BY <1>1, HasTail, Zenon DEF Types
  <2> QED
    BY <1>1, <1>3, <2>1, <2>2, Zenon DEF Calm
<1> QED
  BY <1>4, <1>5, <1>6, <1>7, Zenon

\* The client that reads DisplayResults has read the server's Results before.
LEMMA HandleDisplayResultsOrder ==
    ASSUME Types, Order, HandleDisplayResults
    PROVE  Order' /\ gotResults
<1> USE DEF Order, Handle, CUnchanged, sVars
<1>1. /\ s2c # <<>> /\ Head(s2c) = "DisplayResults" /\ s2c' = Tail(s2c) /\ cpc' = "done"
      /\ UNCHANGED <<cfg, spc, plan, th, testEndSent, gotResults, gone>>
  BY Zenon DEF HandleDisplayResults
<1>2. spc \in {"final"} \cup Ended
  <2>1. Has(s2c, "DisplayResults")
    BY <1>1, HasTail, Zenon DEF Types
  <2> QED
    BY <2>1, Zenon DEF Sent
<1>3. gotResults
  BY <1>1, BeforeTail, Zenon DEF Types, ResultsFirst
<1>4. spc \notin {"start", "options", "collect", "run", "await_results"}
  BY <1>2, Zenon DEF Ended
<1>5. Talk'
  BY <1>1, <1>4, Zenon DEF Talk
<1>6. Sent'
  BY <1>1, SentTail, NotStartedStays, Zenon
<1>7. ResultsFirst'
  BY <1>1, <1>2, <1>3, Zenon DEF ResultsFirst
<1>8. Calm'
  BY <1>1, <1>4, CalmTail, Zenon
<1> QED
  BY <1>3, <1>5, <1>6, <1>7, <1>8, Zenon

\* The client stops when its options were refused.
LEMMA HandleAccessDeniedOrder ==
    ASSUME Types, Order, HandleAccessDenied
    PROVE  Order' /\ spc = "err"
<1> USE DEF Order, Handle, CUnchanged, sVars
<1>1. /\ s2c # <<>> /\ Head(s2c) = "AccessDenied" /\ s2c' = Tail(s2c) /\ cpc' = "done"
      /\ UNCHANGED <<cfg, c2s, spc, plan, th, testEndSent, gotResults, gone>>
  BY Zenon DEF HandleAccessDenied
<1>2. spc = "err"
  <2>1. Has(s2c, "AccessDenied")
    BY <1>1, HasTail, Zenon DEF Types
  <2> QED
    BY <2>1, Zenon DEF Sent
<1>3. Talk'
  BY <1>1, <1>2, Zenon DEF Talk
<1>4. Sent'
  BY <1>1, SentTail, NotStartedStays, Zenon
<1>5. ResultsFirst'
  <2>1. Before(s2c, "json", "DisplayResults") => Before(Tail(s2c), "json", "DisplayResults")
    BY <1>1, BeforeTail, Zenon DEF Types
  <2> QED
    BY <1>1, <1>2, <2>1, Zenon DEF ResultsFirst, Ended
<1>6. Calm'
  BY <1>1, CalmTail, Zenon
<1> QED
  BY <1>2, <1>3, <1>4, <1>5, <1>6, Zenon

\* The client reads the server's Results, which are published by then.
LEMMA ReadResultsOrder ==
    ASSUME Types, Order, ReadResults
    PROVE  Order' /\ (gotResults' # gotResults => spc \in {"await_results", "final"} \cup Ended)
<1> USE DEF Order, CUnchanged, sVars, tVars
<1>1. /\ cpc # "done" /\ cpc' # "done"
      /\ UNCHANGED <<cfg, c2s, spc, plan, th, testEndSent, gone>>
  BY Zenon DEF ReadResults, CAt
<1>2. CASE s2c # <<>> /\ Head(s2c) = "json" /\ s2c' = Tail(s2c) /\ gotResults' = TRUE
  <2>1. spc \in {"await_results", "final"} \cup Ended
    <3>1. Has(s2c, "json")
      BY <1>2, HasTail, Zenon DEF Types
    <3> QED
      BY <3>1, Zenon DEF Sent
  <2>2. spc \notin {"start", "options", "collect", "run"}
    BY <2>1, Zenon DEF Ended
  <2>3. Talk'
    BY <1>1, <2>2, Zenon DEF Talk
  <2>4. Sent'
    BY <1>1, <1>2, SentTail, NotStartedStays, Zenon
  <2>5. ResultsFirst'
    BY <1>1, <1>2, Zenon DEF ResultsFirst
  <2>6. Calm'
    BY <1>1, <1>2, CalmTail, Zenon
  <2> QED
    BY <2>1, <2>3, <2>4, <2>5, <2>6, Zenon
<1>3. CASE UNCHANGED <<s2c, gotResults>>
  BY <1>1, <1>3, QuietStep, NotStartedStays, Zenon
<1> QED
  BY <1>2, <1>3, Zenon DEF ReadResults

\* TestEnd goes out once, when every thread has reported, and not before the
\* session waits for it.
LEMMA PollOrder ==
    ASSUME Types, Order, Poll, NotStarted => endQ = 0
    PROVE  Order'
<1> USE DEF Order, CUnchanged, sVars
<1>1. /\ cpc # "done" /\ cpc' # "done"
      /\ UNCHANGED <<cfg, s2c, spc, plan, th, gotResults, gone>>
  BY Zenon DEF Poll, CAt
<1>2. CASE UNCHANGED <<c2s, testEndSent>>
  BY <1>1, <1>2, QuietStep, NotStartedStays, Zenon
<1>3. CASE endQ # 0 /\ ~testEndSent /\ testEndSent' = TRUE /\ c2s' = Append(c2s, "TestEnd")
  <2>1. spc \notin {"start", "options"}
    BY <1>3, Zenon DEF Talk
  <2>2. spc \in {"collect", "run"} => c2s' = <<"TestEnd">>
    <3>1. spc \in {"collect", "run"} => c2s = <<>>
      BY <1>3, Zenon DEF Talk
    <3>2. Append(<<>>, "TestEnd") = <<"TestEnd">>
      OBVIOUS
    <3> QED
      BY <1>3, <3>1, <3>2, Zenon
  <2>3. Has(c2s', "IperfDone") => Has(c2s, "IperfDone")
    <3>1. "TestEnd" \in Token /\ "TestEnd" # "IperfDone"
      BY TokenSeqs, Zenon
    <3> QED
      BY <1>3, <3>1, SaysMore, Zenon
  <2>4. Talk'
    BY <1>1, <1>3, <2>1, <2>2, <2>3, Zenon DEF Talk
  <2>5. Sent'
    BY <1>1, NotStartedStays, Zenon DEF Sent
  <2>6. ResultsFirst'
    BY <1>1, Zenon DEF ResultsFirst
  <2>7. Calm'
    BY <1>1, <1>3, Zenon DEF Calm
  <2> QED
    BY <2>4, <2>5, <2>6, <2>7, Zenon
<1> QED
  BY <1>2, <1>3, Zenon DEF Poll

\* Every step of the client's main loop keeps the order.
LEMMA ClientOrder ==
    ASSUME Types, Order, Client, NotStarted => endQ = 0
    PROVE  Order'
<1> USE DEF CAt, CUnchanged, sVars, tVars
<1>1. CASE RecvNothing \/ Drain
  BY <1>1, QuietStep, NotStartedStays, Zenon DEF RecvNothing, Drain
<1>2. CASE HandleTestState
  <2>1. /\ s2c # <<>> /\ Head(s2c) \in {"TestStart", "TestRunning"} /\ s2c' = Tail(s2c)
        /\ cpc # "done" /\ cpc' # "done"
        /\ UNCHANGED <<cfg, c2s, spc, plan, th, testEndSent, gotResults, gone>>
    BY <1>2, Zenon DEF HandleTestState, Handle
  <2>2. Head(s2c) \notin {"json", "CreateStreams", "ParamExchange"}
    BY <2>1
  <2> QED
    BY <2>1, <2>2, ReadOrder, Zenon
<1> QED
  BY <1>1, <1>2, HandleParamExchangeOrder, HandleSetDataPortOrder, HandleCreateStreamsOrder,
     HandleExchangeResultsOrder, HandleDisplayResultsOrder, HandleAccessDeniedOrder,
     ReadResultsOrder, PollOrder, Zenon DEF Client

\* The stream threads have no part in the conversation.
LEMMA ThreadOrder ==
    ASSUME Types, Order, NEW t \in Used, Threads(t)
    PROVE  Order'
<1>1. /\ th[t] \in {"start", "open", "receipt", "notified"}
      /\ UNCHANGED <<cfg, c2s, s2c, sVars, cVars, gone>>
  BY Zenon DEF Threads, Open, OpenLost, Finish, ConnectFails, Notify, Close, TStep
<1>2. ~NotStarted
  BY <1>1, Zenon DEF NotStarted
<1> QED
  BY <1>1, <1>2, QuietStep, Zenon DEF sVars, cVars

\* The session does not touch what belongs to the client.
LEMMA ServerLeaves ==
    ASSUME Server
    PROVE  UNCHANGED <<cfg, cVars, tVars, gone>>
BY Zenon DEF Server, SendParams, RecvOptions, Collect, CollectTimeout, HandshakeFails, AwaitTestEnd,
   AwaitTestEndFails, EndFails, Join, ExchangeResults, RecvResults, ResultsOutOfSync, ResultsFail,
   AwaitDone, AwaitDoneFails, SStep

\* A client vanishes only from a test that is not calm.
LEMMA VanishOrder ==
    ASSUME Types, Order, Vanish
    PROVE  Types' /\ Order'
<1> USE DEF Order, Vanish, sVars, cVars, tVars
<1>1. gone' \in {"killed", "silent"} /\ ~cfg.calm
  BY Zenon DEF MayFail
<1>2. Types'
  BY <1>1, UsedStays, Zenon DEF Types
<1>3. Talk'
  BY NotStartedStays, Zenon DEF Talk
<1>4. Sent'
  BY NotStartedStays, Zenon DEF Sent
<1>5. ResultsFirst'
  BY <1>1, Zenon DEF ResultsFirst
<1>6. Calm'
  BY <1>1, Zenon DEF Calm
<1> QED
  BY <1>2, <1>3, <1>4, <1>5, <1>6, Zenon

-----------------------------------------------------------------------------
(* What the steps are to the contract.                                     *)

\* What the contract sees of the two ends.
LEMMA StageFacts ==
    /\ spc \in {"start", "options", "collect"} => StageOf = "setup"
    /\ spc = "run" => StageOf = "running"
    /\ spc \in {"await_results", "final"} => StageOf = "reporting"
    /\ spc = "ok" => StageOf = "ok"
    /\ spc = "err" => StageOf = "failed"
BY DEF StageOf

\* The value of ClientOf in each of its cases.
LEMMA ClientFacts ==
    /\ gone # "no" => ClientOf = "gone"
    /\ gone = "no" /\ cpc = "done" /\ gotResults => ClientOf = "done"
    /\ gone = "no" /\ cpc = "done" /\ ~gotResults => ClientOf = "refused"
    /\ gone = "no" /\ cpc # "done" /\ gotResults => ClientOf = "informed"
    /\ gone = "no" /\ cpc # "done" /\ ~gotResults => ClientOf = "busy"
BY Zenon DEF ClientOf

\* The contract sees nothing of a step that moves neither end.
LEMMA Unseen ==
    ASSUME UNCHANGED <<cfg, th, spc, gone, cpc, gotResults>>
    PROVE  UNCHANGED Contract!vars
<1>1. Unfinished' = Unfinished
  BY UsedStays, Zenon DEF Unfinished
<1>2. StageOf' = StageOf /\ ClientOf' = ClientOf
  BY Zenon DEF StageOf, ClientOf
<1> QED
  BY <1>1, <1>2, Zenon DEF Contract!vars

\* What a step of the session is to the contract.
LEMMA ServerKeeps ==
    ASSUME Types, ResultsFirst', Server, ExchangeResults /\ cfg.calm => Cardinality(Unfinished) = 0
    PROVE  [Contract!Next]_Contract!vars
<1>1. /\ UNCHANGED <<cfg, cpc, th, gotResults, gone>>
  BY ServerLeaves, Zenon DEF cVars, tVars
<1>2. Cardinality(Unfinished)' = Cardinality(Unfinished) /\ ClientOf' = ClientOf
  BY <1>1, UsedStays, Zenon DEF Unfinished, ClientOf
<1>3. \/ spc' = spc
      \/ spc = "start" /\ spc' = "options"
      \/ spc = "options" /\ spc' = "collect"
      \/ spc = "collect" /\ spc' = "run"
      \/ spc = "run" /\ spc' = "await_results" /\ ExchangeResults
      \/ spc = "await_results" /\ spc' = "final"
      \/ spc = "final" /\ spc' = "ok"
      \/ spc \notin Ended /\ spc' = "err"
  <2> USE DEF SStep
  <2>1. CASE SendParams \/ RecvOptions
    BY <2>1, Zenon DEF SendParams, RecvOptions, Ended
  <2>2. CASE Collect
    BY <2>2, Zenon DEF Collect
  <2>3. CASE CollectTimeout \/ HandshakeFails \/ ResultsOutOfSync
    BY <2>3, Zenon DEF CollectTimeout, HandshakeFails, ResultsOutOfSync, Ended
  <2>4. CASE AwaitTestEnd \/ AwaitTestEndFails \/ Join
    BY <2>4, Zenon DEF AwaitTestEnd, AwaitTestEndFails, EndFails, Join, Waiting, Ended
  <2>5. CASE ExchangeResults
    BY <2>5, Zenon DEF ExchangeResults
  <2>6. CASE RecvResults \/ ResultsFail
    BY <2>6, Zenon DEF RecvResults, ResultsFail, Ended
  <2>7. CASE AwaitDone \/ AwaitDoneFails
    BY <2>7, Zenon DEF AwaitDone, AwaitDoneFails, Ended
  <2> QED
    BY <2>1, <2>2, <2>3, <2>4, <2>5, <2>6, <2>7, Zenon DEF Server
<1>4. /\ spc' \in {"start", "options", "collect"} => StageOf' = "setup"
      /\ spc' = "run" => StageOf' = "running"
      /\ spc' \in {"await_results", "final"} => StageOf' = "reporting"
      /\ spc' = "ok" => StageOf' = "ok"
      /\ spc' = "err" => StageOf' = "failed"
  BY DEF StageOf
<1>5. CASE spc' = spc
  BY <1>1, <1>5, Unseen, Zenon
<1>6. CASE \/ spc = "start" /\ spc' = "options"
           \/ spc = "options" /\ spc' = "collect"
           \/ spc = "await_results" /\ spc' = "final"
  <2>1. StageOf' = StageOf
    BY <1>4, <1>6, StageFacts
  <2> QED
    BY <1>1, <1>2, <2>1, Zenon DEF Contract!vars
<1>7. CASE spc = "collect" /\ spc' = "run"
  <2>1. Contract!Begin
    BY <1>1, <1>2, <1>4, <1>7, StageFacts, Zenon DEF Contract!Begin
  <2> QED
    BY <2>1, Zenon DEF Contract!Next
<1>8. CASE spc = "run" /\ spc' = "await_results" /\ ExchangeResults
  <2>1. Contract!Conclude
    BY <1>1, <1>2, <1>4, <1>8, StageFacts, Zenon DEF Contract!Conclude
  <2> QED
    BY <2>1, Zenon DEF Contract!Next
<1>9. CASE spc = "final" /\ spc' = "ok"
  <2>1. gone = "no" => cpc = "done" /\ gotResults
    BY <1>1, <1>9, Zenon DEF ResultsFirst
  <2>2. ClientOf \in {"done", "gone"}
    BY <2>1, ClientFacts, Zenon
  <2>3. Contract!Succeed
    BY <1>1, <1>2, <1>4, <1>9, <2>2, StageFacts, Zenon DEF Contract!Succeed
  <2> QED
    BY <2>3, Zenon DEF Contract!Next
<1>10. CASE spc \notin Ended /\ spc' = "err"
  <2>1. spc \in {"start", "options", "collect", "run", "await_results", "final"}
    BY <1>10, Zenon DEF Types, Ended
  <2>2. StageOf \notin {"ok", "failed"}
    BY <2>1, StageFacts, Zenon
  <2>3. Contract!Fail
    BY <1>1, <1>2, <1>4, <1>10, <2>2, Zenon DEF Contract!Fail, Contract!Over
  <2> QED
    BY <2>3, Zenon DEF Contract!Next
<1> QED
  BY <1>3, <1>5, <1>6, <1>7, <1>8, <1>9, <1>10, Zenon

\* What a step of the client's main loop is to the contract.
LEMMA ClientKeeps ==
    ASSUME Types, Order, Client
    PROVE  [Contract!Next]_Contract!vars
<1> USE DEF CAt, Live, CUnchanged, Handle, sVars, tVars
<1>0. Sent
  BY Zenon DEF Order
<1>1. CASE RecvNothing \/ HandleParamExchange \/ HandleSetDataPort \/ HandleTestState
           \/ HandleExchangeResults \/ Drain \/ Poll
  <2>1. UNCHANGED <<cfg, th, spc, gone, gotResults>> /\ cpc # "done" /\ cpc' # "done"
    BY <1>1, Zenon DEF RecvNothing, HandleParamExchange, HandleSetDataPort, HandleTestState,
                       HandleExchangeResults, Drain, Poll
  <2>2. Cardinality(Unfinished)' = Cardinality(Unfinished) /\ StageOf' = StageOf
    BY <2>1, UsedStays, Zenon DEF Unfinished, StageOf
  <2>3. ClientOf' = ClientOf
    BY <2>1, Zenon DEF ClientOf
  <2> QED
    BY <2>1, <2>2, <2>3, Zenon DEF Contract!vars
<1>2. CASE HandleCreateStreams
  <2>1. /\ UNCHANGED <<cfg, spc, gone, gotResults>> /\ cpc # "done" /\ cpc' # "done"
        /\ s2c # <<>> /\ Head(s2c) = "CreateStreams"
    BY <1>2, Zenon DEF HandleCreateStreams
  <2>2. NotStarted
    BY <1>0, <2>1, HasTail, Zenon DEF Types, Sent
  <2>3. Used' = Used
    BY <2>1, UsedStays, Zenon
  <2>4. Unfinished = Used
    BY <2>2, Zenon DEF Unfinished, NotStarted
  <2>5. Unfinished' = Used
    BY <1>2, <2>3, Zenon DEF HandleCreateStreams, Unfinished
  <2>6. StageOf' = StageOf /\ ClientOf' = ClientOf
    BY <2>1, Zenon DEF StageOf, ClientOf
  <2> QED
    BY <2>1, <2>4, <2>5, <2>6, Zenon DEF Contract!vars
<1>3. ASSUME UNCHANGED <<cfg, th, spc, gone>>
      PROVE  Cardinality(Unfinished)' = Cardinality(Unfinished) /\ StageOf' = StageOf /\ cfg' = cfg
  BY <1>3, UsedStays, Zenon DEF Unfinished, StageOf
<1>4. CASE HandleDisplayResults
  <2>1. UNCHANGED <<cfg, th, spc, gone>> /\ gone = "no" /\ cpc # "done" /\ cpc' = "done"
        /\ gotResults' = gotResults
    BY <1>4, Zenon DEF HandleDisplayResults
  <2>2. gotResults
    BY <1>0, <1>4, HandleDisplayResultsOrder, Zenon
  <2>3. ClientOf = "informed" /\ ClientOf' = "done"
    BY <2>1, <2>2, Zenon DEF ClientOf
  <2>4. Contract!Finish
    BY <1>3, <2>1, <2>3, Zenon DEF Contract!Finish
  <2> QED
    BY <2>4, Zenon DEF Contract!Next
<1>5. CASE HandleAccessDenied
  <2>1. UNCHANGED <<cfg, th, spc, gone>> /\ gone = "no" /\ cpc # "done" /\ cpc' = "done"
        /\ gotResults' = gotResults
    BY <1>5, Zenon DEF HandleAccessDenied
  <2>2. StageOf = "failed"
    BY <1>0, <1>5, HandleAccessDeniedOrder, StageFacts, Zenon
  <2>3. \/ ClientOf = "informed" /\ ClientOf' = "done"
        \/ ClientOf = "busy" /\ ClientOf' = "refused"
    BY <2>1, Zenon DEF ClientOf
  <2>4. Contract!Finish \/ Contract!Refused
    BY <1>3, <2>1, <2>2, <2>3, Zenon DEF Contract!Finish, Contract!Refused
  <2> QED
    BY <2>4, Zenon DEF Contract!Next
<1>6. CASE ReadResults
  <2>1. UNCHANGED <<cfg, th, spc, gone>> /\ gone = "no" /\ cpc # "done" /\ cpc' # "done"
        /\ (gotResults' = gotResults \/ gotResults')
    BY <1>6, Zenon DEF ReadResults
  <2>2. CASE gotResults' = gotResults
    <3>1. ClientOf' = ClientOf
      BY <2>1, <2>2, Zenon DEF ClientOf
    <3> QED
      BY <1>3, <2>1, <3>1, Zenon DEF Contract!vars
  <2>3. CASE gotResults' # gotResults
    <3>1. spc \in {"await_results", "final"} \cup Ended /\ ~gotResults /\ gotResults'
      <4>1. spc \in {"await_results", "final"} \cup Ended
        BY <1>0, <1>6, <2>3, ReadResultsOrder, Zenon
      <4>2. gotResults \in BOOLEAN /\ gotResults'
        BY <1>0, <2>1, <2>3, Zenon DEF Types
      <4>3. gotResults' \in BOOLEAN
        BY <1>0, ClientTypes, Zenon DEF Types
      <4> QED
        BY <2>3, <4>1, <4>2, <4>3, Zenon
    <3>2. StageOf \notin {"setup", "running"}
      BY <3>1, StageFacts DEF Ended
    <3>3. ClientOf = "busy" /\ ClientOf' = "informed"
      BY <2>1, <3>1, Zenon DEF ClientOf
    <3>4. Contract!Learn
      BY <1>3, <2>1, <3>2, <3>3, Zenon DEF Contract!Learn
    <3> QED
      BY <3>4, Zenon DEF Contract!Next
  <2> QED
    BY <2>2, <2>3, Zenon
<1> QED
  BY <1>1, <1>2, <1>4, <1>5, <1>6, Zenon DEF Client
=============================================================================
