------------------------ MODULE ControlSession_proofs ------------------------
(***************************************************************************)
(* ControlInv is an invariant of every test, for any number of streams,    *)
(* any set of options and any faults; and a test implements TestContract.  *)
(***************************************************************************)
EXTENDS ControlSession_steps, FiniteSetTheorems

-----------------------------------------------------------------------------
(* The counters.                                                           *)

\* There are finitely many threads, and a set of some of them is no larger.
LEMMA UsedFinite ==
    /\ IsFiniteSet(Used) /\ Cardinality(Used) \in Nat
    /\ \A T \in SUBSET Used : /\ IsFiniteSet(T) /\ Cardinality(T) \in Nat
                              /\ Cardinality(T) <= Cardinality(Used)
                              /\ Cardinality(T) = Cardinality(Used) => T = Used
<1>1. IsFiniteSet({"tx", "rx"}) /\ IsFiniteSet(1 .. N)
  <2>1. IsFiniteSet({"tx"}) /\ IsFiniteSet({"tx"} \cup {"rx"})
    BY FS_Singleton, FS_AddElement, Zenon
  <2>2. {"tx", "rx"} = {"tx"} \cup {"rx"}
    OBVIOUS
  <2>3. 1 \in Int /\ N \in Int
    BY ControlAssumption
  <2> QED
    BY <2>1, <2>2, <2>3, FS_Interval, Zenon
<1>2. IsFiniteSet(Thread)
  BY <1>1, FS_Product, Zenon DEF Thread
<1>3. IsFiniteSet(Used)
  BY <1>2, FS_Subset, Zenon DEF Used
<1> QED
  BY <1>3, FS_Subset, FS_CardinalityType, Zenon

\* TypeOK gives the types the step lemmas work with.
LEMMA TypesOfTypeOK == TypeOK => Types
<1> SUFFICES ASSUME TypeOK PROVE Types
  OBVIOUS
<1>1. receiptQ \in Nat /\ endQ \in Nat /\ receipts \in Nat /\ finished \in Nat
  BY UsedFinite DEF TypeOK
<1> QED
  BY <1>1, Zenon DEF TypeOK, Types, Ended

\* And those types give TypeOK, since Counts bounds the counters.
LEMMA TypeOKOfTypes == Types /\ Counts => TypeOK
<1> SUFFICES ASSUME Types, Counts PROVE TypeOK
  OBVIOUS
<1>1. Cardinality(Reported) <= Cardinality(Used) /\ Cardinality(Notified) <= Cardinality(Used)
  BY UsedFinite, Zenon DEF Reported, Notified
<1>2. /\ receiptQ \in 0 .. Cardinality(Used) /\ receipts \in 0 .. Cardinality(Used)
      /\ endQ \in 0 .. Cardinality(Used) /\ finished \in 0 .. Cardinality(Used)
  BY <1>1, UsedFinite DEF Types, Counts
<1> QED
  BY <1>2, Zenon DEF TypeOK, Types, Ended

\* A stream thread that reports its receipt or its end (emit_stream_finished) adds to its
\* queue what it adds to Reported or Notified.
LEMMA CountsThread ==
    ASSUME Types, Counts, NEW t \in Used, Threads(t)
    PROVE  Counts'
<1> USE DEF TStep, cVars
<1>1. Used' = Used
  BY UsedStays, Zenon DEF Threads, Open, OpenLost, Finish, ConnectFails, Notify, Close
<1>2. th \in [Used -> {"none", "start", "open", "receipt", "notified", "closed"}] /\ t \in DOMAIN th
  BY Zenon DEF Types
<1>3. \A u \in Used : u # t => th'[u] = th[u]
  BY <1>2, Zenon DEF Threads, Open, OpenLost, Finish, ConnectFails, Notify, Close
<1>4. IsFiniteSet(Reported) /\ IsFiniteSet(Notified)
  BY UsedFinite, Zenon DEF Reported, Notified
<1>5. CASE Open(t) \/ OpenLost(t) \/ Close(t)
  <2>1. Reported' = Reported /\ Notified' = Notified
    BY <1>1, <1>2, <1>3, <1>5, Zenon DEF Open, OpenLost, Close, Reported, Notified
  <2>2. UNCHANGED <<receipts, receiptQ, finished, endQ, testEndSent>>
    BY <1>5, Zenon DEF Open, OpenLost, Close
  <2> QED
    BY <1>1, <2>1, <2>2, Zenon DEF Counts
<1>6. CASE Finish(t) \/ ConnectFails(t)
  <2>1. t \notin Reported /\ Reported' = Reported \cup {t} /\ Notified' = Notified
    BY <1>1, <1>2, <1>3, <1>6, Zenon DEF Finish, ConnectFails, Reported, Notified
  <2>2. Cardinality(Reported') = Cardinality(Reported) + 1
    BY <1>4, <2>1, FS_AddElement, Zenon
  <2>3. UNCHANGED <<receipts, finished, endQ, testEndSent>> /\ receiptQ' = receiptQ + 1
    BY <1>6, Zenon DEF Finish, ConnectFails
  <2>4. Cardinality(Reported') = receipts' + receiptQ'
    BY <2>2, <2>3 DEF Counts, Types
  <2> QED
    BY <1>1, <2>1, <2>3, <2>4, Zenon DEF Counts
<1>7. CASE Notify(t)
  <2>1. t \notin Notified /\ Reported' = Reported /\ Notified' = Notified \cup {t}
    BY <1>1, <1>2, <1>3, <1>7, Zenon DEF Notify, Reported, Notified
  <2>2. Cardinality(Notified') = Cardinality(Notified) + 1
    BY <1>4, <2>1, FS_AddElement, Zenon
  <2>3. UNCHANGED <<receipts, receiptQ, finished, testEndSent>> /\ endQ' = endQ + 1
    BY <1>7, Zenon DEF Notify
  <2>4. Cardinality(Notified') = finished' + endQ'
    BY <2>2, <2>3 DEF Counts, Types
  <2> QED
    BY <1>1, <2>1, <2>3, <2>4, Zenon DEF Counts
<1> QED
  BY <1>5, <1>6, <1>7, Zenon DEF Threads

\* Nothing has been reported before the threads start.
LEMMA NoneEnded ==
    ASSUME Types, Counts, NotStarted
    PROVE  endQ = 0
<1>1. Notified = {}
  BY Zenon DEF Notified, NotStarted
<1>2. finished + endQ = 0
  BY <1>1, FS_EmptySet, Zenon DEF Counts
<1> QED
  BY <1>2 DEF Types

-----------------------------------------------------------------------------
(* The invariant.                                                          *)

\* The beginning of a test.
LEMMA InitInv == Init => ControlInv
<1> SUFFICES ASSUME Init PROVE ControlInv
  OBVIOUS
<1> USE DEF Init
<1>1. Types
  <2>1. /\ <<>> \in Seq(Token) /\ <<>> \in Seq(Wait) /\ <<>> \in Seq(Used) /\ 0 \in Nat
    OBVIOUS
  <2>2. [t \in Used |-> "none"] \in [Used -> {"none", "start", "open", "receipt", "notified", "closed"}]
    BY Zenon
  <2> QED
    BY <2>1, <2>2, Zenon DEF Types
<1>2. NotStarted
  BY Zenon DEF NotStarted
<1>3. Counts
  <2>1. Reported = {} /\ Notified = {}
    BY <1>2, Zenon DEF NotStarted, Reported, Notified
  <2> QED
    BY <2>1, FS_EmptySet DEF Counts
<1>4. Talk
  BY <1>2, HasNone, Zenon DEF Talk
<1>5. Sent
  <2>1. DOMAIN <<>> = {}
    OBVIOUS
  <2>2. Once(<<>>, "CreateStreams") /\ PortNext(<<>>)
    BY <2>1, Zenon DEF Once, PortNext
  <2> QED
    BY <2>2, HasNone, Zenon DEF Sent
<1>6. ResultsFirst
  <2>1. DOMAIN <<>> = {}
    OBVIOUS
  <2> QED
    BY <2>1, Zenon DEF ResultsFirst, Before
<1>7. Calm
  BY HasNone, Zenon DEF Calm
<1> QED
  BY <1>1, <1>3, <1>4, <1>5, <1>6, <1>7, TypeOKOfTypes, Zenon DEF ControlInv

\* Every step keeps the invariant.
LEMMA InvStep == ControlInv /\ [Next]_vars => ControlInv'
<1> SUFFICES ASSUME ControlInv, [Next]_vars PROVE ControlInv'
  OBVIOUS
<1>1. Types /\ Counts /\ Order /\ Sent
  BY TypesOfTypeOK, Zenon DEF ControlInv, Order
<1>2. SUFFICES Types' /\ Counts' /\ Order'
  <2>1. Types' /\ Counts' => TypeOK'
    BY TypeOKOfTypes, PTL
  <2> QED
    BY <2>1, Zenon DEF ControlInv, Order
<1>3. CASE Server
  BY <1>1, <1>3, ServerTypes, ServerOrder, ServerLeaves, CountsStay, Zenon DEF cVars, tVars
<1>4. CASE Client
  BY <1>1, <1>4, ClientTypes, CountsClient, ClientOrder, UsedFinite, NoneEnded, Zenon
<1>5. CASE Vanish
  BY <1>1, <1>5, VanishOrder, CountsStay, Zenon DEF Vanish, cVars, tVars
<1>6. ASSUME NEW t \in Used, Threads(t) PROVE Types' /\ Counts' /\ Order'
  BY <1>1, <1>6, ThreadTypes, CountsThread, ThreadOrder, Zenon
<1>7. CASE UNCHANGED vars
  <2>1. Types'
    BY <1>1, <1>7, UsedStays, Zenon DEF Types, vars, sVars, cVars, tVars
  <2> QED
    BY <1>1, <1>7, <2>1, QuietStep, NotStartedStays, CountsStay, Zenon DEF vars, sVars, cVars, tVars
<1> QED
  BY <1>3, <1>4, <1>5, <1>6, <1>7, Zenon DEF Next

\* ControlInv holds in every test: the counters of client_loop lose no receipt
\* and no TestEnd, the messages of the control channel come in the order of the
\* protocol, and in a calm test nothing but TestEnd takes the session past
\* wait_for_test_end.
THEOREM ControlInvariant == Spec => []ControlInv
BY InitInv, InvStep, PTL DEF Spec

\* Every variable keeps its type; the counters and channels of the client never
\* hold more than one entry per stream thread.
THEOREM TypeCorrect == Spec => []TypeOK
<1>1. ControlInv => TypeOK
  BY Zenon DEF ControlInv
<1> QED
  BY <1>1, ControlInvariant, PTL

\* In a calm test the server never reads a control byte where it expects the
\* client's Results.
THEOREM FramesAlwaysInSync == Spec => []FramesInSync
<1>1. ControlInv => FramesInSync
  <2> SUFFICES ASSUME ControlInv, cfg.calm, spc = "await_results", c2s # <<>> PROVE Head(c2s) = "json"
    BY DEF FramesInSync
  <2>1. 1 \in DOMAIN c2s /\ Head(c2s) = c2s[1]
    BY DEF ControlInv, TypeOK
  <2> QED
    BY <2>1, Zenon DEF ControlInv, Calm
<1> QED
  BY <1>1, ControlInvariant, PTL

\* A session that returns Ok had its client, if that is still there, read the
\* server's Results and end its test.
THEOREM AlwaysAgreeOnSuccess == Spec => []AgreeOnSuccess
<1>1. ControlInv => AgreeOnSuccess
  BY Zenon DEF ControlInv, ResultsFirst, AgreeOnSuccess
<1> QED
  BY <1>1, ControlInvariant, PTL

\* When TestEnd has been sent every thread has sent its receipt.
LEMMA AllReported ==
    ASSUME ControlInv, testEndSent
    PROVE  Reported = Used /\ Unfinished = {} /\ receipts + receiptQ = Cardinality(Used)
<1>1. finished \in Nat /\ endQ \in Nat /\ finished >= Cardinality(Used)
      /\ Cardinality(Notified) = finished + endQ /\ Cardinality(Reported) = receipts + receiptQ
  BY TypesOfTypeOK, Zenon DEF ControlInv, Counts, Types
<1>2. Cardinality(Notified) <= Cardinality(Used) /\ Cardinality(Used) \in Nat
  BY UsedFinite, Zenon DEF Notified
<1>3. Cardinality(Notified) = Cardinality(Used)
  BY <1>1, <1>2
<1>4. Notified = Used
  BY <1>3, UsedFinite, Zenon DEF Notified
<1>5. Reported = Used
  BY <1>4, Zenon DEF Notified, Reported
<1>6. Unfinished = {}
  BY <1>4, Zenon DEF Notified, Unfinished
<1> QED
  BY <1>1, <1>5, <1>6, Zenon

\* In a calm test the client's Results hold the receipt of every stream, for any
\* number of streams and any interleaving of the two channels of client_loop.
THEOREM ResultsAlwaysComplete == Spec => []ResultsComplete
<1>1. Init => ResultsComplete
  BY Zenon DEF Init, ResultsComplete
<1>2. ControlInv /\ ResultsComplete /\ [Next]_vars => ResultsComplete'
  <2> SUFFICES ASSUME ControlInv, ResultsComplete, [Next]_vars PROVE ResultsComplete'
    OBVIOUS
  <2>1. CASE HandleExchangeResults
    <3>1. s2c # <<>> /\ Head(s2c) = "ExchangeResults" /\ report' = receipts + receiptQ /\ cfg' = cfg
      BY <2>1, Zenon DEF HandleExchangeResults, Handle, CUnchanged
    <3>2. Has(s2c, "ExchangeResults")
      BY <3>1, HasTail, Zenon DEF ControlInv, TypeOK
    <3>3. cfg.calm => testEndSent
      BY <3>2, Zenon DEF ControlInv, Calm
    <3> QED
      BY <3>1, <3>3, AllReported, UsedStays, Zenon DEF ResultsComplete
  <2>2. CASE UNCHANGED <<cfg, report>>
    BY <2>2, UsedStays, Zenon DEF ResultsComplete
  <2>3. Client => HandleExchangeResults \/ UNCHANGED <<cfg, report>>
    BY Zenon DEF Client, RecvNothing, HandleParamExchange, HandleSetDataPort, HandleCreateStreams,
       HandleTestState, HandleDisplayResults, HandleAccessDenied, ReadResults, Drain, Poll,
       Handle, CUnchanged
  <2>4. Server => UNCHANGED <<cfg, report>>
    BY ServerLeaves, Zenon DEF cVars
  <2>5. ASSUME NEW t \in Used, Threads(t) PROVE UNCHANGED <<cfg, report>>
    BY <2>5, Zenon DEF Threads, Open, OpenLost, Finish, ConnectFails, Notify, Close, TStep, cVars
  <2>6. Vanish \/ UNCHANGED vars => UNCHANGED <<cfg, report>>
    BY Zenon DEF Vanish, vars, cVars
  <2> QED
    BY <2>1, <2>2, <2>3, <2>4, <2>5, <2>6, Zenon DEF Next
<1> QED
  BY <1>1, <1>2, ControlInvariant, PTL DEF Spec

-----------------------------------------------------------------------------
(* The data connections.                                                   *)

\* Beyond the accept loop, in a test that has not failed.
Beyond == {"run", "await_results", "final", "ok"}

\* A step that accepts no connection and makes none.
LEMMA ConnStay ==
    ASSUME Types, ConnInv, UNCHANGED <<cfg, conns, arrivals>>,
           \A t \in Used : th[t] \notin {"none", "start"} => th'[t] \notin {"none", "start"},
           spc' \in Beyond => spc \in Beyond
    PROVE  ConnInv'
<1>1. \A i \in DOMAIN arrivals : arrivals[i] \in Used
  BY DEF Types
<1>2. \A t \in conns : t \in Used
  BY Zenon DEF Types
<1> QED
  BY <1>1, <1>2, Zenon DEF ConnInv, Complete, Beyond

\* The accept loop moves the oldest connection from the backlog to the test.
LEMMA CollectConn ==
    ASSUME Types, ConnInv, Collect
    PROVE  ConnInv'
<1>1. arrivals \in Seq(Used) /\ arrivals # <<>> /\ arrivals' = Tail(arrivals)
  BY Zenon DEF Types, Collect
<1>2. /\ DOMAIN arrivals' = 1 .. Len(arrivals) - 1 /\ DOMAIN arrivals = 1 .. Len(arrivals)
      /\ Len(arrivals) \in Nat /\ 1 \in DOMAIN arrivals /\ Head(arrivals) = arrivals[1]
      /\ \A i \in DOMAIN arrivals' : arrivals'[i] = arrivals[i + 1]
  BY <1>1
<1>3. \A i \in DOMAIN arrivals' : i + 1 \in DOMAIN arrivals /\ i + 1 # 1 /\ i \in Nat
  BY <1>2
<1>4. UNCHANGED <<cfg, th>> /\ conns' = conns \cup {arrivals[1]}
  BY <1>2, Zenon DEF Collect, tVars
<1>5. ASSUME NEW i \in DOMAIN arrivals', NEW j \in DOMAIN arrivals', arrivals'[i] = arrivals'[j]
      PROVE  i = j
  <2>1. i + 1 = j + 1
    BY <1>2, <1>3, <1>5, Zenon DEF ConnInv
  <2> QED
    BY <1>3, <2>1
<1>6. ASSUME NEW i \in DOMAIN arrivals'
      PROVE  arrivals'[i] \notin conns' /\ th'[arrivals'[i]] \notin {"none", "start"}
  <2>1. arrivals[i + 1] # arrivals[1]
    BY <1>2, <1>3, Zenon DEF ConnInv
  <2> QED
    BY <1>2, <1>3, <1>4, <2>1, Zenon DEF ConnInv
<1>7. \A t \in conns' : th'[t] \notin {"none", "start"}
  BY <1>2, <1>4, Zenon DEF ConnInv
<1>8. spc' \in Beyond => Complete(conns')
  BY Zenon DEF Collect, Beyond
<1>9. Complete(conns)' <=> Complete(conns')
  BY <1>4, Zenon DEF Complete
<1> QED
  BY <1>5, <1>6, <1>7, <1>8, <1>9, Zenon DEF ConnInv, Beyond

\* A thread that connects has done so for the first time.
LEMMA OpenConn ==
    ASSUME Types, ConnInv, NEW t \in Used, Open(t)
    PROVE  ConnInv'
<1>1. /\ arrivals \in Seq(Used) /\ arrivals' = Append(arrivals, t) /\ th[t] = "start"
      /\ UNCHANGED <<cfg, conns, spc>>
      /\ th \in [Used -> {"none", "start", "open", "receipt", "notified", "closed"}]
      /\ th' = [th EXCEPT ![t] = "open"]
  BY Zenon DEF Types, Open, TStep, sVars
<1>2. /\ DOMAIN arrivals' = 1 .. Len(arrivals) + 1 /\ DOMAIN arrivals = 1 .. Len(arrivals)
      /\ arrivals'[Len(arrivals) + 1] = t /\ Len(arrivals) \in Nat
      /\ \A i \in DOMAIN arrivals : arrivals'[i] = arrivals[i]
  BY <1>1
<1>3. \A i \in DOMAIN arrivals' : i \in DOMAIN arrivals \/ i = Len(arrivals) + 1
  BY <1>2
<1>4. \A i \in DOMAIN arrivals : arrivals[i] # t /\ arrivals[i] \in Used
  <2>1. \A i \in DOMAIN arrivals : arrivals[i] \in Used
    BY <1>1
  <2> QED
    BY <1>1, <2>1, Zenon DEF ConnInv
<1>5. t \notin conns /\ conns \subseteq Used
  BY <1>1, Zenon DEF ConnInv, Types
<1>6. /\ th'[t] = "open"
      /\ \A u \in Used : th[u] \notin {"none", "start"} => th'[u] \notin {"none", "start"}
  BY <1>1, Zenon
<1>7. ASSUME NEW i \in DOMAIN arrivals', NEW j \in DOMAIN arrivals', arrivals'[i] = arrivals'[j]
      PROVE  i = j
  BY <1>2, <1>3, <1>4, <1>7, Zenon DEF ConnInv
<1>8. ASSUME NEW i \in DOMAIN arrivals'
      PROVE  arrivals'[i] \notin conns' /\ th'[arrivals'[i]] \notin {"none", "start"}
  <2>1. CASE i = Len(arrivals) + 1
    <3>1. arrivals'[i] = t
      BY <1>2, <2>1, Zenon
    <3>2. th'[t] \notin {"none", "start"}
      BY <1>6
    <3> QED
      BY <1>1, <1>5, <3>1, <3>2, Zenon
  <2>2. CASE i \in DOMAIN arrivals
    BY <1>1, <1>2, <1>4, <1>6, <2>2, Zenon DEF ConnInv
  <2> QED
    BY <1>3, <2>1, <2>2, Zenon
<1>9. \A u \in conns' : th'[u] \notin {"none", "start"}
  BY <1>1, <1>5, <1>6, Zenon DEF ConnInv
<1> QED
  BY <1>1, <1>7, <1>8, <1>9, Zenon DEF ConnInv, Complete

\* Every step keeps ConnInv.
LEMMA ConnStep == ControlInv /\ ConnInv /\ [Next]_vars => ConnInv'
<1> SUFFICES ASSUME ControlInv, ConnInv, [Next]_vars PROVE ConnInv'
  OBVIOUS
<1>1. Types
  BY TypesOfTypeOK, Zenon DEF ControlInv
<1>2. CASE Server
  <2>1. CASE Collect
    BY <1>1, <2>1, CollectConn, Zenon
  <2>2. CASE ~Collect
    <3>1. UNCHANGED <<cfg, conns, arrivals, th>>
      BY <1>2, <2>2, Zenon DEF Server, SendParams, RecvOptions, CollectTimeout, HandshakeFails,
         AwaitTestEnd, AwaitTestEndFails, EndFails, Join, ExchangeResults, RecvResults,
         ResultsOutOfSync, ResultsFail, AwaitDone, AwaitDoneFails, SStep, tVars
    <3>2. spc' \in Beyond => spc \in Beyond
      <4>1. spc' \in {"options", "collect", "err"} \/ spc \in Beyond
        BY <1>2, <2>2, Zenon DEF Server, SendParams, RecvOptions, CollectTimeout, HandshakeFails,
           AwaitTestEnd, AwaitTestEndFails, Waiting, Join, ExchangeResults, RecvResults,
           ResultsOutOfSync, ResultsFail, AwaitDone, AwaitDoneFails, SStep, Beyond
      <4> QED
        BY <4>1 DEF Beyond
    <3> QED
      BY <1>1, <3>1, <3>2, ConnStay, Zenon
  <2> QED
    BY <2>1, <2>2, Zenon
<1>3. CASE Client
  <2>1. UNCHANGED <<cfg, conns, arrivals, spc>>
    BY <1>3, Zenon DEF Client, RecvNothing, HandleParamExchange, HandleSetDataPort,
       HandleCreateStreams, HandleTestState, HandleExchangeResults, HandleDisplayResults,
       HandleAccessDenied, ReadResults, Drain, Poll, Handle, CUnchanged, sVars
  <2>2. th' = th \/ HandleCreateStreams
    BY <1>3, Zenon DEF Client, RecvNothing, HandleParamExchange, HandleSetDataPort,
       HandleTestState, HandleExchangeResults, HandleDisplayResults, HandleAccessDenied,
       ReadResults, Drain, Poll, tVars
  <2>3. HandleCreateStreams => NotStarted
    BY HasTail, Zenon DEF HandleCreateStreams, Handle, ControlInv, Sent, TypeOK
  <2> QED
    BY <1>1, <2>1, <2>2, <2>3, ConnStay, Zenon DEF NotStarted
<1>4. ASSUME NEW t \in Used, Threads(t) PROVE ConnInv'
  <2>1. CASE Open(t)
    BY <1>1, <2>1, OpenConn, Zenon
  <2>2. CASE ~Open(t)
    <3>1. /\ UNCHANGED <<cfg, conns, arrivals, spc>>
          /\ \E v \in {"open", "receipt", "notified", "closed"} : th' = [th EXCEPT ![t] = v]
      BY <1>4, <2>2, Zenon DEF Threads, OpenLost, Finish, ConnectFails, Notify, Close, TStep, sVars
    <3>2. \A v \in {"open", "receipt", "notified", "closed"} : v \notin {"none", "start"}
      OBVIOUS
    <3>3. \A u \in Used : th[u] \notin {"none", "start"} => th'[u] \notin {"none", "start"}
      BY <1>1, <3>1, <3>2, Zenon DEF Types
    <3> QED
      BY <1>1, <3>1, <3>3, ConnStay, Zenon
  <2> QED
    BY <2>1, <2>2, Zenon
<1>5. CASE Vanish \/ UNCHANGED vars
  <2>1. UNCHANGED <<cfg, conns, arrivals, spc, th>>
    BY <1>5, Zenon DEF Vanish, vars, sVars, tVars
  <2> QED
    BY <1>1, <2>1, ConnStay, Zenon
<1> QED
  BY <1>2, <1>3, <1>4, <1>5, Zenon DEF Next

\* A one-way test has as many threads as opts.parallel.
LEMMA OneWayThreads ==
    ASSUME cfg \in Config, cfg.dir # "bidir"
    PROVE  Cardinality(Used) = cfg.parallel
<1> DEFINE p == cfg.parallel
           d == IF cfg.dir = "forward" THEN "tx" ELSE "rx"
<1>1. p \in 1 .. N /\ N \in Nat /\ cfg.dir \in {"forward", "reverse"}
  BY ControlAssumption DEF Config, Direction
<1>2. Used = {d} \X (1 .. p)
  BY <1>1 DEF Used, Thread
<1>3. IsFiniteSet({d}) /\ Cardinality({d}) = 1
  BY FS_Singleton, Zenon
<1>4. IsFiniteSet(1 .. p) /\ Cardinality(1 .. p) = p
  <2>1. 1 \in Int /\ p \in Int /\ ~(1 > p) /\ p - 1 + 1 = p
    BY <1>1
  <2> HIDE DEF p
  <2>2. IsFiniteSet(1 .. p) /\ Cardinality(1 .. p) = IF 1 > p THEN 0 ELSE p - 1 + 1
    BY <2>1, FS_Interval, Zenon
  <2> QED
    BY <2>1, <2>2, Zenon
<1> HIDE DEF p, d
<1>5. Cardinality({d} \X (1 .. p)) = Cardinality({d}) * Cardinality(1 .. p)
  <2>1. IsFiniteSet({d}) /\ IsFiniteSet(1 .. p)
    BY <1>3, <1>4, Zenon
  <2> QED
    BY <2>1, FS_Product, Zenon
<1>6. Cardinality(Used) = 1 * p
  BY <1>2, <1>3, <1>4, <1>5, Zenon
<1>7. p \in Nat
  BY <1>1 DEF p
<1> QED
  BY <1>6, <1>7 DEF p

\* A one-way TCP test that a single-session server has finished leaves no data
\* connection in the listener's backlog, for any number of streams.  (A
\* bidirectional client makes twice as many connections as the accept loop takes.)
THEOREM OneWayBacklogDrained == Spec => []BacklogDrained
<1>1. Init => ConnInv
  <2> SUFFICES ASSUME Init PROVE ConnInv
    OBVIOUS
  <2>1. DOMAIN arrivals = {} /\ conns = {} /\ spc = "start"
    BY DEF Init
  <2> QED
    BY <2>1 DEF ConnInv
<1>2. ControlInv /\ ConnInv => BacklogDrained
  <2> SUFFICES ASSUME ControlInv, ConnInv, cfg.dir # "bidir", spc = "ok" PROVE arrivals = <<>>
    BY Zenon DEF BacklogDrained
  <2>1. cfg \in Config /\ conns \subseteq Used /\ arrivals \in Seq(Used)
    BY ControlAssumption, Zenon DEF ControlInv, TypeOK
  <2>2. Cardinality(conns) = cfg.parallel
    BY Zenon DEF ConnInv, Complete
  <2>3. conns = Used
    BY <2>1, <2>2, OneWayThreads, UsedFinite, Zenon
  <2>4. ASSUME arrivals # <<>> PROVE FALSE
    <3>1. 1 \in DOMAIN arrivals /\ arrivals[1] \in Used
      BY <2>1, <2>4
    <3> QED
      BY <2>3, <3>1, Zenon DEF ConnInv
  <2> QED
    BY <2>4, Zenon
<1> QED
  BY <1>1, <1>2, ConnStep, ControlInvariant, PTL DEF Spec

-----------------------------------------------------------------------------
(* A test implements TestContract.                                         *)

\* A calm session does not publish its results before every stream is over.
LEMMA ConcludesCalm ==
    ASSUME ControlInv, ExchangeResults, cfg.calm
    PROVE  Cardinality(Unfinished) = 0
<1>1. spc = "run" /\ ~Has(plan, "end!") /\ ~Has(plan, "end?")
  BY HasNone, Zenon DEF ExchangeResults
<1>2. testEndSent
  BY <1>1, Zenon DEF ControlInv, Calm
<1> QED
  BY <1>2, AllReported, FS_EmptySet, Zenon

\* What a step of a stream thread is to the contract.
LEMMA ThreadKeeps ==
    ASSUME ControlInv, NEW t \in Used, Threads(t)
    PROVE  [Contract!Next]_Contract!vars
<1> USE DEF TStep, sVars, cVars, Live
<1>1. UNCHANGED <<cfg, spc, cpc, gotResults, gone>> /\ gone = "no" /\ cpc # "done"
  BY Zenon DEF Threads, Open, OpenLost, Finish, ConnectFails, Notify, Close
<1>2. StageOf' = StageOf /\ ClientOf' = ClientOf /\ ClientOf \in {"busy", "informed"}
  BY <1>1, Zenon DEF StageOf, ClientOf
<1>3. Used' = Used
  BY <1>1, UsedStays, Zenon
<1>4. th \in [Used -> {"none", "start", "open", "receipt", "notified", "closed"}] /\ t \in DOMAIN th
  BY Zenon DEF ControlInv, TypeOK
<1>5. \A u \in Used : u # t => th'[u] = th[u]
  BY <1>4, Zenon DEF Threads, Open, OpenLost, Finish, ConnectFails, Notify, Close
<1>6. CASE Open(t) \/ OpenLost(t) \/ Notify(t) \/ Close(t)
  <2>1. Unfinished' = Unfinished
    BY <1>3, <1>4, <1>5, <1>6, Zenon DEF Open, OpenLost, Notify, Close, Unfinished
  <2> QED
    BY <1>1, <1>2, <2>1, Zenon DEF Contract!vars
<1>7. CASE Finish(t) \/ ConnectFails(t)
  <2>1. t \in Unfinished /\ Unfinished' = Unfinished \ {t}
    BY <1>3, <1>4, <1>5, <1>7, Zenon DEF Finish, ConnectFails, Unfinished
  <2>2. IsFiniteSet(Unfinished) /\ Cardinality(Unfinished) \in Nat
    BY UsedFinite, Zenon DEF Unfinished
  <2>3. Cardinality(Unfinished)' = Cardinality(Unfinished) - 1
    BY <2>1, <2>2, FS_RemoveElement, Zenon
  <2>4. Cardinality(Unfinished) # 0
    BY <2>1, <2>2, FS_EmptySet, Zenon
  <2>5. Cardinality(Unfinished) > 0
    BY <2>2, <2>4
  <2>6. Contract!StreamEnds
    BY <1>1, <1>2, <2>3, <2>5, Zenon DEF Contract!StreamEnds
  <2> QED
    BY <2>6, Zenon DEF Contract!Next
<1> QED
  BY <1>6, <1>7, Zenon DEF Threads

\* A test keeps the contract between its two ends, whatever its transport,
\* direction, number of streams and server mode, and whatever goes wrong: the
\* session publishes its results in a calm test only when every stream is over,
\* the client ends only with the results or refused, and the session returns Ok
\* only to a client that has ended so or is gone.
THEOREM ImplementsContract == Spec => KeepsContract
<1>1. Init => Contract!Init
  <2> SUFFICES ASSUME Init PROVE Contract!Init
    OBVIOUS
  <2>1. cfg.calm \in BOOLEAN
    <3>1. cfg \in Config
      BY ControlAssumption, Zenon DEF Init
    <3> QED
      BY <3>1, Zenon DEF Config
  <2>2. StageOf = "setup" /\ ClientOf = "busy"
    BY StageFacts, ClientFacts, Zenon DEF Init
  <2>3. Cardinality(Unfinished) \in Nat
    BY UsedFinite, Zenon DEF Unfinished
  <2> QED
    BY <2>1, <2>2, <2>3, Zenon DEF Contract!Init
<1>2. ControlInv /\ ControlInv' /\ [Next]_vars => [Contract!Next]_Contract!vars
  <2> SUFFICES ASSUME ControlInv, ControlInv', [Next]_vars PROVE [Contract!Next]_Contract!vars
    OBVIOUS
  <2>1. CASE UNCHANGED vars
    BY <2>1, Unseen, Zenon DEF vars, sVars, cVars, tVars
  <2>2. CASE Vanish
    <3>1. /\ UNCHANGED <<cfg, th, spc, cpc, gotResults>> /\ gone = "no" /\ cpc # "done"
          /\ gone' \in {"killed", "silent"} /\ ~cfg.calm
      BY <2>2, Zenon DEF Vanish, MayFail, Live, sVars, cVars, tVars
    <3>2. Cardinality(Unfinished)' = Cardinality(Unfinished) /\ StageOf' = StageOf
      BY <3>1, UsedStays, Zenon DEF Unfinished, StageOf
    <3>3. ClientOf \in {"busy", "informed"} /\ ClientOf' = "gone"
      BY <3>1, Zenon DEF ClientOf
    <3>4. Contract!Vanish
      BY <3>1, <3>2, <3>3, Zenon DEF Contract!Vanish
    <3> QED
      BY <3>4, Zenon DEF Contract!Next
  <2>3. CASE Server
    BY <2>3, TypesOfTypeOK, ServerKeeps, ConcludesCalm, Zenon DEF ControlInv
  <2>4. CASE Client
    BY <2>4, TypesOfTypeOK, ClientKeeps, Zenon DEF ControlInv, Order
  <2> QED
    BY <2>1, <2>2, <2>3, <2>4, ThreadKeeps, Zenon DEF Next
<1> QED
  BY <1>1, <1>2, ControlInvariant, PTL DEF Spec, KeepsContract, Contract!Spec
=============================================================================
