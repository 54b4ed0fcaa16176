-------------------------- MODULE UdpReceiver_proofs --------------------------
(***************************************************************************)
(* TLAPS proofs about the UDP receiver, for any number of streams and      *)
(* datagrams and any losses, duplications and reorderings.                 *)
(***************************************************************************)
EXTENDS UdpReceiver, FiniteSetTheorems, TLAPS

\* The numbers counted so far never exceed max_seq.
SeenBelowMax == \A s \in Stream : seen[s] \subseteq 0 .. max_seq[s]

UdpInv == TypeOK /\ AccountingExact /\ SeenBelowMax /\ LossBounds

\* A datagram taken from the network leaves a sequence of datagrams.
LEMMA TakeType ==
    ASSUME TypeOK, NEW s \in Stream, NEW i \in DOMAIN net[s], TakeFrom(s, i)
    PROVE  net' \in [Stream -> Seq(Datagram)] /\ net[s][i] \in Datagram
<1>1. net \in [Stream -> Seq(Datagram)] /\ net[s] \in Seq(Datagram)
  BY Zenon DEF TypeOK
<1>2. i \in 1 .. Len(net[s])
  BY <1>1
<1>3. Without(net[s], i) \in Seq(Datagram)
  BY <1>1, <1>2 DEF Without
<1> QED
  BY <1>1, <1>2, <1>3 DEF TakeFrom

\* A datagram sent joins a sequence of datagrams.
LEMMA SendType ==
    ASSUME TypeOK, NEW s \in Stream, NEW d \in Datagram, Send(s, d)
    PROVE  net' \in [Stream -> Seq(Datagram)]
BY DEF TypeOK, Send

\* Data and cookies have natural numbers.
LEMMA DatagramNumber ==
    ASSUME NEW d \in Datagram, d # Short, d # Sentinel
    PROVE  d \in Nat
BY UdpAssumption DEF Datagram, Data

-----------------------------------------------------------------------------
(* Type correctness.                                                       *)

\* The counters stay natural numbers when a datagram is counted.
LEMMA CountType ==
    ASSUME TypeOK, NEW s \in Stream, NEW d \in Nat, Count(s, d)
    PROVE  /\ packets' \in [Stream -> Nat]
           /\ lost' \in [Stream -> Nat]
           /\ ooo' \in [Stream -> Nat]
           /\ max_seq' \in [Stream -> Nat \cup {-1}]
           /\ seen' \in [Stream -> SUBSET Nat]
<1>1. /\ packets \in [Stream -> Nat] /\ lost \in [Stream -> Nat]
      /\ ooo \in [Stream -> Nat] /\ max_seq \in [Stream -> Nat \cup {-1}]
      /\ seen \in [Stream -> SUBSET Nat]
  BY Zenon DEF TypeOK
<1>2. Gap(s, d) \in Nat
  <2>1. max_seq[s] \in Nat \cup {-1}
    BY <1>1, Zenon
  <2> QED
    BY <2>1 DEF Gap
<1>3. packets' = [packets EXCEPT ![s] = @ + 1] /\ seen' = [seen EXCEPT ![s] = @ \cup {d}]
  BY Zenon DEF Count
<1>4. packets' \in [Stream -> Nat]
  BY <1>1, <1>3
<1>5. seen' \in [Stream -> SUBSET Nat]
  BY <1>1, <1>3, Zenon
<1>6. CASE d <= max_seq[s]
  <2>1. ooo' = [ooo EXCEPT ![s] = @ + 1] /\ lost' = lost /\ max_seq' = max_seq
    BY <1>6, Zenon DEF Count
  <2> QED
    BY <1>1, <1>4, <1>5, <2>1
<1>7. CASE ~(d <= max_seq[s])
  <2>1. /\ lost' = [lost EXCEPT ![s] = @ + Gap(s, d)]
        /\ max_seq' = [max_seq EXCEPT ![s] = d]
        /\ ooo' = ooo
    BY <1>7, Zenon DEF Count
  <2>2. lost' \in [Stream -> Nat]
    BY <1>1, <1>2, <2>1
  <2>3. max_seq' \in [Stream -> Nat \cup {-1}]
    BY <1>1, <2>1, Zenon
  <2> QED
    BY <1>1, <1>4, <1>5, <2>1, <2>2, <2>3, Zenon
<1> QED
  BY <1>6, <1>7, Zenon

\* Every step preserves the types.
LEMMA NextType == TypeOK /\ [Next]_vars => TypeOK'
<1> SUFFICES ASSUME TypeOK, [Next]_vars PROVE TypeOK'
  OBVIOUS
<1> USE DEF vars, senderVars, faultVars, sessionVars, loopVars, stateVars
<1>1. ASSUME NEW s \in Stream, SendInit(s) PROVE TypeOK'
  <2>1. net' \in [Stream -> Seq(Datagram)]
    BY <1>1, SendType, Zenon DEF SendInit, Datagram
  <2>2. sender' \in [Stream -> {"idle", "sending", "finished"}]
    BY <1>1 DEF SendInit, TypeOK
  <2>3. UNCHANGED <<seq, faultVars, sessionVars, loopVars, stateVars, early>>
    BY <1>1, Zenon DEF SendInit
  <2> QED
    BY <2>1, <2>2, <2>3, ZenonT(60) DEF TypeOK
<1>2. ASSUME NEW s \in Stream, SendData(s) PROVE TypeOK'
  <2>1. seq[s] \in Data
    BY <1>2, UdpAssumption DEF SendData, TypeOK, Data
  <2>2. net' \in [Stream -> Seq(Datagram)]
    BY <1>2, <2>1, SendType, Zenon DEF SendData, Datagram
  <2>3. seq' \in [Stream -> Nat]
    BY <1>2 DEF SendData, TypeOK
  <2>4. UNCHANGED <<sender, faultVars, sessionVars, loopVars, stateVars, early>>
    BY <1>2, Zenon DEF SendData
  <2> QED
    BY <2>2, <2>3, <2>4, Zenon DEF TypeOK
<1>3. ASSUME NEW s \in Stream, SendSentinel(s) PROVE TypeOK'
  <2>1. net' \in [Stream -> Seq(Datagram)]
    BY <1>3, SendType, Zenon DEF SendSentinel, Datagram
  <2>2. sender' \in [Stream -> {"idle", "sending", "finished"}]
    BY <1>3 DEF SendSentinel, TypeOK
  <2>3. UNCHANGED <<seq, faultVars, sessionVars, loopVars, stateVars, early>>
    BY <1>3, Zenon DEF SendSentinel
  <2> QED
    BY <2>1, <2>2, <2>3, Zenon DEF TypeOK
<1>4. ASSUME NEW s \in Stream, NEW i \in DOMAIN net[s], Lose(s, i) PROVE TypeOK'
  <2>1. net' \in [Stream -> Seq(Datagram)]
    BY <1>4, TakeType, Zenon DEF Lose
  <2>2. netLost' \in [Stream -> Nat] /\ losses' \in Nat
    BY <1>4 DEF Lose, TypeOK
  <2>3. UNCHANGED <<senderVars, dups, sessionVars, loopVars, stateVars, early>>
    BY <1>4, Zenon DEF Lose
  <2> QED
    BY <2>1, <2>2, <2>3, ZenonT(60) DEF TypeOK
<1>5. ASSUME NEW s \in Stream, NEW i \in DOMAIN net[s], Duplicate(s, i) PROVE TypeOK'
  <2>1. net[s][i] \in Datagram
    BY DEF TypeOK
  <2>2. net' \in [Stream -> Seq(Datagram)]
    BY <1>5, <2>1, SendType, Zenon DEF Duplicate
  <2>3. dups' \in Nat
    BY <1>5 DEF Duplicate, TypeOK
  <2>4. UNCHANGED <<senderVars, losses, netLost, sessionVars, loopVars, stateVars, early>>
    BY <1>5, Zenon DEF Duplicate
  <2> QED
    BY <2>2, <2>3, <2>4, Zenon DEF TypeOK
<1>6. ASSUME NEW s \in Stream, NEW i \in Deliverable(s), AcceptDatagram(s, i)
      PROVE  TypeOK'
  <2>1. net' \in [Stream -> Seq(Datagram)]
    BY <1>6, TakeType, Zenon DEF AcceptDatagram, Deliverable
  <2>2. addrs' \in Seq(Stream)
    BY <1>6 DEF AcceptDatagram, TypeOK
  <2>3. early' \in [Stream -> Nat]
    BY <1>6 DEF AcceptDatagram, TypeOK
  <2> QED
    BY <1>6, <2>1, <2>2, <2>3, Zenon DEF AcceptDatagram, TypeOK
<1>7. CASE AcceptTimeout \/ TestEndArrives \/ ControlFails \/ Join
  BY <1>7 DEF AcceptTimeout, TestEndArrives, ControlFails, Join, TypeOK
<1>8. CASE Check
  BY <1>8, Zenon DEF Check, LoopHead, TypeOK
<1>9. ASSUME NEW s \in Stream, NEW i \in Deliverable(s), Receive(s, i)
      PROVE  TypeOK'
  <2>1. net' \in [Stream -> Seq(Datagram)] /\ net[s][i] \in Datagram
    BY <1>9, TakeType, Zenon DEF Receive, Deliverable
  <2>2. rpc' = "check" /\ UNCHANGED <<senderVars, faultVars, sessionVars, grace, exit, early>>
    BY <1>9, Zenon DEF Receive
  <2>3. CASE net[s][i] = Short
    <3>1. UNCHANGED stateVars
      BY <1>9, <2>3 DEF Receive, Short, Sentinel
    <3> QED
      BY <2>1, <2>2, <3>1, ZenonT(60) DEF TypeOK
  <2>4. CASE net[s][i] = Sentinel
    <3>1. /\ saw_sentinel' = [saw_sentinel EXCEPT ![s] = TRUE]
          /\ UNCHANGED <<max_seq, packets, lost, ooo, seen>>
      BY <1>9, <2>4 DEF Receive, Short, Sentinel
    <3> QED
      BY <2>1, <2>2, <3>1, ZenonT(60) DEF TypeOK
  <2>5. CASE net[s][i] # Short /\ net[s][i] # Sentinel
    <3>1. Count(s, net[s][i]) /\ UNCHANGED saw_sentinel
      BY <1>9, <2>5, Zenon DEF Receive
    <3>2. /\ packets' \in [Stream -> Nat]
          /\ lost' \in [Stream -> Nat]
          /\ ooo' \in [Stream -> Nat]
          /\ max_seq' \in [Stream -> Nat \cup {-1}]
          /\ seen' \in [Stream -> SUBSET Nat]
      BY <2>1, <2>5, <3>1, DatagramNumber, CountType, Zenon
    <3> QED
      BY <2>1, <2>2, <3>1, <3>2, ZenonT(60) DEF TypeOK
  <2> QED
    BY <2>3, <2>4, <2>5, Zenon
<1>10. CASE ReceiveNoise \/ ReceiveTimeout \/ ReceiveError \/ GraceElapses
  BY <1>10 DEF ReceiveNoise, ReceiveTimeout, ReceiveError, GraceElapses, TypeOK
<1>11. CASE UNCHANGED vars
  BY <1>11 DEF TypeOK
<1> QED
  BY <1>1, <1>2, <1>3, <1>4, <1>5, <1>6, <1>7, <1>8, <1>9, <1>10, <1>11, Zenon
  DEF Next, ClientStream, Network, Session, Recv

-----------------------------------------------------------------------------
(* The accounting.                                                         *)

\* The numbers between max_seq and d, which d jumps over.
LEMMA GapIsInterval ==
    ASSUME NEW m \in Nat \cup {-1}, NEW d \in Nat, d > m
    PROVE  /\ IsFiniteSet(m + 1 .. d - 1)
           /\ Cardinality(m + 1 .. d - 1) = IF d > m + 1 THEN d - m - 1 ELSE 0
<1>1. m + 1 \in Int /\ d - 1 \in Int
  OBVIOUS
<1>2. /\ IsFiniteSet(m + 1 .. d - 1)
      /\ Cardinality(m + 1 .. d - 1) = IF m + 1 > d - 1 THEN 0 ELSE (d - 1) - (m + 1) + 1
  BY <1>1, FS_Interval, Zenon
<1>3. (IF m + 1 > d - 1 THEN 0 ELSE (d - 1) - (m + 1) + 1) = IF d > m + 1 THEN d - m - 1 ELSE 0
  OBVIOUS
<1> QED
  BY <1>2, <1>3

\* Missing numbers are finitely many.
LEMMA MissingFinite ==
    ASSUME TypeOK, NEW s \in Stream
    PROVE  IsFiniteSet(Missing(s)) /\ Cardinality(Missing(s)) \in Nat
<1>1. max_seq[s] \in Int
  BY DEF TypeOK
<1>2. IsFiniteSet(0 .. max_seq[s])
  BY <1>1, FS_Interval
<1>3. Missing(s) \subseteq 0 .. max_seq[s]
  BY Zenon DEF Missing
<1> QED
  BY <1>2, <1>3, FS_Subset, FS_CardinalityType, Zenon

\* Counting one datagram preserves the accounting of its stream.
LEMMA CountInv ==
    ASSUME UdpInv, TypeOK', NEW s \in Stream, NEW d \in Nat, Count(s, d)
    PROVE  UdpInv'
<1> DEFINE M == Missing(s)
<1>1. /\ packets \in [Stream -> Nat] /\ lost \in [Stream -> Nat]
      /\ ooo \in [Stream -> Nat] /\ max_seq \in [Stream -> Nat \cup {-1}]
      /\ seen \in [Stream -> SUBSET Nat]
  BY Zenon DEF UdpInv, TypeOK
<1>2. packets' = [packets EXCEPT ![s] = @ + 1] /\ seen' = [seen EXCEPT ![s] = @ \cup {d}]
  BY Zenon DEF Count
<1>3. /\ packets[s] - ooo[s] + lost[s] = max_seq[s] + 1
      /\ seen[s] \subseteq 0 .. max_seq[s]
      /\ Cardinality(M) <= lost[s]
      /\ lost[s] <= Cardinality(M) + ooo[s]
  BY Zenon DEF UdpInv, AccountingExact, SeenBelowMax, LossBounds
<1>4. IsFiniteSet(M) /\ Cardinality(M) \in Nat
  BY MissingFinite, Zenon DEF UdpInv
<1>5. ASSUME NEW t \in Stream \ {s}
      PROVE  /\ packets'[t] = packets[t] /\ lost'[t] = lost[t] /\ ooo'[t] = ooo[t]
             /\ max_seq'[t] = max_seq[t] /\ seen'[t] = seen[t]
  BY <1>1, <1>2, Zenon DEF Count
<1>6. /\ packets'[s] - ooo'[s] + lost'[s] = max_seq'[s] + 1
      /\ seen'[s] \subseteq 0 .. max_seq'[s]
      /\ Cardinality(Missing(s)') <= lost'[s]
      /\ lost'[s] <= Cardinality(Missing(s)') + ooo'[s]
  <2>1. packets'[s] = packets[s] + 1 /\ seen'[s] = seen[s] \cup {d}
    BY <1>1, <1>2, Zenon
  <2>2. CASE d <= max_seq[s]
    <3>1. ooo'[s] = ooo[s] + 1 /\ lost'[s] = lost[s] /\ max_seq'[s] = max_seq[s]
      BY <1>1, <2>2, Zenon DEF Count
    <3>2. Missing(s)' = M \ {d}
      BY <2>1, <3>1, Zenon DEF Missing
    <3>3. Cardinality(Missing(s)') = IF d \in M THEN Cardinality(M) - 1 ELSE Cardinality(M)
      BY <1>4, <3>2, FS_RemoveElement, Zenon
    <3>4. seen'[s] \subseteq 0 .. max_seq'[s]
      BY <1>1, <1>3, <2>1, <2>2, <3>1
    <3>5. packets'[s] - ooo'[s] + lost'[s] = max_seq'[s] + 1
      BY <1>1, <1>3, <2>1, <3>1
    <3> HIDE DEF M
    <3>6. /\ Cardinality(Missing(s)') <= lost'[s]
          /\ lost'[s] <= Cardinality(Missing(s)') + ooo'[s]
      BY <1>1, <1>3, <1>4, <3>1, <3>3
    <3> QED
      BY <3>4, <3>5, <3>6, Zenon
  <2>3. CASE ~(d <= max_seq[s])
    <3> DEFINE m == max_seq[s]
               I == m + 1 .. d - 1
    <3>1. lost'[s] = lost[s] + Gap(s, d) /\ max_seq'[s] = d /\ ooo'[s] = ooo[s]
      BY <1>1, <2>3, Zenon DEF Count
    <3>2. m \in Nat \cup {-1} /\ d > m
      BY <1>1, <2>3
    <3>3. IsFiniteSet(I) /\ Cardinality(I) = Gap(s, d)
      BY <3>2, GapIsInterval, Zenon DEF Gap
    <3>4. Missing(s)' = M \cup I /\ M \cap I = {}
      <4>1. M \subseteq 0 .. m
        BY Zenon DEF Missing
      <4>2. M \cap I = {}
        BY <3>2, <4>1
      <4>3. Missing(s)' = {q \in 0 .. d : q \notin seen[s] /\ q # d}
        BY <2>1, <3>1, Zenon DEF Missing
      <4>4. \A q : q \in 0 .. d /\ q # d <=> q \in 0 .. m \/ q \in I
        BY <3>2
      <4>5. \A q \in I : q \notin seen[s]
        BY <1>3, <3>2
      <4> QED
        BY <4>2, <4>3, <4>4, <4>5, Zenon DEF Missing
    <3>5. Cardinality(Missing(s)') = Cardinality(M) + Gap(s, d)
      <4>1. Cardinality(M \cup I) = Cardinality(M) + Cardinality(I) - Cardinality(M \cap I)
        BY <1>4, <3>3, FS_Union, Zenon
      <4>2. Cardinality(M \cap I) = 0
        BY <3>4, FS_EmptySet, Zenon
      <4>3. Gap(s, d) \in Nat
        BY <3>3, FS_CardinalityType, Zenon
      <4> HIDE DEF M, I
      <4> QED
        BY <1>4, <3>3, <3>4, <4>1, <4>2, <4>3
    <3>6. seen'[s] \subseteq 0 .. max_seq'[s]
      BY <1>3, <2>1, <3>1, <3>2
    <3>7. Gap(s, d) = d - m - 1
      BY <3>2 DEF Gap
    <3>8. packets'[s] - ooo'[s] + lost'[s] = max_seq'[s] + 1
      BY <1>1, <1>3, <2>1, <3>1, <3>2, <3>7
    <3> HIDE DEF M
    <3>9. /\ Cardinality(Missing(s)') <= lost'[s]
          /\ lost'[s] <= Cardinality(Missing(s)') + ooo'[s]
      BY <1>1, <1>3, <1>4, <3>1, <3>2, <3>5, <3>7
    <3> QED
      BY <3>6, <3>8, <3>9, Zenon
  <2> QED
    BY <2>2, <2>3, Zenon
<1>7. \A t \in Stream \ {s} : Missing(t)' = Missing(t)
  BY <1>5, Zenon DEF Missing
<1>8. AccountingExact'
  BY <1>5, <1>6, Zenon DEF UdpInv, AccountingExact
<1>9. SeenBelowMax'
  BY <1>5, <1>6, Zenon DEF UdpInv, SeenBelowMax
<1>10. LossBounds'
  BY <1>5, <1>6, <1>7, Zenon DEF UdpInv, LossBounds
<1> QED
  BY <1>8, <1>9, <1>10, Zenon DEF UdpInv

\* A step that counts nothing preserves the accounting.
LEMMA IdleInv ==
    ASSUME UdpInv, TypeOK', UNCHANGED <<max_seq, packets, lost, ooo, seen>>
    PROVE  UdpInv'
<1>1. \A s \in Stream : Missing(s)' = Missing(s)
  BY Zenon DEF Missing
<1> QED
  BY <1>1, Zenon DEF UdpInv, AccountingExact, SeenBelowMax, LossBounds

\* Every step preserves the accounting: only Receive can count.
LEMMA NextInv == UdpInv /\ [Next]_vars => UdpInv'
<1> SUFFICES ASSUME UdpInv, [Next]_vars PROVE UdpInv'
  OBVIOUS
<1>1. TypeOK /\ TypeOK'
  BY NextType, Zenon DEF UdpInv
<1>2. CASE UNCHANGED stateVars
  BY <1>1, <1>2, IdleInv, Zenon DEF stateVars
<1>3. ASSUME NEW s \in Stream, NEW i \in Deliverable(s), Receive(s, i)
      PROVE  UdpInv'
  <2>1. net[s][i] \in Datagram
    BY <1>1, <1>3, TakeType, Zenon DEF Receive, Deliverable
  <2>2. CASE net[s][i] = Short
    BY <1>2, <1>3, <2>2 DEF Receive, Short, Sentinel
  <2>3. CASE net[s][i] = Sentinel
    BY <1>1, <1>3, <2>3, IdleInv DEF Receive, Short, Sentinel
  <2>4. CASE net[s][i] # Short /\ net[s][i] # Sentinel
    <3>1. Count(s, net[s][i])
      BY <1>3, <2>4, Zenon DEF Receive
    <3> QED
      BY <1>1, <2>1, <2>4, <3>1, DatagramNumber, CountInv, Zenon
  <2> QED
    BY <2>2, <2>3, <2>4, Zenon
<1>4. UNCHANGED stateVars \/ \E s \in Stream : \E i \in Deliverable(s) : Receive(s, i)
  BY Zenon DEF Next, vars, ClientStream, SendInit, SendData, SendSentinel, Network, Lose,
         Duplicate, Session, AcceptDatagram, AcceptTimeout, TestEndArrives,
         ControlFails, Join, Check, LoopHead, Recv, ReceiveNoise, ReceiveTimeout,
         ReceiveError, GraceElapses
<1> QED
  BY <1>2, <1>3, <1>4, Zenon

\* Nothing is counted before the first datagram.
LEMMA InitInv == Init => UdpInv
<1> SUFFICES ASSUME Init PROVE UdpInv
  OBVIOUS
<1>1. TypeOK
  <2>1. net \in [Stream -> Seq(Datagram)] /\ addrs \in Seq(Stream)
    BY DEF Init
  <2>2. seen \in [Stream -> SUBSET Nat]
    BY Zenon DEF Init
  <2>3. max_seq \in [Stream -> Nat \cup {-1}]
    BY Zenon DEF Init
  <2>4. /\ packets \in [Stream -> Nat] /\ lost \in [Stream -> Nat]
        /\ ooo \in [Stream -> Nat] /\ seq \in [Stream -> Nat]
        /\ netLost \in [Stream -> Nat] /\ early \in [Stream -> Nat]
    BY Zenon DEF Init
  <2>5. /\ sender \in [Stream -> {"idle", "sending", "finished"}]
        /\ saw_sentinel \in [Stream -> BOOLEAN]
    BY Zenon DEF Init
  <2> QED
    BY <2>1, <2>2, <2>3, <2>4, <2>5, Zenon DEF Init, TypeOK
<1>2. \A s \in Stream : Missing(s) = {}
  BY DEF Init, Missing
<1>3. Cardinality({}) = 0
  BY FS_EmptySet, Zenon
<1>4. LossBounds
  <2>1. \A s \in Stream : lost[s] = 0 /\ ooo[s] = 0
    BY Zenon DEF Init
  <2> QED
    BY <1>2, <1>3, <2>1 DEF LossBounds
<1> QED
  BY <1>1, <1>4 DEF Init, UdpInv, AccountingExact, SeenBelowMax

\* The counters of every receipt agree with each other, whatever the network
\* loses, duplicates and reorders.
THEOREM AccountingCorrect == Spec => []AccountingExact
<1>1. UdpInv => AccountingExact
  BY Zenon DEF UdpInv
<1> QED
  BY <1>1, InitInv, NextInv, PTL DEF Spec

\* `lost` covers every missing datagram, and exceeds them by at most `ooo`.
THEOREM LossCorrect == Spec => []LossBounds
<1>1. UdpInv => LossBounds
  BY Zenon DEF UdpInv
<1> QED
  BY <1>1, InitInv, NextInv, PTL DEF Spec

-----------------------------------------------------------------------------
(* Registration.                                                           *)

\* Streams are registered at most once while accepting, all of them after.
RegInv ==
    /\ TypeOK
    /\ IsInjective(addrs)
    /\ phase = "accept" => rpc = "off"
    /\ rpc # "off" => Range(addrs) = Stream

\* As many distinct streams as there are streams are all of them.
LEMMA AllRegistered ==
    ASSUME NEW q \in Seq(Stream), IsInjective(q), Len(q) = Cardinality(Stream)
    PROVE  Range(q) = Stream
<1>1. q \in Injection(1 .. Len(q), Stream)
  BY DEF Injection, IsInjective
<1>2. Len(q) \in Nat /\ Cardinality(1 .. Len(q)) = Len(q)
  <2>1. Len(q) \in Nat /\ 1 \in Int /\ Len(q) \in Int
    OBVIOUS
  <2>2. Cardinality(1 .. Len(q)) = IF 1 > Len(q) THEN 0 ELSE Len(q) - 1 + 1
    BY <2>1, FS_Interval, Zenon
  <2> QED
    BY <2>1, <2>2
<1>3. q \in Surjection(1 .. Len(q), Stream)
  BY <1>1, <1>2, FS_Injection, UdpAssumption, Zenon
<1> QED
  BY <1>3, Zenon DEF Surjection, Range

\* A datagram of accept_udp_streams registers a stream that is not there yet.
LEMMA AcceptRegInv ==
    ASSUME RegInv, TypeOK', NEW s \in Stream, NEW i, AcceptDatagram(s, i)
    PROVE  RegInv'
<1>1. addrs \in Seq(Stream) /\ IsInjective(addrs) /\ phase = "accept" /\ rpc = "off"
  BY Zenon DEF RegInv, TypeOK, AcceptDatagram
<1>2. addrs' = addrs \/ (s \notin Range(addrs) /\ addrs' = Append(addrs, s))
  BY Zenon DEF AcceptDatagram, NewStream
<1>3. IsInjective(addrs')
  <2>1. CASE addrs' = addrs
    BY <1>1, <2>1, Zenon
  <2>2. CASE s \notin Range(addrs) /\ addrs' = Append(addrs, s)
    <3>1. \A j \in 1 .. Len(addrs) : addrs[j] # s
      BY <1>1, <2>2 DEF Range
    <3>2. /\ DOMAIN addrs' = 1 .. Len(addrs) + 1
          /\ \A j \in 1 .. Len(addrs) : addrs'[j] = addrs[j]
          /\ addrs'[Len(addrs) + 1] = s
      BY <1>1, <2>2
    <3>3. \A j, k \in 1 .. Len(addrs) : addrs[j] = addrs[k] => j = k
      BY <1>1 DEF IsInjective
    <3> QED
      BY <1>1, <3>1, <3>2, <3>3 DEF IsInjective
  <2> QED
    BY <1>2, <2>1, <2>2, Zenon
<1>4. CASE Len(addrs') = Cardinality(Stream)
  <2>1. phase' = "run" /\ rpc' = "check"
    BY <1>4, Zenon DEF AcceptDatagram
  <2>2. Range(addrs') = Stream
    BY <1>3, <1>4, AllRegistered, Zenon DEF TypeOK
  <2>3. Range(addrs)' = Range(addrs') /\ IsInjective(addrs)' = IsInjective(addrs')
    BY Zenon DEF Range, IsInjective
  <2> QED
    BY <1>3, <2>1, <2>2, <2>3, Zenon DEF RegInv
<1>5. CASE Len(addrs') # Cardinality(Stream)
  <2>1. phase' = "accept" /\ rpc' = "off"
    BY <1>1, <1>5, Zenon DEF AcceptDatagram
  <2> QED
    BY <1>3, <2>1, Zenon DEF RegInv
<1> QED
  BY <1>4, <1>5, Zenon

\* No other step registers a stream or goes back to accepting.
LEMMA NextRegInv == RegInv /\ [Next]_vars => RegInv'
<1> SUFFICES ASSUME RegInv, [Next]_vars PROVE RegInv'
  OBVIOUS
<1>1. TypeOK /\ TypeOK'
  BY NextType, Zenon DEF RegInv
<1>2. ASSUME UNCHANGED addrs, phase' # "accept" \/ phase' = phase,
             rpc' = rpc \/ (rpc # "off" /\ rpc' # "off")
      PROVE  RegInv'
  BY <1>1, <1>2, Zenon DEF RegInv
<1>3. ASSUME NEW s \in Stream, NEW i \in Deliverable(s), AcceptDatagram(s, i)
      PROVE  RegInv'
  BY <1>1, <1>3, AcceptRegInv, Zenon
<1>4. \/ \E s \in Stream : \E i \in Deliverable(s) : AcceptDatagram(s, i)
      \/ /\ UNCHANGED addrs
         /\ phase' # "accept" \/ phase' = phase
         /\ rpc' = rpc \/ (rpc # "off" /\ rpc' # "off")
  BY Zenon DEF Next, vars, sessionVars, loopVars, ClientStream, SendInit, SendData,
         SendSentinel, Network, Lose, Duplicate, Session, AcceptTimeout,
         TestEndArrives, ControlFails, Join, Check, LoopHead, Recv, Receive,
         ReceiveNoise, ReceiveTimeout, ReceiveError, GraceElapses
<1> QED
  BY <1>2, <1>3, <1>4, Zenon

\* Whatever inits are repeated, the receiver starts with every stream
\* registered exactly once.
THEOREM RegistrationCorrect == Spec => []StreamsRegisteredOnce
<1>1. Init => RegInv
  <2> SUFFICES ASSUME Init PROVE RegInv
    OBVIOUS
  <2>1. TypeOK
    BY InitInv, Zenon DEF UdpInv
  <2> QED
    BY <2>1 DEF Init, RegInv, IsInjective
<1>2. RegInv => StreamsRegisteredOnce
  BY Zenon DEF RegInv, StreamsRegisteredOnce
<1> QED
  BY <1>1, <1>2, NextRegInv, PTL DEF Spec

\* No counter of the receiver leaves its type, whatever the network delivers.
THEOREM TypeCorrect == Spec => []TypeOK
<1>1. Init => TypeOK
  BY InitInv, Zenon DEF UdpInv
<1> QED
  BY <1>1, NextType, PTL DEF Spec

-----------------------------------------------------------------------------
(* A network that keeps order and does not duplicate.                      *)

StreamInv(s) == Queued(s) /\ Pending(s) /\ Bounds(s) /\ Conserved(s)

FifoInv == TypeOK /\ AccountingExact /\ RegInv /\ OrderInv

\* What is left of a sequence without its i-th element.
LEMMA WithoutElements ==
    ASSUME NEW S, NEW q \in Seq(S), NEW i \in 1 .. Len(q)
    PROVE  /\ Without(q, i) \in Seq(S)
           /\ Len(Without(q, i)) = Len(q) - 1
           /\ \A j \in 1 .. Len(q) - 1 :
                 Without(q, i)[j] = IF j < i THEN q[j] ELSE q[j + 1]
<1> DEFINE a == SubSeq(q, 1, i - 1)
           b == SubSeq(q, i + 1, Len(q))
<1>1. a \in Seq(S) /\ Len(a) = i - 1 /\ \A j \in 1 .. i - 1 : a[j] = q[j]
  OBVIOUS
<1>2. b \in Seq(S) /\ Len(b) = Len(q) - i /\ \A j \in 1 .. Len(q) - i : b[j] = q[i + j]
  OBVIOUS
<1>3. Without(q, i) = a \o b
  BY DEF Without
<1> HIDE DEF a, b
<1>4. a \o b \in Seq(S) /\ Len(a \o b) = Len(q) - 1
  <2>1. a \o b \in Seq(S) /\ Len(a \o b) = Len(a) + Len(b)
    <3>1. a \in Seq(S) /\ b \in Seq(S)
      BY <1>1, <1>2
    <3> QED
      BY <3>1
  <2>2. Len(q) \in Nat /\ i \in Nat
    OBVIOUS
  <2> QED
    BY <1>1, <1>2, <2>1, <2>2
<1>5. ASSUME NEW j \in 1 .. Len(q) - 1
      PROVE  (a \o b)[j] = IF j < i THEN q[j] ELSE q[j + 1]
  <2>1. CASE j < i
    BY <1>1, <1>2, <2>1
  <2>2. CASE ~(j < i)
    <3>1. (a \o b)[j] = b[j - (i - 1)]
      BY <1>1, <1>2, <2>2
    <3>2. j - (i - 1) \in 1 .. Len(q) - i /\ i + (j - (i - 1)) = j + 1
      BY <2>2
    <3> QED
      BY <1>2, <2>2, <3>1, <3>2
  <2> QED
    BY <2>1, <2>2
<1> QED
  BY <1>3, <1>4, <1>5

\* Init datagrams, sentinels and data are different things.
LEMMA DatagramKinds ==
    InitDatagram \notin Data /\ InitDatagram # Sentinel /\ Sentinel \notin Data
BY UdpAssumption DEF Data, Sentinel, Short

\* The data of a stream in flight are finitely many.
LEMMA InNetFinite ==
    ASSUME NEW s \in Stream
    PROVE  IsFiniteSet(InNet(s)) /\ Cardinality(InNet(s)) \in Nat
<1>1. IsFiniteSet(Data)
  <2>1. 0 \in Int /\ MaxPackets - 1 \in Int
    BY UdpAssumption
  <2> QED
    BY <2>1, FS_Interval, Zenon DEF Data
<1>2. InNet(s) \subseteq Data
  BY Zenon DEF InNet
<1> QED
  BY <1>1, <1>2, FS_Subset, FS_CardinalityType, Zenon

\* A datagram taken out of its queue: the others keep their order.
LEMMA TakeOrder ==
    ASSUME TypeOK, NEW s \in Stream, NEW i \in DOMAIN net[s], TakeFrom(s, i), Queued(s)
    PROVE  /\ Queued(s)'
           /\ \A j \in DOMAIN net'[s] :
                 \E k \in DOMAIN net[s] : k # i /\ net'[s][j] = net[s][k]
           /\ InNet(s)' = InNet(s) \ {net[s][i]}
<1> DEFINE q == net[s]
           r == net'[s]
           old(j) == IF j < i THEN j ELSE j + 1
<1>1. q \in Seq(Datagram) /\ i \in 1 .. Len(q) /\ r = Without(q, i)
  <2>1. net \in [Stream -> Seq(Datagram)] /\ net[s] \in Seq(Datagram)
    BY Zenon DEF TypeOK
  <2>2. i \in 1 .. Len(q)
    BY <2>1
  <2> QED
    BY <2>1, <2>2, Zenon DEF TakeFrom
<1>2. /\ r \in Seq(Datagram) /\ Len(r) = Len(q) - 1
      /\ \A j \in 1 .. Len(q) - 1 : r[j] = IF j < i THEN q[j] ELSE q[j + 1]
  BY <1>1, WithoutElements, Zenon
<1> HIDE DEF q, r
<1>3. DOMAIN r = 1 .. Len(q) - 1 /\ DOMAIN q = 1 .. Len(q)
  BY <1>1, <1>2
<1>4. \A j \in DOMAIN r : old(j) \in DOMAIN q /\ old(j) # i /\ r[j] = q[old(j)]
  BY <1>1, <1>2, <1>3
<1>5. \A j, k \in DOMAIN r : j < k => old(j) < old(k)
  BY <1>1, <1>3
<1>6. \A k \in DOMAIN q : k # i => \E j \in DOMAIN r : old(j) = k
  <2> SUFFICES ASSUME NEW k \in DOMAIN q, k # i PROVE \E j \in DOMAIN r : old(j) = k
    OBVIOUS
  <2>1. CASE k < i
    <3>1. k \in DOMAIN r /\ old(k) = k
      BY <1>1, <1>3, <2>1
    <3> QED
      BY <3>1
  <2>2. CASE ~(k < i)
    <3>1. k - 1 \in DOMAIN r /\ old(k - 1) = k
      BY <1>1, <1>3, <2>2
    <3> QED
      BY <3>1
  <2> QED
    BY <2>1, <2>2
<1> HIDE DEF old
<1>7. \A j, k \in DOMAIN q :
         j < k => /\ q[k] # InitDatagram /\ q[j] # Sentinel
                  /\ q[j] \in Data /\ q[k] \in Data => q[j] < q[k]
  BY Zenon DEF Queued, q
<1>8. Queued(s)'
  <2>1. \A j, k \in DOMAIN r :
           j < k => /\ r[k] # InitDatagram /\ r[j] # Sentinel
                    /\ r[j] \in Data /\ r[k] \in Data => r[j] < r[k]
    BY <1>4, <1>5, <1>7, Zenon
  <2> QED
    BY <2>1, Zenon DEF Queued, r
<1>9. InNet(s)' = InNet(s) \ {q[i]}
  <2>1. \A d \in Data : (\E j \in DOMAIN r : r[j] = d) => (\E k \in DOMAIN q : q[k] = d) /\ d # q[i]
    <3> SUFFICES ASSUME NEW d \in Data, NEW j \in DOMAIN r, r[j] = d
                 PROVE  (\E k \in DOMAIN q : q[k] = d) /\ d # q[i]
      BY Zenon
    <3>1. old(j) \in DOMAIN q /\ old(j) # i /\ q[old(j)] = d
      BY <1>4, Zenon
    <3>2. i \in DOMAIN q
      BY <1>1, <1>3
    <3>3. old(j) < i \/ i < old(j)
      BY <1>3, <3>1, <3>2
    <3>4. d # q[i]
      <4> SUFFICES ASSUME q[i] = d PROVE FALSE
        BY Zenon
      <4>1. d < d
        BY <1>7, <3>1, <3>2, <3>3, Zenon
      <4> QED
        BY <4>1 DEF Data
    <3> QED
      BY <3>1, <3>4, Zenon
  <2>2. \A d \in Data : (\E k \in DOMAIN q : q[k] = d) /\ d # q[i] => \E j \in DOMAIN r : r[j] = d
    BY <1>4, <1>6, Zenon
  <2> QED
    BY <2>1, <2>2, Zenon DEF InNet, q, r
<1> QED
  BY <1>4, <1>8, <1>9, Zenon DEF q, r

\* A datagram sent joins the end of its queue.
LEMMA SendOrder ==
    ASSUME TypeOK, NEW s \in Stream, NEW d \in Datagram, Send(s, d)
    PROVE  /\ DOMAIN net[s] = 1 .. Len(net[s]) /\ DOMAIN net'[s] = 1 .. Len(net[s]) + 1
           /\ \A j \in DOMAIN net[s] : net'[s][j] = net[s][j]
           /\ net'[s][Len(net[s]) + 1] = d
           /\ Len(net[s]) \in Nat
           /\ InNet(s)' = IF d \in Data THEN InNet(s) \cup {d} ELSE InNet(s)
<1>1. net[s] \in Seq(Datagram) /\ net'[s] = Append(net[s], d)
  <2>1. net \in [Stream -> Seq(Datagram)]
    BY Zenon DEF TypeOK
  <2> QED
    BY <2>1, Zenon DEF Send
<1>2. /\ DOMAIN net[s] = 1 .. Len(net[s]) /\ DOMAIN net'[s] = 1 .. Len(net[s]) + 1
      /\ \A j \in DOMAIN net[s] : net'[s][j] = net[s][j]
      /\ net'[s][Len(net[s]) + 1] = d
      /\ Len(net[s]) \in Nat
  BY <1>1
<1>3. \A j : j \in DOMAIN net'[s] <=> j \in DOMAIN net[s] \/ j = Len(net[s]) + 1
  BY <1>2
<1>4. \A e \in Data : (\E j \in DOMAIN net'[s] : net'[s][j] = e)
                       <=> (\E j \in DOMAIN net[s] : net[s][j] = e) \/ e = d
  BY <1>2, <1>3, Zenon
<1>5. InNet(s)' = IF d \in Data THEN InNet(s) \cup {d} ELSE InNet(s)
  BY <1>4, Zenon DEF InNet
<1> QED
  BY <1>2, <1>5, Zenon

\* A stream that a step does not touch.
LEMMA SameStream ==
    ASSUME NEW t \in Stream, StreamInv(t),
           net'[t] = net[t], seq'[t] = seq[t], sender'[t] = sender[t],
           max_seq'[t] = max_seq[t], packets'[t] = packets[t], ooo'[t] = ooo[t],
           netLost'[t] = netLost[t], early'[t] = early[t],
           saw_sentinel'[t] = saw_sentinel[t],
           t \in Range(addrs') => t \in Range(addrs)
    PROVE  StreamInv(t)'
<1>1. InNet(t)' = InNet(t)
  BY Zenon DEF InNet
<1>2. Range(addrs)' = Range(addrs')
  BY Zenon DEF Range
<1>3. Queued(t)'
  BY Zenon DEF StreamInv, Queued
<1>4. Pending(t)'
  BY <1>2, Zenon DEF StreamInv, Pending
<1>5. Bounds(t)'
  BY <1>2, Zenon DEF StreamInv, Bounds
<1>6. Conserved(t)'
  BY <1>1, Zenon DEF StreamInv, Conserved
<1> QED
  BY <1>3, <1>4, <1>5, <1>6, Zenon DEF StreamInv

\* SendInit is the first datagram of its stream.
LEMMA SendInitOrder ==
    ASSUME TypeOK, NEW s \in Stream, StreamInv(s), SendInit(s)
    PROVE  StreamInv(s)'
<1> USE DEF senderVars, faultVars, sessionVars, loopVars, stateVars
<1>1. net[s] = <<>> /\ s \notin Range(addrs)
  BY Zenon DEF StreamInv, Bounds, SendInit
<1>2. /\ DOMAIN net'[s] = 1 .. 1 /\ net'[s][1] = InitDatagram /\ InNet(s)' = InNet(s)
  <2>1. InitDatagram \in Datagram
    BY Zenon DEF Datagram
  <2>2. /\ DOMAIN net'[s] = 1 .. Len(net[s]) + 1
        /\ net'[s][Len(net[s]) + 1] = InitDatagram
        /\ InNet(s)' = IF InitDatagram \in Data THEN InNet(s) \cup {InitDatagram} ELSE InNet(s)
    BY <2>1, SendOrder, Zenon DEF SendInit
  <2>3. Len(net[s]) = 0
    BY <1>1
  <2> QED
    BY <2>2, <2>3, DatagramKinds
<1>3. sender'[s] = "sending"
  BY Zenon DEF TypeOK, SendInit
<1>4. /\ UNCHANGED <<seq, max_seq, packets, ooo, netLost, early, saw_sentinel, addrs>>
      /\ Range(addrs)' = Range(addrs)
  BY Zenon DEF SendInit, Range
<1>5. Queued(s)'
  BY <1>2 DEF Queued
<1>6. Pending(s)'
  BY <1>1, <1>2, <1>4, DatagramKinds DEF Pending
<1>7. ~saw_sentinel[s]
  <2>1. sender[s] = "idle"
    BY Zenon DEF SendInit
  <2> QED
    BY <2>1 DEF StreamInv, Bounds
<1>8. Bounds(s)'
  BY <1>3, <1>4, <1>7 DEF StreamInv, Bounds
<1>9. Conserved(s)'
  BY <1>2, <1>4, Zenon DEF StreamInv, Conserved
<1> QED
  BY <1>5, <1>6, <1>8, <1>9, Zenon DEF StreamInv

\* The number of a data datagram is larger than those before it.
LEMMA SendDataOrder ==
    ASSUME TypeOK, NEW s \in Stream, StreamInv(s), SendData(s)
    PROVE  StreamInv(s)'
<1> USE DEF senderVars, faultVars, sessionVars, loopVars, stateVars
<1> DEFINE d == seq[s]
<1>1. d \in Data /\ d \in Nat
  BY UdpAssumption DEF SendData, TypeOK, Data
<1>2. /\ DOMAIN net[s] = 1 .. Len(net[s]) /\ DOMAIN net'[s] = 1 .. Len(net[s]) + 1
      /\ \A j \in DOMAIN net[s] : net'[s][j] = net[s][j]
      /\ net'[s][Len(net[s]) + 1] = d
      /\ Len(net[s]) \in Nat
      /\ InNet(s)' = IF d \in Data THEN InNet(s) \cup {d} ELSE InNet(s)
  <2>1. d \in Datagram
    BY <1>1, Zenon DEF Datagram
  <2> QED
    BY <2>1, SendOrder, Zenon DEF SendData
<1>3. seq'[s] = d + 1 /\ sender[s] = "sending"
  BY Zenon DEF TypeOK, SendData
<1>4. /\ UNCHANGED <<sender, max_seq, packets, ooo, netLost, early, saw_sentinel, addrs>>
      /\ Range(addrs)' = Range(addrs)
  BY Zenon DEF SendData, Range
<1>5. \A j \in DOMAIN net[s] :
        /\ net[s][j] # Sentinel
        /\ net[s][j] \in Data => net[s][j] < d /\ max_seq[s] < net[s][j]
        /\ net[s][j] = InitDatagram => s \notin Range(addrs)
  BY <1>3, Zenon DEF StreamInv, Pending
<1>6. Queued(s)'
  <2> SUFFICES ASSUME NEW j \in DOMAIN net'[s], NEW k \in DOMAIN net'[s], j < k
               PROVE  /\ net'[s][k] # InitDatagram /\ net'[s][j] # Sentinel
                      /\ net'[s][j] \in Data /\ net'[s][k] \in Data => net'[s][j] < net'[s][k]
    BY Zenon DEF Queued
  <2>1. j \in DOMAIN net[s] /\ (k \in DOMAIN net[s] \/ k = Len(net[s]) + 1)
    BY <1>2
  <2>2. CASE k \in DOMAIN net[s]
    BY <1>2, <2>1, <2>2, Zenon DEF StreamInv, Queued
  <2>3. CASE k = Len(net[s]) + 1
    BY <1>1, <1>2, <1>5, <2>1, <2>3, DatagramKinds, Zenon
  <2> QED
    BY <2>1, <2>2, <2>3, Zenon
<1>7. max_seq[s] < d /\ max_seq[s] \in Int
  BY DEF StreamInv, Bounds, TypeOK
<1>8. Pending(s)'
  <2> SUFFICES ASSUME NEW j \in DOMAIN net'[s]
               PROVE  /\ net'[s][j] \in Data => max_seq'[s] < net'[s][j] /\ net'[s][j] < seq'[s]
                      /\ net'[s][j] = InitDatagram => s \notin Range(addrs)'
                      /\ net'[s][j] = Sentinel => sender'[s] = "finished"
    BY Zenon DEF Pending
  <2>1. CASE j \in DOMAIN net[s]
    <3>1. net'[s][j] \in Data => net'[s][j] < d + 1 /\ max_seq[s] < net'[s][j]
      <4>1. net'[s][j] \in Data => net'[s][j] < d /\ max_seq[s] < net'[s][j]
        BY <1>2, <1>5, <2>1, Zenon
      <4> QED
        BY <1>1, <4>1 DEF Data
    <3> QED
      BY <1>2, <1>3, <1>4, <1>5, <2>1, <3>1, Zenon
  <2>2. CASE j = Len(net[s]) + 1
    <3>1. d < d + 1
      BY <1>1
    <3> QED
      BY <1>1, <1>2, <1>3, <1>4, <1>7, <2>2, <3>1, DatagramKinds, Zenon
  <2> QED
    BY <1>2, <2>1, <2>2
<1>9. Bounds(s)'
  <2>1. sender'[s] = "sending" /\ ~saw_sentinel'[s]
    BY <1>3, <1>4 DEF StreamInv, Bounds
  <2>2. max_seq'[s] < seq'[s]
    BY <1>1, <1>3, <1>4, <1>7
  <2> QED
    BY <2>1, <2>2, Zenon DEF Bounds
<1>10. Conserved(s)'
  <2>1. d \notin InNet(s)
    <3> SUFFICES ASSUME NEW j \in DOMAIN net[s], net[s][j] = d PROVE FALSE
      BY Zenon DEF InNet
    <3>1. d < d
      BY <1>1, <1>5, Zenon
    <3> QED
      BY <1>1, <3>1
  <2>2. Cardinality(InNet(s)') = Cardinality(InNet(s)) + 1
    BY <1>1, <1>2, <2>1, InNetFinite, FS_AddElement, Zenon
  <2>3. Cardinality(InNet(s)) \in Nat
    BY InNetFinite, Zenon
  <2>4. /\ d = packets[s] + netLost[s] + early[s] + Cardinality(InNet(s)) /\ ooo[s] = 0
        /\ packets[s] \in Nat /\ netLost[s] \in Nat /\ early[s] \in Nat
    BY Zenon DEF StreamInv, Conserved, TypeOK
  <2>5. d + 1 = packets[s] + netLost[s] + early[s] + Cardinality(InNet(s)')
    BY <2>2, <2>3, <2>4
  <2> QED
    BY <1>3, <1>4, <2>4, <2>5, Zenon DEF Conserved
<1> QED
  BY <1>6, <1>8, <1>9, <1>10, Zenon DEF StreamInv

\* The sentinel ends its stream.
LEMMA SendSentinelOrder ==
    ASSUME TypeOK, NEW s \in Stream, StreamInv(s), SendSentinel(s)
    PROVE  StreamInv(s)'
<1> USE DEF senderVars, faultVars, sessionVars, loopVars, stateVars
<1>1. /\ DOMAIN net[s] = 1 .. Len(net[s]) /\ DOMAIN net'[s] = 1 .. Len(net[s]) + 1
      /\ \A j \in DOMAIN net[s] : net'[s][j] = net[s][j]
      /\ net'[s][Len(net[s]) + 1] = Sentinel
      /\ Len(net[s]) \in Nat
      /\ InNet(s)' = InNet(s)
  <2>1. Sentinel \in Datagram
    BY Zenon DEF Datagram
  <2> QED
    BY <2>1, SendOrder, DatagramKinds, Zenon DEF SendSentinel
<1>2. sender[s] = "sending" /\ sender'[s] = "finished"
  BY Zenon DEF TypeOK, SendSentinel
<1>3. /\ UNCHANGED <<seq, max_seq, packets, ooo, netLost, early, saw_sentinel, addrs>>
      /\ Range(addrs)' = Range(addrs)
  BY Zenon DEF SendSentinel, Range
<1>4. \A j \in DOMAIN net[s] :
        /\ net[s][j] # Sentinel
        /\ net[s][j] \in Data => net[s][j] < seq[s] /\ max_seq[s] < net[s][j]
        /\ net[s][j] = InitDatagram => s \notin Range(addrs)
  BY <1>2, Zenon DEF StreamInv, Pending
<1>5. Queued(s)'
  <2> SUFFICES ASSUME NEW j \in DOMAIN net'[s], NEW k \in DOMAIN net'[s], j < k
               PROVE  /\ net'[s][k] # InitDatagram /\ net'[s][j] # Sentinel
                      /\ net'[s][j] \in Data /\ net'[s][k] \in Data => net'[s][j] < net'[s][k]
    BY Zenon DEF Queued
  <2>1. j \in DOMAIN net[s] /\ (k \in DOMAIN net[s] \/ k = Len(net[s]) + 1)
    BY <1>1
  <2>2. CASE k \in DOMAIN net[s]
    BY <1>1, <2>1, <2>2, Zenon DEF StreamInv, Queued
  <2>3. CASE k = Len(net[s]) + 1
    BY <1>1, <1>4, <2>1, <2>3, DatagramKinds, Zenon
  <2> QED
    BY <2>1, <2>2, <2>3, Zenon
<1>6. Pending(s)'
  <2>1. \A j \in DOMAIN net'[s] : j \in DOMAIN net[s] \/ j = Len(net[s]) + 1
    BY <1>1
  <2> QED
    BY <1>1, <1>2, <1>3, <1>4, <2>1, DatagramKinds, Zenon DEF Pending
<1>7. Bounds(s)'
  <2>1. ~saw_sentinel'[s] /\ max_seq'[s] < seq'[s]
    BY <1>2, <1>3 DEF StreamInv, Bounds
  <2> QED
    BY <1>2, <2>1 DEF Bounds
<1>8. Conserved(s)'
  BY <1>1, <1>3, Zenon DEF StreamInv, Conserved
<1> QED
  BY <1>5, <1>6, <1>7, <1>8, Zenon DEF StreamInv

\* The number of datagrams in flight after one of them was taken.
LEMMA TakeCount ==
    ASSUME TypeOK, NEW s \in Stream, NEW i \in DOMAIN net[s], TakeFrom(s, i), Queued(s)
    PROVE  /\ Cardinality(InNet(s)') \in Nat
           /\ Cardinality(InNet(s)) =
                  Cardinality(InNet(s)') + IF net[s][i] \in Data THEN 1 ELSE 0
<1>1. InNet(s)' = InNet(s) \ {net[s][i]}
  BY TakeOrder, Zenon
<1>2. IsFiniteSet(InNet(s)) /\ Cardinality(InNet(s)) \in Nat
  BY InNetFinite, Zenon
<1>3. Cardinality(InNet(s)') = IF net[s][i] \in InNet(s) THEN Cardinality(InNet(s)) - 1
                                                       ELSE Cardinality(InNet(s))
  BY <1>1, <1>2, FS_RemoveElement, Zenon
<1>4. net[s][i] \in InNet(s) <=> net[s][i] \in Data
  BY Zenon DEF InNet
<1>5. Cardinality(InNet(s)') \in Nat
  BY <1>1, <1>2, FS_Subset, FS_CardinalityType, Zenon
<1> QED
  BY <1>2, <1>3, <1>4, <1>5

\* A datagram lost is counted as such.
LEMMA LoseOrder ==
    ASSUME TypeOK, NEW s \in Stream, StreamInv(s), NEW i \in DOMAIN net[s], Lose(s, i)
    PROVE  StreamInv(s)'
<1> USE DEF senderVars, faultVars, sessionVars, loopVars, stateVars
<1>1. TakeFrom(s, i) /\ Queued(s)
  BY Zenon DEF Lose, StreamInv
<1>2. /\ Queued(s)'
      /\ \A j \in DOMAIN net'[s] : \E k \in DOMAIN net[s] : k # i /\ net'[s][j] = net[s][k]
  BY <1>1, TakeOrder, Zenon
<1>3. /\ UNCHANGED <<sender, seq, max_seq, packets, ooo, early, saw_sentinel, addrs>>
      /\ Range(addrs)' = Range(addrs)
  BY Zenon DEF Lose, Range
<1>4. Pending(s)'
  BY <1>2, <1>3, Zenon DEF StreamInv, Pending
<1>5. net[s] # <<>>
  OBVIOUS
<1>6. Bounds(s)'
  BY <1>3, <1>5, Zenon DEF StreamInv, Bounds
<1>7. Conserved(s)'
  <2>1. netLost'[s] = netLost[s] + IF net[s][i] \in Data THEN 1 ELSE 0
    <3>1. netLost \in [Stream -> Nat] /\ netLost[s] \in Nat
      BY Zenon DEF TypeOK
    <3>2. netLost'[s] = IF net[s][i] \in Data THEN netLost[s] + 1 ELSE netLost[s]
      BY <3>1, Zenon DEF Lose
    <3> QED
      BY <3>1, <3>2
  <2>2. Cardinality(InNet(s)) = Cardinality(InNet(s)') + IF net[s][i] \in Data THEN 1 ELSE 0
    BY <1>1, TakeCount, Zenon
  <2>3. Cardinality(InNet(s)) \in Nat /\ Cardinality(InNet(s)') \in Nat
    BY <1>1, InNetFinite, TakeCount, Zenon
  <2>4. /\ seq[s] = packets[s] + netLost[s] + early[s] + Cardinality(InNet(s)) /\ ooo[s] = 0
        /\ packets[s] \in Nat /\ netLost[s] \in Nat /\ early[s] \in Nat
    BY Zenon DEF StreamInv, Conserved, TypeOK
  <2>5. seq[s] = packets[s] + netLost'[s] + early[s] + Cardinality(InNet(s)')
    BY <2>1, <2>2, <2>3, <2>4
  <2> QED
    BY <1>3, <2>4, <2>5, Zenon DEF Conserved
<1> QED
  BY <1>2, <1>4, <1>6, <1>7, Zenon DEF StreamInv

\* accept_udp_streams takes the oldest datagram: the init registers its stream,
\* data is discarded.
LEMMA AcceptOrder ==
    ASSUME TypeOK, ~Reorder, NEW s \in Stream, StreamInv(s),
           NEW i \in Deliverable(s), AcceptDatagram(s, i)
    PROVE  StreamInv(s)'
<1> USE DEF senderVars, faultVars, sessionVars, loopVars, stateVars
<1>1. i \in DOMAIN net[s] /\ i = 1 /\ TakeFrom(s, i) /\ Queued(s)
  BY Zenon DEF Deliverable, AcceptDatagram, StreamInv
<1>2. /\ Queued(s)'
      /\ \A j \in DOMAIN net'[s] : \E k \in DOMAIN net[s] : k # i /\ net'[s][j] = net[s][k]
  BY <1>1, TakeOrder, Zenon
<1>3. UNCHANGED <<sender, seq, max_seq, packets, ooo, netLost, saw_sentinel>>
  BY Zenon DEF AcceptDatagram
<1>4. \A k \in DOMAIN net[s] : k # i => net[s][k] # InitDatagram
  <2>1. \A k \in DOMAIN net[s] : k # i => i < k
    <3>1. DOMAIN net[s] = 1 .. Len(net[s])
      BY DEF TypeOK
    <3> QED
      BY <1>1, <3>1
  <2> QED
    BY <1>1, <2>1, Zenon DEF Queued
<1>5. Pending(s)'
  BY <1>2, <1>3, <1>4, Zenon DEF StreamInv, Pending
<1>6. net[s] # <<>>
  BY <1>1
<1>7. Bounds(s)'
  BY <1>3, <1>6, Zenon DEF StreamInv, Bounds
<1>8. Conserved(s)'
  <2>1. early'[s] = early[s] + IF net[s][i] \in Data THEN 1 ELSE 0
    <3>1. early \in [Stream -> Nat] /\ early[s] \in Nat
      BY Zenon DEF TypeOK
    <3>2. early'[s] = IF net[s][i] \in Data THEN early[s] + 1 ELSE early[s]
      BY <3>1, Zenon DEF AcceptDatagram
    <3> QED
      BY <3>1, <3>2
  <2>2. Cardinality(InNet(s)) = Cardinality(InNet(s)') + IF net[s][i] \in Data THEN 1 ELSE 0
    BY <1>1, TakeCount, Zenon
  <2>3. Cardinality(InNet(s)) \in Nat /\ Cardinality(InNet(s)') \in Nat
    BY <1>1, InNetFinite, TakeCount, Zenon
  <2>4. /\ seq[s] = packets[s] + netLost[s] + early[s] + Cardinality(InNet(s)) /\ ooo[s] = 0
        /\ packets[s] \in Nat /\ netLost[s] \in Nat /\ early[s] \in Nat
    BY Zenon DEF StreamInv, Conserved, TypeOK
  <2>5. seq[s] = packets[s] + netLost[s] + early'[s] + Cardinality(InNet(s)')
    BY <2>1, <2>2, <2>3, <2>4
  <2> QED
    BY <1>3, <2>4, <2>5, Zenon DEF Conserved
<1> QED
  BY <1>2, <1>5, <1>7, <1>8, Zenon DEF StreamInv

\* The receiver takes the oldest datagram: data counts as received in order, and
\* nothing is behind a sentinel.
LEMMA ReceiveOrder ==
    ASSUME FifoInv, ~Reorder, NEW s \in Stream, StreamInv(s),
           NEW i \in DOMAIN net[s], i \in Deliverable(s), Receive(s, i)
    PROVE  StreamInv(s)'
<1> USE DEF senderVars, faultVars, sessionVars, loopVars, stateVars
<1>1. TypeOK
  BY Zenon DEF FifoInv
<1>2. TakeFrom(s, i) /\ Queued(s)
  BY Zenon DEF Receive, StreamInv
<1>3. /\ Queued(s)'
      /\ \A j \in DOMAIN net'[s] : \E k \in DOMAIN net[s] : k # i /\ net'[s][j] = net[s][k]
  BY <1>1, <1>2, TakeOrder, Zenon
<1>4. /\ UNCHANGED <<sender, seq, netLost, early, addrs>>
      /\ Range(addrs)' = Range(addrs)
  BY Zenon DEF Receive, Range
<1>5. \A k \in DOMAIN net[s] : k # i => i < k
  <2>1. DOMAIN net[s] = 1 .. Len(net[s])
    BY <1>1 DEF TypeOK
  <2>2. i = 1
    BY Zenon DEF Deliverable
  <2> QED
    BY <2>1, <2>2
<1>6. net[s][i] # InitDatagram /\ (net[s][i] \in Data \/ net[s][i] = Sentinel)
  <2>1. net[s][i] # InitDatagram
    <3>1. rpc = "recv" /\ Range(addrs) = Stream
      BY DEF FifoInv, RegInv, Receive
    <3> QED
      BY <3>1, Zenon DEF StreamInv, Pending
  <2>2. net[s][i] \in Datagram
    BY <1>1, <1>2, TakeType, Zenon
  <2> QED
    BY <2>1, <2>2, Zenon DEF Datagram
<1>7. net[s] # <<>> /\ sender[s] # "idle" /\ ~saw_sentinel[s]
  <2>1. net[s] # <<>>
    BY <1>2
  <2> QED
    BY <2>1, Zenon DEF StreamInv, Bounds
<1>8. /\ seq[s] = packets[s] + netLost[s] + early[s] + Cardinality(InNet(s)) /\ ooo[s] = 0
      /\ packets[s] \in Nat /\ netLost[s] \in Nat /\ early[s] \in Nat
      /\ packets \in [Stream -> Nat] /\ ooo \in [Stream -> Nat]
      /\ max_seq \in [Stream -> Nat \cup {-1}]
      /\ saw_sentinel \in [Stream -> BOOLEAN]
  BY <1>1, Zenon DEF StreamInv, Conserved, TypeOK
<1>9. /\ Cardinality(InNet(s)') \in Nat
      /\ Cardinality(InNet(s)) = Cardinality(InNet(s)') + IF net[s][i] \in Data THEN 1 ELSE 0
  BY <1>1, <1>2, TakeCount, Zenon
<1>10. CASE net[s][i] = Sentinel
  <2>1. /\ saw_sentinel' = [saw_sentinel EXCEPT ![s] = TRUE]
        /\ UNCHANGED <<max_seq, packets, lost, ooo, seen>>
    BY <1>10 DEF Receive, Short, Sentinel
  <2>2. net'[s] = <<>>
    <3>1. 1 \notin DOMAIN net'[s]
      BY <1>2, <1>3, <1>5, <1>10, Zenon DEF Queued
    <3>2. net'[s] \in Seq(Datagram)
      BY <1>1, <1>2, TakeType, Zenon
    <3>3. DOMAIN net'[s] = 1 .. Len(net'[s]) /\ Len(net'[s]) \in Nat
      BY <3>2
    <3>4. Len(net'[s]) = 0
      BY <3>1, <3>3
    <3> QED
      BY <3>2, <3>4
  <2>3. sender[s] = "finished"
    BY <1>2, <1>10, Zenon DEF StreamInv, Pending
  <2>4. Pending(s)'
    BY <2>2 DEF Pending
  <2>5. Bounds(s)'
    BY <1>4, <2>1, <2>2, <2>3 DEF StreamInv, Bounds
  <2>6. Conserved(s)'
    <3>1. Cardinality(InNet(s)) = Cardinality(InNet(s)')
      <4>1. net[s][i] \notin Data
        BY <1>10, DatagramKinds, Zenon
      <4> QED
        BY <1>9, <4>1
    <3> QED
      BY <1>4, <1>8, <2>1, <3>1, Zenon DEF Conserved
  <2> QED
    BY <1>3, <2>4, <2>5, <2>6, Zenon DEF StreamInv
<1>11. CASE net[s][i] \in Data
  <2> DEFINE d == net[s][i]
  <2>1. d \in Nat /\ d # Short /\ d # Sentinel
    BY <1>11, UdpAssumption DEF Data, Short, Sentinel
  <2>2. Count(s, d) /\ UNCHANGED saw_sentinel
    BY <2>1, Zenon DEF Receive
  <2>3. max_seq[s] < d /\ d < seq[s]
    BY <1>2, <1>11, Zenon DEF StreamInv, Pending
  <2>4. ~(d <= max_seq[s])
    BY <1>8, <2>1, <2>3
  <2>5. packets'[s] = packets[s] + 1 /\ max_seq'[s] = d /\ ooo' = ooo
    BY <1>8, <2>2, <2>4, Zenon DEF Count
  <2>6. Pending(s)'
    <3> SUFFICES ASSUME NEW j \in DOMAIN net'[s]
                 PROVE  /\ net'[s][j] \in Data => d < net'[s][j] /\ net'[s][j] < seq'[s]
                        /\ net'[s][j] = InitDatagram => s \notin Range(addrs)'
                        /\ net'[s][j] = Sentinel => sender'[s] = "finished"
      BY <2>5, Zenon DEF Pending
    <3>1. PICK k \in DOMAIN net[s] : k # i /\ net'[s][j] = net[s][k]
      BY <1>3, Zenon
    <3>2. net[s][k] \in Data => d < net[s][k]
      BY <1>2, <1>5, <1>11, <3>1, Zenon DEF Queued
    <3> QED
      BY <1>4, <3>1, <3>2, Zenon DEF StreamInv, Pending
  <2>7. Bounds(s)'
    BY <1>4, <1>7, <2>2, <2>3, <2>5, Zenon DEF Bounds
  <2>8. Conserved(s)'
    <3>1. Cardinality(InNet(s)) = Cardinality(InNet(s)') + 1
      BY <1>9, <1>11
    <3>2. seq[s] = packets'[s] + netLost[s] + early[s] + Cardinality(InNet(s)')
      BY <1>8, <1>9, <2>5, <3>1
    <3> QED
      BY <1>4, <1>8, <2>5, <3>2, Zenon DEF Conserved
  <2> QED
    BY <1>3, <2>6, <2>7, <2>8, Zenon DEF StreamInv
<1> QED
  BY <1>6, <1>10, <1>11, Zenon

\* Only Check ends the loop because of the sentinels, when all have been seen,
\* and what has been seen stays so.
LEMMA NextExit ==
    ASSUME TypeOK, OrderInv, [Next]_vars
    PROVE  exit' = "sentinels" => \A s \in Stream : saw_sentinel'[s]
<1> USE DEF senderVars, faultVars, sessionVars, loopVars, stateVars
<1>1. \A s \in Stream : saw_sentinel[s] => saw_sentinel'[s]
  <2>1. ASSUME NEW s \in Stream, NEW i \in Deliverable(s), Receive(s, i)
        PROVE  \A t \in Stream : saw_sentinel[t] => saw_sentinel'[t]
    <3>1. saw_sentinel' = saw_sentinel \/ saw_sentinel' = [saw_sentinel EXCEPT ![s] = TRUE]
      BY <2>1, Zenon DEF Receive
    <3> QED
      BY <3>1, Zenon DEF TypeOK
  <2>2. (\E s \in Stream : \E i \in Deliverable(s) : Receive(s, i)) \/ UNCHANGED saw_sentinel
    BY Zenon DEF Next, vars, ClientStream, SendInit, SendData, SendSentinel, Network, Lose,
           Duplicate, Session, AcceptDatagram, AcceptTimeout, TestEndArrives, ControlFails,
           Join, Check, LoopHead, Recv, ReceiveNoise, ReceiveTimeout, ReceiveError,
           GraceElapses
  <2> QED
    BY <2>1, <2>2, Zenon
<1>2. \/ exit' = exit \/ exit' # "sentinels"
      \/ \A s \in Stream : saw_sentinel[s]
  <2>1. CASE Check
    BY <2>1 DEF Check, LoopHead
  <2>2. CASE Recv
    BY <2>2 DEF Recv, Receive, ReceiveNoise, ReceiveTimeout, ReceiveError
  <2>3. CASE ~Check /\ ~Recv
    BY <2>3, Zenon DEF Next, vars, ClientStream, SendInit, SendData, SendSentinel, Network,
           Lose, Duplicate, Session, AcceptDatagram, AcceptTimeout, TestEndArrives,
           ControlFails, Join, GraceElapses
  <2> QED
    BY <2>1, <2>2, <2>3, Zenon
<1> QED
  BY <1>1, <1>2, Zenon DEF OrderInv

\* A step of an orderly network keeps every stream's invariant.
LEMMA NextOrder ==
    ASSUME FifoInv, TypeOK', [Next]_vars, ~Reorder, dups' = 0
    PROVE  \A t \in Stream : StreamInv(t)'
<1> USE DEF senderVars, faultVars, sessionVars, loopVars, stateVars
<1>1. TypeOK
  BY Zenon DEF FifoInv
<1>2. ASSUME NEW s \in Stream, NEW i \in DOMAIN net[s], Duplicate(s, i)
      PROVE  FALSE
  <2>1. dups \in Nat /\ dups' = dups + 1
    BY <1>1, <1>2, Zenon DEF TypeOK, Duplicate
  <2> QED
    BY <2>1
<1>3. dups' = dups \/ \E s \in Stream : \E i \in DOMAIN net[s] : Duplicate(s, i)
  BY Zenon DEF Next, vars, ClientStream, SendInit, SendData, SendSentinel, Network, Lose,
         Session, AcceptDatagram, AcceptTimeout, TestEndArrives, ControlFails, Join,
         Check, LoopHead, Recv, Receive, ReceiveNoise, ReceiveTimeout, ReceiveError,
         GraceElapses
<1>4. \A t \in Stream : StreamInv(t)
  BY <1>2, <1>3, Zenon DEF FifoInv, OrderInv, Orderly, StreamInv
<1>5. ASSUME UNCHANGED <<senderVars, net, netLost, early, stateVars, addrs>>
      PROVE  \A t \in Stream : StreamInv(t)'
  BY <1>4, <1>5, SameStream, Zenon
<1>6. ASSUME NEW s \in Stream, StreamInv(s)',
             \A t \in Stream \ {s} :
                 /\ net'[t] = net[t] /\ seq'[t] = seq[t] /\ sender'[t] = sender[t]
                 /\ max_seq'[t] = max_seq[t] /\ packets'[t] = packets[t]
                 /\ ooo'[t] = ooo[t] /\ netLost'[t] = netLost[t]
                 /\ early'[t] = early[t] /\ saw_sentinel'[t] = saw_sentinel[t]
                 /\ t \in Range(addrs') => t \in Range(addrs)
      PROVE  \A t \in Stream : StreamInv(t)'
  BY <1>4, <1>6, SameStream, Zenon
<1>7. ASSUME NEW s \in Stream, ClientStream(s)
      PROVE  \A t \in Stream : StreamInv(t)'
  <2>1. StreamInv(s)'
    BY <1>1, <1>4, <1>7, SendInitOrder, SendDataOrder, SendSentinelOrder, Zenon
       DEF ClientStream
  <2> QED
    BY <1>1, <1>6, <1>7, <2>1, Zenon
       DEF TypeOK, ClientStream, SendInit, SendData, SendSentinel, Send
<1>8. ASSUME NEW s \in Stream, NEW i \in DOMAIN net[s], Lose(s, i)
      PROVE  \A t \in Stream : StreamInv(t)'
  <2>1. StreamInv(s)'
    BY <1>1, <1>4, <1>8, LoseOrder, Zenon
  <2> QED
    BY <1>1, <1>6, <1>8, <2>1, Zenon DEF TypeOK, Lose, TakeFrom
<1>9. ASSUME NEW s \in Stream, NEW i \in Deliverable(s), AcceptDatagram(s, i)
      PROVE  \A t \in Stream : StreamInv(t)'
  <2>1. StreamInv(s)'
    BY <1>1, <1>4, <1>9, AcceptOrder, Zenon
  <2>2. \A t \in Stream \ {s} : t \in Range(addrs') => t \in Range(addrs)
    <3>1. addrs \in Seq(Stream) /\ (addrs' = addrs \/ addrs' = Append(addrs, s))
      BY <1>1, <1>9, Zenon DEF TypeOK, AcceptDatagram
    <3>2. CASE addrs' = addrs
      BY <3>2, Zenon
    <3>3. CASE addrs' = Append(addrs, s)
      <4>1. DOMAIN addrs' = 1 .. Len(addrs) + 1 /\ DOMAIN addrs = 1 .. Len(addrs)
        BY <3>1, <3>3
      <4>2. \A j \in DOMAIN addrs' : addrs'[j] = s \/ (j \in DOMAIN addrs /\ addrs'[j] = addrs[j])
        BY <3>1, <3>3, <4>1
      <4> QED
        BY <4>2, Zenon DEF Range
    <3> QED
      BY <3>1, <3>2, <3>3, Zenon
  <2>3. \A t \in Stream \ {s} : net'[t] = net[t] /\ early'[t] = early[t]
    BY <1>1, <1>9, Zenon DEF TypeOK, AcceptDatagram, TakeFrom
  <2> QED
    BY <1>6, <1>9, <2>1, <2>2, <2>3, Zenon DEF AcceptDatagram
<1>10. ASSUME NEW s \in Stream, NEW i \in Deliverable(s), Receive(s, i)
       PROVE  \A t \in Stream : StreamInv(t)'
  <2>1. StreamInv(s)'
    <3>1. i \in DOMAIN net[s]
      BY Zenon DEF Deliverable
    <3> QED
      BY <1>4, <1>10, <3>1, ReceiveOrder, Zenon
  <2>2. \A t \in Stream \ {s} : net'[t] = net[t]
    BY <1>1, <1>10, Zenon DEF TypeOK, Receive, TakeFrom
  <2>3. \A t \in Stream \ {s} :
           /\ max_seq'[t] = max_seq[t] /\ packets'[t] = packets[t]
           /\ ooo'[t] = ooo[t] /\ saw_sentinel'[t] = saw_sentinel[t]
    <3>1. /\ max_seq \in [Stream -> Nat \cup {-1}] /\ packets \in [Stream -> Nat]
          /\ ooo \in [Stream -> Nat] /\ saw_sentinel \in [Stream -> BOOLEAN]
      BY <1>1, Zenon DEF TypeOK
    <3>2. \/ UNCHANGED stateVars
          \/ /\ saw_sentinel' = [saw_sentinel EXCEPT ![s] = TRUE]
             /\ UNCHANGED <<max_seq, packets, ooo>>
          \/ Count(s, net[s][i]) /\ UNCHANGED saw_sentinel
      BY <1>10, Zenon DEF Receive
    <3>3. CASE Count(s, net[s][i]) /\ UNCHANGED saw_sentinel
      BY <3>1, <3>3, Zenon DEF Count
    <3> QED
      BY <3>1, <3>2, <3>3, Zenon
  <2> QED
    BY <1>6, <1>10, <2>1, <2>2, <2>3, Zenon DEF Receive
<1>11. \/ UNCHANGED <<senderVars, net, netLost, early, stateVars, addrs>>
       \/ \E s \in Stream : ClientStream(s)
       \/ \E s \in Stream : \E i \in DOMAIN net[s] : Lose(s, i) \/ Duplicate(s, i)
       \/ \E s \in Stream : \E i \in Deliverable(s) : AcceptDatagram(s, i) \/ Receive(s, i)
  BY Zenon DEF Next, vars, Network, Session, AcceptTimeout, TestEndArrives, ControlFails,
         Join, Check, LoopHead, Recv, ReceiveNoise, ReceiveTimeout, ReceiveError,
         GraceElapses
<1> QED
  BY <1>2, <1>5, <1>7, <1>8, <1>9, <1>10, <1>11, Zenon

LEMMA InitFifo == Init => FifoInv
<1> SUFFICES ASSUME Init PROVE FifoInv
  OBVIOUS
<1>1. TypeOK /\ AccountingExact
  BY InitInv, Zenon DEF UdpInv
<1>2. RegInv
  BY <1>1 DEF Init, RegInv, IsInjective
<1>3. ASSUME NEW s \in Stream
      PROVE  Queued(s) /\ Pending(s) /\ Bounds(s) /\ Conserved(s)
  <2>1. /\ net[s] = <<>> /\ DOMAIN net[s] = {} /\ seq[s] = 0 /\ max_seq[s] = -1
        /\ saw_sentinel[s] = FALSE
    BY DEF Init
  <2>2. Range(addrs) = {}
    BY DEF Init, Range
  <2>3. InNet(s) = {}
    BY <2>1, Zenon DEF InNet
  <2>4. Conserved(s)
    BY <2>3, FS_EmptySet DEF Init, Conserved
  <2> QED
    BY <2>1, <2>2, <2>4 DEF Queued, Pending, Bounds
<1>4. exit # "sentinels"
  BY DEF Init
<1> QED
  BY <1>1, <1>2, <1>3, <1>4, Zenon DEF FifoInv, OrderInv

LEMMA NextFifo == FifoInv /\ UdpInv /\ [Next]_vars => FifoInv'
<1> SUFFICES ASSUME FifoInv, UdpInv, [Next]_vars PROVE FifoInv'
  OBVIOUS
<1>1. TypeOK' /\ AccountingExact'
  BY NextInv, Zenon DEF UdpInv
<1>2. RegInv'
  BY NextRegInv, Zenon DEF FifoInv
<1>3. Orderly' => \A s \in Stream : StreamInv(s)'
  BY <1>1, NextOrder, Zenon DEF Orderly
<1>4. exit' = "sentinels" => \A s \in Stream : saw_sentinel'[s]
  BY NextExit, Zenon DEF FifoInv
<1> QED
  BY <1>1, <1>2, <1>3, <1>4, Zenon DEF FifoInv, OrderInv, StreamInv

\* Where the network keeps order and does not duplicate, a receiver that stops
\* because it has seen every sentinel has counted every datagram that was neither
\* lost nor discarded before the test began.
THEOREM SentinelCorrect == Spec => []SentinelMeansComplete
<1>1. FifoInv => SentinelMeansComplete
  <2> SUFFICES ASSUME FifoInv, exit = "sentinels", ~Reorder, dups = 0, NEW s \in Stream
               PROVE  packets[s] = seq[s] - netLost[s] - early[s]
    BY Zenon DEF SentinelMeansComplete
  <2>1. saw_sentinel[s] /\ Bounds(s) /\ Conserved(s)
    BY Zenon DEF FifoInv, OrderInv, Orderly
  <2>2. net[s] = <<>>
    BY <2>1, Zenon DEF Bounds
  <2>3. InNet(s) = {}
    <3>1. DOMAIN net[s] = {}
      BY <2>2
    <3> QED
      BY <3>1, Zenon DEF InNet
  <2>4. seq[s] = packets[s] + netLost[s] + early[s] + 0
    BY <2>1, <2>3, FS_EmptySet, Zenon DEF Conserved
  <2>5. packets[s] \in Nat /\ netLost[s] \in Nat /\ early[s] \in Nat
    BY Zenon DEF FifoInv, TypeOK
  <2> QED
    BY <2>4, <2>5
<1> QED
  BY <1>1, InitInv, NextInv, InitFifo, NextFifo, PTL DEF Spec

\* Where the network keeps order and does not duplicate, `lost` counts nothing but
\* datagrams the network lost and those accept_udp_streams discarded.
THEOREM LossAlwaysExplained == Spec => []LossExplained
<1>1. FifoInv => LossExplained
  <2> SUFFICES ASSUME FifoInv, ~Reorder, dups = 0, NEW s \in Stream
               PROVE  lost[s] <= netLost[s] + early[s]
    BY Zenon DEF LossExplained
  <2>1. Pending(s) /\ Bounds(s) /\ Conserved(s)
    BY Zenon DEF FifoInv, OrderInv, Orderly
  <2>2. /\ packets[s] \in Nat /\ netLost[s] \in Nat /\ early[s] \in Nat /\ lost[s] \in Nat
        /\ seq[s] \in Nat /\ max_seq[s] \in Nat \cup {-1}
    BY Zenon DEF FifoInv, TypeOK
  <2>3. max_seq[s] < seq[s]
    BY <2>1, Zenon DEF Bounds
  <2> DEFINE a == max_seq[s] + 1
             b == seq[s] - 1
  <2>4. a \in Int /\ b \in Int /\ a <= b + 1
    BY <2>2, <2>3
  <2>5. InNet(s) \subseteq a .. b
    <3> SUFFICES ASSUME NEW q \in InNet(s) PROVE q \in a .. b
      BY Zenon
    <3>1. q \in Data /\ max_seq[s] < q /\ q < seq[s]
      BY <2>1, Zenon DEF InNet, Pending
    <3>2. q \in Int
      BY <3>1, UdpAssumption DEF Data
    <3> QED
      BY <2>2, <3>1, <3>2
  <2>6. IsFiniteSet(a .. b) /\ Cardinality(a .. b) = IF a > b THEN 0 ELSE b - a + 1
    <3> HIDE DEF a, b
    <3> QED
      BY <2>4, FS_Interval, Zenon
  <2>7. Cardinality(InNet(s)) <= Cardinality(a .. b) /\ Cardinality(InNet(s)) \in Nat
    <3> HIDE DEF a, b
    <3> QED
      BY <2>5, <2>6, FS_Subset, InNetFinite, Zenon
  <2>8. Cardinality(InNet(s)) <= seq[s] - (max_seq[s] + 1)
    BY <2>2, <2>3, <2>6, <2>7
  <2>9. seq[s] = packets[s] + netLost[s] + early[s] + Cardinality(InNet(s)) /\ ooo[s] = 0
    BY <2>1, Zenon DEF Conserved
  <2>10. packets[s] - ooo[s] + lost[s] = max_seq[s] + 1
    BY Zenon DEF FifoInv, AccountingExact
  <2>11. max_seq[s] \in Int /\ Cardinality(InNet(s)) \in Nat /\ packets[s] + lost[s] = max_seq[s] + 1
    BY <2>2, <2>7, <2>9, <2>10
  <2> HIDE DEF a, b
  <2>12. 0 <= packets[s] + netLost[s] + early[s] - (max_seq[s] + 1)
    BY <2>2, <2>8, <2>9, <2>11
  <2> QED
    BY <2>2, <2>11, <2>12
<1> QED
  BY <1>1, InitInv, NextInv, InitFifo, NextFifo, PTL DEF Spec
=============================================================================
