------------------------- MODULE SingleServer_proofs -------------------------
(***************************************************************************)
(* TLAPS proofs about the single-session server, for any number of clients *)
(* and streams.                                                            *)
(***************************************************************************)
EXTENDS SingleServer, FiniteSetTheorems, TLAPS

-----------------------------------------------------------------------------
(* How many times an element waits in a queue.                             *)

\* The places of the queue q at which k stands.
Positions(q, k) == {i \in DOMAIN q : q[i] = k}

\* Finitely many, and a natural number of them.
LEMMA PositionsFinite ==
    ASSUME NEW S, NEW q \in Seq(S), NEW k
    PROVE  IsFiniteSet(Positions(q, k)) /\ Cardinality(Positions(q, k)) \in Nat
<1>1. IsFiniteSet(1 .. Len(q))
  BY FS_Interval
<1>2. Positions(q, k) \in SUBSET (1 .. Len(q))
  BY DEF Positions
<1> QED
  BY <1>1, <1>2, FS_Subset, FS_CardinalityType, Zenon

\* None in the empty queue.
LEMMA PositionsEmpty ==
    ASSUME NEW k
    PROVE  Positions(<<>>, k) = {} /\ Cardinality(Positions(<<>>, k)) = 0
BY FS_EmptySet DEF Positions

\* None exactly if the number is zero.
LEMMA PositionsZero ==
    ASSUME NEW S, NEW q \in Seq(S), NEW k
    PROVE  Cardinality(Positions(q, k)) = 0 <=> Positions(q, k) = {}
BY PositionsFinite, FS_EmptySet, Zenon

\* An element that joins the queue adds one to its own number and nothing to
\* that of any other.
LEMMA PositionsAppend ==
    ASSUME NEW S, NEW q \in Seq(S), NEW e \in S, NEW k
    PROVE  Cardinality(Positions(Append(q, e), k)) =
             Cardinality(Positions(q, k)) + (IF e = k THEN 1 ELSE 0)
<1> DEFINE P == Positions(q, k)
           A == Positions(Append(q, e), k)
           n == Len(q) + 1
<1>1. IsFiniteSet(P) /\ Cardinality(P) \in Nat
  BY PositionsFinite, Zenon
<1>2. n \notin P
  BY DEF Positions
<1>3. CASE e = k
  <2>1. A = P \cup {n}
    BY <1>3 DEF Positions
  <2> QED
    BY <1>1, <1>2, <1>3, <2>1, FS_AddElement, Zenon
<1>4. CASE e # k
  <2>1. A = P
    BY <1>4 DEF Positions
  <2> QED
    BY <1>1, <1>4, <2>1
<1> QED
  BY <1>3, <1>4, Zenon

\* An element that leaves at the front takes one from its own number and nothing
\* from that of any other.
LEMMA PositionsTail ==
    ASSUME NEW S, NEW q \in Seq(S), q # <<>>, NEW k
    PROVE  Cardinality(Positions(q, k)) =
             Cardinality(Positions(Tail(q), k)) + (IF Head(q) = k THEN 1 ELSE 0)
<1> DEFINE P == Positions(q, k)
           R == P \ {1}
           T == Positions(Tail(q), k)
           f == [i \in R |-> i - 1]
<1>1. IsFiniteSet(P) /\ Cardinality(P) \in Nat
  BY PositionsFinite, Zenon
<1>2. IsFiniteSet(R) /\ Cardinality(R) = IF 1 \in P THEN Cardinality(P) - 1 ELSE Cardinality(P)
  BY <1>1, FS_RemoveElement, Zenon
<1>3. 1 \in P <=> Head(q) = k
  BY DEF Positions
<1>4. f \in Bijection(R, T)
  <2>1. ASSUME NEW i \in R PROVE i \in 2 .. Len(q) /\ q[i] = k /\ f[i] = i - 1
    BY DEF Positions
  <2>2. f \in [R -> T]
    <3>1. ASSUME NEW i \in R PROVE i - 1 \in T
      BY <2>1 DEF Positions
    <3> QED
      BY <3>1, Zenon
  <2>3. \A i, j \in R : f[i] = f[j] => i = j
    BY <2>1
  <2>4. ASSUME NEW t \in T PROVE \E i \in R : f[i] = t
    <3>1. t \in 1 .. Len(q) - 1 /\ q[t + 1] = k
      BY DEF Positions
    <3>2. t + 1 \in R
      BY <3>1 DEF Positions
    <3> QED
      BY <2>1, <3>1, <3>2
  <2> QED
    BY <2>2, <2>3, <2>4, Zenon DEF Bijection, Injection, Surjection, IsInjective
<1>5. Cardinality(T) = Cardinality(R)
  <2>1. ExistsBijection(R, T)
    BY <1>4, Zenon DEF ExistsBijection
  <2> QED
    BY <1>2, <2>1, FS_Bijection, Zenon
<1> QED
  BY <1>1, <1>2, <1>3, <1>5

\* The connection of client c in role r.
C(c, r) == [client |-> c, role |-> r]

\* Queued counts positions of the queue.
LEMMA QueuedType ==
    ASSUME TypeOK, NEW c \in Client, NEW r \in Role
    PROVE  Queued(c, r) \in Nat
<1>1. backlog \in Seq(Conn)
  BY Zenon DEF TypeOK
<1> QED
  BY <1>1, PositionsFinite, Zenon DEF Queued, Positions

\* A connection that joins the listener's queue.
LEMMA QueueJoins ==
    ASSUME TypeOK, NEW d \in Client, NEW s \in Role, Queue(d, s),
           NEW c \in Client, NEW r \in Role
    PROVE  Queued(c, r)' = Queued(c, r) + (IF c = d /\ r = s THEN 1 ELSE 0)
<1>1. backlog \in Seq(Conn) /\ C(d, s) \in Conn
  BY Zenon DEF TypeOK, Conn, C
<1>2. backlog' = Append(backlog, C(d, s))
  BY Zenon DEF Queue, C
<1>3. C(d, s) = C(c, r) <=> c = d /\ r = s
  BY Zenon DEF C
<1>4. Cardinality(Positions(Append(backlog, C(d, s)), C(c, r))) =
        Cardinality(Positions(backlog, C(c, r))) + (IF C(d, s) = C(c, r) THEN 1 ELSE 0)
  BY <1>1, PositionsAppend
<1>5. Queued(c, r) = Cardinality(Positions(backlog, C(c, r)))
  BY Zenon DEF Queued, Positions, C
<1>6. Queued(c, r)' = Cardinality(Positions(backlog', C(c, r)))
  BY Zenon DEF Queued, Positions, C
<1> QED
  BY <1>2, <1>3, <1>4, <1>5, <1>6, Zenon

\* The connection at the front leaves the listener's queue.
LEMMA QueueLeaves ==
    ASSUME TypeOK, backlog # <<>>, backlog' = Tail(backlog),
           NEW c \in Client, NEW r \in Role
    PROVE  /\ Queued(c, r) = Queued(c, r)' + (IF Head(backlog) = C(c, r) THEN 1 ELSE 0)
           /\ Queued(c, r)' \in Nat
<1>1. backlog \in Seq(Conn) /\ backlog' \in Seq(Conn)
  BY DEF TypeOK
<1>2. Queued(c, r) = Cardinality(Positions(backlog, C(c, r)))
  BY Zenon DEF Queued, Positions, C
<1>3. Queued(c, r)' = Cardinality(Positions(backlog', C(c, r)))
  BY Zenon DEF Queued, Positions, C
<1>4. Cardinality(Positions(backlog, C(c, r))) =
        Cardinality(Positions(Tail(backlog), C(c, r)))
          + (IF Head(backlog) = C(c, r) THEN 1 ELSE 0)
  BY <1>1, PositionsTail, Zenon
<1>5. Cardinality(Positions(backlog', C(c, r))) \in Nat
  BY <1>1, PositionsFinite, Zenon
<1> QED
  BY <1>2, <1>3, <1>4, <1>5, Zenon

\* The queue stays as it is.
LEMMA QueueStays ==
    ASSUME UNCHANGED backlog, NEW c, NEW r
    PROVE  Queued(c, r)' = Queued(c, r)
BY Zenon DEF Queued

\* The front of the queue is a connection.
LEMMA HeadConn ==
    ASSUME TypeOK, backlog # <<>>
    PROVE  /\ Head(backlog) \in Conn
           /\ Head(backlog).client \in Client
           /\ Head(backlog).role \in Role
           /\ Head(backlog) = C(Head(backlog).client, Head(backlog).role)
           /\ Tail(backlog) \in Seq(Conn)
<1>1. backlog \in Seq(Conn)
  BY Zenon DEF TypeOK
<1>2. Head(backlog) \in Conn /\ Tail(backlog) \in Seq(Conn)
  BY <1>1
<1> QED
  BY <1>2, Zenon DEF Conn, C

\* So is the control connection of a session, which is told from None by its client
\* and role.
LEMMA ControlConn ==
    ASSUME TypeOK, control # None
    PROVE  /\ Me \in Client
           /\ control.role \in Role
           /\ control = C(Me, control.role)
           /\ \A c \in Client : Holds(c) = IF Me = c /\ control.role = "control"
                                           THEN 1 ELSE 0
<1>1. control \in Conn
  BY Zenon DEF TypeOK
<1> QED
  BY <1>1 DEF Conn, C, Me, Holds

\* Nobody holds the control connection between two sessions.
LEMMA NoControl ==
    ASSUME NEW c \in Client, control = None
    PROVE  Holds(c) = 0
BY SingleAssumption DEF Holds, Conn, Role

-----------------------------------------------------------------------------
(* Type correctness.                                                       *)

\* The end of a session is well typed.
LEMMA EndType ==
    ASSUME TypeOK, NEW lost, NEW st \in {"done", "denied", "dropped"},
           EndSession(lost, st)
    PROVE  /\ pc' \in {"accept", "stopped"}
           /\ control' = None
           /\ streams' \in Seq(Client)
           /\ failed' \in Nat
           /\ client' \in [Client -> ClientState]
<1>1. client \in [Client -> ClientState]
  BY Zenon DEF TypeOK
<1>2. client' \in [Client -> ClientState]
  BY <1>1, Zenon DEF EndSession, ClientState
<1> QED
  BY <1>2 DEF EndSession, Over

\* Every step of server and clients keeps the types.
LEMMA TypeStep ==
    ASSUME TypeOK, [Next]_vars
    PROVE  TypeOK'
<1> USE SingleAssumption
<1>1. CASE UNCHANGED vars
  BY <1>1, Zenon DEF vars, TypeOK
<1>2. ASSUME NEW c \in Client, Connect(c) PROVE TypeOK'
  <2>1. backlog' \in Seq(Conn)
    BY <1>2 DEF Connect, Queue, TypeOK, Conn, Role
  <2>2. client' \in [Client -> ClientState]
    BY <1>2, Zenon DEF Connect, TypeOK, ClientState
  <2> QED
    BY <1>2, <2>1, <2>2, Zenon DEF Connect, TypeOK
<1>3. ASSUME NEW c \in Client, OpenStream(c) PROVE TypeOK'
  <2>1. backlog' \in Seq(Conn)
    BY <1>3 DEF OpenStream, Queue, TypeOK, Conn, Role
  <2>2. toOpen' \in [Client -> Nat]
    BY <1>3 DEF OpenStream, TypeOK
  <2> QED
    BY <1>3, <2>1, <2>2, Zenon DEF OpenStream, TypeOK
<1>4. ASSUME NEW c \in Client, NEW how \in Gone, Vanish(c, how) PROVE TypeOK'
  BY <1>4, Zenon DEF Vanish, Gone, TypeOK, ClientState
<1>5. CASE AcceptControl
  BY <1>5, HeadConn, Zenon DEF AcceptControl, TypeOK
<1>6. CASE CookieFails
  <2>1. EndSession({Head(backlog).client}, "dropped") /\ backlog' \in Seq(Conn)
    BY <1>6, HeadConn, Zenon DEF CookieFails
  <2> QED
    BY <1>6, <2>1, EndType, Zenon DEF CookieFails, TypeOK
<1>7. CASE Negotiate
  <2>1. toOpen' \in [Client -> Nat]
    BY <1>7, Zenon DEF Negotiate, TypeOK
  <2>2. client' \in [Client -> ClientState]
    BY <1>7, Zenon DEF Negotiate, TypeOK, ClientState
  <2> QED
    BY <1>7, <2>1, <2>2, Zenon DEF Negotiate, TypeOK
<1>8. CASE Deny
  BY <1>8, EndType, Zenon DEF Deny, TypeOK
<1>9. CASE NegotiateFails
  BY <1>9, EndType, Zenon DEF NegotiateFails, TypeOK
<1>10. CASE AcceptStream
  <2>1. Me \in Client /\ backlog' \in Seq(Conn)
    BY <1>10, HeadConn, Zenon DEF AcceptStream
  <2>2. streams' \in Seq(Client)
    BY <1>10, <2>1 DEF AcceptStream, TypeOK
  <2>3. client' \in [Client -> ClientState]
    BY <1>10, Zenon DEF AcceptStream, TypeOK, ClientState
  <2> QED
    BY <1>10, <2>1, <2>2, <2>3, Zenon DEF AcceptStream, TypeOK
<1>11. CASE AcceptStreamFails
  <2>1. EndSession({Me, Head(backlog).client}, "dropped") /\ backlog' \in Seq(Conn)
    BY <1>11, HeadConn, Zenon DEF AcceptStreamFails
  <2> QED
    BY <1>11, <2>1, EndType, Zenon DEF AcceptStreamFails, TypeOK
<1>12. CASE Complete
  BY <1>12, EndType, Zenon DEF Complete, TypeOK
<1>13. CASE RunFails
  <2>1. leaked' \in BOOLEAN
    BY <1>13, Zenon DEF RunFails, TypeOK
  <2> QED
    BY <1>13, <2>1, EndType, Zenon DEF RunFails, TypeOK
<1>14. CASE Panic
  <2>1. leaked' \in BOOLEAN
    BY <1>14, Zenon DEF Panic, TypeOK
  <2> QED
    BY <1>14, <2>1, EndType, Zenon DEF Panic, TypeOK
<1>15. ASSUME NEW c \in Client, StreamFails(c) PROVE TypeOK'
  <2>1. toOpen' \in [Client -> Nat] /\ failed' \in Nat
    BY <1>15 DEF StreamFails, TypeOK
  <2> QED
    BY <1>15, <2>1, Zenon DEF StreamFails, TypeOK
<1>16. CASE TestEnd
  BY <1>16, Zenon DEF TestEnd, TypeOK
<1> QED
  BY <1>1, <1>2, <1>3, <1>4, <1>5, <1>6, <1>7, <1>8, <1>9, <1>10, <1>11, <1>12, <1>13,
     <1>14, <1>15, <1>16, Zenon DEF Next, Serve

\* The initial state is well typed.
LEMMA InitType == Init => TypeOK
<1> SUFFICES ASSUME Init PROVE TypeOK
  OBVIOUS
<1>1. client \in [Client -> ClientState] /\ toOpen \in [Client -> Nat]
  BY Zenon DEF Init, ClientState
<1>2. backlog \in Seq(Conn) /\ streams \in Seq(Client) /\ failed \in Nat
  BY DEF Init
<1>3. leaked \in BOOLEAN /\ udp \in SUBSET Client
  BY Zenon DEF Init
<1> QED
  BY <1>1, <1>2, <1>3, Zenon DEF Init, TypeOK

\* The server is always in a state of its type, whatever its clients do.
THEOREM TypeCorrect == Spec => []TypeOK
BY InitType, TypeStep, PTL DEF Spec

-----------------------------------------------------------------------------
(* The session and the listener's queue.                                   *)

\* The server listens, its queue is empty and no client has connected.
LEMMA InitInv == Init => SingleInv
<1> SUFFICES ASSUME Init PROVE SingleInv
  OBVIOUS
<1>1. TypeOK
  BY InitType, Zenon
<1>2. ASSUME NEW c \in Client PROVE ClientInv(c)
  <2>1. ASSUME NEW r \in Role PROVE Queued(c, r) = 0
    BY PositionsEmpty, Zenon DEF Init, Queued, Positions
  <2>2. Queued(c, "control") = 0 /\ Queued(c, "data") = 0
    BY <2>1, Zenon DEF Role
  <2>3. Holds(c) = 0
    BY NoControl, Zenon DEF Init
  <2>4. client[c] = "idle" /\ toOpen[c] = 0
    BY Zenon DEF Init
  <2> QED
    BY <2>2, <2>3, <2>4 DEF ClientInv, Gone
<1>3. SessionInv
  BY DEF Init, SessionInv, StreamsAccounted
<1> QED
  BY <1>1, <1>2, <1>3, Zenon DEF SingleInv

\* What the end of a session, however it comes about, leaves behind.
LEMMA EndKeeps ==
    ASSUME SingleInv, NEW lost \in SUBSET Client,
           NEW st \in {"done", "denied", "dropped"}, EndSession(lost, st),
           UNCHANGED <<udp, toOpen>>,
           control # None => Me \in lost,
           \A c \in Client : \A r \in Role :
               Queued(c, r)' \in Nat /\ Queued(c, r)' <= Queued(c, r),
           \A c \in lost : client[c] = "waiting" => Queued(c, "control")' = 0,
           st # "dropped" => pc # "collect"
    PROVE  SessionInv' /\ \A c \in Client : ClientInv(c)'
<1>1. SessionInv'
  BY DEF EndSession, Over, SessionInv, StreamsAccounted
<1>2. ASSUME NEW c \in Client PROVE ClientInv(c)'
  <2>1. ClientInv(c) /\ TypeOK /\ SessionInv
    BY Zenon DEF SingleInv
  <2>2. Holds(c)' = 0
    BY SingleAssumption DEF EndSession, Holds, Conn, Role
  <2>3. client'[c] = IF c \in lost /\ client[c] \in {"waiting", "opening", "testing"}
                     THEN st ELSE client[c]
    BY Zenon DEF EndSession
  <2>4. /\ Queued(c, "control")' \in Nat /\ Queued(c, "control")' <= Queued(c, "control")
        /\ Queued(c, "data")' \in Nat /\ Queued(c, "data")' <= Queued(c, "data")
        /\ Queued(c, "control") \in Nat /\ Queued(c, "data") \in Nat
    BY <2>1, QueuedType, Zenon DEF Role
  <2>5. Holds(c) = 1 => c \in lost
    <3>1. CASE control = None
      BY <3>1, NoControl
    <3>2. CASE control # None
      BY <2>1, <3>2, ControlConn
    <3> QED
      BY <3>1, <3>2, Zenon
  <2>6. toOpen'[c] = toOpen[c] /\ toOpen[c] \in Nat
    BY <2>1, Zenon DEF TypeOK
  <2>7. Holds(c) \in {0, 1}
    BY Zenon DEF Holds
  <2>8. CASE c \in lost /\ client[c] \in {"waiting", "opening", "testing"}
    <3>1. Queued(c, "control")' = 0
      BY <2>1, <2>4, <2>8 DEF ClientInv
    <3>2. st # "dropped" => Queued(c, "data")' = 0 /\ toOpen'[c] = 0
      BY <2>1, <2>4, <2>6, <2>8 DEF ClientInv, Gone
    <3> QED
      BY <2>2, <2>3, <2>8, <3>1, <3>2 DEF ClientInv, Gone
  <2>9. CASE ~(c \in lost /\ client[c] \in {"waiting", "opening", "testing"})
    <3>1. client'[c] = client[c] /\ client[c] \notin {"opening", "testing"}
      BY <2>1, <2>3, <2>5, <2>9, Zenon DEF ClientInv
    <3>2. Queued(c, "control")' <= IF client[c] = "idle" THEN 0 ELSE 1
      BY <2>1, <2>4, <2>7 DEF ClientInv
    <3>3. client[c] \notin {"opening", "dropped"} \cup Gone =>
             Queued(c, "data")' = 0 /\ toOpen'[c] = 0
      BY <2>1, <2>4, <2>6 DEF ClientInv
    <3>4. Queued(c, "control")' > 0 => client[c] \in {"waiting"} \cup Gone
      BY <2>1, <2>4 DEF ClientInv
    <3> QED
      BY <2>1, <2>2, <2>4, <2>6, <3>1, <3>2, <3>3, <3>4 DEF ClientInv
  <2> QED
    BY <2>8, <2>9, Zenon
<1> QED
  BY <1>1, <1>2, Zenon

\* The ends of a session that leave the queue alone.
LEMMA EndStays ==
    ASSUME SingleInv, NEW st \in {"done", "denied", "dropped"}, EndSession({Me}, st),
           UNCHANGED <<backlog, udp, toOpen>>,
           pc \in {"options", "collect", "run", "join"},
           st # "dropped" => pc # "collect"
    PROVE  SessionInv' /\ \A c \in Client : ClientInv(c)'
<1>1. TypeOK /\ SessionInv /\ control # None
  BY Zenon DEF SingleInv, SessionInv
<1>2. PICK me \in Client : me = Me
  BY <1>1, ControlConn, Zenon
<1>3. \A c \in Client : \A r \in Role :
          Queued(c, r)' \in Nat /\ Queued(c, r)' <= Queued(c, r)
  BY <1>1, QueueStays, QueuedType
<1>4. client[me] = "waiting" => Queued(me, "control")' = 0
  <2>1. ClientInv(me) /\ Queued(me, "control") \in Nat
    BY <1>1, QueuedType, Zenon DEF SingleInv, Role
  <2>2. client[me] = "waiting" => control.role = "control"
    BY <1>1, <1>2, Zenon DEF SessionInv, StreamsAccounted, Gone
  <2>3. client[me] = "waiting" => Holds(me) = 1
    BY <1>1, <1>2, <2>2, ControlConn, Zenon
  <2>4. Queued(me, "control")' = Queued(me, "control")
    BY QueueStays, Zenon
  <2> QED
    BY <2>1, <2>3, <2>4 DEF ClientInv
<1> QED
  BY <1>1, <1>2, <1>3, <1>4, EndKeeps

\* The ends of a session at a connection taken from the queue: its own streams, a
\* stray stream, or the control connection of a client that waits.
LEMMA EndLeaves ==
    ASSUME SingleInv, NEW lost \in SUBSET Client, EndSession(lost, "dropped"),
           UNCHANGED <<udp, toOpen>>,
           backlog # <<>>, backlog' = Tail(backlog),
           \/ pc = "accept" /\ lost = {Head(backlog).client}
           \/ pc = "collect" /\ lost = {Me, Head(backlog).client}
    PROVE  SessionInv' /\ \A c \in Client : ClientInv(c)'
<1> DEFINE h == Head(backlog)
<1>1. TypeOK /\ SessionInv
  BY Zenon DEF SingleInv
<1>2. /\ h.client \in Client
      /\ h.role \in Role
      /\ h = C(h.client, h.role)
  BY <1>1, HeadConn, Zenon
<1>3. \A c \in Client : \A r \in Role :
          /\ Queued(c, r) \in Nat
          /\ Queued(c, r)' \in Nat
          /\ Queued(c, r) = Queued(c, r)' + (IF h = C(c, r) THEN 1 ELSE 0)
  BY <1>1, QueueLeaves, QueuedType, Zenon
<1>4. \A c \in Client : \A r \in Role :
          Queued(c, r)' \in Nat /\ Queued(c, r)' <= Queued(c, r)
  BY <1>3
<1>5. control # None => Me \in lost
  BY <1>1, Zenon DEF SessionInv
<1>6. ASSUME NEW c \in lost, client[c] = "waiting" PROVE Queued(c, "control")' = 0
  <2>1. ClientInv(c) /\ c \in Client
    BY Zenon DEF SingleInv
  <2>2. c = h.client
    BY <1>1, <1>6, Zenon DEF SessionInv, StreamsAccounted, Gone
  <2>3. h.role # "data"
    <3>1. Queued(c, "data") = 0
      BY <1>6, <2>1, Zenon DEF ClientInv, Gone
    <3> QED
      BY <1>2, <1>3, <2>1, <2>2, <3>1 DEF Role
  <2>4. h = C(c, "control")
    BY <1>2, <2>2, <2>3, Zenon DEF Role
  <2>5. Queued(c, "control") = Queued(c, "control")' + 1 /\ Queued(c, "control")' \in Nat
    BY <1>3, <2>1, <2>4, Zenon DEF Role
  <2>6. Queued(c, "control") <= 1
    <3>1. Holds(c) \in {0, 1}
      BY Zenon DEF Holds
    <3>2. Queued(c, "control") \in Nat
      BY <1>3, <2>1, Zenon DEF Role
    <3> QED
      BY <1>6, <2>1, <3>1, <3>2 DEF ClientInv
  <2> QED
    BY <2>5, <2>6
<1> QED
  BY <1>4, <1>5, <1>6, EndKeeps, Zenon

\* A stream that moves from toOpen to the queue, or to those that failed, leaves the
\* sum as it is.
LEMMA SumStays ==
    ASSUME NEW n \in Nat, NEW a \in Nat, NEW b \in Nat, NEW f \in Nat,
           NEW x \in Nat, NEW y \in Nat, NEW z \in Nat,
           a + b + f = x + y + z, n + x + y + z = Parallel
    PROVE  n + a + b + f = Parallel
OBVIOUS

\* What the session's client becomes while the session itself does not move.
Same(c) == client'[c] = client[c] \/ client'[c] \in Gone

\* The session's invariant, when the session itself does not move: what its own
\* client has in the queue, about to be opened, failed and collected still adds up.
LEMMA SessionStays ==
    ASSUME SingleInv, UNCHANGED <<pc, control, streams, udp>>,
           control # None => Same(Me),
           pc # "collect" => failed' = failed,
           (pc = "collect" /\ client'[Me] \notin Gone) =>
               Queued(Me, "data")' + toOpen'[Me] + failed'
                 = Queued(Me, "data") + toOpen[Me] + failed,
           pc = "collect" => /\ Queued(Me, "data")' \in Nat /\ Queued(Me, "data") \in Nat
                             /\ toOpen'[Me] \in Nat /\ toOpen[Me] \in Nat
                             /\ failed' \in Nat /\ failed \in Nat
    PROVE  SessionInv'
<1>1. SessionInv /\ Len(streams) \in Nat
  BY DEF SingleInv, TypeOK
<1>2. Me' = Me /\ Alive' = (client'[Me] \notin Gone)
  BY Zenon DEF Me, Alive, Gone
<1>3. StreamsAccounted'
  <2>1. \A i \in DOMAIN streams' : streams'[i] = Me'
    BY <1>1, <1>2, Zenon DEF SessionInv, StreamsAccounted
  <2>2. CASE pc = "collect"
    <3>1. /\ control.role = "control" /\ control # None
          /\ Len(streams) < Parallel
          /\ client[Me] \in {"opening"} \cup Gone
          /\ client[Me] \notin Gone =>
               Len(streams) + Queued(Me, "data") + toOpen[Me] + failed = Parallel
      BY <1>1, <2>2, Zenon DEF SessionInv, StreamsAccounted, Alive
    <3>2. Alive' => Len(streams) + Queued(Me, "data")' + toOpen'[Me] + failed' = Parallel
      <4> SUFFICES ASSUME Alive'
                   PROVE  Len(streams) + Queued(Me, "data")' + toOpen'[Me] + failed' = Parallel
        OBVIOUS
      <4>1. client'[Me] \notin Gone /\ client[Me] \notin Gone
        BY <1>2, <2>2, <3>1, Zenon DEF Same
      <4>2. Len(streams) + Queued(Me, "data") + toOpen[Me] + failed = Parallel
        BY <3>1, <4>1, Zenon
      <4>3. Queued(Me, "data")' + toOpen'[Me] + failed'
              = Queued(Me, "data") + toOpen[Me] + failed
        BY <2>2, <4>1, Zenon
      <4>4. /\ Queued(Me, "data")' \in Nat /\ Queued(Me, "data") \in Nat
            /\ toOpen'[Me] \in Nat /\ toOpen[Me] \in Nat
            /\ failed' \in Nat /\ failed \in Nat /\ Len(streams) \in Nat
        BY <1>1, <2>2, Zenon
      <4>5. PICK n \in Nat, x \in Nat, y \in Nat, z \in Nat :
              n = Len(streams) /\ x = Queued(Me, "data") /\ y = toOpen[Me] /\ z = failed
        BY <4>4, Zenon
      <4>6. PICK a \in Nat, b \in Nat, f \in Nat :
              a = Queued(Me, "data")' /\ b = toOpen'[Me] /\ f = failed'
        BY <4>4, Zenon
      <4>7. n + x + y + z = Parallel /\ a + b + f = x + y + z
        BY <4>2, <4>3, <4>5, <4>6, Zenon
      <4>8. n + a + b + f = Parallel
        BY <4>7, SumStays
      <4> QED
        BY <4>5, <4>6, <4>8, Zenon
    <3>3. client'[Me] \in {"opening"} \cup Gone
      BY <2>2, <3>1, Zenon DEF Same
    <3>4. Alive' => (Len(streams) + Queued(Me, "data") + toOpen[Me] + failed = Parallel)'
      BY <1>2, <3>2, Zenon
    <3> QED
      BY <1>2, <2>1, <2>2, <3>1, <3>3, <3>4, Zenon DEF StreamsAccounted, Gone
  <2>3. CASE pc # "collect"
    BY <1>1, <1>2, <2>1, <2>3, Zenon DEF SessionInv, StreamsAccounted
  <2> QED
    BY <2>2, <2>3, Zenon
<1> QED
  BY <1>1, <1>2, <1>3, Zenon DEF SessionInv, Same, Gone

\* A client that connects has one control connection in the queue and no streams.
LEMMA ConnectKeeps ==
    ASSUME SingleInv, NEW d \in Client, Connect(d)
    PROVE  SessionInv' /\ \A c \in Client : ClientInv(c)'
<1>1. TypeOK /\ SessionInv /\ Queue(d, "control")
  BY Zenon DEF SingleInv, Connect
<1>2. \A c \in Client : client'[c] = IF c = d THEN "waiting" ELSE client[c]
  BY <1>1, Zenon DEF Connect, TypeOK
<1>3. \A c \in Client : /\ Queued(c, "control") \in Nat
                        /\ Queued(c, "data") \in Nat
                        /\ Queued(c, "data")' = Queued(c, "data")
                        /\ Queued(c, "control")' = Queued(c, "control")
                                                   + (IF c = d THEN 1 ELSE 0)
  <2> TAKE c \in Client
  <2>1. Queued(c, "data")' = Queued(c, "data") + 0
    BY <1>1, QueueJoins, Zenon DEF Role
  <2>2. Queued(c, "control")' = Queued(c, "control") + (IF c = d THEN 1 ELSE 0)
    BY <1>1, QueueJoins, Zenon DEF Role
  <2> QED
    BY <1>1, <2>1, <2>2, QueuedType DEF Role
<1>4. \A c \in Client : Holds(c)' = Holds(c) /\ Holds(c) \in {0, 1}
  BY Zenon DEF Holds, Connect
<1>5. ASSUME NEW c \in Client PROVE ClientInv(c)'
  <2>1. ClientInv(c)
    BY Zenon DEF SingleInv
  <2>2. CASE c = d
    BY <1>2, <1>3, <1>4, <2>1, <2>2 DEF ClientInv, Connect, Gone
  <2>3. CASE c # d
    BY <1>2, <1>3, <1>4, <2>1, <2>3 DEF ClientInv, Connect
  <2> QED
    BY <2>2, <2>3, Zenon
<1>6. SessionInv'
  <2>1. control # None => Me \in Client /\ client'[Me] = client[Me]
    <3>1. control # None => Me # d
      BY <1>1, Zenon DEF SessionInv, StreamsAccounted, Connect, TypeOK, Gone
    <3> QED
      BY <1>1, <1>2, <3>1, ControlConn, Zenon
  <2>2. control # None => /\ Queued(Me, "data")' = Queued(Me, "data")
                          /\ Queued(Me, "data") \in Nat
    <3>1. Me' = Me
      BY Zenon DEF Connect, Me
    <3> QED
      BY <1>3, <2>1, <3>1, Zenon
  <2> QED
    BY <1>1, <2>1, <2>2, SessionStays, Zenon DEF Connect, SessionInv, TypeOK, Same
<1> QED
  BY <1>5, <1>6, Zenon

\* A stream thread that connects moves one stream from toOpen to the queue.
LEMMA OpenStreamKeeps ==
    ASSUME SingleInv, NEW d \in Client, OpenStream(d)
    PROVE  SessionInv' /\ \A c \in Client : ClientInv(c)'
<1>1. TypeOK /\ SessionInv /\ Queue(d, "data")
  BY Zenon DEF SingleInv, OpenStream
<1>2. \A c \in Client : /\ toOpen[c] \in Nat /\ toOpen'[c] \in Nat
                        /\ toOpen'[c] = IF c = d THEN toOpen[c] - 1 ELSE toOpen[c]
  BY <1>1 DEF OpenStream, TypeOK
<1>3. \A c \in Client : /\ Queued(c, "control") \in Nat
                        /\ Queued(c, "data") \in Nat
                        /\ Queued(c, "control")' = Queued(c, "control")
                        /\ Queued(c, "data")' = Queued(c, "data")
                                                + (IF c = d THEN 1 ELSE 0)
  <2> TAKE c \in Client
  <2>1. Queued(c, "control")' = Queued(c, "control") + 0
    BY <1>1, QueueJoins, Zenon DEF Role
  <2>2. Queued(c, "data")' = Queued(c, "data") + (IF c = d THEN 1 ELSE 0)
    BY <1>1, QueueJoins, Zenon DEF Role
  <2> QED
    BY <1>1, <2>1, <2>2, QueuedType DEF Role
<1>4. \A c \in Client : Holds(c)' = Holds(c) /\ Holds(c) \in {0, 1}
  BY Zenon DEF Holds, OpenStream
<1>5. ASSUME NEW c \in Client PROVE ClientInv(c)'
  <2>1. ClientInv(c)
    BY Zenon DEF SingleInv
  <2>2. CASE c = d
    <3>1. client[c] \in {"opening", "dropped"}
      BY <1>1, <2>1, <2>2 DEF ClientInv, OpenStream, TypeOK, ClientState
    <3> QED
      BY <1>2, <1>3, <1>4, <2>1, <3>1, Zenon DEF ClientInv, OpenStream, Gone
  <2>3. CASE c # d
    BY <1>2, <1>3, <1>4, <2>1, <2>3 DEF ClientInv, OpenStream
  <2> QED
    BY <2>2, <2>3, Zenon
<1>6. SessionInv'
  <2>1. Me' = Me
    BY Zenon DEF OpenStream, Me
  <2>2. control # None => Me \in Client
    BY <1>1, ControlConn, Zenon
  <2>3. control # None =>
          /\ Queued(Me, "data") \in Nat /\ Queued(Me, "data")' \in Nat
          /\ toOpen[Me] \in Nat /\ toOpen'[Me] \in Nat
          /\ failed \in Nat /\ failed' = failed
          /\ Queued(Me, "data")' + toOpen'[Me] + failed
               = Queued(Me, "data") + toOpen[Me] + failed
    <3>1. failed \in Nat /\ failed' = failed
      BY <1>1, Zenon DEF OpenStream, TypeOK
    <3> QED
      BY <1>2, <1>3, <2>1, <2>2, <3>1
  <2> QED
    BY <1>1, <2>3, SessionStays, Zenon DEF OpenStream, SessionInv, Same
<1> QED
  BY <1>5, <1>6, Zenon

\* A stream thread that cannot connect moves one stream from toOpen to the failed ones.
LEMMA StreamFailsKeeps ==
    ASSUME SingleInv, NEW d \in Client, StreamFails(d)
    PROVE  SessionInv' /\ \A c \in Client : ClientInv(c)'
<1>1. TypeOK /\ SessionInv
  BY Zenon DEF SingleInv
<1>2. /\ failed \in Nat /\ failed' \in Nat
      /\ failed' = IF client[d] = "opening" THEN failed + 1 ELSE failed
      /\ \A c \in Client : /\ toOpen[c] \in Nat /\ toOpen'[c] \in Nat
                            /\ toOpen'[c] = IF c = d THEN toOpen[c] - 1 ELSE toOpen[c]
  BY <1>1 DEF StreamFails, TypeOK
<1>3. \A c \in Client : /\ Queued(c, "control") \in Nat
                        /\ Queued(c, "data") \in Nat
                        /\ Queued(c, "control")' = Queued(c, "control")
                        /\ Queued(c, "data")' = Queued(c, "data")
  BY <1>1, QueueStays, QueuedType, Zenon DEF StreamFails, Role
<1>4. \A c \in Client : Holds(c)' = Holds(c) /\ Holds(c) \in {0, 1}
  BY Zenon DEF Holds, StreamFails
<1>5. client[d] \in {"opening", "dropped"}
  BY <1>1 DEF SingleInv, ClientInv, StreamFails, TypeOK, ClientState
<1>6. ASSUME NEW c \in Client PROVE ClientInv(c)'
  <2>1. ClientInv(c)
    BY Zenon DEF SingleInv
  <2>2. CASE c = d
    BY <1>2, <1>3, <1>4, <1>5, <2>1, <2>2, Zenon DEF ClientInv, StreamFails, Gone
  <2>3. CASE c # d
    BY <1>2, <1>3, <1>4, <2>1, <2>3 DEF ClientInv, StreamFails
  <2> QED
    BY <2>2, <2>3, Zenon
<1>7. SessionInv'
  <2>1. Me' = Me
    BY Zenon DEF StreamFails, Me
  <2>2. control # None => Me \in Client
    BY <1>1, ControlConn, Zenon
  <2>3. client[d] = "opening" => pc = "collect" /\ d = Me
    <3>1. client[d] = "opening" => pc = "collect" /\ Holds(d) = 1
      BY Zenon DEF SingleInv, ClientInv
    <3>2. pc = "collect" => control # None
      BY <1>1, Zenon DEF SessionInv
    <3>3. control # None /\ Holds(d) = 1 => d = Me
      BY <1>1, ControlConn
    <3> QED
      BY <3>1, <3>2, <3>3, Zenon
  <2>4. d = Me => client[d] \in {"opening"} \cup Gone \/ pc # "collect"
    BY <1>1, Zenon DEF SessionInv, StreamsAccounted
  <2>5. pc = "collect" /\ d = Me => client[d] = "opening"
    BY <1>5, <2>4, Zenon DEF Gone
  <2>6. pc = "collect" =>
          /\ Queued(Me, "data") \in Nat /\ Queued(Me, "data")' = Queued(Me, "data")
          /\ toOpen[Me] \in Nat /\ toOpen'[Me] \in Nat
          /\ toOpen'[Me] + failed' = toOpen[Me] + failed
    <3> SUFFICES ASSUME pc = "collect"
                 PROVE  /\ Queued(Me, "data") \in Nat /\ Queued(Me, "data")' = Queued(Me, "data")
                        /\ toOpen[Me] \in Nat /\ toOpen'[Me] \in Nat
                        /\ toOpen'[Me] + failed' = toOpen[Me] + failed
      BY Zenon
    <3>1. PICK me \in Client : me = Me
      BY <1>1, <2>2, Zenon DEF SessionInv
    <3>2. CASE me = d
      BY <1>2, <1>3, <2>1, <2>5, <3>1, <3>2
    <3>3. CASE me # d
      BY <1>2, <1>3, <2>1, <2>3, <3>1, <3>3
    <3> QED
      BY <3>2, <3>3, Zenon
  <2>7. pc = "collect" =>
          Queued(Me, "data")' + toOpen'[Me] + failed' = Queued(Me, "data") + toOpen[Me] + failed
    BY <1>2, <2>6
  <2>8. pc # "collect" => failed' = failed
    BY <1>2, <2>3, Zenon
  <2> QED
    BY <1>2, <2>6, <2>7, <2>8, SessionStays, Zenon DEF StreamFails, Same
<1> QED
  BY <1>6, <1>7, Zenon

\* A client that vanishes keeps what it has in the queue and opens nothing more.
LEMMA VanishKeeps ==
    ASSUME SingleInv, NEW d \in Client, NEW how \in Gone, Vanish(d, how)
    PROVE  SessionInv' /\ \A c \in Client : ClientInv(c)'
<1>1. TypeOK /\ SessionInv
  BY Zenon DEF SingleInv
<1>2. \A c \in Client : /\ toOpen[c] \in Nat /\ toOpen'[c] \in Nat
                        /\ toOpen'[c] = IF c = d THEN 0 ELSE toOpen[c]
                        /\ client'[c] = IF c = d THEN how ELSE client[c]
  BY <1>1, Zenon DEF Vanish, TypeOK
<1>3. \A c \in Client : \A r \in Role : Queued(c, r) \in Nat /\ Queued(c, r)' = Queued(c, r)
  BY <1>1, QueueStays, QueuedType, Zenon DEF Vanish
<1>4. \A c \in Client : Holds(c)' = Holds(c) /\ Holds(c) \in {0, 1}
  BY Zenon DEF Holds, Vanish
<1>5. ASSUME NEW c \in Client PROVE ClientInv(c)'
  <2>1. ClientInv(c)
    BY Zenon DEF SingleInv
  <2>2. /\ Queued(c, "control") \in Nat /\ Queued(c, "control")' = Queued(c, "control")
        /\ Queued(c, "data") \in Nat /\ Queued(c, "data")' = Queued(c, "data")
    BY <1>3, Zenon DEF Role
  <2>3. CASE c = d
    BY <1>2, <1>4, <2>1, <2>2, <2>3 DEF ClientInv, Vanish, Gone
  <2>4. CASE c # d
    BY <1>2, <1>4, <2>1, <2>2, <2>4, Zenon DEF ClientInv, Vanish
  <2> QED
    BY <2>3, <2>4, Zenon
<1>6. SessionInv'
  <2>1. Me' = Me /\ failed' = failed /\ failed \in Nat
    BY <1>1, Zenon DEF Vanish, Me, TypeOK
  <2>2. control # None => Me \in Client
    BY <1>1, ControlConn, Zenon
  <2>3. control # None =>
          /\ Queued(Me, "data") \in Nat /\ Queued(Me, "data")' = Queued(Me, "data")
          /\ toOpen[Me] \in Nat /\ toOpen'[Me] \in Nat
          /\ Same(Me)
          /\ client'[Me] \notin Gone => toOpen'[Me] = toOpen[Me]
    BY <1>2, <1>3, <2>1, <2>2, Zenon DEF Role, Same
  <2> QED
    BY <1>1, <2>1, <2>3, SessionStays, Zenon DEF Vanish, SessionInv
<1> QED
  BY <1>5, <1>6, Zenon

\* accept_control takes a waiting client's control connection, or a stream of a
\* session that has failed.
LEMMA AcceptControlKeeps ==
    ASSUME SingleInv, AcceptControl
    PROVE  SessionInv' /\ \A c \in Client : ClientInv(c)'
<1> DEFINE h == Head(backlog)
<1>1. TypeOK /\ SessionInv /\ pc = "accept" /\ backlog # <<>> /\ control = None
  BY Zenon DEF SingleInv, AcceptControl, SessionInv
<1>2. /\ h \in Conn /\ h.client \in Client /\ h.role \in Role
      /\ h = C(h.client, h.role)
  BY <1>1, HeadConn, Zenon
<1>3. \A c \in Client : \A r \in Role :
          /\ Queued(c, r) \in Nat
          /\ Queued(c, r)' \in Nat
          /\ Queued(c, r) = Queued(c, r)' + (IF h = C(c, r) THEN 1 ELSE 0)
  BY <1>1, QueueLeaves, QueuedType, Zenon DEF AcceptControl
<1>4. \A c \in Client : Holds(c) = 0 /\ Holds(c)' = IF h = C(c, "control") THEN 1 ELSE 0
  BY <1>1, NoControl, Zenon DEF AcceptControl, Holds, C
<1>5. ASSUME NEW c \in Client PROVE ClientInv(c)'
  <2>1. ClientInv(c)
    BY Zenon DEF SingleInv
  <2>2. /\ Queued(c, "control") = Queued(c, "control")' + Holds(c)'
        /\ Queued(c, "data") \in Nat /\ Queued(c, "data")' \in Nat
        /\ Queued(c, "data")' <= Queued(c, "data")
        /\ Queued(c, "control") \in Nat /\ Queued(c, "control")' \in Nat
        /\ Holds(c)' \in {0, 1} /\ Holds(c) = 0
    BY <1>3, <1>4 DEF Role
  <2>3. UNCHANGED <<client, toOpen>>
    BY Zenon DEF AcceptControl
  <2> QED
    BY <1>1, <2>1, <2>2, <2>3 DEF ClientInv
<1>6. SessionInv'
  <2>1. pc' = "options" /\ control' = h /\ Me' = h.client /\ UNCHANGED <<client, streams>>
    BY Zenon DEF AcceptControl, Me
  <2>2. control' # None
    BY <1>2, <2>1, SingleAssumption, Zenon
  <2>3. Queued(h.client, h.role) > 0
    BY <1>2, <1>3
  <2>4. ClientInv(h.client)
    BY <1>2, Zenon DEF SingleInv
  <2>5. client[h.client] \in (IF h.role = "control" THEN {"waiting"} ELSE {"dropped"})
                               \cup Gone
    BY <1>1, <1>2, <2>3, <2>4 DEF ClientInv, Role
  <2>6. streams = <<>> /\ failed' = 0
    BY <1>1, Zenon DEF SessionInv, AcceptControl
  <2> QED
    BY <2>1, <2>2, <2>5, <2>6 DEF SessionInv, StreamsAccounted
<1> QED
  BY <1>5, <1>6, Zenon

\* The client whose options are let through has no stream anywhere yet.
LEMMA NegotiateKeeps ==
    ASSUME SingleInv, Negotiate
    PROVE  SessionInv' /\ \A c \in Client : ClientInv(c)'
<1>1. TypeOK /\ SessionInv /\ pc = "options" /\ control # None /\ control.role = "control"
  BY Zenon DEF SingleInv, Negotiate, SessionInv
<1>2. PICK me \in Client : me = Me
  BY <1>1, ControlConn, Zenon
<1>3. Me' = Me /\ control' = control /\ streams' = streams /\ udp' = udp /\ streams = <<>>
  BY <1>1, Zenon DEF Negotiate, Me, SessionInv
<1>4. client[me] = "waiting" /\ failed = 0 /\ failed' = 0
  BY <1>1, <1>2, Zenon DEF Negotiate, SessionInv, Alive
<1>5. \A c \in Client : \A r \in Role : Queued(c, r) \in Nat /\ Queued(c, r)' = Queued(c, r)
  BY <1>1, QueueStays, QueuedType, Zenon DEF Negotiate
<1>6. \A c \in Client : Holds(c)' = Holds(c) /\ Holds(c) = IF c = me THEN 1 ELSE 0
  BY <1>1, <1>2, <1>3, ControlConn, Zenon DEF Holds
<1>7. Queued(me, "data") = 0 /\ toOpen[me] = 0
  BY <1>4, Zenon DEF SingleInv, ClientInv, Gone
<1>8. \A c \in Client : c # me => client'[c] = client[c] /\ toOpen'[c] = toOpen[c]
  BY <1>1, <1>2, Zenon DEF Negotiate, TypeOK
<1>9. \/ me \in udp /\ pc' = "run" /\ client'[me] = "testing" /\ toOpen'[me] = 0
      \/ me \notin udp /\ pc' = "collect" /\ client'[me] = "opening" /\ toOpen'[me] = Parallel
  BY <1>1, <1>2, <1>7, Zenon DEF Negotiate, TypeOK
<1>10. ASSUME NEW c \in Client PROVE ClientInv(c)'
  <2>1. ClientInv(c)
    BY Zenon DEF SingleInv
  <2>2. /\ Queued(c, "control") \in Nat /\ Queued(c, "control")' = Queued(c, "control")
        /\ Queued(c, "data") \in Nat /\ Queued(c, "data")' = Queued(c, "data")
    BY <1>5, Zenon DEF Role
  <2>3. CASE c = me
    BY <1>4, <1>6, <1>7, <1>9, <2>1, <2>2, <2>3 DEF ClientInv, Gone
  <2>4. CASE c # me
    BY <1>1, <1>6, <1>8, <2>1, <2>2, <2>4, Zenon DEF ClientInv
  <2> QED
    BY <2>3, <2>4, Zenon
<1>11. SessionInv'
  <2>1. (Queued(me, "data"))' = 0
    BY <1>5, <1>7, Zenon DEF Role
  <2>2. Queued(Me, "data")' = 0
    BY <1>2, <1>3, <2>1, Zenon
  <2>3. Len(streams) = 0 /\ DOMAIN streams = {}
    BY <1>3
  <2>4. CASE pc' = "collect"
    <3>1. client'[Me] = "opening" /\ toOpen'[Me] = Parallel
      BY <1>2, <1>9, <2>4, Zenon
    <3>2. (Len(streams) + Queued(Me, "data") + toOpen[Me] + failed = Parallel)'
      BY <1>3, <1>4, <2>2, <2>3, <3>1, SingleAssumption
    <3>3. StreamsAccounted'
      BY <1>1, <1>3, <2>3, <2>4, <3>1, <3>2, SingleAssumption DEF StreamsAccounted
    <3> QED
      BY <1>1, <1>3, <2>4, <3>3, Zenon DEF SessionInv
  <2>5. CASE pc' = "run"
    <3>1. client'[Me] = "testing" /\ Me \in udp
      BY <1>2, <1>9, <2>5, Zenon
    <3> QED
      BY <1>1, <1>3, <2>3, <2>5, <3>1, Zenon DEF SessionInv, StreamsAccounted
  <2> QED
    BY <1>9, <2>4, <2>5, Zenon
<1> QED
  BY <1>10, <1>11, Zenon

\* A stream moves from the queue to the session; with the last one none of its
\* client is left in the queue or unopened.
LEMMA AcceptStreamKeeps ==
    ASSUME SingleInv, AcceptStream
    PROVE  SessionInv' /\ \A c \in Client : ClientInv(c)'
<1> DEFINE h == Head(backlog)
<1>1. TypeOK /\ SessionInv /\ pc = "collect" /\ control # None /\ control.role = "control"
  BY Zenon DEF SingleInv, AcceptStream, SessionInv, StreamsAccounted
<1>2. PICK me \in Client : me = Me
  BY <1>1, ControlConn, Zenon
<1>3. Me' = Me /\ control' = control /\ udp' = udp /\ toOpen' = toOpen /\ failed' = failed
  BY Zenon DEF AcceptStream, Me
<1>4. backlog # <<>> /\ backlog' = Tail(backlog) /\ h.client = me
  BY <1>2, Zenon DEF AcceptStream
<1>5. h.role \in Role /\ h = C(me, h.role)
  BY <1>1, <1>4, HeadConn, Zenon
<1>6. \A c \in Client : \A r \in Role :
          /\ Queued(c, r) \in Nat
          /\ Queued(c, r)' \in Nat
          /\ Queued(c, r) = Queued(c, r)' + (IF h = C(c, r) THEN 1 ELSE 0)
  BY <1>1, <1>4, QueueLeaves, QueuedType, Zenon
<1>7. \A c \in Client : Holds(c)' = Holds(c) /\ Holds(c) = IF c = me THEN 1 ELSE 0
  BY <1>1, <1>2, <1>3, ControlConn, Zenon DEF Holds
<1>8. client[me] \in {"opening"} \cup Gone
  BY <1>1, <1>2, Zenon DEF SessionInv, StreamsAccounted
<1>9. h = C(me, "data")
  <2>1. Queued(me, "control") = 0
    <3>1. Queued(me, "control") \in Nat
      BY <1>6, Zenon DEF Role
    <3> QED
      BY <1>7, <1>8, <3>1 DEF SingleInv, ClientInv, Gone
  <2>2. h # C(me, "control")
    BY <1>6, <2>1 DEF Role
  <2> QED
    BY <1>5, <2>2, Zenon DEF Role
<1>10. \A c \in Client : /\ Queued(c, "control") \in Nat
                         /\ Queued(c, "control")' = Queued(c, "control")
                         /\ Queued(c, "data") \in Nat /\ Queued(c, "data")' \in Nat
                         /\ Queued(c, "data") = Queued(c, "data")'
                                                + (IF c = me THEN 1 ELSE 0)
  <2> TAKE c \in Client
  <2>1. C(me, "data") # C(c, "control") /\ (C(me, "data") = C(c, "data") <=> c = me)
    BY Zenon DEF C
  <2> QED
    BY <1>6, <1>9, <2>1 DEF Role
<1>11. /\ streams' = Append(streams, me) /\ streams \in Seq(Client)
       /\ Len(streams') = Len(streams) + 1 /\ Len(streams) \in Nat
       /\ Len(streams) < Parallel
       /\ \A i \in DOMAIN streams' : streams'[i] = me
  <2>1. streams' = Append(streams, me) /\ streams \in Seq(Client)
    BY <1>1, <1>2, Zenon DEF AcceptStream, TypeOK
  <2>2. \A i \in DOMAIN streams : streams[i] = me
    BY <1>1, <1>2, Zenon DEF SessionInv, StreamsAccounted
  <2>3. Len(streams) < Parallel
    BY <1>1, Zenon DEF SessionInv, StreamsAccounted
  <2> QED
    BY <2>1, <2>2, <2>3
<1>12. client[me] \notin Gone =>
         Len(streams) + Queued(me, "data") + toOpen[me] + failed = Parallel
  BY <1>1, <1>2, Zenon DEF SessionInv, StreamsAccounted, Alive
<1>13. \/ /\ Len(streams') = Parallel /\ pc' = "run"
          /\ client'[me] = IF client[me] \notin Gone THEN "testing" ELSE client[me]
       \/ /\ Len(streams') # Parallel /\ pc' = "collect" /\ client' = client
  BY <1>1, <1>2, <1>11, Zenon DEF AcceptStream, Alive, TypeOK
<1>14. \A c \in Client : c # me => client'[c] = client[c]
  BY <1>1, <1>2, Zenon DEF AcceptStream, TypeOK
<1>15. toOpen[me] \in Nat /\ failed \in Nat /\ Parallel \in Nat
  BY <1>1, SingleAssumption, Zenon DEF TypeOK
<1>16. client'[me] = "testing" => Queued(me, "data")' = 0 /\ toOpen[me] = 0
  BY <1>8, <1>10, <1>11, <1>12, <1>13, <1>15 DEF Gone
<1>17. ASSUME NEW c \in Client PROVE ClientInv(c)'
  <2>1. ClientInv(c)
    BY Zenon DEF SingleInv
  <2>2. CASE c = me
    BY <1>3, <1>7, <1>8, <1>10, <1>13, <1>16, <2>1, <2>2, Zenon DEF ClientInv, Gone
  <2>3. CASE c # me
    BY <1>3, <1>7, <1>10, <1>14, <2>1, <2>3 DEF ClientInv
  <2> QED
    BY <2>2, <2>3, Zenon
<1>18. SessionInv'
  <2>1. \A i \in DOMAIN streams' : streams'[i] = Me'
    BY <1>2, <1>3, <1>11, Zenon
  <2>2. CASE pc' = "run"
    BY <1>1, <1>2, <1>3, <1>13, <2>1, <2>2, Zenon DEF SessionInv, StreamsAccounted
  <2>3. CASE pc' = "collect"
    <3>1. Len(streams') < Parallel /\ client' = client
      BY <1>11, <1>13, <1>15, <2>3
    <3>2. client[me] \notin Gone =>
            Len(streams') + Queued(me, "data")' + toOpen[me] + failed = Parallel
      BY <1>10, <1>11, <1>12, <1>15
    <3>3. Alive' => (Len(streams) + Queued(Me, "data") + toOpen[Me] + failed = Parallel)'
      BY <1>2, <1>3, <3>1, <3>2, Zenon DEF Alive, Gone
    <3>4. StreamsAccounted'
      BY <1>1, <1>2, <1>3, <1>8, <2>1, <2>3, <3>1, <3>3, Zenon DEF StreamsAccounted
    <3> QED
      BY <1>1, <1>3, <2>3, <3>4, Zenon DEF SessionInv
  <2> QED
    BY <1>13, <2>2, <2>3, Zenon
<1> QED
  BY <1>17, <1>18, Zenon

\* A session that joins its readers has all its streams.
LEMMA TestEndKeeps ==
    ASSUME SingleInv, TestEnd
    PROVE  SessionInv' /\ \A c \in Client : ClientInv(c)'
<1>1. TypeOK /\ SessionInv /\ pc = "run" /\ pc' = "join"
  BY Zenon DEF SingleInv, TestEnd
<1>2. /\ UNCHANGED <<control, streams, client, udp, toOpen, failed>>
      /\ Me' = Me /\ Me \notin udp
  BY Zenon DEF TestEnd, Me
<1>3. SessionInv'
  BY <1>1, <1>2, Zenon DEF SessionInv, StreamsAccounted, Gone
<1>4. ASSUME NEW c \in Client PROVE ClientInv(c)'
  <2>1. \A r \in Role : Queued(c, r)' = Queued(c, r)
    BY QueueStays, Zenon DEF TestEnd
  <2>2. ClientInv(c) /\ Holds(c)' = Holds(c)
    BY <1>2, Zenon DEF SingleInv, Holds
  <2> QED
    BY <1>1, <1>2, <2>1, <2>2, Zenon DEF ClientInv, Role, Gone
<1> QED
  BY <1>3, <1>4, Zenon

\* Every step of the single-session server and its clients keeps the invariant.
LEMMA InvStep ==
    ASSUME SingleInv, [Next]_vars
    PROVE  SingleInv'
<1>1. TypeOK'
  BY TypeStep, Zenon DEF SingleInv
<1>2. TypeOK /\ SessionInv
  BY Zenon DEF SingleInv
<1>3. CASE UNCHANGED vars
  <2>1. \A c \in Client : \A r \in Role : Queued(c, r)' = Queued(c, r)
    BY <1>3, QueueStays, Zenon DEF vars
  <2>2. SessionInv'
    BY <1>2, <1>3, Zenon DEF vars, SessionInv, StreamsAccounted, Alive, Me, Queued
  <2>3. \A c \in Client : ClientInv(c)'
    BY <1>3, <2>1, Zenon DEF SingleInv, vars, ClientInv, Holds, Role
  <2> QED
    BY <1>1, <2>2, <2>3, Zenon DEF SingleInv
<1>4. ASSUME NEW c \in Client, Connect(c) \/ OpenStream(c) \/ StreamFails(c)
      PROVE  SingleInv'
  BY <1>1, <1>4, ConnectKeeps, OpenStreamKeeps, StreamFailsKeeps, Zenon DEF SingleInv
<1>13. ASSUME NEW c \in Client, NEW how \in Gone, Vanish(c, how) PROVE SingleInv'
  BY <1>1, <1>13, VanishKeeps, Zenon DEF SingleInv
<1>5. CASE AcceptControl \/ Negotiate \/ AcceptStream \/ TestEnd
  BY <1>1, <1>5, AcceptControlKeeps, NegotiateKeeps, AcceptStreamKeeps, TestEndKeeps, Zenon
     DEF SingleInv
<1>6. CASE CookieFails
  <2>1. Head(backlog).client \in Client
    BY <1>2, <1>6, HeadConn, Zenon DEF CookieFails
  <2> QED
    BY <1>1, <1>6, <2>1, EndLeaves, Zenon DEF CookieFails, SingleInv
<1>7. CASE AcceptStreamFails
  <2>1. Head(backlog).client \in Client
    BY <1>2, <1>7, HeadConn, Zenon DEF AcceptStreamFails
  <2>2. Me \in Client
    BY <1>2, <1>7, ControlConn, Zenon DEF AcceptStreamFails, SessionInv
  <2> QED
    BY <1>1, <1>7, <2>1, <2>2, EndLeaves, Zenon DEF AcceptStreamFails, SingleInv
<1>8. CASE Deny
  BY <1>1, <1>8, EndStays, Zenon DEF Deny, SingleInv
<1>9. CASE NegotiateFails
  BY <1>1, <1>9, EndStays, Zenon DEF NegotiateFails, SingleInv
<1>10. CASE Complete
  BY <1>1, <1>10, EndStays, Zenon DEF Complete, SingleInv
<1>11. CASE RunFails
  BY <1>1, <1>11, EndStays, Zenon DEF RunFails, SingleInv
<1>12. CASE Panic
  BY <1>1, <1>12, EndStays, Zenon DEF Panic, SingleInv
<1> QED
  BY <1>3, <1>4, <1>5, <1>6, <1>7, <1>8, <1>9, <1>10, <1>11, <1>12, <1>13, Zenon
     DEF Next, Serve

\* The state of every client, what it has in the listener's queue and what the
\* session holds agree at every step.
THEOREM SingleInvariant == Spec => []SingleInv
BY InitInv, InvStep, PTL DEF Spec

\* accept_streams_via_listener collects its own client's streams, all of them and no
\* others, however many clients connect meanwhile.
THEOREM StreamsAlwaysAccounted == Spec => []StreamsAccounted
<1>1. SingleInv => StreamsAccounted
  BY Zenon DEF SingleInv, SessionInv
<1> QED
  BY <1>1, SingleInvariant, PTL

\* Only the clients of failed sessions leave streams in the listener's queue.
THEOREM OnlyFailedLeaveStreamsAlways == Spec => []OnlyFailedLeaveStreams
<1>1. SingleInv => OnlyFailedLeaveStreams
  BY Zenon DEF SingleInv, ClientInv, OnlyFailedLeaveStreams, Gone
<1> QED
  BY <1>1, SingleInvariant, PTL
=============================================================================
