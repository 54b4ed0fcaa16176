----------------------- MODULE SessionRegistry_proofs -----------------------
(***************************************************************************)
(* TLAPS proofs about the concurrent accept loop, for any number of        *)
(* clients, addresses and session threads and any bounds.                  *)
(***************************************************************************)
EXTENDS SessionRegistry, Integers, FiniteSetTheorems, TLAPS

\* What the three steps of the accept loop that take a connection share.
LEMMA AcceptedConn ==
    ASSUME TypeOK, NEW k, Accepted(k)
    PROVE  k \in Conn /\ backlog' \in Seq(Conn)
BY DEF TypeOK, Accepted

\* The initial state has no thread, no entry and zero counts.
LEMMA InitInv == Init => RegistryInv
<1> SUFFICES ASSUME Init PROVE RegistryInv
  OBVIOUS
<1>1. TypeOK
  BY ConstantsAssumption DEF Init, TypeOK, PC, Alive, Serving
<1>2. Registered = {}
  BY Zenon DEF Init, Registered
<1>3. \A ip : Holders(ip) = {}
  BY Zenon DEF Init, Holders, Alive, Serving
<1>4. IsFiniteSet({}) /\ Cardinality({}) = 0
  BY FS_EmptySet, Zenon
<1>5. RegistryBounded
  BY <1>2, <1>4, ConstantsAssumption DEF RegistryBounded
<1>6. ASSUME NEW ip \in IP
      PROVE  /\ IsFiniteSet(Holders(ip))
             /\ perIp[ip] = Cardinality(Holders(ip))
             /\ perIp[ip] <= PerIpCap
  <2>1. perIp[ip] = 0 /\ 0 <= PerIpCap
    BY ConstantsAssumption DEF Init
  <2> QED
    BY <1>3, <1>4, <2>1, Zenon
<1>7. SessionHasConn /\ SessionOwnsEntry /\ EntryHasSession
  BY <1>2, Zenon DEF Init, SessionHasConn, SessionOwnsEntry, EntryHasSession, Alive, Serving
<1> QED
  BY <1>1, <1>5, <1>6, <1>7, Zenon DEF RegistryInv, HoldersFinite, PerIpExact

-----------------------------------------------------------------------------
(* Type correctness.                                                       *)

\* A branch of the accept loop preserves the types.
LEMMA AcceptLoopType ==
    ASSUME TypeOK, AcceptLoop
    PROVE  TypeOK'
<1>1. PICK k \in Conn : \/ CookieReadFails(k) \/ Attach(k) \/ Deny(k)
                        \/ \E s \in Session : Admit(k, s)
  BY Zenon DEF AcceptLoop
<1>2. Accepted(k)
  BY <1>1, Zenon DEF CookieReadFails, Attach, Deny, Admit
<1>3. backlog' \in Seq(Conn) /\ k.cookie \in Cookie /\ IpOf[k.cookie] \in IP
  BY <1>2, AcceptedConn, ConstantsAssumption, Zenon DEF Conn
<1>4. CASE CookieReadFails(k)
  BY <1>3, <1>4, Zenon DEF CookieReadFails, TypeOK, serverVars, clientVars
<1>5. CASE Attach(k)
  BY <1>3, <1>5 DEF Attach, TypeOK, clientVars
<1>6. CASE Deny(k)
  <2>1. UNCHANGED <<up, serverVars>>
    BY <1>6, Zenon DEF Deny, Refuse
  <2>2. \/ UNCHANGED <<client, toOpen>>
        \/ /\ client' = [client EXCEPT ![k.cookie] = "ended"]
           /\ toOpen' = [toOpen EXCEPT ![k.cookie] = 0]
    BY <1>6, Zenon DEF Deny, Refuse, clientVars
  <2>3. client' \in [Cookie -> {"idle", "running", "ended"}]
    BY <1>3, <2>2, Zenon DEF TypeOK
  <2>4. toOpen' \in [Cookie -> Nat]
    <3>1. toOpen \in [Cookie -> Nat]
      BY Zenon DEF TypeOK
    <3> QED
      BY <2>2, <3>1
  <2> QED
    BY <1>3, <2>1, <2>3, <2>4, Zenon DEF TypeOK, serverVars
<1>7. ASSUME NEW s \in Session, Admit(k, s) PROVE TypeOK'
  <2>1. /\ perIp' = [perIp EXCEPT ![IpOf[k.cookie]] = @ + 1]
        /\ registry' = [registry EXCEPT ![k.cookie] = s]
        /\ pc' = [pc EXCEPT ![s] = "negotiating"]
        /\ sess' = [sess EXCEPT ![s] = k]
        /\ UNCHANGED <<up, queued, got, want, client, toOpen>>
    BY <1>7, Zenon DEF Admit, StartSession, Acquired, clientVars
  <2>2. pc' \in [Session -> PC]
    BY <2>1, Zenon DEF TypeOK, PC, Alive, Serving
  <2>3. perIp' \in [IP -> Nat]
    BY <1>3, <2>1 DEF TypeOK
  <2>4. registry' \in [Cookie -> Session \cup {None}]
    BY <1>3, <2>1, Zenon DEF TypeOK
  <2>5. sess' \in [Session -> Conn \cup {None}]
    BY <1>3, <2>1, Zenon DEF TypeOK
  <2> QED
    BY <1>3, <2>1, <2>2, <2>3, <2>4, <2>5, Zenon DEF TypeOK
<1> QED
  BY <1>1, <1>4, <1>5, <1>6, <1>7, Zenon

\* Dropping a handle leaves counts that are natural numbers.
LEMMA ReleasedType ==
    ASSUME TypeOK, NEW ip
    PROVE  Released(ip) \in [IP -> Nat]
<1> DEFINE n == IF perIp[ip] > 0 THEN perIp[ip] - 1 ELSE 0
<1>1. ip \in IP => n \in Nat
  BY DEF TypeOK
<1>2. Released(ip) = [perIp EXCEPT ![ip] = n]
  BY Zenon DEF Released
<1> HIDE DEF n
<1> QED
  BY <1>1, <1>2, Zenon DEF TypeOK

\* A step of a session thread preserves the types.
LEMMA SessionThreadType ==
    ASSUME TypeOK, NEW s \in Session, SessionThread(s)
    PROVE  TypeOK'
<1> USE DEF TypeOK, serverVars, clientVars
<1>1. CASE Negotiate(s)
  <2>1. Parallel \in Nat /\ 2 * Parallel \in Nat
    BY ConstantsAssumption
  <2>2. PICK n \in Nat : /\ want' = want \/ want' = [want EXCEPT ![s] = n]
                         /\ \/ toOpen' = toOpen
                            \/ toOpen' = [toOpen EXCEPT ![sess[s].cookie] = n]
    BY <1>1, <2>1, Zenon DEF Negotiate
  <2>3. /\ \/ pc' = [pc EXCEPT ![s] = "running"]
           \/ pc' = [pc EXCEPT ![s] = "collecting"]
        /\ UNCHANGED <<up, backlog, registry, perIp, sess, queued, got, client>>
    BY <1>1, Zenon DEF Negotiate
  <2>4. pc' \in [Session -> PC]
    BY <2>3, Zenon DEF PC, Alive, Serving
  <2>5. want' \in [Session -> Nat] /\ toOpen' \in [Cookie -> Nat]
    BY <2>2, ZenonT(60)
  <2> QED
    BY <2>3, <2>4, <2>5, Zenon
<1>2. CASE Collect(s)
  BY <1>2 DEF Collect, PC, Alive, Serving
<1>3. CASE Return(s)
  BY <1>3, Zenon DEF Return, DropSession, PC, Alive, Serving
<1>4. CASE Unregister(s)
  BY <1>4, Zenon DEF Unregister, PC, Alive, Serving
<1>5. CASE DropGuard(s)
  <2>1. perIp' \in [IP -> Nat]
    BY <1>5, ReleasedType, Zenon DEF DropGuard
  <2>2. pc' \in [Session -> PC]
    BY <1>5, Zenon DEF DropGuard, PC
  <2> QED
    BY <1>5, <2>1, <2>2, Zenon DEF DropGuard
<1>6. CASE Panic(s)
  <2>1. perIp' \in [IP -> Nat]
    BY <1>6, ReleasedType, Zenon DEF Panic
  <2>2. pc' \in [Session -> PC]
    BY <1>6, Zenon DEF Panic, PC
  <2> QED
    BY <1>6, <2>1, <2>2, Zenon DEF Panic, DropSession
<1> QED
  BY <1>1, <1>2, <1>3, <1>4, <1>5, <1>6, Zenon DEF SessionThread

\* A client's step preserves the types.
LEMMA ClientType ==
    ASSUME TypeOK, NEW c \in Cookie, Client(c)
    PROVE  TypeOK'
<1> USE DEF TypeOK, serverVars, clientVars
<1>1. CASE Connect(c)
  <2>1. [cookie |-> c, role |-> "control"] \in Conn
    BY Zenon DEF Conn, Role
  <2> QED
    BY <1>1, <2>1 DEF Connect
<1>2. CASE OpenStream(c)
  <2>1. [cookie |-> c, role |-> "data"] \in Conn
    BY Zenon DEF Conn, Role
  <2> QED
    BY <1>2, <2>1 DEF OpenStream
<1>3. CASE ClientEnds(c)
  BY <1>3, Zenon DEF ClientEnds
<1> QED
  BY <1>1, <1>2, <1>3, Zenon DEF Client

\* Every step preserves the types.
LEMMA NextType == TypeOK /\ [Next]_vars => TypeOK'
<1> SUFFICES ASSUME TypeOK, [Next]_vars PROVE TypeOK'
  OBVIOUS
<1>1. CASE LoopFails
  BY <1>1, Zenon DEF LoopFails, TypeOK, serverVars, clientVars
<1>2. CASE UNCHANGED vars
  BY <1>2, Zenon DEF TypeOK, vars, serverVars, clientVars
<1> QED
  BY <1>1, <1>2, AcceptLoopType, SessionThreadType, ClientType, Zenon DEF Next

-----------------------------------------------------------------------------
(* The registry and the per-IP counter.                                    *)

\* The thread moves only within serve_session_from_channel, or out of it by
\* returning; registry, counter and connections stay as they are.
QuietStep ==
    /\ UNCHANGED <<registry, perIp, sess>>
    /\ \A s \in Session :
          \/ pc'[s] = pc[s]
          \/ pc[s] \in Serving /\ pc'[s] \in Serving \cup {"returned"}

\* A quiet step preserves the invariant.
LEMMA QuietInv ==
    ASSUME RegistryInv, TypeOK', QuietStep
    PROVE  RegistryInv'
<1>1. Registered' = Registered
  BY Zenon DEF Registered, QuietStep
<1>2. \A ip : Holders(ip)' = Holders(ip)
  BY Zenon DEF Holders, QuietStep, Alive
<1>3. RegistryBounded' /\ HoldersFinite' /\ PerIpExact'
  BY <1>1, <1>2, Zenon DEF RegistryInv, RegistryBounded, HoldersFinite, PerIpExact, QuietStep
<1>4. SessionHasConn'
  BY Zenon DEF RegistryInv, SessionHasConn, QuietStep, Alive, Serving
<1>5. SessionOwnsEntry'
  BY Zenon DEF RegistryInv, SessionOwnsEntry, QuietStep, Serving
<1>6. EntryHasSession'
  <2> SUFFICES ASSUME NEW c \in Registered
               PROVE  /\ sess[registry[c]] # None
                      /\ sess[registry[c]].cookie = c
                      /\ pc'[registry[c]] \in Serving \cup {"returned", "panicked"}
    BY <1>1, Zenon DEF EntryHasSession, QuietStep
  <2>1. registry[c] \in Session
    BY Zenon DEF RegistryInv, TypeOK, Registered
  <2> QED
    BY <2>1, Zenon DEF RegistryInv, EntryHasSession, QuietStep
<1> QED
  BY <1>3, <1>4, <1>5, <1>6, Zenon DEF RegistryInv

\* A new session takes a free slot, a free handle and a cookie nobody has.
LEMMA AdmitInv ==
    ASSUME RegistryInv, TypeOK', NEW k \in Conn, NEW s \in Session, Admit(k, s)
    PROVE  RegistryInv'
<1> DEFINE c == k.cookie
           ip == IpOf[c]
<1>1. c \in Cookie /\ ip \in IP /\ k # None /\ s # None
  BY ConstantsAssumption, Zenon DEF Conn
<1>2. /\ registry \in [Cookie -> Session \cup {None}]
      /\ pc \in [Session -> PC]
      /\ sess \in [Session -> Conn \cup {None}]
      /\ perIp \in [IP -> Nat]
  BY Zenon DEF RegistryInv, TypeOK
<1>3. /\ registry[c] = None
      /\ pc[s] = "free"
      /\ Cardinality(Registered) < MaxConcurrent
      /\ perIp[ip] < PerIpCap
      /\ perIp' = [perIp EXCEPT ![ip] = @ + 1]
      /\ registry' = [registry EXCEPT ![c] = s]
      /\ pc' = [pc EXCEPT ![s] = "negotiating"]
      /\ sess' = [sess EXCEPT ![s] = k]
  BY Zenon DEF Admit, StartSession, Acquired
<1> HIDE DEF ip
<1>4. RegistryBounded'
  <2>1. Registered' = Registered \cup {c} /\ c \notin Registered
    BY <1>1, <1>2, <1>3, Zenon DEF Registered
  <2>2. IsFiniteSet(Registered')
        /\ Cardinality(Registered') = Cardinality(Registered) + 1
    BY <2>1, FS_AddElement, Zenon DEF RegistryInv, RegistryBounded
  <2>3. Cardinality(Registered) \in Nat
    BY FS_CardinalityType, Zenon DEF RegistryInv, RegistryBounded
  <2> QED
    BY <1>3, <2>2, <2>3, ConstantsAssumption DEF RegistryBounded
<1>5. HoldersFinite' /\ PerIpExact'
  <2>1. Holders(ip)' = Holders(ip) \cup {s} /\ s \notin Holders(ip)
    BY <1>1, <1>2, <1>3, Zenon DEF Holders, Alive, Serving, ip
  <2>2. \A jp \in IP \ {ip} : Holders(jp)' = Holders(jp)
    BY <1>1, <1>2, <1>3, Zenon DEF Holders, Alive, Serving, ip
  <2>3. IsFiniteSet(Holders(ip)')
        /\ Cardinality(Holders(ip)') = Cardinality(Holders(ip)) + 1
    BY <1>1, <2>1, FS_AddElement, Zenon DEF RegistryInv, HoldersFinite
  <2>4. perIp'[ip] = perIp[ip] + 1 /\ \A jp \in IP \ {ip} : perIp'[jp] = perIp[jp]
    BY <1>1, <1>2, <1>3, Zenon
  <2>5. perIp'[ip] <= PerIpCap
    BY <1>1, <1>2, <1>3, <2>4, ConstantsAssumption
  <2> QED
    BY <1>1, <2>2, <2>3, <2>4, <2>5, Zenon DEF RegistryInv, HoldersFinite, PerIpExact
<1>6. SessionHasConn'
  BY <1>1, <1>2, <1>3, Zenon DEF RegistryInv, SessionHasConn, Alive, Serving
<1>7. SessionOwnsEntry'
  <2> SUFFICES ASSUME NEW t \in Session, pc'[t] \in Serving \cup {"returned"}
               PROVE  registry'[sess'[t].cookie] = t
    BY Zenon DEF SessionOwnsEntry
  <2>1. CASE t = s
    BY <1>1, <1>2, <1>3, <2>1, Zenon
  <2>2. CASE t # s
    <3>1. pc'[t] = pc[t] /\ sess'[t] = sess[t]
      BY <1>2, <1>3, <2>2, Zenon
    <3>2. registry[sess[t].cookie] = t
      BY <3>1, Zenon DEF RegistryInv, SessionOwnsEntry
    <3>3. sess[t] \in Conn
      BY <3>1, Zenon DEF RegistryInv, SessionHasConn, Alive
    <3>4. sess[t].cookie # c
      BY <1>3, <3>2, ConstantsAssumption, Zenon
    <3> QED
      BY <1>2, <1>3, <3>1, <3>2, <3>3, <3>4, Zenon DEF Conn
  <2> QED
    BY <2>1, <2>2, Zenon
<1>8. EntryHasSession'
  <2> SUFFICES ASSUME NEW d \in Cookie, registry'[d] # None
               PROVE  /\ sess'[registry'[d]] # None
                      /\ sess'[registry'[d]].cookie = d
                      /\ pc'[registry'[d]] \in Serving \cup {"returned", "panicked"}
    BY Zenon DEF EntryHasSession, Registered
  <2>1. CASE d = c
    BY <1>1, <1>2, <1>3, <2>1, Zenon DEF Serving
  <2>2. CASE d # c
    <3>1. registry'[d] = registry[d] /\ registry[d] \in Session
      BY <1>2, <1>3, <2>2, Zenon
    <3>2. /\ sess[registry[d]] # None
          /\ sess[registry[d]].cookie = d
          /\ pc[registry[d]] \in Serving \cup {"returned", "panicked"}
      BY <3>1, Zenon DEF RegistryInv, EntryHasSession, Registered
    <3>3. registry[d] # s
      BY <1>3, <3>2, Zenon DEF Serving
    <3> QED
      BY <1>2, <1>3, <3>1, <3>2, <3>3, Zenon
  <2> QED
    BY <2>1, <2>2, Zenon
<1> QED
  BY <1>4, <1>5, <1>6, <1>7, <1>8, Zenon DEF RegistryInv

\* The entry goes before the handle: the thread still counts for its address.
LEMMA UnregisterInv ==
    ASSUME RegistryInv, TypeOK', NEW s \in Session, Unregister(s)
    PROVE  RegistryInv'
<1> DEFINE c == sess[s].cookie
<1>1. /\ pc[s] = "returned"
      /\ registry' = [registry EXCEPT ![c] = None]
      /\ pc' = [pc EXCEPT ![s] = "unregistered"]
      /\ UNCHANGED <<perIp, sess>>
  BY Zenon DEF Unregister
<1>2. /\ registry \in [Cookie -> Session \cup {None}]
      /\ pc \in [Session -> PC]
      /\ None \notin Session
  BY ConstantsAssumption, Zenon DEF RegistryInv, TypeOK
<1>3. c \in Cookie /\ registry[c] = s
  BY <1>1, Zenon DEF RegistryInv, SessionHasConn, SessionOwnsEntry, Alive, Conn
<1> HIDE DEF c
<1>4. RegistryBounded'
  <2>1. Registered' \subseteq Registered
    BY <1>1, <1>2, <1>3, Zenon DEF Registered
  <2>2. /\ IsFiniteSet(Registered')
        /\ Cardinality(Registered') <= Cardinality(Registered)
    BY <2>1, FS_Subset, Zenon DEF RegistryInv, RegistryBounded
  <2>3. Cardinality(Registered) \in Nat /\ Cardinality(Registered') \in Nat
    BY <2>2, FS_CardinalityType, Zenon DEF RegistryInv, RegistryBounded
  <2> QED
    BY <2>2, <2>3, ConstantsAssumption DEF RegistryInv, RegistryBounded
<1>5. HoldersFinite' /\ PerIpExact'
  <2>1. \A ip : Holders(ip)' = Holders(ip)
    BY <1>1, <1>2, Zenon DEF Holders, Alive
  <2> QED
    BY <1>1, <2>1, Zenon DEF RegistryInv, HoldersFinite, PerIpExact
<1>6. SessionHasConn'
  BY <1>1, <1>2, Zenon DEF RegistryInv, SessionHasConn, Alive
<1>7. SessionOwnsEntry'
  <2> SUFFICES ASSUME NEW t \in Session, pc'[t] \in Serving \cup {"returned"}
               PROVE  registry'[sess[t].cookie] = t
    BY <1>1, Zenon DEF SessionOwnsEntry
  <2>1. t # s /\ pc'[t] = pc[t]
    BY <1>1, <1>2, Zenon DEF Serving
  <2>2. registry[sess[t].cookie] = t /\ sess[t].cookie \in Cookie
    BY <2>1, Zenon DEF RegistryInv, SessionOwnsEntry, SessionHasConn, Alive, Conn
  <2> QED
    BY <1>1, <1>2, <1>3, <2>1, <2>2, Zenon
<1>8. EntryHasSession'
  <2> SUFFICES ASSUME NEW d \in Cookie, registry'[d] # None
               PROVE  /\ sess[registry'[d]] # None
                      /\ sess[registry'[d]].cookie = d
                      /\ pc'[registry'[d]] \in Serving \cup {"returned", "panicked"}
    BY <1>1, Zenon DEF EntryHasSession, Registered
  <2>1. d # c /\ registry'[d] = registry[d] /\ registry[d] \in Session
    BY <1>1, <1>2, <1>3, Zenon
  <2>2. /\ sess[registry[d]] # None
        /\ sess[registry[d]].cookie = d
        /\ pc[registry[d]] \in Serving \cup {"returned", "panicked"}
    BY <2>1, Zenon DEF RegistryInv, EntryHasSession, Registered
  <2>3. registry[d] # s
    BY <2>1, <2>2, ZenonT(60) DEF c
  <2> QED
    BY <1>1, <1>2, <2>1, <2>2, <2>3, Zenon
<1> QED
  BY <1>4, <1>5, <1>6, <1>7, <1>8, Zenon DEF RegistryInv

\* When a thread stops holding its handle and PerIpHandle::drop runs in the
\* same step, the counts stay exact: saturating_sub had something to subtract.
LEMMA ReleaseExact ==
    ASSUME RegistryInv, NEW s \in Session, pc[s] \in Alive,
           NEW v, v \notin Alive, pc' = [pc EXCEPT ![s] = v],
           \A t \in Session \ {s} : sess'[t] = sess[t],
           perIp' = Released(IpOf[sess[s].cookie])
    PROVE  HoldersFinite' /\ PerIpExact'
<1>1. pc \in [Session -> PC] /\ perIp \in [IP -> Nat]
  BY Zenon DEF RegistryInv, TypeOK
<1>2. PICK ip \in IP : ip = IpOf[sess[s].cookie]
  BY ConstantsAssumption, Zenon DEF RegistryInv, SessionHasConn, Conn
<1>3. Holders(ip)' = Holders(ip) \ {s} /\ s \in Holders(ip)
  BY <1>1, <1>2, Zenon DEF Holders
<1>4. \A jp \in IP \ {ip} : Holders(jp)' = Holders(jp)
  BY <1>1, <1>2 DEF Holders
<1> DEFINE n == IF perIp[ip] > 0 THEN perIp[ip] - 1 ELSE 0
<1>5. perIp' = [perIp EXCEPT ![ip] = n]
  BY <1>2, Zenon DEF Released
<1>6. /\ IsFiniteSet(Holders(ip)')
      /\ Cardinality(Holders(ip)') = Cardinality(Holders(ip)) - 1
  BY <1>2, <1>3, FS_RemoveElement DEF RegistryInv, HoldersFinite
<1>7. perIp[ip] = Cardinality(Holders(ip)) /\ perIp[ip] <= PerIpCap
  BY <1>2, Zenon DEF RegistryInv, PerIpExact
<1>8. Cardinality(Holders(ip)) # 0
  BY <1>2, <1>3, FS_EmptySet, ZenonT(60) DEF RegistryInv, HoldersFinite
<1>9. n = Cardinality(Holders(ip)') /\ n <= PerIpCap
  BY <1>1, <1>2, <1>6, <1>7, <1>8, ConstantsAssumption
<1> HIDE DEF n
<1>10. perIp'[ip] = n /\ \A jp \in IP \ {ip} : perIp'[jp] = perIp[jp]
  BY <1>1, <1>2, <1>5, Zenon
<1> QED
  BY <1>2, <1>4, <1>6, <1>9, <1>10 DEF RegistryInv, HoldersFinite, PerIpExact

\* The thread exits: it owns no entry any more.
LEMMA DropGuardInv ==
    ASSUME RegistryInv, TypeOK', NEW s \in Session, DropGuard(s)
    PROVE  RegistryInv'
<1>1. /\ pc[s] = "unregistered"
      /\ perIp' = Released(IpOf[sess[s].cookie])
      /\ pc' = [pc EXCEPT ![s] = "free"]
      /\ sess' = [sess EXCEPT ![s] = None]
      /\ registry' = registry
  BY Zenon DEF DropGuard
<1>2. /\ registry \in [Cookie -> Session \cup {None}]
      /\ pc \in [Session -> PC]
      /\ sess \in [Session -> Conn \cup {None}]
  BY Zenon DEF RegistryInv, TypeOK
<1>3. HoldersFinite' /\ PerIpExact'
  BY <1>1, <1>2, ReleaseExact, Zenon DEF Alive, Serving
<1>4. RegistryBounded'
  BY <1>1, Zenon DEF RegistryInv, RegistryBounded, Registered
<1>5. SessionHasConn' /\ SessionOwnsEntry'
  BY <1>1, <1>2, Zenon DEF RegistryInv, SessionHasConn, SessionOwnsEntry, Alive, Serving
<1>6. EntryHasSession'
  <2> SUFFICES ASSUME NEW d \in Cookie, registry[d] # None
               PROVE  /\ sess'[registry[d]] # None
                      /\ sess'[registry[d]].cookie = d
                      /\ pc'[registry[d]] \in Serving \cup {"returned", "panicked"}
    BY <1>1, Zenon DEF EntryHasSession, Registered
  <2>1. /\ sess[registry[d]] # None
        /\ sess[registry[d]].cookie = d
        /\ pc[registry[d]] \in Serving \cup {"returned", "panicked"}
    BY Zenon DEF RegistryInv, EntryHasSession, Registered
  <2>2. registry[d] # s /\ registry[d] \in Session
    BY <1>1, <1>2, <2>1, Zenon DEF Serving
  <2> QED
    BY <1>1, <1>2, <2>1, <2>2, Zenon
<1> QED
  BY <1>3, <1>4, <1>5, <1>6, Zenon DEF RegistryInv

\* A panic gives the handle back and leaves the entry behind.
LEMMA PanicInv ==
    ASSUME RegistryInv, TypeOK', NEW s \in Session, Panic(s)
    PROVE  RegistryInv'
<1>1. /\ pc[s] \in Serving
      /\ perIp' = Released(IpOf[sess[s].cookie])
      /\ pc' = [pc EXCEPT ![s] = "panicked"]
      /\ UNCHANGED <<registry, sess>>
  BY Zenon DEF Panic
<1>2. registry \in [Cookie -> Session \cup {None}] /\ pc \in [Session -> PC]
  BY Zenon DEF RegistryInv, TypeOK
<1>3. HoldersFinite' /\ PerIpExact'
  <2>1. "panicked" \notin Alive /\ pc[s] \in Alive
    BY <1>1, Zenon DEF Alive, Serving
  <2> QED
    BY <1>1, <2>1, ReleaseExact, Zenon
<1>4. RegistryBounded'
  BY <1>1, Zenon DEF RegistryInv, RegistryBounded, Registered
<1>5. SessionHasConn'
  BY <1>1, <1>2, Zenon DEF RegistryInv, SessionHasConn, Alive
<1>6. SessionOwnsEntry'
  BY <1>1, <1>2, Zenon DEF RegistryInv, SessionOwnsEntry, Serving
<1>7. EntryHasSession'
  BY <1>1, <1>2 DEF RegistryInv, EntryHasSession, Registered
<1> QED
  BY <1>3, <1>4, <1>5, <1>6, <1>7, Zenon DEF RegistryInv

\* Every step preserves the invariant.
LEMMA NextInv == RegistryInv /\ [Next]_vars => RegistryInv'
<1> SUFFICES ASSUME RegistryInv, [Next]_vars PROVE RegistryInv'
  OBVIOUS
<1>1. TypeOK' /\ pc \in [Session -> PC]
  BY NextType, Zenon DEF RegistryInv, TypeOK
<1>2. ASSUME UNCHANGED <<registry, perIp, sess, pc>> PROVE RegistryInv'
  <2>1. QuietStep
    BY <1>2, Zenon DEF QuietStep
  <2> QED
    BY <1>1, <2>1, QuietInv, Zenon
<1>3. CASE AcceptLoop
  <2>1. PICK k \in Conn : \/ CookieReadFails(k) \/ Attach(k) \/ Deny(k)
                          \/ \E s \in Session : Admit(k, s)
    BY <1>3, Zenon DEF AcceptLoop
  <2>2. CASE CookieReadFails(k) \/ Attach(k) \/ Deny(k)
    BY <1>2, <2>2, Zenon DEF CookieReadFails, Attach, Deny, Refuse, serverVars
  <2>3. CASE \E s \in Session : Admit(k, s)
    BY <1>1, <2>3, AdmitInv, Zenon
  <2> QED
    BY <2>1, <2>2, <2>3, Zenon
<1>4. CASE LoopFails
  BY <1>2, <1>4, Zenon DEF LoopFails, serverVars
<1>5. ASSUME NEW s \in Session, SessionThread(s) PROVE RegistryInv'
  <2>1. CASE Negotiate(s)
    <3>1. QuietStep
      BY <1>1, <2>1, Zenon DEF QuietStep, Negotiate, Serving
    <3> QED
      BY <1>1, <3>1, QuietInv, Zenon
  <2>2. CASE Collect(s)
    <3>1. QuietStep
      BY <1>1, <2>2, Zenon DEF QuietStep, Collect, Serving
    <3> QED
      BY <1>1, <3>1, QuietInv, Zenon
  <2>3. CASE Return(s)
    <3>1. QuietStep
      BY <1>1, <2>3, Zenon DEF QuietStep, Return
    <3> QED
      BY <1>1, <3>1, QuietInv, Zenon
  <2> QED
    BY <1>1, <1>5, <2>1, <2>2, <2>3, UnregisterInv, DropGuardInv, PanicInv, Zenon
    DEF SessionThread
<1>6. ASSUME NEW c \in Cookie, Client(c) PROVE RegistryInv'
  BY <1>2, <1>6, Zenon DEF Client, Connect, OpenStream, ClientEnds, serverVars
<1>7. CASE UNCHANGED vars
  BY <1>2, <1>7, Zenon DEF vars, serverVars
<1> QED
  BY <1>3, <1>4, <1>5, <1>6, <1>7, Zenon DEF Next

\* The invariant that relates registry, counter and threads always holds.
THEOREM RegistryInvariant == Spec => []RegistryInv
BY InitInv, NextInv, PTL DEF Spec

-----------------------------------------------------------------------------
(* What follows from it.                                                   *)

\* No branch of the accept loop and no step of a thread breaks the types.
THEOREM TypeCorrect == Spec => []TypeOK
<1>1. RegistryInv => TypeOK
  BY Zenon DEF RegistryInv
<1> QED
  BY <1>1, RegistryInvariant, PTL

\* However accepts, exits and panics interleave, the count PerIpCounter keeps
\* for an address is the number of threads that hold its handle, at most
\* PER_IP_SESSION_CAP.
THEOREM PerIpCounterExact == Spec => []PerIpExact
<1>1. RegistryInv => PerIpExact
  BY Zenon DEF RegistryInv
<1> QED
  BY <1>1, RegistryInvariant, PTL

\* A session that has not removed its entry owns it: two live sessions never
\* share a cookie.
THEOREM EntryOwned == Spec => []SessionOwnsEntry
<1>1. RegistryInv => SessionOwnsEntry
  BY Zenon DEF RegistryInv
<1> QED
  BY <1>1, RegistryInvariant, PTL

\* --max-concurrent bounds the sessions that are served at the same time.
THEOREM ConcurrencyBounded == Spec => []SimultaneousTestsBounded
<1>1. RegistryInv => SimultaneousTestsBounded
  <2> SUFFICES ASSUME RegistryInv PROVE SimultaneousTestsBounded
    OBVIOUS
  <2> DEFINE S == {s \in Session : pc[s] \in Serving}
             R == {registry[c] : c \in Registered}
  <2>1. IsFiniteSet(Registered) /\ Cardinality(Registered) <= MaxConcurrent
    BY Zenon DEF RegistryInv, RegistryBounded
  <2>2. DOMAIN registry = Cookie /\ Registered \subseteq Cookie /\ None \notin Session
    BY ConstantsAssumption, Zenon DEF RegistryInv, TypeOK, Registered
  <2>3. IsFiniteSet(R) /\ Cardinality(R) <= Cardinality(Registered)
    <3> DEFINE f == [c \in Registered |-> registry[c]]
    <3>1. f \in Surjection(Registered, R)
      BY Zenon DEF Surjection
    <3> QED
      BY <2>1, <3>1, FS_Surjection, Zenon
  <2>4. S \subseteq R
    <3> SUFFICES ASSUME NEW s \in Session, pc[s] \in Serving PROVE s \in R
      OBVIOUS
    <3>1. registry[sess[s].cookie] = s /\ sess[s].cookie \in Cookie
      BY Zenon DEF RegistryInv, SessionOwnsEntry, SessionHasConn, Alive, Conn
    <3> QED
      BY <2>2, <3>1, Zenon DEF Registered
  <2>5. Cardinality(S) <= Cardinality(R) /\ IsFiniteSet(S)
    BY <2>3, <2>4, FS_Subset, Zenon
  <2>6. /\ Cardinality(S) \in Nat
        /\ Cardinality(R) \in Nat
        /\ Cardinality(Registered) \in Nat
    BY <2>1, <2>3, <2>5, FS_CardinalityType, Zenon
  <2> HIDE DEF S, R
  <2>7. Cardinality(S) <= MaxConcurrent
    BY <2>1, <2>3, <2>5, <2>6, ConstantsAssumption
  <2> QED
    BY <2>7, Zenon DEF SimultaneousTestsBounded, S
<1> QED
  BY <1>1, RegistryInvariant, PTL

\* An entry is only ever removed, by its own session, once it has returned.
THEOREM EntryRemovedOnlyByOwner == Spec => EntryRemovedByOwner
<1> DEFINE A == \A c \in Cookie :
                  registry[c] # None /\ registry'[c] # registry[c]
                  => /\ registry'[c] = None
                     /\ pc[registry[c]] = "returned"
                     /\ pc'[registry[c]] = "unregistered"
<1>1. RegistryInv /\ [Next]_vars => [A]_vars
  <2> SUFFICES ASSUME RegistryInv, Next, NEW c \in Cookie,
                      registry[c] # None, registry'[c] # registry[c]
               PROVE  /\ registry'[c] = None
                      /\ pc[registry[c]] = "returned"
                      /\ pc'[registry[c]] = "unregistered"
    OBVIOUS
  <2>1. registry \in [Cookie -> Session \cup {None}] /\ pc \in [Session -> PC]
    BY Zenon DEF RegistryInv, TypeOK
  <2>2. PICK s \in Session : Unregister(s)
    <3>1. \A k \in Conn, s \in Session : ~Admit(k, s)
      BY <2>1, Zenon DEF Admit, StartSession, Acquired
    <3>2. registry' # registry
      OBVIOUS
    <3> QED
      BY <3>1, <3>2, Zenon
      DEF Next, AcceptLoop, CookieReadFails, Attach, Deny, Refuse, LoopFails,
          Client, Connect, OpenStream, ClientEnds, SessionThread, Negotiate, Collect,
          Return, DropGuard, Panic, serverVars
  <2>3. registry[sess[s].cookie] = s /\ pc[s] = "returned"
    BY <2>2, Zenon DEF Unregister, RegistryInv, SessionOwnsEntry
  <2> QED
    BY <2>1, <2>2, <2>3, Zenon DEF Unregister
<1> QED
  BY <1>1, RegistryInvariant, PTL DEF Spec, EntryRemovedByOwner

\* Every entry of the registry leads to a thread made for its cookie, dead only if it
\* panicked.
THEOREM EntryAlwaysHasSession == Spec => []EntryHasSession
<1>1. RegistryInv => EntryHasSession
  BY Zenon DEF RegistryInv
<1> QED
  BY <1>1, RegistryInvariant, PTL

-----------------------------------------------------------------------------
(* Where the streams of a collecting session are.                          *)

\* StreamsReachSession for one session.
Reach(s) ==
    (pc[s] = "collecting" /\ client[sess[s].cookie] = "running" /\ "slow" \notin Faults)
    => LET c == sess[s].cookie
       IN  want[s] = toOpen[c] + Cardinality(InBacklog(c, "data")) + queued[s] + got[s]

\* Finitely many places of the backlog hold a client's connections.
LEMMA PlacesFinite ==
    ASSUME TypeOK, NEW c, NEW r
    PROVE  IsFiniteSet(InBacklog(c, r)) /\ Cardinality(InBacklog(c, r)) \in Nat
<1>1. backlog \in Seq(Conn) /\ Len(backlog) \in Nat
  BY DEF TypeOK
<1>2. IsFiniteSet(1 .. Len(backlog))
  BY <1>1, FS_Interval
<1>3. InBacklog(c, r) \in SUBSET (1 .. Len(backlog))
  BY <1>1 DEF InBacklog
<1> QED
  BY <1>2, <1>3, FS_Subset, FS_CardinalityType, Zenon

\* A connection that joins the backlog is one more of its kind.
LEMMA PlacesAppend ==
    ASSUME TypeOK, NEW k \in Conn, backlog' = Append(backlog, k), NEW c, NEW r
    PROVE  /\ k # [cookie |-> c, role |-> r] => InBacklog(c, r)' = InBacklog(c, r)
           /\ k = [cookie |-> c, role |-> r] =>
                 /\ InBacklog(c, r)' = InBacklog(c, r) \cup {Len(backlog) + 1}
                 /\ Cardinality(InBacklog(c, r)') = Cardinality(InBacklog(c, r)) + 1
<1> DEFINE n == Len(backlog) + 1
<1>1. /\ backlog \in Seq(Conn) /\ Len(backlog) \in Nat
      /\ DOMAIN backlog = 1 .. Len(backlog)
  BY DEF TypeOK
<1>2. /\ DOMAIN backlog' = 1 .. n /\ backlog'[n] = k
      /\ \A i \in DOMAIN backlog : backlog'[i] = backlog[i]
  BY <1>1
<1>3. DOMAIN backlog' = DOMAIN backlog \cup {n} /\ n \notin DOMAIN backlog
  BY <1>1, <1>2
<1> HIDE DEF n
<1>4. CASE k # [cookie |-> c, role |-> r]
  <2>1. InBacklog(c, r)' = InBacklog(c, r)
    BY <1>2, <1>3, <1>4, Zenon DEF InBacklog
  <2> QED
    BY <1>4, <2>1, Zenon
<1>5. CASE k = [cookie |-> c, role |-> r]
  <2>1. InBacklog(c, r)' = InBacklog(c, r) \cup {n} /\ n \notin InBacklog(c, r)
    BY <1>2, <1>3, <1>5, Zenon DEF InBacklog
  <2>2. Cardinality(InBacklog(c, r) \cup {n}) = Cardinality(InBacklog(c, r)) + 1
    BY <2>1, PlacesFinite, FS_AddElement, Zenon
  <2> QED
    BY <1>5, <2>1, <2>2, Zenon DEF n
<1> QED
  BY <1>4, <1>5, Zenon

\* A connection that accept() takes is one less of its kind.
LEMMA PlacesTail ==
    ASSUME TypeOK, NEW k, Accepted(k), NEW c, NEW r
    PROVE  /\ \A i \in InBacklog(c, r)' : i \in Nat /\ i + 1 \in InBacklog(c, r) /\ i + 1 # 1
           /\ Cardinality(InBacklog(c, r)') \in Nat
           /\ k # [cookie |-> c, role |-> r] =>
                 Cardinality(InBacklog(c, r)') = Cardinality(InBacklog(c, r))
           /\ k = [cookie |-> c, role |-> r] =>
                 /\ 1 \in InBacklog(c, r)
                 /\ Cardinality(InBacklog(c, r)) = Cardinality(InBacklog(c, r)') + 1
<1> DEFINE P == InBacklog(c, r)
           R == P \ {1}
           T == InBacklog(c, r)'
           f == [i \in R |-> i - 1]
<1>1. /\ backlog \in Seq(Conn) /\ Len(backlog) \in Nat /\ backlog # <<>>
      /\ k = Head(backlog) /\ backlog' = Tail(backlog)
  BY DEF TypeOK, Accepted
<1>2. /\ DOMAIN backlog = 1 .. Len(backlog) /\ 1 \in DOMAIN backlog /\ backlog[1] = k
      /\ DOMAIN backlog' = 1 .. Len(backlog) - 1
      /\ \A i \in DOMAIN backlog' : backlog'[i] = backlog[i + 1]
  BY <1>1
<1>3. IsFiniteSet(P) /\ Cardinality(P) \in Nat
  BY PlacesFinite, Zenon
<1>4. 1 \in P <=> k = [cookie |-> c, role |-> r]
  BY <1>2, Zenon DEF InBacklog
<1>5. ASSUME NEW i \in T PROVE i \in Nat /\ i + 1 \in P /\ i + 1 # 1
  <2>1. i \in DOMAIN backlog' /\ backlog'[i] = [cookie |-> c, role |-> r]
    BY Zenon DEF InBacklog
  <2>2. i \in Nat /\ i + 1 \in DOMAIN backlog /\ i + 1 # 1
    BY <1>1, <1>2, <2>1
  <2> QED
    BY <1>2, <2>1, <2>2, Zenon DEF InBacklog
<1>6. ASSUME NEW i \in R PROVE i \in Nat /\ i - 1 \in T
  <2>1. i \in DOMAIN backlog /\ backlog[i] = [cookie |-> c, role |-> r] /\ i # 1
    BY Zenon DEF InBacklog
  <2>2. i \in Nat /\ i - 1 \in DOMAIN backlog' /\ (i - 1) + 1 = i
    BY <1>1, <1>2, <2>1
  <2>3. backlog'[i - 1] = [cookie |-> c, role |-> r]
    BY <1>2, <2>1, <2>2, Zenon
  <2> QED
    BY <2>2, <2>3, Zenon DEF InBacklog
<1> HIDE DEF P, T
<1>7. f \in Bijection(R, T)
  <2>1. f \in [R -> T]
    BY <1>6, Zenon
  <2>2. \A i, j \in R : f[i] = f[j] => i = j
    BY <1>6
  <2>3. ASSUME NEW t \in T PROVE \E i \in R : f[i] = t
    <3>1. t + 1 \in R /\ (t + 1) - 1 = t
      BY <1>5
    <3> QED
      BY <3>1, Zenon
  <2> QED
    BY <2>1, <2>2, <2>3, Zenon DEF Bijection, Injection, Surjection, IsInjective
<1>8. IsFiniteSet(R) /\ Cardinality(R) = IF 1 \in P THEN Cardinality(P) - 1 ELSE Cardinality(P)
  BY <1>3, FS_RemoveElement, Zenon
<1>9. Cardinality(T) = Cardinality(R) /\ IsFiniteSet(T)
  <2>1. ExistsBijection(R, T)
    BY <1>7, Zenon DEF ExistsBijection
  <2> QED
    BY <1>8, <2>1, FS_Bijection, Zenon
<1>10. Cardinality(T) \in Nat
  BY <1>9, FS_CardinalityType, Zenon
<1>11. CASE 1 \in P
  <2>1. Cardinality(P) = Cardinality(T) + 1
    BY <1>3, <1>8, <1>9, <1>10, <1>11
  <2> QED
    BY <1>4, <1>5, <1>10, <1>11, <2>1, Zenon DEF P, T
<1>12. CASE 1 \notin P
  <2>1. Cardinality(T) = Cardinality(P)
    BY <1>8, <1>9, <1>12, Zenon
  <2> QED
    BY <1>4, <1>5, <1>10, <1>12, <2>1, Zenon DEF P, T
<1> QED
  BY <1>11, <1>12, Zenon

\* StreamsInv, one client and one session at a time.
LEMMA StreamsInvParts ==
    StreamsInv <=> (\A c \in Cookie : ControlFirst(c)) /\ (\A s \in Session : ChannelInv(s) /\ Reach(s))
BY Zenon DEF StreamsInv, StreamsReachSession, Reach

\* A client whose control connection does not appear and is not overtaken.
LEMMA ControlFirstStay ==
    ASSUME NEW c, ControlFirst(c),
           client'[c] = "idle" => client[c] = "idle",
           InBacklog(c, "control")' # {} => InBacklog(c, "control") # {},
           \A i, j \in InBacklog(c, "control")' : i = j,
           (client[c] = "idle" \/ InBacklog(c, "control") # {}) /\ NoStreams(c) /\ NoSession(c)
               => NoStreams(c)' /\ NoSession(c)'
    PROVE  ControlFirst(c)'
<1>1. client'[c] = "idle" \/ InBacklog(c, "control")' # {} => NoStreams(c)' /\ NoSession(c)'
  BY Zenon DEF ControlFirst
<1>2. client'[c] = "idle" => InBacklog(c, "control")' = {}
  BY Zenon DEF ControlFirst
<1> QED
  BY <1>1, <1>2, Zenon DEF ControlFirst

\* A session that a step does not touch, and its client's connections.
LEMMA SessionStay ==
    ASSUME NEW s \in Session, ChannelInv(s), Reach(s),
           pc'[s] = pc[s], sess'[s] = sess[s],
           queued'[s] = queued[s], got'[s] = got[s], want'[s] = want[s],
           NEW c, c = sess[s].cookie,
           pc[s] = "negotiating" /\ sess[s].role = "control" => (NoStreams(c) => NoStreams(c)'),
           pc[s] = "collecting" /\ client'[c] = "running" /\ "slow" \notin Faults =>
               /\ client[c] = "running"
               /\ toOpen'[c] + Cardinality(InBacklog(c, "data")') =
                  toOpen[c] + Cardinality(InBacklog(c, "data"))
    PROVE  ChannelInv(s)' /\ Reach(s)'
<1>1. sess'[s].cookie = c
  BY Zenon
<1>2. ChannelInv(s)'
  BY <1>1, Zenon DEF ChannelInv
<1>3. Reach(s)'
  BY <1>1, Zenon DEF Reach
<1> QED
  BY <1>2, <1>3, Zenon

\* A control connection, and the streams of a client.
LEMMA ClientStreams ==
    ASSUME RegistryInv, StreamsInv, NEW d \in Cookie, Client(d)
    PROVE  StreamsInv'
<1> USE DEF serverVars
<1>1. /\ TypeOK /\ client \in [Cookie -> {"idle", "running", "ended"}] /\ toOpen \in [Cookie -> Nat]
      /\ \A c \in Cookie : ControlFirst(c)
      /\ \A s \in Session : ChannelInv(s) /\ Reach(s)
  BY StreamsInvParts, Zenon DEF RegistryInv, TypeOK
<1>2. \A s \in Session : pc[s] \in {"negotiating", "collecting"} =>
                           sess[s] # None /\ sess[s].cookie \in Cookie
  BY ConstantsAssumption, Zenon DEF RegistryInv, SessionHasConn, Alive, Serving, Conn
<1>3. UNCHANGED <<pc, sess, queued, got, want>>
  BY Zenon DEF Client, Connect, OpenStream, ClientEnds
<1>4. \A c : NoSession(c)' <=> NoSession(c)
  BY <1>3, Zenon DEF NoSession
<1>5. SUFFICES /\ \A c \in Cookie : ControlFirst(c)'
               /\ \A s \in Session : ChannelInv(s)' /\ Reach(s)'
  BY Zenon DEF StreamsInv, StreamsReachSession, Reach
<1>6. CASE Connect(d)
  <2> DEFINE k == [cookie |-> d, role |-> "control"]
  <2>1. /\ client[d] = "idle" /\ client' = [client EXCEPT ![d] = "running"]
        /\ toOpen' = toOpen /\ backlog' = Append(backlog, k) /\ k \in Conn
    BY <1>6, Zenon DEF Connect, Conn, Role
  <2>2. \A c : k # [cookie |-> c, role |-> "data"]
    BY Zenon
  <2>3. \A c : c # d => k # [cookie |-> c, role |-> "control"]
    BY Zenon
  <2> HIDE DEF k
  <2>4. \A c : InBacklog(c, "data")' = InBacklog(c, "data")
    BY <1>1, <2>1, <2>2, PlacesAppend, Zenon
  <2>5. \A c : c # d => InBacklog(c, "control")' = InBacklog(c, "control")
    BY <1>1, <2>1, <2>3, PlacesAppend, Zenon
  <2>6. \A c : NoStreams(c)' <=> NoStreams(c)
    BY <2>1, <2>4, Zenon DEF NoStreams
  <2>7. ASSUME NEW c \in Cookie, c # d PROVE ControlFirst(c)'
    <3>1. client'[c] = client[c]
      BY <1>1, <2>1, <2>7, Zenon
    <3> QED
      BY <1>1, <1>4, <2>5, <2>6, <2>7, <3>1, Zenon DEF ControlFirst
  <2>8. ControlFirst(d)'
    <3>1. InBacklog(d, "control") = {} /\ NoStreams(d) /\ NoSession(d)
      BY <1>1, <2>1, Zenon DEF ControlFirst
    <3>2. InBacklog(d, "control")' = InBacklog(d, "control") \cup {Len(backlog) + 1}
      BY <1>1, <2>1, PlacesAppend, Zenon DEF k
    <3>3. client'[d] = "running"
      BY <1>1, <2>1, Zenon
    <3> QED
      BY <1>4, <2>6, <3>1, <3>2, <3>3, Zenon DEF ControlFirst
  <2>9. ASSUME NEW s \in Session PROVE ChannelInv(s)' /\ Reach(s)'
    <3>1. PICK c : c = sess[s].cookie
      BY Zenon
    <3>2. pc[s] = "collecting" => c # d
      BY <1>1, <1>2, <2>1, <3>1, Zenon DEF ControlFirst, NoSession
    <3>3. pc[s] = "collecting" => client'[c] = client[c]
      BY <1>1, <1>2, <2>1, <3>1, <3>2, Zenon
    <3> QED
      BY <1>1, <1>3, <2>1, <2>4, <2>6, <3>1, <3>3, SessionStay, Zenon
  <2> QED
    BY <2>7, <2>8, <2>9, Zenon
<1>7. CASE OpenStream(d)
  <2> DEFINE k == [cookie |-> d, role |-> "data"]
  <2>1. /\ toOpen[d] > 0 /\ toOpen' = [toOpen EXCEPT ![d] = @ - 1]
        /\ client' = client /\ backlog' = Append(backlog, k) /\ k \in Conn
    BY <1>7, Zenon DEF OpenStream, Conn, Role
  <2>2. \A c : k # [cookie |-> c, role |-> "control"]
    BY Zenon
  <2>3. \A c : c # d => k # [cookie |-> c, role |-> "data"]
    BY Zenon
  <2> HIDE DEF k
  <2>4. \A c : InBacklog(c, "control")' = InBacklog(c, "control")
    BY <1>1, <2>1, <2>2, PlacesAppend, Zenon
  <2>5. \A c : c # d => InBacklog(c, "data")' = InBacklog(c, "data")
    BY <1>1, <2>1, <2>3, PlacesAppend, Zenon
  <2>6. Cardinality(InBacklog(d, "data")') = Cardinality(InBacklog(d, "data")) + 1
    BY <1>1, <2>1, PlacesAppend, Zenon DEF k
  <2>7. ~NoStreams(d)
    BY <2>1 DEF NoStreams
  <2>8. \A c \in Cookie : c # d => toOpen'[c] = toOpen[c]
    BY <1>1, <2>1, Zenon
  <2>9. \A c \in Cookie : NoStreams(c) => NoStreams(c)'
    BY <2>5, <2>7, <2>8, Zenon DEF NoStreams
  <2>10. ASSUME NEW c \in Cookie PROVE ControlFirst(c)'
    <3>1. ControlFirst(c) /\ \A i, j \in InBacklog(c, "control")' : i = j
      BY <1>1, <2>4, Zenon DEF ControlFirst
    <3> QED
      BY <1>4, <2>1, <2>4, <2>9, <3>1, ControlFirstStay, Zenon
  <2>11. ASSUME NEW s \in Session PROVE ChannelInv(s)' /\ Reach(s)'
    <3>1. /\ toOpen'[d] = toOpen[d] - 1 /\ toOpen[d] \in Nat
          /\ Cardinality(InBacklog(d, "data")) \in Nat
      BY <1>1, <2>1, PlacesFinite, Zenon
    <3>2. toOpen'[d] + Cardinality(InBacklog(d, "data")') = toOpen[d] + Cardinality(InBacklog(d, "data"))
      BY <2>1, <2>6, <3>1
    <3>3. \A c \in Cookie : toOpen'[c] + Cardinality(InBacklog(c, "data")') =
                            toOpen[c] + Cardinality(InBacklog(c, "data"))
      BY <2>5, <2>8, <3>2, Zenon
    <3>4. PICK c : c = sess[s].cookie
      BY Zenon
    <3>5. pc[s] \in {"negotiating", "collecting"} => c \in Cookie
      BY <1>2, <3>4, Zenon
    <3> QED
      BY <1>1, <1>3, <2>1, <2>9, <3>3, <3>4, <3>5, SessionStay, Zenon
  <2> QED
    BY <2>10, <2>11, Zenon
<1>8. CASE ClientEnds(d)
  <2>1. /\ client' = [client EXCEPT ![d] = "ended"] /\ toOpen' = [toOpen EXCEPT ![d] = 0]
        /\ backlog' = backlog
    BY <1>8, Zenon DEF ClientEnds
  <2>2. \A c, r : InBacklog(c, r)' = InBacklog(c, r)
    BY <2>1, Zenon DEF InBacklog
  <2>3. \A c \in Cookie : NoStreams(c) => NoStreams(c)'
    BY <1>1, <2>1, <2>2, Zenon DEF NoStreams
  <2>4. ASSUME NEW c \in Cookie PROVE ControlFirst(c)'
    <3>1. ControlFirst(c) /\ \A i, j \in InBacklog(c, "control")' : i = j
      BY <1>1, <2>2, Zenon DEF ControlFirst
    <3>2. client'[c] = "idle" => client[c] = "idle"
      BY <1>1, <2>1
    <3> QED
      BY <1>4, <2>2, <2>3, <3>1, <3>2, ControlFirstStay, Zenon
  <2>5. ASSUME NEW s \in Session PROVE ChannelInv(s)' /\ Reach(s)'
    <3>1. ASSUME NEW c \in Cookie, client'[c] = "running"
          PROVE  client[c] = "running" /\ toOpen'[c] = toOpen[c]
      BY <1>1, <2>1, <3>1
    <3>2. PICK c : c = sess[s].cookie
      BY Zenon
    <3>3. pc[s] \in {"negotiating", "collecting"} => c \in Cookie
      BY <1>2, <3>2, Zenon
    <3> QED
      BY <1>1, <1>3, <2>2, <2>3, <3>1, <3>2, <3>3, SessionStay, Zenon
  <2> QED
    BY <2>4, <2>5, Zenon
<1> QED
  BY <1>6, <1>7, <1>8, Zenon DEF Client

\* accept() takes the oldest connection: what is left of the clients' connections.
LEMMA AcceptedPlaces ==
    ASSUME RegistryInv, StreamsInv, NEW k, Accepted(k)
    PROVE  /\ k \in Conn /\ k.cookie \in Cookie /\ k = [cookie |-> k.cookie, role |-> k.role]
           /\ k.role \in {"control", "data"} /\ 1 \in InBacklog(k.cookie, k.role)
           /\ \A c, r : InBacklog(c, r) = {} => InBacklog(c, r)' = {}
           /\ \A c \in Cookie : \A i, j \in InBacklog(c, "control")' : i = j
           /\ k.role = "control" => InBacklog(k.cookie, "control")' = {}
           /\ \A c : Cardinality(InBacklog(c, "data")) \in Nat /\ Cardinality(InBacklog(c, "data")') \in Nat
           /\ \A c : c # k.cookie \/ k.role # "data" =>
                   Cardinality(InBacklog(c, "data")') = Cardinality(InBacklog(c, "data"))
           /\ k.role = "data" => Cardinality(InBacklog(k.cookie, "data")) =
                                 Cardinality(InBacklog(k.cookie, "data")') + 1
<1>1. TypeOK /\ \A c \in Cookie : ControlFirst(c)
  BY Zenon DEF RegistryInv, StreamsInv
<1>2. /\ k \in Conn /\ k.cookie \in Cookie /\ k.role \in {"control", "data"}
      /\ k = [cookie |-> k.cookie, role |-> k.role]
  BY <1>1, AcceptedConn DEF Conn, Role
<1> DEFINE d == k.cookie
           r == k.role
<1>3. \A c, q : k = [cookie |-> c, role |-> q] <=> c = d /\ q = r
  BY <1>2
<1> HIDE DEF d, r
<1>4. \A c, q : \A i \in InBacklog(c, q)' : i \in Nat /\ i + 1 \in InBacklog(c, q) /\ i + 1 # 1
  BY <1>1, PlacesTail, Zenon
<1>5. 1 \in InBacklog(d, r)
  BY <1>1, <1>3, PlacesTail, Zenon
<1>6. \A c, q : InBacklog(c, q) = {} => InBacklog(c, q)' = {}
  BY <1>4, Zenon
<1>7. ASSUME NEW c \in Cookie, NEW i \in InBacklog(c, "control")', NEW j \in InBacklog(c, "control")'
      PROVE  i = j
  <2>1. i + 1 = j + 1
    BY <1>1, <1>4, Zenon DEF ControlFirst
  <2>2. i \in Nat /\ j \in Nat
    BY <1>4, Zenon
  <2> QED
    BY <2>1, <2>2
<1>8. r = "control" => InBacklog(d, "control")' = {}
  <2> SUFFICES ASSUME r = "control", NEW i \in InBacklog(d, "control")' PROVE FALSE
    BY Zenon
  <2>1. i + 1 \in InBacklog(d, "control") /\ i + 1 # 1 /\ 1 \in InBacklog(d, "control")
    BY <1>4, <1>5, Zenon
  <2>2. d \in Cookie
    BY <1>2, Zenon DEF d
  <2> QED
    BY <1>1, <2>1, <2>2, Zenon DEF ControlFirst
<1>9. \A c : Cardinality(InBacklog(c, "data")) \in Nat /\ Cardinality(InBacklog(c, "data")') \in Nat
  BY <1>1, PlacesFinite, PlacesTail, Zenon
<1>10. /\ \A c : c # d \/ r # "data" => Cardinality(InBacklog(c, "data")') = Cardinality(InBacklog(c, "data"))
       /\ r = "data" => Cardinality(InBacklog(d, "data")) = Cardinality(InBacklog(d, "data")') + 1
  <2>1. ASSUME NEW c, c # d \/ r # "data"
        PROVE  Cardinality(InBacklog(c, "data")') = Cardinality(InBacklog(c, "data"))
    <3>1. k = [cookie |-> c, role |-> "data"] <=> c = d /\ "data" = r
      BY <1>3, Zenon
    <3>2. k # [cookie |-> c, role |-> "data"]
      BY <2>1, <3>1
    <3> QED
      BY <1>1, <3>2, PlacesTail, Zenon
  <2>2. r = "data" => k = [cookie |-> d, role |-> "data"]
    BY <1>3, Zenon
  <2>3. r = "data" => Cardinality(InBacklog(d, "data")) = Cardinality(InBacklog(d, "data")') + 1
    BY <1>1, <2>2, PlacesTail, Zenon
  <2> QED
    BY <2>1, <2>3, Zenon
<1> QED
  BY <1>2, <1>5, <1>6, <1>7, <1>8, <1>9, <1>10, Zenon DEF d, r

\* The accept loop hands every stream of a session that waits for it to that session.
LEMMA AcceptStreams ==
    ASSUME RegistryInv, StreamsInv, AcceptLoop
    PROVE  StreamsInv'
<1> USE DEF serverVars, clientVars
<1>1. /\ TypeOK /\ client \in [Cookie -> {"idle", "running", "ended"}] /\ toOpen \in [Cookie -> Nat]
      /\ pc \in [Session -> PC] /\ sess \in [Session -> Conn \cup {None}]
      /\ queued \in [Session -> Nat] /\ got \in [Session -> Nat] /\ want \in [Session -> Nat]
      /\ \A c \in Cookie : ControlFirst(c)
      /\ \A s \in Session : ChannelInv(s) /\ Reach(s)
  BY StreamsInvParts, Zenon DEF RegistryInv, TypeOK
<1>2. \A s \in Session : pc[s] \in {"negotiating", "collecting"} =>
                           /\ sess[s] # None /\ sess[s].cookie \in Cookie
                           /\ registry[sess[s].cookie] = s
  BY ConstantsAssumption, Zenon
  DEF RegistryInv, SessionHasConn, SessionOwnsEntry, Alive, Serving, Conn
<1>3. SUFFICES /\ \A c \in Cookie : ControlFirst(c)'
               /\ \A s \in Session : ChannelInv(s)' /\ Reach(s)'
  BY Zenon DEF StreamsInv, StreamsReachSession, Reach
<1>4. PICK k \in Conn : \/ CookieReadFails(k) \/ Attach(k) \/ Deny(k)
                        \/ \E s \in Session : Admit(k, s)
  BY Zenon DEF AcceptLoop
<1>5. Accepted(k)
  BY <1>4, Zenon DEF CookieReadFails, Attach, Deny, Admit
<1> DEFINE d == k.cookie
<1>6. /\ d \in Cookie /\ k.role \in {"control", "data"} /\ 1 \in InBacklog(d, k.role)
      /\ \A c, r : InBacklog(c, r) = {} => InBacklog(c, r)' = {}
      /\ \A c \in Cookie : \A i, j \in InBacklog(c, "control")' : i = j
      /\ k.role = "control" => InBacklog(d, "control")' = {}
      /\ \A c : c # d \/ k.role # "data" =>
                 Cardinality(InBacklog(c, "data")') = Cardinality(InBacklog(c, "data"))
  BY <1>5, AcceptedPlaces, Zenon
<1>7. /\ Cardinality(InBacklog(d, "data")) \in Nat /\ Cardinality(InBacklog(d, "data")') \in Nat
      /\ k.role = "data" => Cardinality(InBacklog(d, "data")) = Cardinality(InBacklog(d, "data")') + 1
  BY <1>5, AcceptedPlaces, Zenon
<1> HIDE DEF d
<1>8. ASSUME \A c \in Cookie : client'[c] = "idle" => client[c] = "idle",
             \A c \in Cookie : toOpen[c] = 0 => toOpen'[c] = 0
      PROVE  \A c \in Cookie : NoStreams(c) => NoStreams(c)'
  BY <1>6, <1>8, Zenon DEF NoStreams
<1>9. CASE CookieReadFails(k) \/ Deny(k)
  <2>1. UNCHANGED <<pc, sess, queued, got, want>>
    BY <1>9, Zenon DEF CookieReadFails, Deny, Refuse
  <2>2. /\ \A c \in Cookie : client'[c] = "idle" => client[c] = "idle"
        /\ \A c \in Cookie : toOpen[c] = 0 => toOpen'[c] = 0
        /\ \A c \in Cookie : c # d => client'[c] = client[c] /\ toOpen'[c] = toOpen[c]
    <3>1. \/ UNCHANGED <<client, toOpen>>
          \/ client' = [client EXCEPT ![d] = "ended"] /\ toOpen' = [toOpen EXCEPT ![d] = 0]
      BY <1>9, Zenon DEF CookieReadFails, Deny, Refuse, d
    <3>2. CASE UNCHANGED <<client, toOpen>>
      BY <3>2, Zenon
    <3>3. CASE client' = [client EXCEPT ![d] = "ended"] /\ toOpen' = [toOpen EXCEPT ![d] = 0]
      BY <1>1, <1>6, <3>3
    <3> QED
      BY <3>1, <3>2, <3>3, Zenon
  <2>3. ASSUME NEW c \in Cookie PROVE ControlFirst(c)'
    <3>1. NoSession(c) => NoSession(c)'
      BY <2>1, Zenon DEF NoSession
    <3> QED
      BY <1>1, <1>6, <1>8, <2>2, <3>1, ControlFirstStay, Zenon
  <2>4. ASSUME NEW s \in Session PROVE ChannelInv(s)' /\ Reach(s)'
    <3>1. ASSUME pc[s] = "collecting", client'[sess[s].cookie] = "running", "slow" \notin Faults
          PROVE  sess[s].cookie # d
      <4>1. CASE CookieReadFails(k)
        <5>1. client[d] = "ended" /\ client' = client
          BY <3>1, <4>1, Zenon DEF CookieReadFails, d
        <5> QED
          BY <3>1, <5>1
      <4>2. CASE Deny(k)
        <5>1. registry[d] = None
          BY <4>2, Zenon DEF Deny, d
        <5> QED
          BY <1>2, <3>1, <5>1, ConstantsAssumption, Zenon
      <4> QED
        BY <1>9, <4>1, <4>2, Zenon
    <3>2. PICK c : c = sess[s].cookie
      BY Zenon
    <3>3. pc[s] \in {"negotiating", "collecting"} => c \in Cookie
      BY <1>2, <3>2, Zenon
    <3>4. pc[s] = "negotiating" => (NoStreams(c) => NoStreams(c)')
      BY <1>8, <2>2, <3>3, Zenon
    <3>5. pc[s] = "collecting" /\ client'[c] = "running" /\ "slow" \notin Faults =>
              /\ client[c] = "running"
              /\ toOpen'[c] + Cardinality(InBacklog(c, "data")') =
                 toOpen[c] + Cardinality(InBacklog(c, "data"))
      BY <1>6, <2>2, <3>1, <3>2, <3>3, Zenon
    <3> QED
      BY <1>1, <2>1, <3>2, <3>4, <3>5, SessionStay, Zenon
  <2> QED
    BY <2>3, <2>4, Zenon
<1>10. CASE Attach(k)
  <2>1. PICK s0 \in Session : registry[d] = s0 /\ sess[s0] # None /\ sess[s0].cookie = d
    <3>1. registry[d] # None /\ d \in Cookie
      BY <1>6, <1>10, Zenon DEF Attach, d
    <3>2. registry[d] \in Session
      BY <3>1, Zenon DEF RegistryInv, TypeOK
    <3>3. sess[registry[d]] # None /\ sess[registry[d]].cookie = d
      BY <3>1, Zenon DEF RegistryInv, EntryHasSession, Registered
    <3> QED
      BY <3>2, <3>3, Zenon
  <2>2. /\ UNCHANGED <<pc, sess, got, want, client, toOpen>>
        /\ queued' = [queued EXCEPT ![s0] = IF pc[s0] \in Serving THEN queued[s0] + 1 ELSE queued[s0]]
    BY <1>10, <2>1, Zenon DEF Attach, d
  <2>3. \A c \in Cookie : NoStreams(c) => NoStreams(c)'
    BY <1>8, <2>2, Zenon
  <2>4. ASSUME NEW c \in Cookie PROVE ControlFirst(c)'
    <3>1. NoSession(c) => NoSession(c)'
      BY <2>2, Zenon DEF NoSession
    <3> QED
      BY <1>1, <1>6, <2>2, <2>3, <3>1, ControlFirstStay, Zenon
  <2>5. k.role = "data" /\ ~NoStreams(d)
    <3>1. InBacklog(d, "control") = {}
      BY <1>1, <1>6, <2>1, Zenon DEF ControlFirst, NoSession
    <3> QED
      BY <1>6, <3>1, Zenon DEF NoStreams
  <2>6. ASSUME NEW s \in Session, s # s0 PROVE ChannelInv(s)' /\ Reach(s)'
    <3>1. PICK c : c = sess[s].cookie
      BY Zenon
    <3>2. queued'[s] = queued[s]
      BY <1>1, <2>2, <2>6, Zenon
    <3>3. pc[s] \in {"negotiating", "collecting"} => c \in Cookie /\ c # d
      BY <1>2, <2>1, <2>6, <3>1, Zenon
    <3> QED
      BY <1>1, <1>6, <2>2, <2>3, <3>1, <3>2, <3>3, SessionStay, Zenon
  <2>7. ChannelInv(s0)' /\ Reach(s0)'
    <3>1. queued'[s0] = IF pc[s0] \in Serving THEN queued[s0] + 1 ELSE queued[s0]
      BY <1>1, <2>1, <2>2, Zenon
    <3>2. ~(pc[s0] = "negotiating" /\ sess[s0].role = "control")
      BY <1>1, <2>1, <2>5, Zenon DEF ChannelInv
    <3>3. ChannelInv(s0)'
      BY <1>1, <2>2, <3>1, <3>2, Zenon DEF ChannelInv
    <3>4. ASSUME pc[s0] = "collecting", client[d] = "running", "slow" \notin Faults
          PROVE  want[s0] = toOpen[d] + Cardinality(InBacklog(d, "data")') + queued'[s0] + got[s0]
      <4>1. want[s0] = toOpen[d] + Cardinality(InBacklog(d, "data")) + queued[s0] + got[s0]
        BY <1>1, <2>1, <3>4, Zenon DEF Reach
      <4>2. queued'[s0] = queued[s0] + 1
        BY <3>1, <3>4, Zenon DEF Serving
      <4>3. queued[s0] \in Nat /\ got[s0] \in Nat /\ toOpen[d] \in Nat
        BY <1>1, <1>6, <2>1, Zenon
      <4> QED
        BY <1>7, <2>5, <4>1, <4>2, <4>3
    <3>5. sess'[s0].cookie = d
      BY <2>1, <2>2, Zenon
    <3>6. Reach(s0)'
      BY <2>2, <3>4, <3>5, Zenon DEF Reach
    <3> QED
      BY <3>3, <3>6, Zenon
  <2> QED
    BY <2>4, <2>6, <2>7, Zenon
<1>11. ASSUME NEW s0 \in Session, Admit(k, s0)
       PROVE  /\ \A c \in Cookie : ControlFirst(c)'
              /\ \A s \in Session : ChannelInv(s)' /\ Reach(s)'
  <2>1. /\ UNCHANGED <<queued, got, want, client, toOpen>> /\ pc[s0] = "free" /\ registry[d] = None
        /\ pc' = [pc EXCEPT ![s0] = "negotiating"] /\ sess' = [sess EXCEPT ![s0] = k]
    BY <1>11, Zenon DEF Admit, StartSession, d
  <2>2. \A c \in Cookie : NoStreams(c) => NoStreams(c)'
    BY <1>8, <2>1, Zenon
  <2>3. pc'[s0] = "negotiating" /\ sess'[s0] = k
    BY <1>1, <2>1, Zenon
  <2>4. \A s \in Session \ {s0} : pc'[s] = pc[s] /\ sess'[s] = sess[s]
    BY <1>1, <2>1, Zenon
  <2>5. ASSUME NEW c \in Cookie, c # d PROVE ControlFirst(c)'
    <3>1. NoSession(c) => NoSession(c)'
      BY <2>3, <2>4, <2>5, Zenon DEF NoSession, d
    <3> QED
      BY <1>1, <1>6, <2>1, <2>2, <3>1, ControlFirstStay, Zenon
  <2>6. client[d] # "idle" /\ InBacklog(d, "control")' = {}
    <3>1. CASE k.role = "control"
      BY <1>1, <1>6, <3>1, Zenon DEF ControlFirst
    <3>2. CASE k.role = "data"
      <4>1. ~NoStreams(d)
        BY <1>6, <3>2, Zenon DEF NoStreams
      <4> QED
        BY <1>1, <1>6, <4>1, Zenon DEF ControlFirst
    <3> QED
      BY <1>6, <3>1, <3>2, Zenon
  <2>7. ControlFirst(d)'
    BY <2>1, <2>6, Zenon DEF ControlFirst
  <2>8. ASSUME NEW s \in Session, s # s0 PROVE ChannelInv(s)' /\ Reach(s)'
    <3>1. PICK c : c = sess[s].cookie
      BY Zenon
    <3>2. pc[s] \in {"negotiating", "collecting"} => c \in Cookie /\ c # d
      BY <1>2, <2>1, <3>1, ConstantsAssumption, Zenon
    <3>3. pc'[s] = pc[s] /\ sess'[s] = sess[s]
      BY <2>4, <2>8, Zenon
    <3>4. /\ queued'[s] = queued[s] /\ got'[s] = got[s] /\ want'[s] = want[s]
          /\ client' = client /\ toOpen' = toOpen
      BY <2>1, Zenon
    <3>5. pc[s] = "negotiating" => (NoStreams(c) => NoStreams(c)')
      BY <2>2, <3>2, Zenon
    <3>6. pc[s] = "collecting" => Cardinality(InBacklog(c, "data")') = Cardinality(InBacklog(c, "data"))
      BY <1>6, <3>2, Zenon
    <3> QED
      BY <1>1, <3>1, <3>3, <3>4, <3>5, <3>6, SessionStay, Zenon
  <2>9. ChannelInv(s0)' /\ Reach(s0)'
    <3>1. queued[s0] = 0 /\ got[s0] = 0
      BY <1>1, <2>1, Zenon DEF ChannelInv, Serving
    <3>2. k.role = "control" => NoStreams(d)'
      BY <1>1, <1>6, <2>2, Zenon DEF ControlFirst
    <3>3. sess'[s0].cookie = d /\ sess'[s0].role = k.role
      BY <2>3, Zenon DEF d
    <3>4. ChannelInv(s0)'
      <4>1. k.role = "control" => toOpen'[d] = 0 /\ InBacklog(d, "data")' = {}
        BY <3>2, Zenon DEF NoStreams
      <4> QED
        BY <2>1, <2>3, <3>1, <3>3, <4>1, Zenon DEF ChannelInv, Serving, NoStreams
    <3>5. Reach(s0)'
      BY <2>3 DEF Reach
    <3> QED
      BY <3>4, <3>5, Zenon
  <2> QED
    BY <2>5, <2>7, <2>8, <2>9, Zenon
<1> QED
  BY <1>4, <1>9, <1>10, <1>11, Zenon

\* A step of a thread that leaves the clients alone concerns that thread only.
LEMMA ThreadStay ==
    ASSUME StreamsInv, NEW s0 \in Session, UNCHANGED <<backlog, client, toOpen>>,
           \A s \in Session \ {s0} : /\ pc'[s] = pc[s] /\ sess'[s] = sess[s] /\ want'[s] = want[s]
                                    /\ queued'[s] = queued[s] /\ got'[s] = got[s],
           sess'[s0] \in {sess[s0], None},
           ChannelInv(s0)' /\ Reach(s0)'
    PROVE  StreamsInv'
<1>1. (\A c \in Cookie : ControlFirst(c)) /\ (\A s \in Session : ChannelInv(s) /\ Reach(s))
  BY StreamsInvParts, Zenon
<1>2. SUFFICES /\ \A c \in Cookie : ControlFirst(c)'
               /\ \A s \in Session : ChannelInv(s)' /\ Reach(s)'
  BY Zenon DEF StreamsInv, StreamsReachSession, Reach
<1>3. \A c, r : InBacklog(c, r)' = InBacklog(c, r)
  BY Zenon DEF InBacklog
<1>4. \A c : NoStreams(c)' <=> NoStreams(c)
  BY <1>3, Zenon DEF NoStreams
<1>5. ASSUME NEW c \in Cookie PROVE ControlFirst(c)'
  <2>1. NoSession(c) => NoSession(c)'
    BY Zenon DEF NoSession
  <2>2. /\ client'[c] = "idle" => client[c] = "idle"
        /\ InBacklog(c, "control")' # {} => InBacklog(c, "control") # {}
        /\ \A i, j \in InBacklog(c, "control")' : i = j
    BY <1>1, <1>3, Zenon DEF ControlFirst
  <2> QED
    BY <1>1, <1>4, <2>1, <2>2, ControlFirstStay, Zenon
<1>6. ASSUME NEW s \in Session, s # s0 PROVE ChannelInv(s)' /\ Reach(s)'
  <2>1. PICK c : c = sess[s].cookie
    BY Zenon
  <2>2. /\ pc'[s] = pc[s] /\ sess'[s] = sess[s] /\ want'[s] = want[s]
        /\ queued'[s] = queued[s] /\ got'[s] = got[s]
    BY <1>6, Zenon
  <2>3. /\ client'[c] = client[c] /\ toOpen'[c] = toOpen[c]
        /\ Cardinality(InBacklog(c, "data")') = Cardinality(InBacklog(c, "data"))
    BY <1>3, Zenon
  <2> QED
    BY <1>1, <1>4, <2>1, <2>2, <2>3, SessionStay, Zenon
<1> QED
  BY <1>5, <1>6, Zenon

\* A session asks its client for n streams.
LEMMA AskStreams ==
    ASSUME RegistryInv, StreamsInv, NEW s0 \in Session, NEW n \in Nat,
           pc[s0] = "negotiating", sess[s0].role = "control",
           pc' = [pc EXCEPT ![s0] = "collecting"], want' = [want EXCEPT ![s0] = n],
           toOpen' = [toOpen EXCEPT ![sess[s0].cookie] = n],
           UNCHANGED <<backlog, sess, queued, got, client>>
    PROVE  StreamsInv'
<1>1. /\ TypeOK /\ toOpen \in [Cookie -> Nat] /\ pc \in [Session -> PC] /\ want \in [Session -> Nat]
      /\ \A c \in Cookie : ControlFirst(c)
      /\ \A s \in Session : ChannelInv(s) /\ Reach(s)
  BY StreamsInvParts, Zenon DEF RegistryInv, TypeOK
<1>2. \A s \in Session : pc[s] \in {"negotiating", "collecting"} =>
                 /\ sess[s] # None /\ sess[s].cookie \in Cookie
                 /\ registry[sess[s].cookie] = s
  BY ConstantsAssumption, Zenon
  DEF RegistryInv, SessionHasConn, SessionOwnsEntry, Alive, Serving, Conn
<1>3. SUFFICES /\ \A c \in Cookie : ControlFirst(c)'
               /\ \A s \in Session : ChannelInv(s)' /\ Reach(s)'
  BY Zenon DEF StreamsInv, StreamsReachSession, Reach
<1>4. PICK d \in Cookie : d = sess[s0].cookie /\ sess[s0] # None
  BY <1>2, Zenon
<1>5. \A c, r : InBacklog(c, r)' = InBacklog(c, r)
  BY Zenon DEF InBacklog
<1>6. \A c \in Cookie : c # d => toOpen'[c] = toOpen[c] /\ (NoStreams(c)' <=> NoStreams(c))
  BY <1>1, <1>4, <1>5, Zenon DEF NoStreams
<1>7. ASSUME NEW c \in Cookie PROVE ControlFirst(c)'
  <2>1. CASE c = d
    <3>1. client[d] # "idle" /\ InBacklog(d, "control") = {}
      BY <1>1, <1>4, Zenon DEF ControlFirst, NoSession
    <3>2. client'[d] # "idle" /\ InBacklog(d, "control")' = {}
      BY <1>5, <3>1, Zenon
    <3> QED
      BY <2>1, <3>2, Zenon DEF ControlFirst
  <2>2. CASE c # d
    <3>1. NoSession(c)' <=> NoSession(c)
      BY Zenon DEF NoSession
    <3>2. /\ client'[c] = "idle" => client[c] = "idle"
          /\ InBacklog(c, "control")' # {} => InBacklog(c, "control") # {}
          /\ \A i, j \in InBacklog(c, "control")' : i = j
      BY <1>1, <1>5, Zenon DEF ControlFirst
    <3>3. ControlFirst(c) /\ (NoStreams(c) => NoStreams(c)')
      BY <1>1, <1>6, <2>2, Zenon
    <3> QED
      BY <3>1, <3>2, <3>3, ControlFirstStay, Zenon
  <2> QED
    BY <2>1, <2>2, Zenon
<1>8. ASSUME NEW s \in Session, s # s0 PROVE ChannelInv(s)' /\ Reach(s)'
  <2>1. PICK c : c = sess[s].cookie
    BY Zenon
  <2>2. pc[s] \in {"negotiating", "collecting"} => c \in Cookie /\ c # d
    BY <1>2, <1>4, <1>8, <2>1, Zenon
  <2>3. /\ pc'[s] = pc[s] /\ sess'[s] = sess[s] /\ want'[s] = want[s]
        /\ queued'[s] = queued[s] /\ got'[s] = got[s]
    BY <1>1, <1>8, Zenon
  <2>4. pc[s] = "negotiating" => (NoStreams(c) => NoStreams(c)')
    BY <1>6, <2>2, Zenon
  <2>5. pc[s] = "collecting" => /\ client'[c] = client[c] /\ toOpen'[c] = toOpen[c]
                                /\ Cardinality(InBacklog(c, "data")') = Cardinality(InBacklog(c, "data"))
    BY <1>5, <1>6, <2>2, Zenon
  <2> QED
    BY <1>1, <2>1, <2>3, <2>4, <2>5, SessionStay, Zenon
<1>9. ChannelInv(s0)' /\ Reach(s0)'
  <2>1. /\ pc'[s0] = "collecting" /\ want'[s0] = n /\ toOpen'[d] = n
        /\ sess'[s0].cookie = d /\ queued'[s0] = queued[s0] /\ got'[s0] = got[s0]
    BY <1>1, <1>4, Zenon
  <2>2. queued[s0] = 0 /\ got[s0] = 0 /\ InBacklog(d, "data") = {}
    BY <1>1, <1>4, Zenon DEF ChannelInv, NoStreams
  <2>3. Cardinality(InBacklog(d, "data")') = 0
    BY <1>5, <2>2, FS_EmptySet, Zenon
  <2>4. want'[s0] = toOpen'[d] + Cardinality(InBacklog(d, "data")') + queued'[s0] + got'[s0]
    BY <2>1, <2>2, <2>3
  <2>5. ChannelInv(s0)'
    BY <2>1 DEF ChannelInv, Serving
  <2> QED
    BY <2>1, <2>4, <2>5, Zenon DEF Reach
<1> QED
  BY <1>7, <1>8, <1>9, Zenon

\* The steps of the session threads.
LEMMA ThreadStreams ==
    ASSUME RegistryInv, StreamsInv, NEW s0 \in Session, SessionThread(s0)
    PROVE  StreamsInv'
<1> USE DEF clientVars
<1>1. /\ pc \in [Session -> PC] /\ sess \in [Session -> Conn \cup {None}]
      /\ queued \in [Session -> Nat] /\ got \in [Session -> Nat] /\ want \in [Session -> Nat]
      /\ ChannelInv(s0) /\ Reach(s0)
  BY StreamsInvParts, Zenon DEF RegistryInv, TypeOK
<1>2. CASE Negotiate(s0)
  <2>1. CASE pc' = [pc EXCEPT ![s0] = "running"] /\ UNCHANGED <<want, toOpen>>
    <3>1. UNCHANGED <<backlog, client, toOpen, sess, queued, got, want>>
      BY <1>2, <2>1, Zenon DEF Negotiate
    <3>2. pc'[s0] = "running" /\ \A s \in Session \ {s0} : pc'[s] = pc[s]
      BY <1>1, <2>1, Zenon
    <3>3. ChannelInv(s0)' /\ Reach(s0)'
      BY <3>2 DEF ChannelInv, Reach, Serving
    <3> QED
      BY <3>1, <3>2, <3>3, ThreadStay, Zenon
  <2>2. ASSUME NEW n \in {Parallel, 2 * Parallel}, pc' = [pc EXCEPT ![s0] = "collecting"],
               want' = [want EXCEPT ![s0] = n],
               toOpen' = [toOpen EXCEPT ![sess[s0].cookie] = n]
        PROVE  StreamsInv'
    <3>1. n \in Nat
      BY <2>2, ConstantsAssumption
    <3>2. /\ pc[s0] = "negotiating" /\ sess[s0].role = "control"
          /\ UNCHANGED <<backlog, sess, queued, got, client>>
      BY <1>2, Zenon DEF Negotiate
    <3> QED
      BY <2>2, <3>1, <3>2, AskStreams, Zenon
  <2> QED
    BY <1>2, <2>1, <2>2, Zenon DEF Negotiate
<1>3. CASE Collect(s0)
  <2>1. /\ UNCHANGED <<backlog, client, toOpen, sess, want>> /\ pc[s0] = "collecting" /\ queued[s0] > 0
        /\ queued' = [queued EXCEPT ![s0] = queued[s0] - 1] /\ got' = [got EXCEPT ![s0] = got[s0] + 1]
        /\ pc' = [pc EXCEPT ![s0] = IF got[s0] + 1 = Parallel THEN "running" ELSE pc[s0]]
    BY <1>3, Zenon DEF Collect
  <2>2. \A s \in Session \ {s0} : pc'[s] = pc[s] /\ queued'[s] = queued[s] /\ got'[s] = got[s]
    BY <1>1, <2>1, Zenon
  <2>3. /\ pc'[s0] \in {"running", "collecting"}
        /\ queued'[s0] = queued[s0] - 1 /\ got'[s0] = got[s0] + 1
    BY <1>1, <2>1, Zenon
  <2>4. ChannelInv(s0)'
    BY <2>3 DEF ChannelInv, Serving
  <2>5. PICK c : c = sess[s0].cookie
    BY Zenon
  <2>6. InBacklog(c, "data")' = InBacklog(c, "data")
    BY <2>1, Zenon DEF InBacklog
  <2>7. queued'[s0] + got'[s0] = queued[s0] + got[s0] /\ queued[s0] \in Nat /\ got[s0] \in Nat
    BY <1>1, <2>3
  <2>8. ASSUME client'[c] = "running", "slow" \notin Faults
        PROVE  want'[s0] = toOpen'[c] + Cardinality(InBacklog(c, "data")') + queued'[s0] + got'[s0]
    <3>1. want[s0] = toOpen[c] + Cardinality(InBacklog(c, "data")) + queued[s0] + got[s0]
      BY <1>1, <2>1, <2>5, <2>8, Zenon DEF Reach
    <3>2. PICK x : x = Cardinality(InBacklog(c, "data"))
      BY Zenon
    <3>3. x \in Nat
      BY <3>2, PlacesFinite, Zenon DEF RegistryInv
    <3>4. toOpen[c] \in Nat
      BY <2>1, <2>5, ConstantsAssumption, Zenon
      DEF RegistryInv, TypeOK, SessionHasConn, Alive, Serving, Conn
    <3>5. want[s0] = toOpen[c] + x + queued[s0] + got[s0]
      BY <3>1, <3>2, Zenon
    <3>6. want[s0] = toOpen[c] + x + queued'[s0] + got'[s0]
      BY <2>3, <2>7, <3>3, <3>4, <3>5
    <3> QED
      BY <2>1, <2>6, <3>2, <3>6, Zenon
  <2>9. sess'[s0].cookie = c
    BY <2>1, <2>5, Zenon
  <2>10. Reach(s0)'
    BY <2>8, <2>9, Zenon DEF Reach
  <2> QED
    BY <2>1, <2>2, <2>4, <2>10, ThreadStay, Zenon
<1>4. CASE Return(s0) \/ Panic(s0)
  <2>1. /\ UNCHANGED <<backlog, client, toOpen, sess>> /\ queued' = [queued EXCEPT ![s0] = 0]
        /\ got' = [got EXCEPT ![s0] = 0] /\ want' = [want EXCEPT ![s0] = 0]
        /\ pc' \in {[pc EXCEPT ![s0] = "returned"], [pc EXCEPT ![s0] = "panicked"]}
    BY <1>4, Zenon DEF Return, Panic, DropSession
  <2>2. \A s \in Session \ {s0} : /\ pc'[s] = pc[s] /\ want'[s] = want[s]
                                  /\ queued'[s] = queued[s] /\ got'[s] = got[s]
    BY <1>1, <2>1, Zenon
  <2>3. pc'[s0] \in {"returned", "panicked"} /\ queued'[s0] = 0 /\ got'[s0] = 0
    BY <1>1, <2>1, Zenon
  <2>4. ChannelInv(s0)' /\ Reach(s0)'
    BY <2>3 DEF ChannelInv, Reach, Serving
  <2> QED
    BY <2>1, <2>2, <2>4, ThreadStay, Zenon
<1>5. CASE Unregister(s0) \/ DropGuard(s0)
  <2>1. /\ UNCHANGED <<backlog, client, toOpen, queued, got, want>>
        /\ pc[s0] \in {"returned", "unregistered"}
        /\ pc' \in {[pc EXCEPT ![s0] = "unregistered"], [pc EXCEPT ![s0] = "free"]}
        /\ sess' \in {sess, [sess EXCEPT ![s0] = None]}
    BY <1>5, Zenon DEF Unregister, DropGuard
  <2>2. \A s \in Session \ {s0} : pc'[s] = pc[s] /\ sess'[s] = sess[s]
    BY <1>1, <2>1, Zenon
  <2>3. pc'[s0] \in {"unregistered", "free"} /\ sess'[s0] \in {sess[s0], None}
    BY <1>1, <2>1, Zenon
  <2>4. queued'[s0] = 0 /\ got'[s0] = 0
    BY <1>1, <2>1 DEF ChannelInv, Serving
  <2>5. ChannelInv(s0)' /\ Reach(s0)'
    BY <2>3, <2>4 DEF ChannelInv, Reach, Serving
  <2> QED
    BY <2>1, <2>2, <2>3, <2>5, ThreadStay, Zenon
<1> QED
  BY <1>2, <1>3, <1>4, <1>5, Zenon DEF SessionThread

LEMMA InitStreams == Init => StreamsInv
<1> SUFFICES ASSUME Init PROVE StreamsInv
  OBVIOUS
<1>1. \A c, r : InBacklog(c, r) = {}
  BY DEF Init, InBacklog
<1>2. ASSUME NEW c \in Cookie PROVE ControlFirst(c)
  BY <1>1, Zenon DEF Init, ControlFirst, NoStreams, NoSession
<1>3. ASSUME NEW s \in Session PROVE ChannelInv(s) /\ Reach(s)
  BY DEF Init, ChannelInv, Reach
<1> QED
  BY <1>2, <1>3, StreamsInvParts, Zenon

LEMMA NextStreams == RegistryInv /\ StreamsInv /\ [Next]_vars => StreamsInv'
<1> SUFFICES ASSUME RegistryInv, StreamsInv, [Next]_vars PROVE StreamsInv'
  OBVIOUS
<1>1. CASE LoopFails \/ UNCHANGED vars
  <2>1. UNCHANGED <<backlog, pc, sess, queued, got, want, client, toOpen>>
    BY <1>1, Zenon DEF LoopFails, vars, serverVars, clientVars
  <2>2. \A c, r : InBacklog(c, r)' = InBacklog(c, r)
    BY <2>1, Zenon DEF InBacklog
  <2>3. \A c : (NoStreams(c)' <=> NoStreams(c)) /\ (NoSession(c)' <=> NoSession(c))
    BY <2>1, <2>2, Zenon DEF NoStreams, NoSession
  <2>4. ASSUME NEW c \in Cookie PROVE ControlFirst(c)'
    <3>1. ControlFirst(c) /\ client'[c] = client[c]
      BY <2>1, StreamsInvParts, Zenon
    <3> QED
      BY <2>2, <2>3, <3>1 DEF ControlFirst
  <2>5. ASSUME NEW s \in Session PROVE ChannelInv(s)' /\ Reach(s)'
    <3>1. PICK c : c = sess[s].cookie
      BY Zenon
    <3>2. ChannelInv(s) /\ Reach(s)
      BY StreamsInvParts, Zenon
    <3> QED
      BY <2>1, <2>2, <2>3, <3>1, <3>2, SessionStay, Zenon
  <2> QED
    BY <2>4, <2>5, Zenon DEF StreamsInv, StreamsReachSession, Reach
<1> QED
  BY <1>1, AcceptStreams, ThreadStreams, ClientStreams, Zenon DEF Next

\* Where accept_streams_from_channel waits for the streams of its client, and cookies
\* are read in time, each of them is unopened, in the backlog, in the channel or
\* collected, however accepts, sessions, exits and panics interleave.
THEOREM StreamsAlwaysReachSession == Spec => []StreamsReachSession
<1>1. StreamsInv => StreamsReachSession
  BY Zenon DEF StreamsInv
<1> QED
  BY <1>1, InitStreams, NextStreams, RegistryInvariant, PTL DEF Spec
=============================================================================
