--------------------------- MODULE ServiceProofs ---------------------------
(***************************************************************************)
(* Proofs about the threads of CoordinatorServer, for any number of         *)
(* clients, sessions, workers and calls of start() and stop().              *)
(*                                                                          *)
(* RegistryExact and StoppedIsQuiet speak of the registry.  The invariant   *)
(* follows each connection through the server: it is in the backlog, in the *)
(* acceptor's hand, or registered, and then queued or with one worker; and  *)
(* an open one is somewhere stop() closes it.                               *)
(***************************************************************************)
EXTENDS Service, FiniteSetTheorems, TLAPS

AcceptorPlaces == {"none", "exited", "top", "wait", "admit", "refuse", "notify"}
WorkerPlaces == {"none", "exited", "lock", "blocking", "waiting", "serving", "reading", "finishing"}

\* Who is where: a thread has a peer exactly where its code has a connection in hand.
Typed ==
    /\ ServiceType
    /\ acceptor \in [at : AcceptorPlaces, peer : Peers \cup {Nobody}]
    /\ acceptor.peer # Nobody <=> acceptor.at \in {"admit", "refuse"}
    /\ worker \in [Workers -> [at : WorkerPlaces, peer : Peers \cup {Nobody}]]
    /\ \A w \in Workers : worker[w].peer # Nobody <=> worker[w].at \in {"serving", "reading", "finishing"}

\* A connection is in one place, and each registered session is queued or served.
Unserved(p) == \A w \in Workers : worker[w].peer # p
Places ==
    /\ Cardinality(sessions) <= MaxSessions /\ active = Cardinality(sessions)
    /\ \A p \in Peers : p \in backlog \/ acceptor.peer = p => p \notin sessions /\ Unserved(p)
    /\ \A p \in Peers : link[p] = "away" =>
           p \notin backlog /\ p \notin sessions /\ acceptor.peer # p /\ Unserved(p)
    /\ acceptor.peer \notin backlog
    /\ Range(pending) \subseteq sessions /\ IsInjective(pending)
    /\ \A p \in Range(pending) : Unserved(p)
    /\ \A v, w \in Workers : worker[v].peer = worker[w].peer => v = w \/ worker[v].peer = Nobody
    /\ \A p \in sessions : p \in Range(pending) \/ ~Unserved(p)

\* What stop() has taken away by the time it has come so far, and where an open
\* connection can be found by whoever is to close it.
Emptied ==
    /\ \A p \in Peers : link[p] = "open" => p \in backlog \/ p \in sessions \/ p \in closing \/ acceptor.peer = p
    /\ controller \in {"stopping", "closing", "joining", "stopped"} => ~running
    /\ controller \in {"closing", "joining", "stopped"} => sessions = {}
    /\ controller \in {"joining", "stopped"} => ~listening /\ backlog = {}
    /\ controller # "closing" => closing = {}
    /\ controller \in {"stopped", "failed"} => acceptor.at = "none"

ServiceInv == Typed /\ Places /\ Emptied

----------------------------------------------------------------------------
LEMMA TypedInit == Init => Typed
<1> SUFFICES ASSUME Init PROVE Typed
  OBVIOUS
<1>1. ServiceType
  <2>1. running \in BOOLEAN /\ listening \in BOOLEAN
    BY ZenonT(30) DEF Init
  <2>2. holder \in Workers \cup {0} /\ active \in Nat
    BY DEF Init
  <2>3. backlog \subseteq Peers /\ sessions \subseteq Peers /\ asking \subseteq Peers /\ pending \in Seq(Peers)
    BY DEF Init
  <2>4. link \in [Peers -> {"away", "open", "closed"}]
    BY DEF Init
  <2> QED
    BY <2>1, <2>2, <2>3, <2>4 DEF ServiceType
<1>2. acceptor \in [at : AcceptorPlaces, peer : Peers \cup {Nobody}]
  BY DEF Init, Absent, AcceptorPlaces
<1>3. worker \in [Workers -> [at : WorkerPlaces, peer : Peers \cup {Nobody}]]
  BY DEF Init, Absent, WorkerPlaces
<1>4. acceptor = Absent /\ \A w \in Workers : worker[w] = Absent
  BY DEF Init
<1> QED
  BY <1>1, <1>2, <1>3, <1>4 DEF Typed, Absent

\* What start() and stop() do keeps the types.
LEMMA TypedLifecycle ==
    ASSUME Typed,
           \/ \E spawned \in 0 .. WorkerCount + 1 : Start(spawned)
           \/ StopFlag \/ Lifecycle
    PROVE  Typed'
<1> USE DEF Typed, ServiceType, AcceptorPlaces, WorkerPlaces, At, Absent, Close, WakeAll, registry
<1>1. ASSUME NEW spawned \in 0 .. WorkerCount + 1, Start(spawned) PROVE Typed'
  BY <1>1, ServiceAssumption DEF Start
<1>2. CASE StopFlag
  BY <1>2, ZenonT(30) DEF StopFlag
<1>3. CASE FailFlag
  BY <1>3, ZenonT(30) DEF FailFlag
<1>4. CASE FailNotify
  BY <1>4, ServiceAssumption, ZenonT(30) DEF FailNotify
<1>5. CASE FailJoin
  BY <1>5, ServiceAssumption DEF FailJoin
<1>6. CASE StopRegistry
  BY <1>6 DEF StopRegistry
<1>7. CASE StopClose
  BY <1>7, ServiceAssumption, ZenonT(30) DEF StopClose
<1>8. CASE StopJoin
  BY <1>8, ServiceAssumption DEF StopJoin
<1> QED
  BY <1>1, <1>2, <1>3, <1>4, <1>5, <1>6, <1>7, <1>8, SMTT(30) DEF Lifecycle

\* So do the threads.
LEMMA TypedAcceptor == ASSUME Typed, Acceptor PROVE Typed'
<1> USE DEF Typed, ServiceType, AcceptorPlaces, WorkerPlaces, At, Close, registry
<1>1. CASE AcceptTop
  BY <1>1 DEF AcceptTop
<1>2. ASSUME NEW p \in Peers, Accept(p) PROVE Typed'
  BY <1>2, ServiceAssumption DEF Accept
<1>3. CASE AcceptNothing
  BY <1>3 DEF AcceptNothing
<1>4. CASE AdmitRefused
  BY <1>4 DEF AdmitRefused
<1>5. CASE AdmitFull
  BY <1>5 DEF AdmitFull
<1>6. CASE Admit
  BY <1>6 DEF Admit
<1>7. CASE Notify
  BY <1>7 DEF Notify
<1>8. CASE Refuse
  BY <1>8 DEF Refuse
<1> QED
  BY <1>1, <1>2, <1>3, <1>4, <1>5, <1>6, <1>7, <1>8 DEF Acceptor

LEMMA TypedWorker == ASSUME Typed, NEW w \in Workers, Worker(w) PROVE Typed'
<1> USE DEF Typed, ServiceType, AcceptorPlaces, WorkerPlaces, At, Close, registry
<1>1. CASE WorkerLock(w)
  <2>1. CASE ~running
    <3>1. /\ worker' = [worker EXCEPT ![w] = At("exited")]
          /\ UNCHANGED <<running, listening, backlog, acceptor, holder, registry, link, asking>>
      BY <1>1, <2>1 DEF WorkerLock
    <3> QED
      BY <3>1
  <2>2. CASE running /\ pending = << >>
    <3>1. /\ worker' = [worker EXCEPT ![w] = At("blocking")] /\ holder' = w
          /\ UNCHANGED <<running, listening, backlog, acceptor, registry, link, asking>>
      BY <1>1, <2>2 DEF WorkerLock
    <3> QED
      BY <3>1
  <2>3. CASE running /\ pending # << >>
    <3>1. Head(pending) \in Peers /\ Head(pending) # Nobody /\ Tail(pending) \in Seq(Peers)
      BY <2>3, ServiceAssumption
    <3>2. /\ worker' = [worker EXCEPT ![w] = [at |-> "serving", peer |-> Head(pending)]]
          /\ pending' = Tail(pending)
          /\ UNCHANGED <<running, listening, backlog, acceptor, holder, sessions, active, link, asking>>
      BY <1>1, <2>3 DEF WorkerLock
    <3> QED
      BY <3>1, <3>2
  <2> QED
    BY <2>1, <2>2, <2>3
<1>2. CASE WorkerWait(w)
  BY <1>2 DEF WorkerWait
<1>3. CASE ServeTop(w)
  BY <1>3 DEF ServeTop
<1>4. CASE ServeFrame(w)
  BY <1>4 DEF ServeFrame
<1>5. CASE ServeNothing(w)
  BY <1>5 DEF ServeNothing
<1>6. CASE Finish(w)
  BY <1>6 DEF Finish
<1> QED
  BY <1>1, <1>2, <1>3, <1>4, <1>5, <1>6 DEF Worker

\* And the clients.
LEMMA TypedClient ==
    ASSUME Typed, NEW p \in Peers, Connect(p) \/ Transact(p) \/ DropConnection(p)
    PROVE  Typed'
  BY DEF Typed, ServiceType, Connect, Transact, DropConnection, Close, server, registry

LEMMA TypedStep == ASSUME Typed, [Next]_vars PROVE Typed'
<1>1. CASE UNCHANGED vars
  BY <1>1 DEF Typed, ServiceType, vars, registry
<1> QED
  BY <1>1, TypedLifecycle, TypedAcceptor, TypedWorker, TypedClient DEF Next

----------------------------------------------------------------------------
\* A step that moves no connection keeps every one in its place.
LEMMA PlacesStand ==
    ASSUME Places, UNCHANGED <<registry, backlog>>, acceptor'.peer = acceptor.peer,
           \A w \in Workers : worker'[w].peer = worker[w].peer,
           \A p \in Peers : link'[p] = "away" => link[p] = "away"
    PROVE  Places'
  BY DEF Places, Unserved, registry

LEMMA PlacesInit == Init => Places
<1> SUFFICES ASSUME Init PROVE Places
  OBVIOUS
<1>1. Cardinality(sessions) = 0
  BY FS_EmptySet DEF Init
<1>2. acceptor.peer = Nobody /\ \A w \in Workers : worker[w].peer = Nobody
  BY DEF Init, Absent
<1>3. Range(pending) = {} /\ IsInjective(pending)
  BY DEF Init, Range, IsInjective
<1> QED
  BY <1>1, <1>2, <1>3, ServiceAssumption DEF Init, Places, Unserved

LEMMA PlacesLifecycle ==
    ASSUME Typed, Places,
           \/ \E spawned \in 0 .. WorkerCount + 1 : Start(spawned)
           \/ StopFlag \/ Lifecycle
    PROVE  Places'
<1>1. ASSUME NEW spawned \in 0 .. WorkerCount + 1, Start(spawned) PROVE Places'
  <2>1. sessions' = {} /\ pending' = << >> /\ active' = 0 /\ backlog' = backlog
    BY <1>1 DEF Start
  <2>2. Cardinality(sessions') = 0
    BY <2>1, FS_EmptySet
  <2>3. acceptor'.peer = Nobody /\ \A w \in Workers : worker'[w].peer = Nobody
    BY <1>1 DEF Start, At, Absent
  <2>4. Range(pending') = {} /\ IsInjective(pending')
    BY <2>1 DEF Range, IsInjective
  <2>5. \A p \in Peers : link'[p] = "away" => p \notin backlog'
    BY <1>1, <2>1 DEF Start, Close, Places
  <2>6. Nobody \notin backlog'
    BY <2>1, ServiceAssumption DEF Typed, ServiceType
  <2> QED
    BY <2>1, <2>2, <2>3, <2>4, <2>5, <2>6, ServiceAssumption DEF Places, Unserved
<1>2. CASE StopFlag \/ FailFlag
  BY <1>2, PlacesStand DEF StopFlag, FailFlag, registry
<1>3. CASE FailNotify \/ StopClose
  <2>1. /\ UNCHANGED <<registry, acceptor>> /\ backlog' = {}
        /\ \A w \in Workers : worker'[w].peer = worker[w].peer
        /\ \A p \in Peers : link'[p] = "away" => link[p] = "away"
    BY <1>3 DEF FailNotify, StopClose, WakeAll, Close, At, Typed
  <2> QED
    BY <2>1 DEF Places, Unserved, registry
<1>4. CASE FailJoin \/ StopJoin
  <2>1. acceptor'.peer = acceptor.peer /\ \A w \in Workers : worker'[w].peer = worker[w].peer
    BY <1>4 DEF FailJoin, StopJoin, Joined, Ended, Absent, Typed
  <2> QED
    BY <1>4, <2>1, PlacesStand DEF FailJoin, StopJoin
<1>5. CASE StopRegistry
  <2>1. sessions' = {} /\ pending' = << >> /\ active' = 0 /\ UNCHANGED <<backlog, acceptor, worker, link>>
    BY <1>5 DEF StopRegistry
  <2>2. Cardinality(sessions') = 0
    BY <2>1, FS_EmptySet
  <2>3. Range(pending') = {} /\ IsInjective(pending')
    BY <2>1 DEF Range, IsInjective
  <2> QED
    BY <2>1, <2>2, <2>3, ServiceAssumption DEF Places, Unserved
<1> QED
  BY <1>1, <1>2, <1>3, <1>4, <1>5 DEF Lifecycle

LEMMA PlacesAcceptor == ASSUME Typed, Places, Acceptor PROVE Places'
<1>1. CASE AcceptTop \/ AcceptNothing \/ AdmitFull
  <2>1. acceptor'.peer = acceptor.peer /\ UNCHANGED <<registry, backlog, worker, link>>
    BY <1>1 DEF AcceptTop, AcceptNothing, AdmitFull, At, Typed
  <2> QED
    BY <2>1, PlacesStand
<1>2. ASSUME NEW p \in Peers, Accept(p) PROVE Places'
  <2>1. /\ acceptor'.peer = p /\ p \in backlog /\ backlog' = backlog \ {p}
        /\ UNCHANGED <<registry, worker, link>>
    BY <1>2 DEF Accept
  <2> QED
    BY <2>1 DEF Places, Unserved, registry
<1>3. CASE AdmitRefused \/ Refuse
  <2>1. /\ acceptor'.peer = Nobody /\ UNCHANGED <<registry, backlog, worker>>
        /\ \A p \in Peers : link'[p] = "away" => link[p] = "away"
    BY <1>3 DEF AdmitRefused, Refuse, At, Close
  <2>2. Nobody \notin backlog'
    BY <2>1, ServiceAssumption DEF Typed, ServiceType
  <2> QED
    BY <2>1, <2>2, ServiceAssumption DEF Places, Unserved, registry
<1>4. CASE Admit
  <2> DEFINE q == acceptor.peer
  <2>1. /\ q \in Peers /\ q \notin sessions /\ Unserved(q) /\ link[q] # "away"
        /\ q \notin backlog
    BY <1>4 DEF Admit, Typed, Places
  <2>2. /\ sessions' = sessions \cup {q} /\ pending' = Append(pending, q) /\ active' = active + 1
        /\ acceptor'.peer = Nobody /\ UNCHANGED <<backlog, worker, link>>
    BY <1>4 DEF Admit, At
  <2>3. IsFiniteSet(sessions) /\ Cardinality(sessions) \in Nat
    BY ServiceAssumption, FS_Subset, FS_CardinalityType DEF Typed, ServiceType
  <2>4. Cardinality(sessions') = Cardinality(sessions) + 1
    BY <2>1, <2>2, <2>3, FS_AddElement, ZenonT(30)
  <2>5. Cardinality(sessions) < MaxSessions
    BY <1>4, <2>3, ServiceAssumption DEF Admit, Full
  <2>6. Range(pending') = Range(pending) \cup {q} /\ IsInjective(pending')
    <3>1. pending \in Seq(Peers) /\ q \notin Range(pending) /\ IsInjective(pending)
      BY <2>1 DEF Typed, ServiceType, Places
    <3> HIDE DEF q
    <3>2. /\ Len(pending') = Len(pending) + 1 /\ Len(pending) \in Nat
          /\ DOMAIN pending = 1 .. Len(pending) /\ DOMAIN pending' = 1 .. Len(pending')
          /\ \A i \in 1 .. Len(pending) : pending'[i] = pending[i]
          /\ pending'[Len(pending) + 1] = q
      BY <2>1, <2>2, <3>1
    <3>3. Range(pending') = Range(pending) \cup {q}
      BY <3>2 DEF Range
    <3>4. IsInjective(pending')
      BY <3>1, <3>2 DEF Range, IsInjective
    <3> QED
      BY <3>3, <3>4
  <2>7. Cardinality(sessions') <= MaxSessions /\ active' = Cardinality(sessions')
    BY <2>2, <2>3, <2>4, <2>5, ServiceAssumption, SMTT(30) DEF Places
  <2>8. Nobody \notin backlog'
    BY <2>2, ServiceAssumption DEF Typed, ServiceType
  <2> HIDE DEF q
  <2> QED
    BY <2>1, <2>2, <2>6, <2>7, <2>8, ServiceAssumption, SMTT(30) DEF Places, Unserved
<1>5. CASE Notify
  <2>1. acceptor'.peer = acceptor.peer /\ UNCHANGED <<registry, backlog, link>>
    BY <1>5 DEF Notify, At, Typed
  <2>2. \A w \in Workers : worker'[w].peer = worker[w].peer
    BY <1>5 DEF Notify, At, Typed
  <2> QED
    BY <2>1, <2>2, PlacesStand
<1> QED
  BY <1>1, <1>2, <1>3, <1>4, <1>5 DEF Acceptor

\* Taking the head of the queue takes it out of the queue.
LEMMA TakeHead ==
    ASSUME pending \in Seq(Peers), IsInjective(pending), pending # << >>
    PROVE  /\ Head(pending) \in Range(pending) /\ Head(pending) \in Peers
           /\ Range(Tail(pending)) = Range(pending) \ {Head(pending)}
           /\ IsInjective(Tail(pending))
<1> DEFINE rest == Tail(pending)
<1>1. /\ Len(pending) \in Nat \ {0} /\ DOMAIN pending = 1 .. Len(pending)
      /\ Head(pending) = pending[1] /\ Head(pending) \in Peers
  OBVIOUS
<1>2. rest \in Seq(Peers) /\ Len(rest) = Len(pending) - 1 /\ \A i \in 1 .. Len(rest) : rest[i] = pending[i + 1]
  OBVIOUS
<1>3. DOMAIN rest = 1 .. Len(rest)
  BY <1>2
<1> HIDE DEF rest
<1>4. Range(rest) = Range(pending) \ {pending[1]}
  <2>1. ASSUME NEW i \in 1 .. Len(pending), pending[i] # pending[1]
        PROVE  i - 1 \in 1 .. Len(rest) /\ rest[i - 1] = pending[i]
    BY <1>1, <1>2, <2>1
  <2>2. ASSUME NEW i \in 1 .. Len(rest)
        PROVE  i + 1 \in 1 .. Len(pending) /\ rest[i] = pending[i + 1] /\ pending[i + 1] # pending[1]
    BY <1>1, <1>2 DEF IsInjective
  <2>3. Range(rest) \subseteq Range(pending) \ {pending[1]}
    BY <1>1, <1>3, <2>2 DEF Range
  <2>4. ASSUME NEW p \in Range(pending), p # pending[1] PROVE p \in Range(rest)
    <3>1. PICK i \in 1 .. Len(pending) : p = pending[i]
      BY <1>1 DEF Range
    <3>2. i - 1 \in DOMAIN rest /\ rest[i - 1] = p
      BY <1>3, <2>1, <2>4, <3>1
    <3> QED
      BY <3>2 DEF Range
  <2> QED
    BY <2>3, <2>4
<1>5. IsInjective(rest)
  <2>1. ASSUME NEW i \in 1 .. Len(rest), NEW j \in 1 .. Len(rest), rest[i] = rest[j]
        PROVE  i = j
    <3>1. i + 1 \in DOMAIN pending /\ j + 1 \in DOMAIN pending /\ pending[i + 1] = pending[j + 1]
      BY <1>1, <1>2, <2>1
    <3>2. i + 1 = j + 1
      BY <3>1 DEF IsInjective
    <3> QED
      BY <3>2
  <2> QED
    BY <1>3, <2>1 DEF IsInjective
<1>6. pending[1] \in Range(pending)
  BY <1>1 DEF Range
<1> QED
  BY <1>1, <1>4, <1>5, <1>6 DEF rest

LEMMA PlacesWorker == ASSUME Typed, Places, NEW w \in Workers, Worker(w) PROVE Places'
<1>1. CASE WorkerLock(w) /\ running /\ pending # << >>
  <2>0. PICK h \in Peers : h = Head(pending)
    BY <1>1, TakeHead DEF Typed, ServiceType, Places
  <2>1. /\ worker' = [worker EXCEPT ![w] = [at |-> "serving", peer |-> h]]
        /\ pending' = Tail(pending)
        /\ UNCHANGED <<sessions, active, backlog, acceptor, link>>
    BY <1>1, <2>0 DEF WorkerLock
  <2>2. /\ h \in Range(pending) /\ h \in Peers /\ Range(pending') = Range(pending) \ {h}
        /\ IsInjective(pending')
    BY <1>1, <2>0, <2>1, TakeHead, SMTT(30) DEF Typed, ServiceType, Places
  <2>3. worker[w].peer = Nobody
    BY <1>1 DEF WorkerLock, Typed
  <2>4. worker'[w].peer = h /\ \A v \in Workers \ {w} : worker'[v].peer = worker[v].peer
    BY <2>1 DEF Typed
  <2>5. h \in sessions /\ Unserved(h) /\ h \notin backlog /\ acceptor.peer # h /\ link[h] # "away"
    BY <2>2 DEF Places
  <2>6. \A p \in Peers \ {h} : Unserved(p) <=> Unserved(p)'
    BY <2>3, <2>4, ServiceAssumption DEF Unserved
  <2>7. \A v, u \in Workers : worker'[v].peer = worker'[u].peer => v = u \/ worker'[v].peer = Nobody
    BY <2>4, <2>5 DEF Places, Unserved
  <2>8. ~Unserved(h)'
    BY <2>4 DEF Unserved
  <2>9. sessions \subseteq Peers /\ Range(pending) \subseteq Peers
    BY DEF Typed, ServiceType, Places
  <2> QED
    BY <2>1, <2>2, <2>5, <2>6, <2>7, <2>8, <2>9 DEF Places
<1>2. CASE WorkerLock(w) /\ ~(running /\ pending # << >>)
  <2>1. UNCHANGED <<registry, backlog, acceptor, link>>
    BY <1>2 DEF WorkerLock, registry
  <2>2. \A v \in Workers : worker'[v].peer = worker[v].peer
    BY <1>2 DEF WorkerLock, At, Typed
  <2> QED
    BY <2>1, <2>2, PlacesStand
<1>3. CASE WorkerWait(w) \/ ServeTop(w) \/ ServeFrame(w) \/ ServeNothing(w)
  <2>1. UNCHANGED <<registry, backlog, acceptor, link>>
    BY <1>3 DEF WorkerWait, ServeTop, ServeFrame, ServeNothing
  <2>2. \A v \in Workers : worker'[v].peer = worker[v].peer
    BY <1>3, SMTT(30) DEF WorkerWait, ServeTop, ServeFrame, ServeNothing, At, Typed
  <2> QED
    BY <2>1, <2>2, PlacesStand
<1>4. CASE Finish(w)
  <2>0. PICK q \in Peers : q = worker[w].peer
    BY <1>4 DEF Finish, Typed
  <2>1. /\ sessions' = sessions \ {q} /\ UNCHANGED <<pending, backlog, acceptor>>
        /\ active' = (IF q \in sessions /\ active > 0 THEN active - 1 ELSE active)
        /\ worker' = [worker EXCEPT ![w] = At("lock")]
        /\ \A p \in Peers : link'[p] = "away" => link[p] = "away"
    BY <1>4, <2>0 DEF Finish, Close
  <2>3. worker'[w].peer = Nobody /\ \A v \in Workers \ {w} : worker'[v].peer = worker[v].peer
    BY <2>1 DEF Typed, At
  <2>4. IsFiniteSet(sessions) /\ Cardinality(sessions) \in Nat
    BY ServiceAssumption, FS_Subset, FS_CardinalityType DEF Typed, ServiceType
  <2>5. Cardinality(sessions') = IF q \in sessions THEN Cardinality(sessions) - 1 ELSE Cardinality(sessions)
    BY <2>1, <2>4, FS_RemoveElement, ZenonT(30)
  <2>6. q \in sessions => Cardinality(sessions) > 0
    BY <2>4, FS_EmptySet
  <2>7. Cardinality(sessions') <= MaxSessions /\ active' = Cardinality(sessions')
    BY <2>1, <2>4, <2>5, <2>6, ServiceAssumption DEF Places
  <2>8. \A p \in Peers \ {q} : Unserved(p) <=> Unserved(p)'
    BY <2>0, <2>3, ServiceAssumption, SMTT(30) DEF Unserved
  <2>9. Unserved(q)' /\ q \notin Range(pending)
    BY <2>0, <2>3, ServiceAssumption DEF Unserved, Places
  <2>10. \A v, u \in Workers : worker'[v].peer = worker'[u].peer => v = u \/ worker'[v].peer = Nobody
    BY <2>3 DEF Places
  <2>11. sessions \subseteq Peers /\ Range(pending) \subseteq Peers
    BY DEF Typed, ServiceType, Places
  <2> QED
    BY <2>1, <2>7, <2>8, <2>9, <2>10, <2>11, SMTT(30) DEF Places
<1> QED
  BY <1>1, <1>2, <1>3, <1>4, SMTT(30) DEF Worker

LEMMA PlacesClient ==
    ASSUME Typed, Places, NEW p \in Peers, Connect(p) \/ Transact(p) \/ DropConnection(p)
    PROVE  Places'
<1>1. CASE Connect(p)
  BY <1>1 DEF Connect, server, registry, Typed, ServiceType, Places, Unserved
<1>2. CASE Transact(p) \/ DropConnection(p)
  BY <1>2, PlacesStand DEF Transact, DropConnection, Close, server
<1> QED
  BY <1>1, <1>2

LEMMA PlacesStep == ASSUME Typed, Places, [Next]_vars PROVE Places'
<1>1. CASE UNCHANGED vars
  BY <1>1, PlacesStand DEF vars
<1> QED
  BY <1>1, PlacesLifecycle, PlacesAcceptor, PlacesWorker, PlacesClient DEF Next

----------------------------------------------------------------------------
\* A step that neither moves nor opens a connection leaves stop() where it is.
LEMMA EmptiedStand ==
    ASSUME Emptied, UNCHANGED <<controller, running, listening, sessions, backlog, closing>>,
           acceptor'.peer = acceptor.peer, acceptor.at = "none" => acceptor'.at = "none",
           \A p \in Peers : link'[p] = "open" => link[p] = "open"
    PROVE  Emptied'
  BY DEF Emptied

LEMMA EmptiedLifecycle ==
    ASSUME Typed, Emptied,
           \/ \E spawned \in 0 .. WorkerCount + 1 : Start(spawned)
           \/ StopFlag \/ Lifecycle
    PROVE  Emptied'
<1>1. ASSUME NEW spawned \in 0 .. WorkerCount + 1, Start(spawned) PROVE Emptied'
  <2>1. controller' \in {"running", "failing"} /\ UNCHANGED <<backlog, closing>> /\ closing = {}
    BY <1>1 DEF Start, Emptied
  <2>2. acceptor.peer = Nobody
    BY <1>1 DEF Start, Emptied, Typed
  <2>3. \A p \in Peers : link'[p] = "open" => link[p] = "open" /\ p \notin sessions
    BY <1>1 DEF Start, Close
  <2> QED
    BY <2>1, <2>2, <2>3, ServiceAssumption, SMTT(30) DEF Emptied
<1>2. CASE StopFlag \/ FailFlag
  BY <1>2 DEF StopFlag, FailFlag, registry, Emptied
<1>3. CASE FailNotify
  BY <1>3, SMTT(30) DEF FailNotify, Close, registry, Emptied, Typed, ServiceType
<1>4. CASE FailJoin \/ StopJoin
  <2>1. acceptor.peer = Nobody /\ acceptor'.peer = Nobody /\ acceptor'.at = "none"
    BY <1>4 DEF FailJoin, StopJoin, Joined, Ended, Absent, Typed
  <2> QED
    BY <1>4, <2>1 DEF FailJoin, StopJoin, registry, Emptied
<1>5. CASE StopRegistry
  BY <1>5 DEF StopRegistry, Emptied
<1>6. CASE StopClose
  BY <1>6 DEF StopClose, Close, registry, Emptied, Typed, ServiceType
<1> QED
  BY <1>1, <1>2, <1>3, <1>4, <1>5, <1>6, SMTT(30) DEF Lifecycle

LEMMA EmptiedAcceptor == ASSUME Typed, Emptied, Acceptor PROVE Emptied'
<1>1. CASE AcceptTop \/ AcceptNothing \/ AdmitFull \/ Notify
  <2>1. /\ acceptor'.peer = acceptor.peer /\ acceptor.at # "none"
        /\ UNCHANGED <<controller, running, listening, registry, backlog, closing, link>>
    BY <1>1 DEF AcceptTop, AcceptNothing, AdmitFull, Notify, At, Typed
  <2> QED
    BY <2>1, EmptiedStand DEF registry
<1>2. ASSUME NEW p \in Peers, Accept(p) PROVE Emptied'
  BY <1>2, ServiceAssumption DEF Accept, registry, Emptied, Typed
<1>3. CASE AdmitRefused \/ Refuse
  <2>1. /\ acceptor'.peer = Nobody /\ acceptor.at # "none"
        /\ UNCHANGED <<controller, running, listening, sessions, backlog, closing>>
        /\ \A p \in Peers : link'[p] = "open" => link[p] = "open" /\ p # acceptor.peer
    BY <1>3 DEF AdmitRefused, Refuse, Close, At, registry
  <2> QED
    BY <2>1, SMTT(30) DEF Emptied
<1>4. CASE Admit
  BY <1>4 DEF Admit, At, Emptied, Typed
<1> QED
  BY <1>1, <1>2, <1>3, <1>4 DEF Acceptor

LEMMA EmptiedWorker == ASSUME Typed, Emptied, NEW w \in Workers, Worker(w) PROVE Emptied'
<1>1. CASE WorkerLock(w) \/ WorkerWait(w) \/ ServeTop(w) \/ ServeFrame(w) \/ ServeNothing(w)
  <2>1. UNCHANGED <<controller, running, listening, sessions, backlog, closing, acceptor, link>>
    BY <1>1 DEF WorkerLock, WorkerWait, ServeTop, ServeFrame, ServeNothing, registry
  <2> QED
    BY <2>1, EmptiedStand
<1>2. CASE Finish(w)
  BY <1>2 DEF Finish, Close, Emptied
<1> QED
  BY <1>1, <1>2 DEF Worker

LEMMA EmptiedClient ==
    ASSUME Typed, Emptied, NEW p \in Peers, Connect(p) \/ Transact(p) \/ DropConnection(p)
    PROVE  Emptied'
<1>1. CASE Connect(p)
  BY <1>1 DEF Connect, server, registry, Emptied, Typed, ServiceType
<1>2. CASE Transact(p) \/ DropConnection(p)
  BY <1>2, EmptiedStand DEF Transact, DropConnection, Close, server, registry
<1> QED
  BY <1>1, <1>2

LEMMA EmptiedStep == ASSUME Typed, Emptied, [Next]_vars PROVE Emptied'
<1>1. CASE UNCHANGED vars
  BY <1>1, EmptiedStand DEF vars, registry
<1> QED
  BY <1>1, EmptiedLifecycle, EmptiedAcceptor, EmptiedWorker, EmptiedClient DEF Next

----------------------------------------------------------------------------
LEMMA ServiceInvariant == Spec => []ServiceInv
<1>1. Init => ServiceInv
  BY TypedInit, PlacesInit DEF Init, ServiceInv, Emptied, Absent
<1>2. ServiceInv /\ [Next]_vars => ServiceInv'
  BY TypedStep, PlacesStep, EmptiedStep DEF ServiceInv
<1> QED
  BY <1>1, <1>2, PTL DEF Spec

\* The session bound holds, active_sessions is exact, and each registered session is
\* queued or has exactly one worker, however accept, finish_session() and stop() meet.
THEOREM Exact == Spec => []RegistryExact
<1>1. ASSUME Typed, Places, NEW p \in sessions
      PROVE  Cardinality(ServedBy(p)) = IF p \in Range(pending) THEN 0 ELSE 1
  <2>1. p # Nobody
    BY <1>1, ServiceAssumption DEF Typed, ServiceType
  <2>2. CASE p \in Range(pending)
    <3>1. ServedBy(p) = {}
      BY <1>1, <2>2 DEF Places, Unserved, ServedBy
    <3> QED
      BY <2>2, <3>1, FS_EmptySet
  <2>3. CASE p \notin Range(pending)
    <3>1. PICK w \in Workers : worker[w].peer = p
      BY <1>1, <2>3 DEF Places, Unserved
    <3>2. ServedBy(p) = {w}
      BY <1>1, <2>1, <3>1 DEF Places, ServedBy
    <3> QED
      BY <2>3, <3>2, FS_Singleton, ZenonT(30)
  <2> QED
    BY <2>2, <2>3
<1>2. ServiceInv => RegistryExact
  BY <1>1 DEF ServiceInv, RegistryExact, Typed, Places
<1> QED
  BY <1>2, ServiceInvariant, PTL

\* service.hpp on stop(): once it has returned, no session and no open connection is left,
\* whatever was being accepted, refused, queued or served when it was called.
THEOREM Quiet == Spec => []StoppedIsQuiet
<1>1. ServiceInv => StoppedIsQuiet
  BY ServiceAssumption DEF ServiceInv, Typed, Emptied, StoppedIsQuiet
<1> QED
  BY <1>1, ServiceInvariant, PTL
=============================================================================
