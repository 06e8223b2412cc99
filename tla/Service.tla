------------------------------ MODULE Service ------------------------------
(***************************************************************************)
(* The threads of CoordinatorServer (src/service.cpp): start() and stop(),   *)
(* the acceptor, the worker pool with its queue and condition variable, and  *)
(* the clients that connect, ask and leave.  What a session does with a      *)
(* frame is Session.tla; here a request is asked and answered.               *)
(*                                                                           *)
(* A critical section of state_mutex_ is one step.  The exception is a       *)
(* worker that finds nothing to do: it keeps the mutex from the evaluation   *)
(* of its predicate until it waits, and only those who take the mutex are    *)
(* kept out in between.  Spurious wake-ups, which could only help, are left  *)
(* out.  Calls of start() and stop() are serialised by lifecycle_mutex_, and *)
(* stop() is not called from a worker (the service calls no user code).      *)
(***************************************************************************)
EXTENDS Integers, Sequences, FiniteSets, FiniteSetsExt

CONSTANTS
    Peers,           \* clients, each with one connection
    MaxSessions,     \* max_sessions_
    WorkerThreads,   \* ServerOptions::worker_threads
    MaxStarts        \* bound of the model: calls of start()

Nobody == "nobody"

ASSUME ServiceAssumption ==
    /\ IsFiniteSet(Peers) /\ Nobody \notin Peers
    /\ MaxSessions \in Nat \ {0} /\ WorkerThreads \in Nat \ {0}

WorkersAsAsked == WorkerThreads               \* mutant: the pool is not raised
WorkerCount == Max({WorkerThreads, MaxSessions})
Workers == 1 .. WorkerCount

VARIABLES
    controller,  \* where the caller of start() and stop() is
    starts,      \* history: calls of start()
    running,     \* running_
    listening,   \* listener_ is open
    backlog,     \* connections the listener has not accepted
    acceptor,    \* accept_loop(): [at, peer]
    worker,      \* worker_loop(): worker -> [at, peer]
    holder,      \* the worker that holds state_mutex_ across two steps, or 0
    sessions,    \* sessions_, a session being its peer
    pending,     \* pending_
    active,      \* stats_.active_sessions
    closing,     \* the sessions stop() took out of the registry
    link,        \* connection of each peer: "away", "open" or "closed"
    asking       \* peers that wait for an answer

registry == <<sessions, pending, active>>
vars == <<controller, starts, running, listening, backlog, acceptor, worker, holder, registry,
          closing, link, asking>>

Absent == [at |-> "none", peer |-> Nobody]
At(place) == [at |-> place, peer |-> Nobody]
Ended == {"none", "exited"}

Init ==
    /\ controller = "stopped" /\ starts = 0
    /\ running = FALSE /\ listening = FALSE /\ backlog = {}
    /\ acceptor = Absent /\ worker = [w \in Workers |-> Absent] /\ holder = 0
    /\ sessions = {} /\ pending = << >> /\ active = 0 /\ closing = {}
    /\ link = [p \in Peers |-> "away"] /\ asking = {}

----------------------------------------------------------------------------
(***************************************************************************)
(* Sockets and the condition variable.                                      *)
(***************************************************************************)
\* The connections of these peers are closed; nobody waits on a closed connection.
Close(peers) ==
    /\ link' = [p \in Peers |-> IF p \in peers THEN "closed" ELSE link[p]]
    /\ asking' = asking \ peers

\* work_ready_.notify_all()
WakeAll ==
    worker' = [w \in Workers |-> IF worker[w].at = "waiting" THEN At("lock") ELSE worker[w]]

----------------------------------------------------------------------------
(***************************************************************************)
(* start(): the acceptor is spawned first, then the workers.  When a thread *)
(* cannot be spawned, those that were are told to end, and joined.          *)
(***************************************************************************)
Start(spawned) ==
    /\ controller \in {"stopped", "failed"} /\ starts < MaxStarts
    /\ starts' = starts + 1
    /\ running' = TRUE /\ listening' = TRUE
    /\ sessions' = {} /\ pending' = << >> /\ active' = 0
    /\ Close(sessions)
    /\ acceptor' = IF spawned > 0 THEN At("top") ELSE Absent
    /\ worker' = [w \in Workers |-> IF w < spawned THEN At("lock") ELSE Absent]
    /\ controller' = IF spawned = WorkerCount + 1 THEN "running" ELSE "failing"
    /\ UNCHANGED <<backlog, holder, closing>>

\* The flag is stored without state_mutex_.
FailFlag ==
    /\ controller = "failing"
    /\ controller' = "notifying"
    /\ running' = FALSE
    /\ UNCHANGED <<starts, listening, backlog, acceptor, worker, holder, registry, closing, link, asking>>

FailNotify ==
    /\ controller = "notifying"
    /\ controller' = "abandoning"
    /\ listening' = FALSE /\ backlog' = {}
    /\ Close(backlog)
    /\ WakeAll
    /\ UNCHANGED <<starts, running, acceptor, holder, registry, closing>>

Joined == acceptor.at \in Ended /\ \A w \in Workers : worker[w].at \in Ended
FailJoin ==
    /\ controller = "abandoning" /\ Joined
    /\ controller' = "failed"
    /\ acceptor' = Absent /\ worker' = [w \in Workers |-> Absent]
    /\ UNCHANGED <<starts, running, listening, backlog, holder, registry, closing, link, asking>>

----------------------------------------------------------------------------
(***************************************************************************)
(* stop()                                                                   *)
(***************************************************************************)
StopFlag ==
    /\ controller \in {"running", "failed"}
    /\ controller' = "stopping"
    /\ running' = FALSE
    /\ UNCHANGED <<starts, listening, backlog, acceptor, worker, holder, registry, closing, link, asking>>

StopUnlocked ==                               \* mutant: the registry is emptied without the mutex
    /\ controller = "stopping"
    /\ controller' = "closing"
    /\ closing' = sessions
    /\ sessions' = {} /\ pending' = << >> /\ active' = 0
    /\ UNCHANGED <<starts, running, listening, backlog, acceptor, worker, holder, link, asking>>
StopRegistry ==
    /\ controller = "stopping" /\ holder = 0
    /\ controller' = "closing"
    /\ closing' = sessions
    /\ sessions' = {} /\ pending' = << >> /\ active' = 0
    /\ UNCHANGED <<starts, running, listening, backlog, acceptor, worker, holder, link, asking>>

StopListener ==                               \* mutant: sessions are left to their workers
    /\ controller = "closing"
    /\ controller' = "joining"
    /\ listening' = FALSE /\ backlog' = {} /\ closing' = {}
    /\ Close(backlog)
    /\ WakeAll
    /\ UNCHANGED <<starts, running, acceptor, holder, registry>>
StopClose ==
    /\ controller = "closing"
    /\ controller' = "joining"
    /\ listening' = FALSE /\ backlog' = {} /\ closing' = {}
    /\ Close(backlog \cup closing)
    /\ WakeAll
    /\ UNCHANGED <<starts, running, acceptor, holder, registry>>

StopJoin ==
    /\ controller = "joining" /\ Joined
    /\ controller' = "stopped"
    /\ acceptor' = Absent /\ worker' = [w \in Workers |-> Absent]
    /\ UNCHANGED <<starts, running, listening, backlog, holder, registry, closing, link, asking>>

----------------------------------------------------------------------------
(***************************************************************************)
(* accept_loop()                                                            *)
(***************************************************************************)
AcceptTop ==
    /\ acceptor.at = "top"
    /\ acceptor' = At(IF running THEN "wait" ELSE "exited")
    /\ UNCHANGED <<controller, starts, running, listening, backlog, worker, holder, registry, closing,
                   link, asking>>

\* accept() returns a connection, or fails: the listener is closed, or the bounded
\* wait expired.
Accept(p) ==
    /\ acceptor.at = "wait" /\ p \in backlog
    /\ backlog' = backlog \ {p}
    /\ acceptor' = [at |-> "admit", peer |-> p]
    /\ UNCHANGED <<controller, starts, running, listening, worker, holder, registry, closing, link,
                   asking>>
AcceptTimesOut ==                             \* mutant: an expired wait ends the acceptor
    /\ acceptor.at = "wait" /\ backlog = {}
    /\ acceptor' = At("exited")
    /\ UNCHANGED <<controller, starts, running, listening, backlog, worker, holder, registry, closing,
                   link, asking>>
AcceptNothing ==
    /\ acceptor.at = "wait" /\ backlog = {}
    /\ acceptor' = At(IF listening THEN "top" ELSE "exited")
    /\ UNCHANGED <<controller, starts, running, listening, backlog, worker, holder, registry, closing,
                   link, asking>>

\* Under the mutex: running_ again, the session bound, and the registration.
AdmitRefused ==
    /\ acceptor.at = "admit" /\ holder = 0
    /\ ~running
    /\ acceptor' = At("exited")
    /\ Close({acceptor.peer})
    /\ UNCHANGED <<controller, starts, running, listening, backlog, worker, holder, registry, closing>>
FullBeyond == Cardinality(sessions) > MaxSessions        \* mutant: one too many
Full == Cardinality(sessions) >= MaxSessions
AdmitFull ==
    /\ acceptor.at = "admit" /\ holder = 0
    /\ running /\ Full
    /\ acceptor' = [acceptor EXCEPT !.at = "refuse"]
    /\ UNCHANGED <<controller, starts, running, listening, backlog, worker, holder, registry, closing,
                   link, asking>>
Admit ==
    /\ acceptor.at = "admit" /\ holder = 0
    /\ running /\ ~Full
    /\ sessions' = sessions \cup {acceptor.peer}
    /\ pending' = Append(pending, acceptor.peer)
    /\ active' = active + 1
    /\ acceptor' = At("notify")
    /\ UNCHANGED <<controller, starts, running, listening, backlog, worker, holder, closing, link, asking>>

\* work_ready_.notify_one()
Notify ==
    LET waiting == {w \in Workers : worker[w].at = "waiting"}
    IN  /\ acceptor.at = "notify"
        /\ acceptor' = At("top")
        /\ IF waiting = {} THEN UNCHANGED worker
           ELSE \E w \in waiting : worker' = [worker EXCEPT ![w] = At("lock")]
        /\ UNCHANGED <<controller, starts, running, listening, backlog, holder, registry, closing, link,
                       asking>>

\* refuse_socket(): the refusal, then a drain until the peer closes or is silent.
Refuse ==
    /\ acceptor.at = "refuse"
    /\ Close({acceptor.peer})
    /\ acceptor' = At("top")
    /\ UNCHANGED <<controller, starts, running, listening, backlog, worker, holder, registry, closing>>

----------------------------------------------------------------------------
(***************************************************************************)
(* worker_loop(), serve() and finish_session()                              *)
(***************************************************************************)
WorkerLock(w) ==
    /\ worker[w].at = "lock" /\ holder = 0
    /\ IF ~running
       THEN worker' = [worker EXCEPT ![w] = At("exited")] /\ UNCHANGED <<holder, pending>>
       ELSE IF pending = << >>
       THEN worker' = [worker EXCEPT ![w] = At("blocking")] /\ holder' = w /\ UNCHANGED pending
       ELSE /\ worker' = [worker EXCEPT ![w] = [at |-> "serving", peer |-> Head(pending)]]
            /\ pending' = Tail(pending)
            /\ UNCHANGED holder
    /\ UNCHANGED <<controller, starts, running, listening, backlog, acceptor, sessions, active, closing,
                   link, asking>>

WorkerWait(w) ==
    /\ worker[w].at = "blocking"
    /\ worker' = [worker EXCEPT ![w] = At("waiting")]
    /\ holder' = 0
    /\ UNCHANGED <<controller, starts, running, listening, backlog, acceptor, registry, closing, link,
                   asking>>

\* The top of serve(): the shutdown flag.
ServeTop(w) ==
    /\ worker[w].at = "serving"
    /\ worker' = [worker EXCEPT ![w].at = IF running THEN "reading" ELSE "finishing"]
    /\ UNCHANGED <<controller, starts, running, listening, backlog, acceptor, holder, registry, closing,
                   link, asking>>

\* A frame is handled and answered, the bounded wait expires, or the connection is
\* closed by either side.
ServeFrame(w) ==
    /\ worker[w].at = "reading" /\ worker[w].peer \in asking
    /\ asking' = asking \ {worker[w].peer}
    /\ worker' = [worker EXCEPT ![w].at = "serving"]
    /\ UNCHANGED <<controller, starts, running, listening, backlog, acceptor, holder, registry, closing,
                   link>>
ServeNothing(w) ==
    /\ worker[w].at = "reading" /\ worker[w].peer \notin asking
    /\ worker' = [worker EXCEPT ![w].at =
                     IF link[worker[w].peer] = "open" THEN "serving" ELSE "finishing"]
    /\ UNCHANGED <<controller, starts, running, listening, backlog, acceptor, holder, registry, closing,
                   link, asking>>

Finish(w) ==
    /\ worker[w].at = "finishing" /\ holder = 0
    /\ sessions' = sessions \ {worker[w].peer}
    /\ active' = IF worker[w].peer \in sessions /\ active > 0 THEN active - 1 ELSE active
    /\ Close({worker[w].peer})
    /\ worker' = [worker EXCEPT ![w] = At("lock")]
    /\ UNCHANGED <<controller, starts, running, listening, backlog, acceptor, holder, pending, closing>>

----------------------------------------------------------------------------
(***************************************************************************)
(* CoordinatorClient: connect(), a request, and the end of the connection   *)
(* (close(), or drop_connection() when no reply arrives in time).           *)
(***************************************************************************)
server == <<controller, starts, running, listening, acceptor, worker, holder, registry, closing>>

Connect(p) ==
    /\ link[p] = "away" /\ listening
    /\ link' = [link EXCEPT ![p] = "open"]
    /\ backlog' = backlog \cup {p}
    /\ asking' = asking \cup {p}              \* the handshake
    /\ UNCHANGED server

Transact(p) ==
    /\ link[p] = "open" /\ p \notin asking
    /\ asking' = asking \cup {p}
    /\ UNCHANGED <<server, backlog, link>>

DropConnection(p) ==
    /\ link[p] = "open"
    /\ Close({p})
    /\ UNCHANGED <<server, backlog>>

----------------------------------------------------------------------------
Acceptor ==
    \/ AcceptTop
    \/ \E p \in Peers : Accept(p)
    \/ AcceptNothing
    \/ AdmitRefused
    \/ AdmitFull
    \/ Admit
    \/ Notify
    \/ Refuse
Worker(w) ==
    WorkerLock(w) \/ WorkerWait(w) \/ ServeTop(w) \/ ServeFrame(w) \/ ServeNothing(w) \/ Finish(w)
Lifecycle == FailFlag \/ FailNotify \/ FailJoin \/ StopRegistry \/ StopClose \/ StopJoin
Next ==
    \/ \E spawned \in 0 .. WorkerCount + 1 : Start(spawned)
    \/ StopFlag
    \/ Lifecycle
    \/ Acceptor
    \/ \E w \in Workers : Worker(w)
    \/ \E p \in Peers : Connect(p) \/ Transact(p) \/ DropConnection(p)

\* Threads run.  Nobody is obliged to call stop(), and no client to ask or to leave,
\* but that a refused client stops sending (Refuse), as refuse_socket() supposes.
Fairness == WF_vars(Lifecycle) /\ WF_vars(Acceptor) /\ \A w \in Workers : WF_vars(Worker(w))
Spec == Init /\ [][Next]_vars /\ Fairness

----------------------------------------------------------------------------
\* The types of the server's members.
ServiceType ==
    /\ running \in BOOLEAN /\ listening \in BOOLEAN /\ holder \in Workers \cup {0}
    /\ backlog \subseteq Peers /\ sessions \subseteq Peers /\ asking \subseteq Peers
    /\ pending \in Seq(Peers)
    /\ active \in Nat
    /\ link \in [Peers -> {"away", "open", "closed"}]

\* The registry, the queue and the workers account for each session once: while the
\* server runs, a registered session is queued or has exactly one worker, never both,
\* the bound holds and the statistic is exact.
ServedBy(p) == {w \in Workers : worker[w].peer = p}
RegistryExact ==
    /\ ServiceType
    /\ Cardinality(sessions) <= MaxSessions /\ active = Cardinality(sessions)
    /\ Range(pending) \subseteq sessions /\ IsInjective(pending)
    /\ controller = "running" => \A p \in sessions :
           Cardinality(ServedBy(p)) = IF p \in Range(pending) THEN 0 ELSE 1

\* service.hpp: stop() "stops accepting, wakes and closes sessions, joins every
\* worker".  Once it has returned, whatever was being accepted, queued or served
\* when it was called, no connection is left open for a client to wait on.
StoppedIsQuiet ==
    controller = "stopped" => ~listening /\ sessions = {} /\ \A p \in Peers : link[p] # "open"

\* service.hpp: the pool serves "every admitted session concurrently".  An admitted
\* client that asks is answered, or its connection ends, though every other client
\* keeps its connection and is silent.
AdmittedAnswered ==
    \A p \in Peers : (controller = "running" /\ p \in sessions /\ p \in asking) ~> (p \notin asking)

\* A client in the backlog is admitted, refused or closed: neither refusals nor a
\* concurrent stop() leave it waiting.
ConnectedDecided == \A p \in Peers : (p \in backlog) ~> (p \notin backlog)

\* stop() returns: no worker misses the wake-up on its way to wait, and no thread
\* waits for another that waits for it.
StopReturns == (controller = "stopping") ~> (controller = "stopped")

\* The same of start(), when a thread cannot be spawned.
StartReturns == (controller = "failing") ~> (controller = "failed")
=============================================================================
