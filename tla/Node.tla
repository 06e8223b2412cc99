------------------------------- MODULE Node -------------------------------
(***************************************************************************)
(* The participant processes of tools/shuffle-fabric-node.cpp: one producer *)
(* that publishes every partition and serves its chunks over one data       *)
(* connection at a time, and consumers that poll the coordinator for waves, *)
(* fetch, verify and commit.  The coordinator is the record `co`, and a      *)
(* call of CoordinatorClient is one step: it is served and answered, or the  *)
(* client gives up, drops the connection, and the request may still be       *)
(* served later.  Processes may die and start again as new incarnations.     *)
(***************************************************************************)
EXTENDS Naturals, Sequences, FiniteSetsExt

CONSTANTS
    Nodes,           \* consumer identifiers
    Partitions,
    Selects,         \* --partitions of each consumer; the producer selects them all
    ChunkCount,      \* chunks of each manifest
    MaxAttempts,     \* RetryPolicy::max_attempts
    GrantsPerWave,
    MaxIdleWaves,    \* --max-idle-waves
    MaxWaves,        \* kMaxWaves
    MaxPublishPasses, \* kMaxPublishPasses
    FaultModes,      \* of a producer process, among "none", "corrupt", "truncate"
    Duplicating,     \* nodes run with --fault-duplicate-frame
    Probing,         \* nodes run with --fault-stale-incarnation
    MaxFaults,       \* bound on what goes wrong: see Faults
    Silent           \* nodes that may stop taking steps and keep their connections

ASSUME NodeAssumption ==
    /\ ChunkCount \in Nat \ {0} /\ MaxAttempts \in Nat \ {0} /\ GrantsPerWave \in Nat \ {0}
    /\ MaxWaves \in Nat \ {0} /\ MaxPublishPasses \in Nat \ {0, 1}
    /\ IsFiniteSet(Nodes) /\ IsFiniteSet(Partitions) /\ Partitions \subseteq Nat
    /\ Selects \in [Nodes -> SUBSET Partitions]

VARIABLES
    co,          \* the coordinator
    late,        \* requests whose client gave up and that may still be served
    node,        \* the consumer processes
    link,        \* the data connection each consumer has open
    producer,    \* the producer process
    faults       \* how often each of Faults happened

vars == <<co, late, node, link, producer, faults>>

\* A call given up on, a consumer or the producer dying, a faulty producer, a cancellation.
Faults == {"lost", "restart", "death", "faulty", "cancel"}
Happens(fault) ==
    /\ MapThenSumSet(LAMBDA f : faults[f], Faults) < MaxFaults
    /\ faults' = [faults EXCEPT ![fault] = @ + 1]

Codes == {"Ok", "Cancelled", "StaleAttempt", "StaleIncarnation", "StaleGeneration", "UnknownPartition",
          "DivergentCommit", "InvalidState", "ConnectionFailure", "SessionClosed", "AmbiguousOutcome", "DigestMismatch",
          "TruncatedInput", "DuplicateFrame", "AttemptSuperseded"}

\* classify()
Retriable == {"ConnectionFailure", "SessionClosed", "AmbiguousOutcome"}
TerminalRefusalOfAll(code) == TRUE            \* mutant: every refusal is counted as terminal
\* terminal_refusal()
TerminalRefusal(code) == code \notin Retriable

----------------------------------------------------------------------------
(***************************************************************************)
(* The coordinator.  An edge is a consumer and a partition of the accepted   *)
(* generation; re-production starts its edges afresh.                        *)
(***************************************************************************)
Edges == {e \in Nodes \X Partitions : e[2] \in Selects[e[1]]}

NewEdge == [status |-> "pending", attempts |-> 0]

\* The answers of a call: the coordinator after it, a code, and what a wave grants.
Answer(s, code) == [co |-> s, code |-> code, grants |-> {}, all |-> FALSE, permanent |-> FALSE]

Eligible(s) ==
    {e \in Edges :
        /\ s.member[e[1]] # 0 /\ s.generation[e[2]] # 0 /\ s.maker[e[2]] = s.boot
        /\ s.edge[e].status = "pending"
        /\ \A g \in s.grants :
               ~(g.consumer = e[1] /\ g.partition = e[2] /\ g.generation = s.generation[e[2]])}

Resolved(s) == {e \in Edges : s.member[e[1]] # 0 /\ s.edge[e].status # "pending"}
Required(s) == {e \in Edges : s.member[e[1]] # 0}
NoteCompletion(s) ==
    IF s.state = "Open" /\ Resolved(s) = Required(s) THEN [s EXCEPT !.state = "Completed"] ELSE s

\* A wave grants what it can hold of the eligible edges, in one order or another.
\* A plan that grants nothing may say all_resolved too early: module Scheduler.
FullWaves(s) ==
    {w \in SUBSET Eligible(s) :
        \/ Cardinality(w) = GrantsPerWave
        \/ w = Eligible(s) /\ Cardinality(w) < GrantsPerWave}
\* A grant is told from the others by its edge and its ordinal, as by its attempt number.
Granted(s, w) ==
    {[consumer |-> e[1], incarnation |-> s.member[e[1]],
      partition |-> e[2], generation |-> s.generation[e[2]], boot |-> s.boot,
      ordinal |-> s.edge[e].attempts + 1] : e \in w}
NextWave(s) ==
    IF s.state = "Completed" THEN {[Answer(s, "Ok") EXCEPT !.all = TRUE]}
    ELSE IF s.state # "Open" THEN {Answer(s, "Cancelled")}
    ELSE UNION {{[Answer([s EXCEPT !.grants = @ \cup Granted(s, w)], "Ok")
                     EXCEPT !.grants = Granted(s, w), !.all = all] :
                 all \in IF w = {} THEN BOOLEAN ELSE {FALSE}} : w \in FullWaves(s)}

\* ensure_open()
NotOpen(s) == Answer(s, IF s.state = "Cancelled" THEN "Cancelled" ELSE "InvalidState")

\* A registration that is not a repetition moves the topology generation, and every
\* accepted manifest then names an earlier one.
RegisterConsumer(s, r) ==
    IF s.state # "Open" THEN NotOpen(s)
    ELSE IF s.member[r.node] = r.incarnation THEN Answer(s, "Ok")
    ELSE Answer([s EXCEPT !.member[r.node] = r.incarnation, !.dated = Partitions], "Ok")
RegisterProducer(s, r) ==
    IF s.state # "Open" THEN NotOpen(s)
    ELSE Answer([s EXCEPT !.boot = r.boot, !.dated = Partitions], "Ok")

\* publish_manifest(): the topology generation it is given is part of the manifest, so the
\* accepted one, offered again after a registration, is a different one.
PublishManifest(s, r) ==
    LET p == r.partition
    IN  IF s.state # "Open" THEN NotOpen(s)
        ELSE IF s.boot # r.boot THEN Answer(s, "StaleIncarnation")
        ELSE IF s.generation[p] > r.generation THEN Answer(s, "StaleGeneration")
        ELSE IF s.generation[p] < r.generation
        THEN Answer([s EXCEPT !.generation[p] = r.generation, !.maker[p] = r.boot, !.dated = @ \ {p},
                              !.edge = [e \in Edges |-> IF e[2] = p THEN NewEdge ELSE s.edge[e]]], "Ok")
        ELSE Answer(s, IF s.maker[p] = r.boot /\ p \notin s.dated THEN "Ok" ELSE "DivergentCommit")

\* commit_transfer(): the attempt, then both ends' authority, then the manifest.
CommitTransfer(s, r) ==
    LET g == r.grant
        e == <<g.consumer, g.partition>>
    IN  IF s.state = "Cancelled" THEN Answer(s, "Cancelled")
        ELSE IF g \notin s.grants THEN Answer(s, "StaleAttempt")
        ELSE IF s.state # "Open" THEN Answer(s, "InvalidState")
        ELSE IF s.member[g.consumer] # g.incarnation \/ s.boot # g.boot THEN Answer(s, "StaleIncarnation")
        ELSE IF s.generation[g.partition] # g.generation THEN Answer(s, "StaleGeneration")
        ELSE IF r.evidence # [k \in 1 .. ChunkCount |-> [chunk |-> k, intact |-> TRUE]]
             THEN Answer(s, "DigestMismatch")
        ELSE Answer(NoteCompletion([s EXCEPT !.edge[e].status = "completed",
                                             !.grants = @ \ {g},
                                             !.book = @ \cup {[grant |-> g, content |-> r.content]}]),
                    "Ok")

\* report_failure(): by the number of the attempt, whoever asks.
ReportFailure(s, r) ==
    LET g == r.grant
        e == <<g.consumer, g.partition>>
        current == s.generation[g.partition] = g.generation
        permanent == r.code \notin Retriable \/ g.ordinal >= MaxAttempts
    IN  IF r.code = "DuplicateFrame" THEN Answer(s, "InvalidState")
        ELSE IF s.state = "Cancelled" THEN Answer(s, "Cancelled")
        ELSE IF g \notin s.grants THEN Answer(s, "StaleAttempt")
        ELSE IF s.state # "Open" THEN Answer(s, "InvalidState")
        ELSE [Answer(NoteCompletion(
                  [s EXCEPT !.edge[e] = IF ~current THEN @
                                        ELSE [status |-> IF permanent THEN "failed" ELSE @.status,
                                              attempts |-> g.ordinal],
                            !.grants = @ \ {g}]), "Ok") EXCEPT !.permanent = permanent]

\* manifest_of(): the digest stands for the generation and the incarnation it names.
ManifestOf(s, r) ==
    Answer(s, IF s.generation[r.grant.partition] = r.grant.generation THEN "Ok" ELSE "StaleGeneration")

Served(s, r) ==
    CASE r.kind = "register" -> {RegisterConsumer(s, r)}
      [] r.kind = "producer" -> {RegisterProducer(s, r)}
      [] r.kind = "publish"  -> {PublishManifest(s, r)}
      [] r.kind = "wave"     -> NextWave(s)
      [] r.kind = "manifest" -> {ManifestOf(s, r)}
      [] r.kind = "commit"   -> {CommitTransfer(s, r)}
      [] r.kind = "failure"  -> {ReportFailure(s, r)}

\* A request that reaches the coordinator after its client gave up on it.
ServeLate ==
    \E r \in late :
        /\ \E a \in Served(co, r) : co' = a.co
        /\ late' = late \ {r}
        /\ UNCHANGED <<node, link, producer, faults>>

CancelShuffle ==
    /\ co.state = "Open" /\ Happens("cancel")
    /\ co' = [co EXCEPT !.state = "Cancelled", !.grants = {}]
    /\ UNCHANGED <<late, node, link, producer>>

----------------------------------------------------------------------------
(***************************************************************************)
(* CoordinatorClient::transact().  A client that is not connected refuses    *)
(* the call itself; one that waited in vain drops its connection.            *)
(***************************************************************************)
GaveUp(code) == Answer(co, code)

Asked(r, connected, a) ==
    \/ ~connected /\ a = GaveUp("SessionClosed") /\ co' = co /\ late' = late /\ faults' = faults
    \/ connected /\ a \in Served(co, r) /\ co' = a.co /\ late' = late /\ faults' = faults
    \/ /\ connected /\ a = GaveUp("ConnectionFailure") /\ Happens("lost")
       /\ co' = co /\ late' = late \cup {x \in {r} : x.kind # "manifest"}
Answers(r, connected) ==
    IF ~connected THEN {GaveUp("SessionClosed")}
    ELSE Served(co, r) \cup {GaveUp("ConnectionFailure")}
Connected(connected, a) == connected /\ a.code # "ConnectionFailure"

----------------------------------------------------------------------------
(***************************************************************************)
(* The consumer process.                                                     *)
(***************************************************************************)
NoGrant == [consumer |-> "none"]
Fresh(incarnation) ==
    [at |-> "off", incarnation |-> incarnation, superseded |-> 0, connected |-> TRUE,
     wave |-> {}, own |-> FALSE, grant |-> NoGrant, code |-> "Ok", got |-> <<>>, first |-> <<>>, taken |-> {},
     duplicate |-> FALSE, terminal_edges |-> 0, observed |-> 0, committed |-> 0, failed |-> 0,
     incomplete |-> 0, idle |-> 0, waves |-> 0, probed |-> FALSE, last |-> NoGrant,
     impossible |-> FALSE, terminal |-> "none"]

NoLink == [open |-> FALSE, request |-> 0, of |-> NoGrant, answer |-> <<>>]

\* What is left of a process is what it says when it ends.
Ended(n, terminal) ==
    [Fresh(n.incarnation) EXCEPT
        !.at = "ended", !.terminal = terminal, !.connected = n.connected, !.taken = n.taken,
        !.terminal_edges = n.terminal_edges, !.observed = n.observed, !.committed = n.committed,
        !.failed = n.failed, !.incomplete = n.incomplete, !.impossible = n.impossible]

\* The head of run()'s loop, and its foot once every grant of the wave is dealt with.
AtHead(c, n) ==
    IF Selects[c] # {} /\ n.terminal_edges >= Cardinality(Selects[c]) THEN Ended(n, "work_done")
    ELSE [n EXCEPT !.at = "poll", !.own = FALSE]
Turned(c, n) ==
    IF n.wave # {} THEN [n EXCEPT !.at = "wave"]
    ELSE IF ~n.own /\ n.idle + 1 >= MaxIdleWaves THEN Ended(n, "idle")
    ELSE IF n.waves = MaxWaves THEN Ended(n, "wave_limit")
    ELSE AtHead(c, [n EXCEPT !.idle = IF n.own THEN 0 ELSE @ + 1])

\* setup(): connect, register, progress.
Setup(c) ==
    LET n == node[c]
        r == [kind |-> "register", node |-> c, incarnation |-> n.incarnation]
    IN  /\ n.at = "off"
        /\ \E a \in Answers(r, TRUE) :
               /\ Asked(r, TRUE, a)
               /\ node' = [node EXCEPT ![c] = IF a.code = "Ok" THEN AtHead(c, n)
                                              ELSE Ended(n, "setup_failed")]
        /\ UNCHANGED <<link, producer>>

Planned(c, n, a) ==
    IF a.code = "Cancelled" THEN Ended(n, "cancelled")
    ELSE IF a.code # "Ok" THEN Ended(n, "coordinator_lost")
    ELSE IF a.all THEN Ended(n, "all_resolved")
    ELSE Turned(c, [n EXCEPT !.waves = @ + 1, !.wave = a.grants])
Poll(c) ==
    LET n == node[c]
        r == [kind |-> "wave", node |-> c]
    IN  /\ n.at = "poll"
        /\ \E a \in Answers(r, n.connected) :
               /\ Asked(r, n.connected, a)
               /\ node' = [node EXCEPT ![c] = Planned(c, [n EXCEPT !.connected = Connected(@, a)], a)]
        /\ UNCHANGED <<link, producer>>

Mine(c, g) == g.consumer = c /\ g.incarnation \in {node[c].incarnation, node[c].superseded}

Failure(c, g, code) == [kind |-> "failure", node |-> c, grant |-> g, code |-> code]

IgnoreForeign(c, g) ==                        \* mutant: a foreign grant is only skipped
    /\ node[c].at = "wave" /\ g \in node[c].wave /\ ~Mine(c, g)
    /\ node' = [node EXCEPT ![c] = Turned(c, [@ EXCEPT !.wave = @ \ {g}])]
    /\ UNCHANGED <<co, late, link, producer, faults>>
\* hand_back(): the grant of another consumer.
HandBack(c, g) ==
    LET n == node[c]
        r == Failure(c, g, "AmbiguousOutcome")
    IN  /\ n.at = "wave" /\ g \in n.wave /\ ~Mine(c, g)
        /\ \E a \in Answers(r, n.connected) :
               /\ Asked(r, n.connected, a)
               /\ node' = [node EXCEPT ![c] =
                      Turned(c, [n EXCEPT !.connected = Connected(@, a), !.wave = @ \ {g}])]
        /\ UNCHANGED <<link, producer>>

\* What the properties remember of the grants a process took for itself.
Took(taken, g) == taken \cup {[partition |-> g.partition, generation |-> g.generation]}

\* process(), up to the connection fetch() opens.  No call of the coordinator is between the
\* two, and a producer that cannot be reached then never can: its address is the grant's.
Reachable(g) == producer.at \in {"publishing", "serving"} /\ producer.boot = g.boot
Begin(c, g) ==
    LET n == node[c]
        r == [kind |-> "manifest", node |-> c, grant |-> g]
    IN  /\ n.at = "wave" /\ g \in n.wave /\ Mine(c, g) /\ n.superseded = 0
        /\ \E a \in Answers(r, n.connected) :
               LET code == IF a.code = "Ok" /\ ~Reachable(g) THEN "ConnectionFailure" ELSE a.code
               IN  /\ Asked(r, n.connected, a)
                   /\ node' = [node EXCEPT ![c] =
                          [n EXCEPT !.connected = Connected(@, a), !.wave = @ \ {g}, !.own = TRUE,
                                    !.grant = g, !.taken = Took(@, g), !.observed = @ + 1, !.got = <<>>,
                                    !.code = code, !.at = IF code = "Ok" THEN "reading" ELSE "report"]]
                   /\ link' = IF code # "Ok" THEN link
                              ELSE [link EXCEPT ![c] = [NoLink EXCEPT !.open = TRUE, !.request = 1, !.of = g]]
        /\ UNCHANGED producer

\* The next iteration over the grants, or the probe after a commit.
AfterGrant(c, n) ==
    LET m == [n EXCEPT !.grant = NoGrant, !.got = <<>>, !.first = <<>>, !.code = "Ok"]
    IN  IF c \in Probing /\ ~n.probed /\ n.committed > 0 THEN [m EXCEPT !.at = "probe"] ELSE Turned(c, m)

\* report_failure() of the node.
Reported(n, a) ==
    IF a.code = "Ok"
    THEN [n EXCEPT !.failed = @ + 1,
                   !.terminal_edges = IF a.permanent \/ TerminalRefusal(n.code) THEN @ + 1 ELSE @]
    ELSE [n EXCEPT !.incomplete = @ + 1]
Report(c) ==
    LET n == node[c]
        r == Failure(c, n.grant, n.code)
    IN  /\ n.at = "report"
        /\ \E a \in Answers(r, n.connected) :
               /\ Asked(r, n.connected, a)
               /\ node' = [node EXCEPT ![c] =
                      AfterGrant(c, Reported([n EXCEPT !.connected = Connected(@, a)], a))]
        /\ UNCHANGED <<link, producer>>

\* The rest of process(): the completion is offered with the evidence gathered.
CommittedUnheard(n, a) ==                     \* mutant: counted before the answer is known
    [n EXCEPT !.committed = @ + 1, !.terminal_edges = @ + 1]
Committed(n, a) ==
    IF a.code = "Ok" THEN [n EXCEPT !.committed = @ + 1, !.terminal_edges = @ + 1, !.last = n.grant]
    ELSE [n EXCEPT !.failed = @ + 1,
                   !.terminal_edges = IF TerminalRefusal(a.code) THEN @ + 1 ELSE @]

\* sha256() of the bytes received; the answer also carries the digest the manifest declares.
ObservedClaim(answer) == [chunk |-> answer.chunk, intact |-> TRUE]    \* mutant: the claim is trusted
Observed(answer) == [chunk |-> answer.chunk, intact |-> answer.intact]
Completion(c, g, got) ==
    [kind |-> "commit", node |-> c, grant |-> g, content |-> got,
     evidence |-> [k \in DOMAIN got |-> Observed(got[k])]]
Commit(c) ==
    LET n == node[c]
        r == Completion(c, n.grant, n.got)
    IN  /\ n.at = "commit"
        /\ \E a \in Answers(r, n.connected) :
               /\ Asked(r, n.connected, a)
               /\ node' = [node EXCEPT ![c] =
                      AfterGrant(c, Committed([n EXCEPT !.connected = Connected(@, a)], a))]
        /\ UNCHANGED <<link, producer>>

----------------------------------------------------------------------------
(***************************************************************************)
(* fetch(): one request and one answer per chunk, over a connection of its   *)
(* own.  Giving up on a read is always possible: kReadBudgetMs.              *)
(***************************************************************************)
\* The producer between two connections, and once its process is gone.
Severed == [c \in Nodes |-> [link[c] EXCEPT !.open = FALSE, !.request = 0]]
Idle == [producer EXCEPT !.serving = "none", !.last = 0, !.answer = <<>>, !.pass = 0, !.todo = {},
                         !.current = {}, !.previous = {}]
Gone(at) == [Idle EXCEPT !.at = at, !.fault = "none", !.published = {}]

\* The socket is closed, which ends serve_connection(): the producer only waits for it.
HangUp(c) ==
    /\ link' = [link EXCEPT ![c] = NoLink]
    /\ producer' = IF producer.serving = c THEN Idle ELSE producer
FetchFailed(c, code) ==
    /\ HangUp(c)
    /\ node' = [node EXCEPT ![c].at = "report", ![c].code = code]

\* --fault-duplicate-frame: the same request again, before the answer is used.
Resend(c, answer) ==
    /\ node' = [node EXCEPT ![c].duplicate = TRUE, ![c].first = <<answer>>]
    /\ link' = [link EXCEPT ![c].request = Len(node[c].got) + 1, ![c].answer = <<>>]
    /\ UNCHANGED producer
Mismatch(c) ==
    /\ HangUp(c)
    /\ node' = [node EXCEPT ![c].at = "report", ![c].code = "DuplicateFrame", ![c].impossible = TRUE]
Accepted(answer, chunk) == answer.chunk = chunk /\ Observed(answer).intact
Keep(c, answer) ==
    LET got == Append(node[c].got, answer)
    IN  IF Len(got) = ChunkCount
        THEN HangUp(c) /\ node' = [node EXCEPT ![c].got = got, ![c].at = "commit"]
        ELSE /\ node' = [node EXCEPT ![c].got = got, ![c].first = <<>>]
             /\ link' = [link EXCEPT ![c].request = Len(got) + 1, ![c].answer = <<>>]
             /\ UNCHANGED producer
Read(c) ==
    LET n == node[c]
        answer == link[c].answer[1]
    IN  /\ n.at = "reading" /\ link[c].answer # <<>>
        /\ IF answer.code = "TruncatedInput" THEN FetchFailed(c, answer.code)
           ELSE IF c \in Duplicating /\ ~n.duplicate THEN Resend(c, answer)
           ELSE IF n.first # <<>> /\ n.first # <<answer>> THEN Mismatch(c)
           ELSE IF answer.code # "Ok" THEN FetchFailed(c, answer.code)
           ELSE IF ~Accepted(answer, Len(n.got) + 1) THEN FetchFailed(c, "DigestMismatch")
           ELSE Keep(c, answer)
        /\ UNCHANGED <<co, late, faults>>
ReadFails(c) ==
    /\ node[c].at = "reading" /\ link[c].answer = <<>>
    /\ FetchFailed(c, "ConnectionFailure")
    /\ UNCHANGED <<co, late, faults>>

----------------------------------------------------------------------------
(***************************************************************************)
(* probe_stale_incarnation(): a second session supersedes this one, and the   *)
(* last completion is offered again through the first.  Every later grant of  *)
(* this consumer is then resolved as superseded.                              *)
(***************************************************************************)
Superseding(c, n, a) ==
    [n EXCEPT !.impossible = CommitTransfer(a.co, Completion(c, n.last, n.got)).code = "Ok",
              !.superseded = n.incarnation, !.incarnation = @ + 1, !.connected = TRUE]
Probe(c) ==
    LET n == [node[c] EXCEPT !.probed = TRUE]
        r == [kind |-> "register", node |-> c, incarnation |-> n.incarnation + 1]
    IN  /\ node[c].at = "probe"
        /\ IF ~n.connected \/ co.state # "Open"
           THEN node' = [node EXCEPT ![c] = Turned(c, n)] /\ UNCHANGED <<co, late, faults>>
           ELSE \E a \in Answers(r, TRUE) :
                    /\ Asked(r, TRUE, a)
                    /\ node' = [node EXCEPT ![c] =
                           Turned(c, IF a.code = "Ok" THEN Superseding(c, n, a) ELSE n)]
        /\ UNCHANGED <<link, producer>>

ResolveSuperseded(c, g) ==
    LET n == node[c]
        r == Failure(c, g, "AttemptSuperseded")
    IN  /\ n.at = "wave" /\ g \in n.wave /\ Mine(c, g) /\ n.superseded # 0
        /\ \E a \in Answers(r, n.connected) :
               /\ Asked(r, n.connected, a)
               /\ node' = [node EXCEPT ![c] =
                      Turned(c, [Reported([n EXCEPT !.connected = Connected(@, a),
                                                    !.code = "AttemptSuperseded"], a)
                                     EXCEPT !.code = "Ok", !.wave = @ \ {g}, !.own = TRUE,
                                            !.taken = Took(@, g), !.observed = @ + 1])]
        /\ UNCHANGED <<link, producer>>

\* The process dies, and a new one starts with a fresh incarnation.
Restart(c) ==
    /\ node[c].at \notin {"off", "ended"} /\ Happens("restart")
    /\ node' = [node EXCEPT ![c] = Fresh(node[c].incarnation + 2)]
    /\ HangUp(c)
    /\ UNCHANGED <<co, late>>

----------------------------------------------------------------------------
(***************************************************************************)
(* The producer process.  Its listener is bound before it publishes, and     *)
(* serve() takes one connection after the other.                             *)
(***************************************************************************)
\* setup(): a new incarnation registers and supersedes the one before it.
Joined(code, fault) ==
    IF code = "Ok" THEN [Idle EXCEPT !.at = "publishing", !.boot = @ + 1, !.fault = fault,
                                     !.published = {}, !.todo = Partitions]
    ELSE Gone("ended")
Boot(fault) ==
    LET r == [kind |-> "producer", boot |-> producer.boot + 1]
    IN  /\ producer.at = "off"
        /\ \E a \in Answers(r, TRUE) :
               /\ IF fault = "none" THEN Asked(r, TRUE, a)
                  ELSE a \in Served(co, r) /\ co' = a.co /\ late' = late /\ Happens("faulty")
               /\ producer' = Joined(a.code, fault)
        /\ UNCHANGED <<node, link>>

\* publish_one(): its own generation again, or the one after another incarnation's; and the
\* next one when that is answered with DivergentCommit.
Publication(p) ==
    LET first == [kind |-> "publish", partition |-> p, boot |-> producer.boot,
                  generation |-> IF co.maker[p] = producer.boot THEN co.generation[p]
                                 ELSE co.generation[p] + 1]
    IN  IF PublishManifest(co, first).code = "DivergentCommit"
        THEN [first EXCEPT !.generation = @ + 1] ELSE first

\* The end of a pass of publish_phase(): the passes go on until two of them agree.
Passed(q) ==
    LET settled == q.pass > 0 /\ q.current = q.previous
    IN  IF q.todo # {} THEN q
        ELSE IF ~settled /\ q.pass + 1 < MaxPublishPasses
        THEN [q EXCEPT !.pass = @ + 1, !.todo = Partitions, !.previous = q.current, !.current = {}]
        ELSE [q EXCEPT !.at = IF q.published = {} THEN "ended" ELSE "serving", !.pass = 0,
                       !.current = {}, !.previous = {}, !.impossible = ~settled]
\* A publication that went unanswered is the last: every later call is refused, and the
\* process stops as soon as it asks for the state.
PublishOne ==
    LET p == Min(producer.todo)
        r == Publication(p)
        q == [producer EXCEPT !.todo = @ \ {p}]
    IN  /\ producer.at = "publishing"
        /\ \E a \in Answers(r, TRUE) :
               /\ Asked(r, TRUE, a)
               /\ producer' = IF a.code = "ConnectionFailure" THEN Gone("ended")
                              ELSE IF a.code # "Ok" THEN Passed(q)
                              ELSE Passed([q EXCEPT !.current = @ \cup {p},
                                                    !.published = @ \cup {<<p, r.generation>>}])
        /\ link' = IF producer'.at = "ended" THEN Severed ELSE link
        /\ UNCHANGED node

\* serve(), when the shuffle is over or the state cannot be asked for.
StopServing ==
    /\ producer.at = "serving" /\ producer.serving = "none"
    /\ IF co.state = "Open" THEN Happens("lost") ELSE UNCHANGED faults
    /\ producer' = Gone("ended")
    /\ link' = Severed
    /\ UNCHANGED <<co, late, node>>

\* serve_chunk()
Chunk(request) ==
    [code |-> IF <<request.of.partition, request.of.generation>> \notin producer.published
              THEN "UnknownPartition"
              ELSE IF producer.fault = "truncate" /\ request.request = ChunkCount
              THEN "TruncatedInput" ELSE "Ok",
     partition |-> request.of.partition, generation |-> request.of.generation,
     chunk |-> request.request,
     intact |-> ~(producer.fault = "corrupt" /\ request.request = ChunkCount)]

ReplayAnyway(request) ==                      \* mutant: the sequences are not compared
    IF producer.last # 0 THEN producer.answer[1] ELSE Chunk(request)
ReplyTo(request) ==
    IF request.request = producer.last THEN producer.answer[1] ELSE Chunk(request)
\* serve_connection(), for one request: a repeated sequence gets the same answer, and
\* after a truncated answer the connection is shut down.
Respond(c) ==
    LET answer == ReplyTo(link[c])
    IN  /\ link' = [link EXCEPT ![c].request = 0, ![c].answer = <<answer>>,
                                ![c].open = answer.code # "TruncatedInput"]
        /\ producer' = IF answer.code = "TruncatedInput" THEN Idle
                       ELSE [producer EXCEPT !.serving = c, !.last = link[c].request, !.answer = <<answer>>]
        /\ UNCHANGED <<co, late, node, faults>>
\* serve(): the state is asked for before every accept.  The first request of a connection
\* is sent when it is opened.
Accept(c) ==
    /\ producer.at = "serving" /\ producer.serving = "none" /\ co.state = "Open"
    /\ link[c].open
    /\ Respond(c)
ServeRequest ==
    /\ producer.at = "serving" /\ producer.serving \in Nodes
    /\ link[producer.serving].request # 0
    /\ Respond(producer.serving)
HoldWhileOpen ==                              \* mutant: an idle connection is kept
    producer.serving \in Nodes /\ UNCHANGED vars
\* No request within kReadBudgetMs: recv_some() says NoWorkAvailable, which ends the
\* connection as any other failure does.
DropIdle ==
    LET c == producer.serving
    IN  /\ producer.at = "serving" /\ c \in Nodes
        /\ link[c].request = 0
        /\ link' = [link EXCEPT ![c].open = FALSE]
        /\ producer' = Idle
        /\ UNCHANGED <<co, late, node, faults>>

Die ==
    /\ producer.at \in {"publishing", "serving"} /\ Happens("death")
    /\ producer' = Gone("off")
    /\ link' = Severed
    /\ UNCHANGED <<co, late, node>>

----------------------------------------------------------------------------
Init ==
    /\ co = [state |-> "Open", edge |-> [e \in Edges |-> NewEdge],
             grants |-> {}, generation |-> [p \in Partitions |-> 0],
             maker |-> [p \in Partitions |-> 0], boot |-> 0, dated |-> {},
             member |-> [c \in Nodes |-> 0], book |-> {}]
    /\ late = {}
    /\ node = [c \in Nodes |-> Fresh(1)]
    /\ link = [c \in Nodes |-> NoLink]
    /\ producer = [at |-> "off", boot |-> 0, fault |-> "none", published |-> {}, serving |-> "none",
                   last |-> 0, answer |-> <<>>, pass |-> 0, todo |-> {}, current |-> {}, previous |-> {},
                   impossible |-> FALSE]
    /\ faults = [f \in Faults |-> 0]

NodeStep(c) ==
    \/ Setup(c) \/ Poll(c)
    \/ \E g \in node[c].wave : HandBack(c, g) \/ Begin(c, g) \/ ResolveSuperseded(c, g)
    \/ Read(c) \/ ReadFails(c)
    \/ Commit(c) \/ Report(c) \/ Probe(c)

ProducerStep ==
    \/ \E fault \in FaultModes : Boot(fault)
    \/ PublishOne
    \/ \E c \in Nodes : Accept(c)
    \/ StopServing
    \/ ServeRequest
    \/ DropIdle

Next ==
    \/ \E c \in Nodes : NodeStep(c) \/ Restart(c)
    \/ ProducerStep
    \/ Die
    \/ ServeLate
    \/ CancelShuffle

\* Every process that is not stopped from outside keeps running.
Fairness == WF_vars(ProducerStep) /\ \A c \in Nodes \ Silent : WF_vars(NodeStep(c))
Spec == Init /\ [][Next]_vars /\ Fairness

----------------------------------------------------------------------------
\* The types of the processes' members.
NodeType ==
    /\ co.state \in {"Open", "Completed", "Cancelled"}
    /\ \A g \in co.grants : g.ordinal \in 1 .. MaxAttempts
    /\ \A c \in Nodes :
        /\ node[c].at \in {"off", "poll", "wave", "reading", "report", "commit", "probe", "ended"}
        /\ node[c].code \in Codes
        /\ Len(node[c].got) <= ChunkCount
        /\ node[c].waves <= MaxWaves /\ node[c].idle <= MaxIdleWaves
        /\ link[c].request \in 0 .. ChunkCount /\ Len(link[c].answer) <= 1
    /\ producer.at \in {"off", "publishing", "serving", "ended"}
    /\ producer.serving \in Nodes \cup {"none"}

\* fetch() and commit_transfer(): what the coordinator records as completed was read in
\* full, chunk by chunk, undamaged, and of the very generation that was granted, however
\* often the producer was replaced and whatever its connections did.
BooksAreIntact ==
    \A entry \in co.book :
        /\ Len(entry.content) = ChunkCount
        /\ \A k \in 1 .. ChunkCount :
               /\ entry.content[k].chunk = k /\ entry.content[k].intact
               /\ entry.content[k].partition = entry.grant.partition
               /\ entry.content[k].generation = entry.grant.generation

\* serve_connection() and fetch(): the answer waiting for a consumer is the answer to the
\* request it is waiting for, although fetch() does not look at the sequence of a reply
\* and a request may be sent twice.
AnswersInStep ==
    \A c \in Nodes :
        node[c].at = "reading" /\ link[c].answer # <<>> =>
            /\ link[c].answer[1].chunk = Len(node[c].got) + 1
            /\ link[c].answer[1].partition = node[c].grant.partition
            /\ link[c].answer[1].generation = node[c].grant.generation

\* main(): when a consumer ends, every grant it took is counted once, as committed, failed
\* or incomplete, and it never claims a completion the coordinator has not recorded.
AccountsClose ==
    NodeType /\ \A c \in Nodes :
        LET n == node[c]
        IN  /\ n.at = "ended" => n.committed + n.failed + n.incomplete = n.observed
            /\ n.committed <= Cardinality({entry \in co.book : entry.grant.consumer = c})
            /\ ~n.impossible /\ ~producer.impossible

\* run(): a consumer that stops because its work is done leaves no edge of its own open,
\* unless a partition it took was produced again or its producer was replaced since, the
\* shuffle was cancelled, or another incarnation took its place.
StillProduced(t) == co.generation[t.partition] = t.generation /\ co.maker[t.partition] = co.boot
WorkDoneIsResolved ==
    \A c \in Nodes :
        /\ node[c].at = "ended" /\ node[c].terminal = "work_done"
        /\ \A t \in node[c].taken : StillProduced(t)
        /\ faults["cancel"] = 0 /\ co.member[c] = node[c].incarnation
        => \A p \in Selects[c] : co.edge[<<c, p>>].status # "pending"

\* run(): "Every edge this node was required to move has reached a terminal outcome".  It is
\* not so when the partition was produced again while it was fetched: the refused commit is
\* counted, and the edge of the new generation stays open.
DoneIsTerminal ==
    \A c \in Nodes :
        node[c].at = "ended" /\ node[c].terminal = "work_done" =>
            \A p \in Selects[c] : co.edge[<<c, p>>].status # "pending"

\* hand_back(), report_failure() and commit_transfer(): when all consumers have stopped, the
\* attempts that still hold an edge of what is produced now are at most those of one wave
\* for each call that was given up on and each consumer that died.
NothingStranded ==
    (\A c \in Nodes : node[c].at = "ended") =>
        Cardinality({g \in co.grants : StillProduced(g)})
            <= GrantsPerWave * (faults["lost"] + faults["restart"])

\* run() and serve_connection(): every consumer process comes to its end, whatever the
\* coordinator and the producer do; and when the shuffle is over so does the producer, even
\* if a peer that connected and then says nothing still holds its connection.
RunsEnd ==
    <>[](/\ \A c \in Nodes \ Silent : node[c].at = "ended"
         /\ co.state # "Open" => producer.at = "ended")

=============================================================================
