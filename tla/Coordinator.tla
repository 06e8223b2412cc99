----------------------------- MODULE Coordinator -----------------------------
(***************************************************************************)
(* The shuffle coordinator (src/coordinator.cpp) with its topology          *)
(* (src/topology.cpp), the eligibility rules of the wave scheduler          *)
(* (src/schedule.cpp), and the durable history it recovers from.            *)
(*                                                                          *)
(* Every operation validates, persists a record, applies it and answers.    *)
(* `core' is what the records determine; grants are memory only.  `stored'  *)
(* is the scratch coordinator that replaying the durable snapshot and       *)
(* journal would build now: replay is a left fold of apply_record, so a     *)
(* persisted record applies to `stored' at once.  A record that cannot be   *)
(* persisted, and a refused call, change nothing and are stuttering steps.  *)
(*                                                                          *)
(* Data abstractions.  A manifest is its generation and producing           *)
(* incarnation, and stands for its digest.  The endpoint is left out: a     *)
(* consumer that changes it is one that changes its selection, a producer   *)
(* that changes it is refused.  So is the logical clock: limits, pressure   *)
(* and retry waits only choose which eligible edges a wave grants, and a    *)
(* wave of several grants is several waves of one.  Completion evidence is  *)
(* what the manifest demands (anything else is refused).  The topology      *)
(* generation a manifest is stamped with is left out: it only turns some    *)
(* identical re-publications, which change nothing, into refusals.  The     *)
(* ledger is the resolved edges of Ledger.tla with retention never reached. *)
(***************************************************************************)
EXTENDS Integers, FiniteSets, Sequences, Enumeration

CONSTANTS
    Producers, Consumers,  \* disjoint identifiers, ordered
    PartitionCount,
    Selections,            \* the partition sets a consumer may ask for
    MaxIncarnation, MaxGeneration,
    MaxAttempts,           \* RetryPolicy::max_attempts
    ReportedStates,        \* what set_participant_state() is called with
    CompactFinished,       \* may a finished shuffle be snapshotted?
    MaxGrants,             \* bound of the model: attempts of one process
    MaxOpens,              \* bound of the model: the epoch a shuffle is opened below
    MaxCompactions, MaxCrashes

Partitions == 0 .. PartitionCount - 1
Members == Producers \cup Consumers
Edges == Partitions \X (1 .. MaxGeneration) \X Consumers
States == {"Pending", "Active", "Suspect", "Failed", "Withdrawn"}
Finished == {"Completed", "Cancelled"}

ASSUME CoordinatorAssumption ==
    /\ IsFiniteSet(Members) /\ Producers \cap Consumers = {} /\ Members \subseteq Nat
    /\ PartitionCount \in Nat \ {0}
    /\ Selections \subseteq (SUBSET Partitions) \ {{}} /\ Selections # {}
    /\ MaxAttempts \in Nat \ {0}
    /\ MaxIncarnation \in Nat /\ MaxGeneration \in Nat
    /\ MaxGrants \in Nat /\ MaxOpens \in Nat /\ MaxCompactions \in Nat /\ MaxCrashes \in Nat
    /\ CompactFinished \in BOOLEAN
    /\ ReportedStates \subseteq States

VARIABLES
    up,           \* is a coordinator process serving?
    core,         \* the coordinator members that records determine
    stored,       \* the scratch coordinator of recover(), before demotion
    grants,       \* grants_ and the attempts_ of the scheduler
    next_attempt, \* next_attempt_id_ of the scheduler
    issued,       \* every grant ever handed to a consumer
    acked,        \* history: edges whose completion was acknowledged
    cancelled,    \* history: a cancellation was acknowledged
    demoted,      \* history: members whose last change of state is a restart's demotion
    crossed,      \* history: kinds of report that resolved an attempt of another epoch
    compactions, crashes

history == <<acked, cancelled, demoted, crossed>>
bounds == <<compactions, crashes>>
vars == <<up, core, stored, grants, next_attempt, issued, history, bounds>>

NoManifest == [generation |-> 0, producer |-> 0, incarnation |-> 0]
Fresh ==
    [ok         |-> TRUE,          \* FALSE: a record was refused
     state      |-> "Closed",
     topology   |-> FALSE,         \* topology_ has a value
     epoch      |-> 0,
     members    |-> [m \in Members |->
                       [incarnation |-> 0, state |-> "Pending", selection |-> {}]],
     manifests  |-> [p \in Partitions |-> NoManifest],
     completed  |-> {},            \* edges <<partition, generation, consumer>>
     failed     |-> {},
     attempts   |-> [e \in Edges |-> 0],  \* what the failure records state
     unrevalidated |-> {}]

Init ==
    /\ up = TRUE /\ core = Fresh /\ stored = Fresh
    /\ grants = {} /\ next_attempt = 1 /\ issued = {}
    /\ acked = {} /\ cancelled = FALSE /\ demoted = {} /\ crossed = {}
    /\ compactions = 0 /\ crashes = 0

----------------------------------------------------------------------------
(***************************************************************************)
(* Topology.                                                                *)
(***************************************************************************)
HoldsAuthority(s, m) == s.members[m].state = "Active"
Registered(s, m) == s.members[m].incarnation # 0
ActiveProducers(s) == {m \in Producers : HoldsAuthority(s, m)}

\* owner_of(): the active producers in ascending order, by partition modulo.
HasOwner(s) == ActiveProducers(s) # {}
Owner(s, p) == Nth(ActiveProducers(s), (p % Cardinality(ActiveProducers(s))) + 1)

\* counts_toward_requirement(): liveness never removes a required edge.
Required(s) ==
    {e \in Partitions \X Consumers :
        /\ Registered(s, e[2]) /\ s.members[e[2]].state # "Withdrawn"
        /\ e[1] \in s.members[e[2]].selection}

\* register_producer() and register_consumer().
RegisterIn(s, m, incarnation, selection) ==
    IF s.members[m].incarnation = incarnation /\ s.members[m].selection = selection
    THEN s
    ELSE [s EXCEPT !.members[m] = [incarnation |-> incarnation, state |-> "Active",
                                   selection |-> selection]]

\* set_producer_state() and set_consumer_state().
SetState(s, m, state) == [s EXCEPT !.members[m].state = state]

----------------------------------------------------------------------------
(***************************************************************************)
(* apply_record(): one operator for each kind of record.                    *)
(***************************************************************************)
Refused(s) == [s EXCEPT !.ok = FALSE]

ApplyEpoch(s, r) == IF r.epoch > s.epoch THEN [s EXCEPT !.epoch = r.epoch] ELSE s

ApplyShuffleState(s, r) ==
    IF r.state = "Open" /\ s.state \in Finished THEN Refused(s)
    ELSE [s EXCEPT !.state = r.state, !.topology = @ \/ r.state = "Open"]

FreshReturn(s, r) ==
    Registered(s, r.id) /\ r.incarnation # s.members[r.id].incarnation
ApplyParticipant(s, r) ==
    IF ~s.topology THEN Refused(s)
    ELSE LET registered == RegisterIn(s, r.id, r.incarnation, r.selection)
             set == IF r.state = "Active" THEN registered
                    ELSE SetState(registered, r.id, r.state)
         IN  [set EXCEPT !.unrevalidated = IF FreshReturn(s, r) THEN @ \ {r.id} ELSE @]

\* The checks publish_manifest() and apply_manifest() share.
Older(s, p, manifest) == manifest.generation < s.manifests[p].generation
NeverDivergent(s, p, manifest) == FALSE      \* mutant: the last manifest wins
Divergent(s, p, manifest) ==
    manifest.generation = s.manifests[p].generation /\ manifest # s.manifests[p]

ApplyManifest(s, r) ==
    IF ~s.topology \/ Older(s, r.partition, r.manifest) \/ Divergent(s, r.partition, r.manifest)
    THEN Refused(s)
    ELSE [s EXCEPT !.manifests[r.partition] = r.manifest]

\* A completion for a retired generation is refused by the ledger.
ApplyCommit(s, r) ==
    IF r.edge[2] < s.manifests[r.edge[1]].generation THEN Refused(s)
    ELSE [s EXCEPT !.completed = @ \cup {r.edge}]

ApplyFailure(s, r) ==
    [s EXCEPT !.attempts[r.edge] = r.attempts,
              !.failed = IF r.permanent THEN @ \cup {r.edge} ELSE @]

Apply(s, r) ==
    IF ~s.ok THEN s
    ELSE CASE r.kind = "epoch"       -> ApplyEpoch(s, r)
           [] r.kind = "state"       -> ApplyShuffleState(s, r)
           [] r.kind = "participant" -> ApplyParticipant(s, r)
           [] r.kind = "manifest"    -> ApplyManifest(s, r)
           [] r.kind = "commit"      -> ApplyCommit(s, r)
           [] r.kind = "failure"     -> ApplyFailure(s, r)

EpochRecord(s) == [kind |-> "epoch", epoch |-> s.epoch + 1]
StateRecord(state) == [kind |-> "state", state |-> state]
ParticipantRecord(m, incarnation, state, selection) ==
    [kind |-> "participant", id |-> m, incarnation |-> incarnation, state |-> state,
     selection |-> selection]

\* A sequence of records is applied one after the other.
Replay(s, records) ==
    LET after[i \in 0 .. Len(records)] ==
            IF i = 0 THEN s ELSE Apply(after[i - 1], records[i])
    IN  after[Len(records)]

\* commit_record(): persist, then apply.
CommitRecord(r) == stored' = Apply(stored, r) /\ core' = Apply(core, r)

----------------------------------------------------------------------------
(***************************************************************************)
(* Lifecycle and participants.                                              *)
(***************************************************************************)
Serving == up /\ core.state = "Open" /\ core.topology   \* ensure_open()

\* open_shuffle(): the epoch record, then the Open record, which may fail.
OpenShuffle ==
    /\ up /\ core.state = "Closed"
    /\ \E opened \in BOOLEAN :
           LET epoch == EpochRecord(core)
               open  == StateRecord("Open")
           IN  /\ core.epoch < MaxOpens
               /\ core' = IF opened THEN Apply(Apply(core, epoch), open) ELSE Apply(core, epoch)
               /\ stored' = IF opened THEN Apply(Apply(stored, epoch), open)
                                      ELSE Apply(stored, epoch)
    /\ UNCHANGED <<up, grants, next_attempt, issued, history, bounds>>

\* register_producer() and register_consumer().  A process registers with its own
\* incarnation, which is fresh, or current when a registration is repeated or
\* changed; that a superseded process does not register again is assumed.
Register(m, incarnation, selection) ==
    LET known == core.members[m]
        repeated == known.incarnation = incarnation /\ known.selection = selection
    IN  /\ Serving
        /\ incarnation >= known.incarnation
        /\ selection \in IF m \in Producers THEN {{}} ELSE Selections
        /\ CommitRecord(ParticipantRecord(m, incarnation, "Active", selection))
        /\ demoted' = IF repeated THEN demoted ELSE demoted \ {m}
        /\ UNCHANGED <<up, grants, next_attempt, issued, acked, cancelled, crossed, bounds>>

\* set_participant_state(), for the current incarnation.
SetParticipantState(m, state) ==
    /\ Serving
    /\ Registered(core, m)
    /\ CommitRecord(ParticipantRecord(m, core.members[m].incarnation, state,
                                      core.members[m].selection))
    /\ demoted' = IF state = "Active" THEN demoted ELSE demoted \ {m}
    /\ UNCHANGED <<up, grants, next_attempt, issued, acked, cancelled, crossed, bounds>>

\* publish_manifest(), by the owner.
PublishManifest(p, generation) ==
    LET producer == Owner(core, p)
        manifest == [generation |-> generation, producer |-> producer,
                     incarnation |-> core.members[producer].incarnation]
    IN  /\ Serving
        /\ HasOwner(core)
        /\ ~Older(core, p, manifest) /\ ~Divergent(core, p, manifest)
        /\ CommitRecord([kind |-> "manifest", partition |-> p, manifest |-> manifest])
        /\ UNCHANGED <<up, grants, next_attempt, issued, history, bounds>>

CancelBeforeDurable ==                       \* mutant: applied and answered, not persisted
    /\ Serving
    /\ core' = Apply(core, StateRecord("Cancelled"))
    /\ grants' = {}
    /\ cancelled' = TRUE
    /\ UNCHANGED <<up, stored, next_attempt, issued, acked, demoted, crossed, bounds>>
\* cancel_shuffle().  Applying the record abandons every attempt.
CancelShuffle ==
    /\ Serving
    /\ CommitRecord(StateRecord("Cancelled"))
    /\ grants' = {}
    /\ cancelled' = TRUE
    /\ UNCHANGED <<up, next_attempt, issued, acked, demoted, crossed, bounds>>

----------------------------------------------------------------------------
(***************************************************************************)
(* Waves, completions and failures.                                         *)
(***************************************************************************)
EdgeOf(g) == <<g.partition, g.manifest.generation, g.consumer>>
AttemptsOf(e) == core.attempts[e]            \* edge_status()

\* The producing incarnation still owns the partition and holds authority.
Dispatchable(p, manifest) ==
    /\ HasOwner(core)
    /\ Owner(core, p) = manifest.producer
    /\ core.members[manifest.producer].incarnation = manifest.incarnation

EligibleInFlight(p, c) ==                    \* mutant: in-flight edges are not skipped
    LET edge == <<p, core.manifests[p].generation, c>>
    IN  /\ <<p, c>> \in Required(core)
        /\ core.manifests[p] # NoManifest
        /\ Dispatchable(p, core.manifests[p])
        /\ edge \notin core.completed \cup core.failed
        /\ HoldsAuthority(core, c)
\* The edges next_wave() does not skip.
Eligible(p, c) ==
    LET manifest == core.manifests[p]
        edge == <<p, manifest.generation, c>>
    IN  /\ <<p, c>> \in Required(core)
        /\ manifest # NoManifest
        /\ Dispatchable(p, manifest)
        /\ edge \notin core.completed \cup core.failed
        /\ AttemptsOf(edge) < MaxAttempts
        /\ \A g \in grants : EdgeOf(g) # edge
        /\ HoldsAuthority(core, c)

NextWave(p, c) ==
    LET edge  == <<p, core.manifests[p].generation, c>>
        grant == [attempt |-> next_attempt, partition |-> p, manifest |-> core.manifests[p],
                  consumer |-> c, consumer_incarnation |-> core.members[c].incarnation,
                  ordinal |-> AttemptsOf(edge) + 1,
                  epoch |-> core.epoch]      \* history: not part of the grant
    IN  /\ Serving
        /\ Eligible(p, c)
        /\ next_attempt =< MaxGrants
        /\ grants' = grants \cup {grant}
        /\ issued' = issued \cup {grant}
        /\ next_attempt' = next_attempt + 1
        /\ UNCHANGED <<up, core, stored, history, bounds>>

\* note_completion(): every required edge is resolved, by count.
Current(s, edges) == {e \in edges : e[2] = s.manifests[e[1]].generation}
ClosesOnHistory(s) ==                        \* mutant: retired generations are counted
    /\ s.state = "Open"
    /\ Cardinality(s.completed) + Cardinality(s.failed) >= Cardinality(Required(s))
Closes(s) ==
    /\ s.state = "Open"
    /\ Cardinality(Current(s, s.completed)) + Cardinality(Current(s, s.failed))
           >= Cardinality(Required(s))

\* A completion or a failure becomes durable and is applied, its grant is erased,
\* and the Completed record follows when the shuffle closes; that the Completed
\* record cannot be persisted is ignored.
Resolve(g, r) ==
    /\ \E closed \in BOOLEAN :
           LET done == StateRecord("Completed")
               both == closed /\ Closes(Apply(core, r))
           IN  /\ core' = IF both THEN Apply(Apply(core, r), done) ELSE Apply(core, r)
               /\ stored' = IF both THEN Apply(Apply(stored, r), done) ELSE Apply(stored, r)
    /\ grants' = grants \ {g}

\* What a completion must agree on with the grant it claims.
Claims(report, g) ==
    /\ report.partition = g.partition /\ report.consumer = g.consumer
    /\ report.manifest = g.manifest
    /\ report.consumer_incarnation = g.consumer_incarnation

\* Both ends hold authority now, under the incarnations of the grant.
ConsumerCurrent(g) ==
    /\ HoldsAuthority(core, g.consumer)
    /\ core.members[g.consumer].incarnation = g.consumer_incarnation

\* commit_transfer(): a consumer reports the completion of a grant it was handed,
\* now or before a restart, once or several times.
CommitTransfer(report, g) ==
    /\ Serving
    /\ g.attempt = report.attempt
    /\ Claims(report, g)
    /\ ConsumerCurrent(g)
    /\ Dispatchable(g.partition, g.manifest)
    /\ core.manifests[g.partition] = g.manifest
    /\ Resolve(g, [kind |-> "commit", edge |-> EdgeOf(g)])
    /\ acked' = acked \cup {EdgeOf(g)}
    /\ crossed' = IF report.epoch = g.epoch THEN crossed ELSE crossed \cup {"commit"}
    /\ UNCHANGED <<up, next_attempt, issued, cancelled, demoted, bounds>>

\* report_failure(): names the attempt only.  An authority refusal is permanent.
ReportFailure(report, g, class) ==
    /\ Serving
    /\ g.attempt = report.attempt
    /\ Resolve(g, [kind |-> "failure", edge |-> EdgeOf(g), attempts |-> g.ordinal,
                   permanent |-> class = "Permanent" \/ g.ordinal >= MaxAttempts])
    /\ crossed' = IF report.epoch = g.epoch THEN crossed ELSE crossed \cup {"failure"}
    /\ UNCHANGED <<up, next_attempt, issued, acked, cancelled, demoted, bounds>>

----------------------------------------------------------------------------
(***************************************************************************)
(* Snapshots, crashes and recovery.                                         *)
(***************************************************************************)
\* snapshot_payload(): the records of the current state and the encoding of the
\* ledger; recover() applies the records and then decodes the ledger.
ActiveRecord(s, m) ==                        \* mutant: the state is not written
    ParticipantRecord(m, s.members[m].incarnation, "Active", s.members[m].selection)
RecordOf(s, m) ==
    ParticipantRecord(m, s.members[m].incarnation, s.members[m].state, s.members[m].selection)
MemberRecords(s) ==
    LET registered == Ascending({m \in Members : Registered(s, m)})
    IN  [i \in DOMAIN registered |-> RecordOf(s, registered[i])]
ManifestRecords(s) ==
    LET produced == Ascending({p \in Partitions : s.manifests[p] # NoManifest})
    IN  [i \in DOMAIN produced |-> [kind |-> "manifest", partition |-> produced[i],
                                    manifest |-> s.manifests[produced[i]]]]
Replayed(s) ==
    LET epoch == Apply(Fresh, [kind |-> "epoch", epoch |-> s.epoch])
        state == IF s.state = "Closed" THEN epoch ELSE Apply(epoch, StateRecord(s.state))
    IN  Replay(Replay(state, MemberRecords(s)), ManifestRecords(s))
SnapshotNoLedger(s) == Replayed(s)           \* mutant
Snapshot(s) ==
    [Replayed(s) EXCEPT
        !.completed = s.completed, !.failed = s.failed, !.attempts = s.attempts]

\* The owner of the coordinator compacts the store between two calls.
Compact ==
    /\ up
    /\ compactions < MaxCompactions
    /\ core.state \in Finished => CompactFinished
    /\ stored' = Snapshot(core)
    /\ compactions' = compactions + 1
    /\ UNCHANGED <<up, core, grants, next_attempt, issued, history, crashes>>

Crash ==
    /\ up
    /\ crashes < MaxCrashes
    /\ up' = FALSE
    /\ core' = Fresh /\ grants' = {} /\ next_attempt' = 1
    /\ crashes' = crashes + 1
    /\ UNCHANGED <<stored, issued, history, compactions>>

\* A participant that held authority is not assumed to be alive.
NoDemotion(s) == s                                  \* mutant: authority survives a restart
ProducersDemoted(s) ==                              \* mutant: consumers are forgotten
    [s EXCEPT !.members = [m \in Members |->
        IF m \in ActiveProducers(s) THEN [s.members[m] EXCEPT !.state = "Suspect"]
                                    ELSE s.members[m]]]
Demoted(s) ==
    LET suspect == {m \in Members : HoldsAuthority(s, m)}
    IN  [s EXCEPT !.unrevalidated = suspect,
                  !.members = [m \in Members |->
                      IF m \in suspect THEN [s.members[m] EXCEPT !.state = "Suspect"]
                                       ELSE s.members[m]]]

\* recover(): all or nothing.
Recover ==
    /\ ~up
    /\ stored.ok
    /\ up' = TRUE
    /\ core' = Apply(Demoted(stored), EpochRecord(stored))
    /\ stored' = Apply(stored, EpochRecord(stored))
    /\ demoted' = demoted \cup {m \in Members : HoldsAuthority(stored, m)}
    /\ UNCHANGED <<grants, next_attempt, issued, acked, cancelled, crossed, bounds>>

Next ==
    \/ OpenShuffle
    \/ \E m \in Members, i \in 1 .. MaxIncarnation, s \in Selections \cup {{}} : Register(m, i, s)
    \/ \E m \in Members, s \in ReportedStates : SetParticipantState(m, s)
    \/ \E p \in Partitions, n \in 1 .. MaxGeneration : PublishManifest(p, n)
    \/ CancelShuffle
    \/ \E p \in Partitions, c \in Consumers : NextWave(p, c)
    \/ \E report \in issued, g \in grants : CommitTransfer(report, g)
    \/ \E report \in issued, g \in grants, class \in {"Retriable", "Permanent"} :
           ReportFailure(report, g, class)
    \/ Compact
    \/ Crash
    \/ Recover

Spec == Init /\ [][Next]_vars

----------------------------------------------------------------------------
\* The types of the coordinator's members, live and replayed.
MemberType == [incarnation : 0 .. MaxIncarnation, state : States,
               selection : Selections \cup {{}}]
ManifestType == [generation : 0 .. MaxGeneration, producer : Producers \cup {0},
                 incarnation : 0 .. MaxIncarnation]
CoreType ==
    [ok : BOOLEAN, topology : BOOLEAN, state : {"Closed", "Open"} \cup Finished, epoch : Nat,
     members : [Members -> MemberType], manifests : [Partitions -> ManifestType],
     completed : SUBSET Edges, failed : SUBSET Edges, attempts : [Edges -> 0 .. MaxAttempts],
     unrevalidated : SUBSET Members]
TypeOK ==
    /\ up \in BOOLEAN /\ core \in CoreType /\ stored \in CoreType
    /\ grants \subseteq issued /\ next_attempt \in 1 .. MaxGrants + 1

\* recover() rebuilds what the process that crashed had answered for: at every
\* moment the durable records replay without a refusal, and to the live state but
\* for the authority a restart takes away.  No operation depends on state that
\* its record does not carry.
Settled(s) == [Demoted(s) EXCEPT !.unrevalidated = {}]
RecoveryReproduces == TypeOK /\ (up => stored.ok /\ Settled(stored) = Settled(core))

\* Durable before acknowledged: the completion a consumer was told of is in the
\* ledger of every later process, whatever is re-produced, compacted or crashes.
AckedSurvives == acked \subseteq stored.completed /\ (up => acked \subseteq core.completed)

\* An edge is resolved once: it does not both complete and fail, and two attempts
\* of one edge are never in flight together (edge_attempts_).
ResolvedOnce ==
    /\ core.completed \cap core.failed = {}
    /\ \A g, h \in grants : EdgeOf(g) = EdgeOf(h) => g = h
    /\ \A g \in grants : EdgeOf(g) \notin core.completed \cup core.failed

\* Divergence is refused, never merged: all grants ever handed out for one
\* generation of a partition name the same content, whoever owned the partition
\* then, under whichever incarnation and before or after a restart.
AgreedContent ==
    \A g, h \in issued :
        g.partition = h.partition /\ g.manifest.generation = h.manifest.generation
            => g.manifest = h.manifest

\* An acknowledged cancellation is final: no restart reopens the shuffle, and no
\* transfer granted before it commits after it.
CancellationSticks ==
    cancelled => /\ stored.state = "Cancelled"
                 /\ up => core.state = "Cancelled" /\ grants = {}

\* README, "a coordinator restart removes all in-flight authority": attempt
\* identifiers start again at 1, yet a completion reported for an attempt of an
\* earlier epoch never commits as a new attempt of the same number.
CommitsOfThisEpoch == "commit" \notin crossed

\* README: "A pre-restart attempt is answered with StaleAttempt, never replayed."
FailuresOfThisEpoch == "failure" \notin crossed

\* A member that held authority before a restart holds none until it registers
\* anew: no repeated registration, state report or further restart restores it.
DemotedHoldNothing == up => \A m \in demoted : ~HoldsAuthority(core, m)

\* authority-model.md 1, row 14: revalidation_required() stays true until every
\* demoted member has returned.
RevalidationReported == up => demoted \subseteq core.unrevalidated

\* schedule.hpp: the shuffle is finished only when every required edge is resolved,
\* in the current generation of its partition.
CurrentEdge(e) == <<e[1], core.manifests[e[1]].generation, e[2]>>
CompleteMeansResolved ==
    core.state = "Completed" =>
        \A e \in Required(core) : CurrentEdge(e) \in core.completed \cup core.failed

\* The same, as far as counting can tell: as long as no resolved edge has left the
\* requirement (edges_over_counted is zero), the counts close only on the set.
CountedCompletion ==
    (\A e \in Current(core, core.completed \cup core.failed) : <<e[1], e[3]>> \in Required(core))
        => CompleteMeansResolved

\* recover() accepts whatever the coordinator itself made durable.
RecoverySucceeds == stored.ok
=============================================================================
