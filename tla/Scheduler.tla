------------------------------ MODULE Scheduler ------------------------------
(***************************************************************************)
(* The wave scheduler (src/schedule.cpp) over the topology of Topology.tla, *)
(* driven by the coordinator operations that feed it: manifests, reports,   *)
(* the logical clock and congestion evidence (src/coordinator.cpp).         *)
(*                                                                          *)
(* next_wave() is one call, and one action: a loop that moves the cursor    *)
(* over <<partition, pattern, consumer>> and decides one edge per step,     *)
(* within a budget of steps and of grants.  The loop is the recursive       *)
(* function PlanAfter, from the plan StartPlan.                             *)
(*                                                                          *)
(* An attempt identifier is fresh in its process and names one edge in      *)
(* flight, so an attempt is identified by its edge.  The partition's facts  *)
(* are its generation and producing incarnation.  The policy does not       *)
(* change while a shuffle is open; its levels and ticks are small numbers.  *)
(* Of the topology's operations, those that move ownership and authority    *)
(* while the scheduler holds a cursor are taken: state reports, and the     *)
(* return of a participant with a fresh incarnation.  A shuffle without     *)
(* consumers, whose waves are empty, is left out.  The first test of the    *)
(* loop (partition_cursor_ beyond the last partition) never holds: the      *)
(* cursor is reset when it gets there.                                      *)
(***************************************************************************)
EXTENDS Topology

CONSTANTS
    Global, PerSource, PerDestination,     \* ConcurrencyLimits
    GrantsPerWave, ExaminedPerWave,        \* WaveLimits
    MaxAttempts, MinTicks,                 \* RetryPolicy
    PauseThreshold, ResumeThreshold, RequireFresh, ValidityTicks,  \* CongestionPolicy
    Levels,            \* the pressure levels reported
    Pressured,         \* the targets of congestion reports
    EvidenceAges,      \* how long ago the evidence of a report was observed
    Unanswering,       \* consumers that report no failure and may never commit
    MayCancel,         \* is cancel_shuffle() called?
    MaxManifests,      \* bound of the model: generations of a partition
    MaxTicks           \* bound of the model: the clock that advance_tick() moves up to

ASSUME SchedulerAssumption ==                       \* validate_policy()
    /\ Global \in Nat \ {0} /\ PerSource \in 1 .. Global /\ PerDestination \in 1 .. Global
    /\ GrantsPerWave \in Nat \ {0} /\ ExaminedPerWave >= GrantsPerWave
    /\ MaxAttempts \in 1 .. 64 /\ MinTicks \in Nat
    /\ PauseThreshold \in 0 .. 100 /\ ResumeThreshold \in 0 .. PauseThreshold
    /\ RequireFresh \in BOOLEAN /\ (RequireFresh => ValidityTicks > 0)

VARIABLES
    configured,        \* topology_generation_, 0 before configure()
    cursor,            \* partition_cursor_, pattern_cursor_, consumer_cursor_
    in_flight,         \* attempts_ and edge_attempts_, with the grants_ of the coordinator
    source_count, destination_count, global_count,  \* the in-flight counters
    paused,            \* producer_paused_ and consumer_paused_
    facts,             \* facts_: partition -> [generation, producer, incarnation]
    completed, failed, \* what the ledger answers for an edge
    retries,           \* edge -> [attempts, ready_at] of its failure record
    clock,             \* clock_
    pressure,          \* producer_pressure_ and consumer_pressure_
    state,             \* state_: "Open", "Completed" or "Cancelled"
    announced          \* history: the last call was a wave that said all_resolved

scheduler == <<configured, cursor, in_flight, source_count, destination_count, global_count, paused>>
environment == <<facts, completed, failed, retries, clock, pressure, state>>
vars == <<topology, scheduler, environment, announced>>

NoFacts == [generation |-> 0, producer |-> 0, incarnation |-> 0]
NoReading == [level |-> 0, at |-> -1]
Ends == ({"producer"} \X ProducerIds) \cup ({"consumer"} \X ConsumerIds)
Everyone == <<"global", 0>>
Targets == Ends \cup {Everyone}
FirstEdge == [partition |-> 0, pattern |-> 1, consumer |-> 1]

\* A shuffle whose participants have registered, before its first wave.
SchedulerInit ==
    /\ configured = 0 /\ cursor = FirstEdge
    /\ in_flight = << >>
    /\ source_count = [id \in ProducerIds |-> 0]
    /\ destination_count = [id \in ConsumerIds |-> 0]
    /\ global_count = 0
    /\ paused = [t \in Ends |-> FALSE]
    /\ facts = [p \in Partitions |-> NoFacts]
    /\ completed = {} /\ failed = {} /\ retries = << >>
    /\ clock = 0 /\ pressure = [t \in Targets |-> NoReading]
    /\ state = "Open" /\ announced = FALSE

----------------------------------------------------------------------------
(***************************************************************************)
(* What the wave asks of its environment.                                   *)
(***************************************************************************)
AttemptsOf(e) == IF e \in DOMAIN retries THEN retries[e].attempts ELSE 0
ReadyAt(e) == IF e \in DOMAIN retries THEN retries[e].ready_at ELSE 0

\* freshen()
Fresh(reading) == reading # NoReading /\ clock - reading.at <= ValidityTicks

\* producer_pressure() and consumer_pressure()
Reading(end) == IF pressure[end] = NoReading THEN pressure[Everyone] ELSE pressure[end]

\* decide(): whether the end is paused once its reading is taken into account.
DecideNeverResumes(end, was) ==               \* mutant: a low reading does not resume
    LET reading == Reading(end)
    IN  IF ~Fresh(reading) THEN was \/ RequireFresh ELSE was \/ reading.level >= PauseThreshold
Decide(end, was) ==
    LET reading == Reading(end)
    IN  IF ~Fresh(reading) THEN was \/ RequireFresh
        ELSE IF reading.level >= PauseThreshold THEN TRUE
        ELSE IF reading.level <= ResumeThreshold THEN FALSE
        ELSE was

\* The producing incarnation owns the partition and holds authority.
Produced(p) ==
    /\ facts[p] # NoFacts
    /\ HasOwner
    /\ OwnerOf(p) = facts[p].producer
    /\ HoldsAuthority(producers[facts[p].producer])
    /\ producers[facts[p].producer].incarnation = facts[p].incarnation

----------------------------------------------------------------------------
(***************************************************************************)
(* The loop of next_wave().                                                 *)
(***************************************************************************)
StartPlan ==
    [cursor |-> IF configured = generation THEN cursor ELSE FirstEdge,    \* configure()
     grants |-> {}, wrapped |-> FALSE, stop |-> FALSE, at_last_wrap |-> 0,
     open |-> FALSE,              \* a deferral, or an edge in flight or unproduced, was met
     sources |-> source_count, destinations |-> destination_count, global |-> global_count,
     paused |-> paused]

\* note_wrap(): a pass that added no grant ends the wave.
NoteWrap(plan) ==
    [plan EXCEPT !.wrapped = TRUE,
                 !.stop = @ \/ Cardinality(plan.grants) = plan.at_last_wrap,
                 !.at_last_wrap = Cardinality(plan.grants)]

AdvancePartition(plan) ==
    LET next == [FirstEdge EXCEPT !.partition = plan.cursor.partition + 1]
    IN  IF next.partition >= PartitionCount
        THEN NoteWrap([plan EXCEPT !.cursor = FirstEdge])
        ELSE [plan EXCEPT !.cursor = next]
AdvancePattern(plan) ==
    [plan EXCEPT !.cursor.pattern = @ + 1, !.cursor.consumer = 1]

Met(plan) == [plan EXCEPT !.open = TRUE]

Counted(plan, e, producer, id) ==
    [plan EXCEPT !.grants = @ \cup {[edge |-> e, producer |-> producer]},
                 !.sources[producer] = @ + 1,
                 !.destinations[id] = @ + 1,
                 !.global = @ + 1]

\* The pressure of both ends, then the consumer's authority, then the grant.
UnderPressure(plan, e, producer, id) ==
    LET source      == Decide(<<"producer", producer>>, plan.paused[<<"producer", producer>>])
        destination == Decide(<<"consumer", id>>, plan.paused[<<"consumer", id>>])
        judged      == [plan EXCEPT !.paused[<<"producer", producer>>] = source]
        both        == [judged EXCEPT !.paused[<<"consumer", id>>] = destination]
    IN  IF source THEN Met(judged)
        ELSE IF destination \/ ~HoldsAuthority(consumers[id]) THEN Met(both)
        ELSE Counted(both, e, producer, id)

\* One edge, in the order the code tests it.
Consider(plan, p, id) ==
    LET e == <<p, facts[p].generation, id>>
        producer == facts[p].producer
    IN  IF ~Produced(p) THEN Met(plan)
        ELSE IF e \in completed \cup failed \/ AttemptsOf(e) >= MaxAttempts THEN plan
        ELSE IF e \in DOMAIN in_flight \/ \E g \in plan.grants : g.edge = e THEN Met(plan)
        ELSE IF ReadyAt(e) > clock THEN Met(plan)
        ELSE IF plan.global >= Global THEN [Met(plan) EXCEPT !.stop = TRUE]
        ELSE IF plan.sources[producer] >= PerSource \/ plan.destinations[id] >= PerDestination
             THEN Met(plan)
        ELSE UnderPressure(plan, e, producer, id)

\* One step of the cursor.  A pattern lists its consumers in ascending order.
Nth(ids, n) == CHOOSE id \in ids : Cardinality({x \in ids : x <= id}) = n
Examine(plan) ==
    LET at    == plan.cursor
        entry == patterns[pattern_order[at.pattern]]
    IN  IF at.pattern > Len(pattern_order) THEN AdvancePartition(plan)
        ELSE IF \/ ~Covers(entry.selection, at.partition)
                \/ at.consumer > Cardinality(entry.consumers)
             THEN AdvancePattern(plan)
        ELSE Consider([plan EXCEPT !.cursor.consumer = @ + 1], at.partition,
                      Nth(entry.consumers, at.consumer))

\* The plan after n steps, until the wave stops or is full.
Ended(plan) == plan.stop \/ Cardinality(plan.grants) >= GrantsPerWave
PlanAfter[n \in 0 .. ExaminedPerWave] ==
    IF n = 0 THEN StartPlan
    ELSE CHOOSE next \in {IF Ended(plan) THEN plan ELSE Examine(plan) : plan \in {PlanAfter[n - 1]}} :
             TRUE

AllResolvedFullPass(plan) ==                  \* mutant: only a call that starts at the first edge
    plan.grants = {} /\ plan.wrapped /\ ~plan.open /\ StartPlan.cursor = FirstEdge
AllResolved(plan) == plan.grants = {} /\ plan.wrapped /\ ~plan.open

\* Coordinator::next_wave(), with ensure_scheduler().
NextWave == \E plan \in {PlanAfter[ExaminedPerWave]} :
    LET granted == {g.edge : g \in plan.grants}
    IN  /\ state = "Open"
        /\ configured' = generation
        /\ cursor' = plan.cursor
        /\ in_flight' = [e \in granted |->
                            [producer |-> facts[e[1]].producer, consumer |-> e[3],
                             consumer_incarnation |-> consumers[e[3]].incarnation,
                             ordinal |-> AttemptsOf(e) + 1]] @@ in_flight
        /\ source_count' = plan.sources /\ destination_count' = plan.destinations
        /\ global_count' = plan.global
        /\ paused' = plan.paused
        /\ announced' = AllResolved(plan)
        /\ UNCHANGED <<topology, environment>>

----------------------------------------------------------------------------
(***************************************************************************)
(* Outcomes.                                                                *)
(***************************************************************************)
Less(n) == IF n > 0 THEN n - 1 ELSE 0

ReleaseSource(e) ==                           \* mutant: the destination slot is kept
    /\ in_flight' = [x \in DOMAIN in_flight \ {e} |-> in_flight[x]]
    /\ source_count' = [source_count EXCEPT ![in_flight[e].producer] = Less(@)]
    /\ global_count' = Less(global_count)
    /\ UNCHANGED <<configured, cursor, destination_count, paused>>
\* resolve()
Release(e) ==
    /\ in_flight' = [x \in DOMAIN in_flight \ {e} |-> in_flight[x]]
    /\ source_count' = [source_count EXCEPT ![in_flight[e].producer] = Less(@)]
    /\ destination_count' = [destination_count EXCEPT ![in_flight[e].consumer] = Less(@)]
    /\ global_count' = Less(global_count)
    /\ UNCHANGED <<configured, cursor, paused>>

\* note_completion(): every required edge is resolved, by count.  That the Completed
\* record cannot be persisted is ignored.
CurrentOnes(edges) == {e \in edges : e[2] = facts[e[1]].generation}
NoteCompletion ==
    \E persisted \in BOOLEAN :
        state' = IF /\ persisted
                    /\ Cardinality(CurrentOnes(completed')) + Cardinality(CurrentOnes(failed'))
                           >= PlannedEdgeCount
                 THEN "Completed" ELSE state

\* commit_transfer(): both ends hold authority under the incarnations of the grant,
\* and the generation is current.
Commit(e) ==
    /\ state = "Open"
    /\ Produced(e[1]) /\ facts[e[1]].generation = e[2]
    /\ HoldsAuthority(consumers[e[3]])
    /\ consumers[e[3]].incarnation = in_flight[e].consumer_incarnation
    /\ completed' = completed \cup {e}
    /\ Release(e)
    /\ announced' = FALSE
    /\ UNCHANGED <<topology, facts, failed, retries, clock, pressure>>
    /\ NoteCompletion

\* report_failure(): the record holds the tick the edge is ready at, and applying it
\* moves the clock there (apply_failure()).
ReportFailure(e, retriable) ==
    LET ordinal   == in_flight[e].ordinal
        permanent == ~retriable \/ ordinal >= MaxAttempts
        ready_at  == IF permanent THEN clock ELSE clock + MinTicks
    IN  /\ state = "Open"
        /\ e[3] \notin Unanswering
        /\ retries' = (e :> [attempts |-> ordinal, ready_at |-> ready_at]) @@ retries
        /\ failed' = IF permanent THEN failed \cup {e} ELSE failed
        /\ clock' = ready_at
        /\ Release(e)
        /\ announced' = FALSE
        /\ UNCHANGED <<topology, facts, completed, pressure>>
        /\ NoteCompletion

\* cancel_shuffle() and abandon_all()
Cancel ==
    /\ MayCancel /\ state = "Open"
    /\ state' = "Cancelled"
    /\ in_flight' = << >>
    /\ source_count' = [id \in ProducerIds |-> 0]
    /\ destination_count' = [id \in ConsumerIds |-> 0]
    /\ global_count' = 0
    /\ announced' = FALSE
    /\ UNCHANGED <<topology, configured, cursor, paused, facts, completed, failed, retries, clock,
                   pressure>>

----------------------------------------------------------------------------
(***************************************************************************)
(* The environment of the scheduler.                                        *)
(***************************************************************************)
\* publish_manifest(), by the owner, in a generation of its own.
PublishManifest(p) ==
    /\ state = "Open"
    /\ HasOwner
    /\ facts[p].generation < MaxManifests
    /\ facts' = [facts EXCEPT ![p] =
                    [generation |-> @.generation + 1, producer |-> OwnerOf(p),
                     incarnation |-> producers[OwnerOf(p)].incarnation]]
    /\ announced' = FALSE
    /\ UNCHANGED <<topology, scheduler, completed, failed, retries, clock, pressure, state>>

AdvanceTick ==
    /\ clock < MaxTicks
    /\ clock' = clock + 1
    /\ announced' = FALSE
    /\ UNCHANGED <<topology, scheduler, facts, completed, failed, retries, pressure, state>>

\* update_congestion(): evidence observed now or earlier, from any participant that
\* holds authority; the last report to arrive stands.
UpdateCongestion(target, level, age) ==
    /\ state = "Open"
    /\ age <= clock
    /\ \/ \E id \in DOMAIN producers : HoldsAuthority(producers[id])
       \/ \E id \in DOMAIN consumers : HoldsAuthority(consumers[id])
    /\ pressure' = [pressure EXCEPT ![target] = [level |-> level, at |-> clock - age]]
    /\ announced' = FALSE
    /\ UNCHANGED <<topology, scheduler, facts, completed, failed, retries, clock, state>>

\* A state report, or the return of a participant, changes the topology only.
MembershipChange ==
    /\ state = "Open"
    /\ \/ \E id \in DOMAIN producers, s \in ReportedStates : SetProducerState(id, s)
       \/ \E id \in DOMAIN consumers, s \in ReportedStates : SetConsumerState(id, s)
       \/ \E id \in DOMAIN producers :
              /\ producers[id].incarnation < MaxIncarnation
              /\ RegisterProducer(id, producers[id].incarnation + 1, producers[id].endpoint)
       \/ \E id \in DOMAIN consumers :
              /\ consumers[id].incarnation < MaxIncarnation
              /\ RegisterConsumer(id, consumers[id].incarnation + 1, consumers[id].endpoint,
                                  AskedFor(id))
    /\ announced' = FALSE
    /\ UNCHANGED <<scheduler, environment>>

Next ==
    \/ NextWave
    \/ \E e \in DOMAIN in_flight : Commit(e)
    \/ \E e \in DOMAIN in_flight, retriable \in BOOLEAN : ReportFailure(e, retriable)
    \/ Cancel
    \/ \E p \in Partitions : PublishManifest(p)
    \/ AdvanceTick
    \/ \E t \in Pressured, n \in Levels, age \in EvidenceAges : UpdateCongestion(t, n, age)
    \/ MembershipChange

\* Somebody asks for waves for as long as the shuffle is open, and a consumer outside
\* Unanswering reports an outcome for each attempt it was granted.
Edges == Partitions \X (1 .. MaxManifests) \X ConsumerIds
Answered(e) ==
    e \in DOMAIN in_flight /\ (Commit(e) \/ \E retriable \in BOOLEAN : ReportFailure(e, retriable))
Fairness ==
    /\ WF_vars(NextWave)
    /\ \A e \in {x \in Edges : x[3] \notin Unanswering} : WF_vars(Answered(e))

----------------------------------------------------------------------------
\* The types of the scheduler's members.
SchedulerType ==
    /\ configured \in 0 .. generation
    /\ cursor.partition \in Partitions
    /\ cursor.pattern \in 1 .. Len(pattern_order) + 1
    /\ cursor.consumer \in 1 .. Cardinality(ConsumerIds) + 1
    /\ DOMAIN in_flight \subseteq Edges
    /\ \A e \in DOMAIN in_flight : in_flight[e].ordinal \in 1 .. MaxAttempts
    /\ paused \in [Ends -> BOOLEAN]
    /\ global_count \in 0 .. Global

\* The counters that limit dispatch are incremented per grant and decremented per
\* resolution, floored at zero: after any history of waves, reports, re-production,
\* moved ownership and cancellation they equal a recount of the attempts in flight,
\* and the limits of the policy hold of them.  Re-production and moved ownership need two
\* producers and two generations, which SchedulerMoves.cfg has.
InFlightExact ==
    LET AtSource(id)      == {e \in DOMAIN in_flight : in_flight[e].producer = id}
        AtDestination(id) == {e \in DOMAIN in_flight : in_flight[e].consumer = id}
    IN  /\ SchedulerType
        /\ global_count = Cardinality(DOMAIN in_flight) /\ global_count <= Global
        /\ \A id \in ProducerIds :
               source_count[id] = Cardinality(AtSource(id)) /\ source_count[id] <= PerSource
        /\ \A id \in ConsumerIds :
               /\ destination_count[id] = Cardinality(AtDestination(id))
               /\ destination_count[id] <= PerDestination

\* The current edge of a partition and a consumer, and whether it is settled.
CurrentEdge(p, id) == <<p, facts[p].generation, id>>
Settled(p, id) ==
    \/ CurrentEdge(p, id) \in completed \cup failed
    \/ AttemptsOf(CurrentEdge(p, id)) >= MaxAttempts

\* Evidence that admits an end: fresh and low, or none that counts and no pause.
Admits(end) ==
    IF Fresh(Reading(end)) THEN Reading(end).level <= ResumeThreshold
                           ELSE ~RequireFresh /\ ~paused[end]

\* An edge that nothing forbids to grant, for a consumer that answers.
Grantable(p, id) ==
    /\ state = "Open"
    /\ <<p, id>> \in RequiredEdges /\ id \notin Unanswering
    /\ Produced(p) /\ HoldsAuthority(consumers[id])
    /\ ~Settled(p, id) /\ CurrentEdge(p, id) \notin DOMAIN in_flight
    /\ Admits(<<"producer", facts[p].producer>>) /\ Admits(<<"consumer", id>>)

\* No edge starves: whatever the cursor, the grant and examination budgets, evidence that
\* goes stale, and consumers that die with attempts in flight (as long as their share of
\* the limits leaves room), an edge that stays grantable is granted.  Nobody has to move
\* the clock for a retry: the failure that sets the wait does.
NoEdgeStarves ==
    \A p \in Partitions, id \in ConsumerIds \ Unanswering : []<>~Grantable(p, id)

\* schedule.hpp: all_resolved is said "when the cursor completed a full pass with no
\* grant because every required edge is already resolved".
AllSettled == \A e \in RequiredEdges : Settled(e[1], e[2])
AllResolvedSound == announced => AllSettled

\* The converse, which consumers wait for: while every required edge stays settled, its
\* partition produced and the shuffle open, some wave says so, even when the record that
\* the shuffle is completed could not be persisted.  The edges of a partition whose
\* producer left, lost authority or was replaced count as unproduced, whatever their
\* outcome, so that nothing is promised while there are any.
Announceable ==
    state = "Open" /\ AllSettled /\ \A e \in RequiredEdges : Produced(e[1])
ResolutionAnnounced == []<>(announced \/ ~Announceable)

\* The same without regard to the producers, as note_completion() counts.  It does not
\* hold: the Completed record is lost, the producer withdraws, and no wave that looks at
\* every edge says all_resolved.
SettledAnnounced == []<>(announced \/ ~AllSettled \/ state # "Open")
=============================================================================
