------------------------------ MODULE Topology ------------------------------
(***************************************************************************)
(* Membership and interest of one shuffle (src/topology.cpp), and the       *)
(* evaluation of a policy against it (src/policy.cpp).                      *)
(*                                                                          *)
(* The N x M edges are never stored.  Consumers that ask for the same       *)
(* partitions share one interned pattern; whatever is asked about edges is  *)
(* answered in closed form from the pattern table.  Three members cache     *)
(* what others imply: active_producers_, pattern_order_ and the consumer    *)
(* list of each pattern.                                                    *)
(*                                                                          *)
(* A vector kept sorted and unique by identifier is a function of the       *)
(* identifier, or a set.  A canonical key is its fields in the order they   *)
(* are written, and is compared field by field, which is the order of the   *)
(* strings while every identifier has one digit.  Pattern indices start at  *)
(* 1.  A refused call and an idempotent registration change nothing and are *)
(* stuttering steps.                                                        *)
(***************************************************************************)
EXTENDS Integers, FiniteSets, FiniteSetsExt, SequencesExt

CONSTANTS
    ProducerIds, ConsumerIds,
    PartitionCount,
    Requests,          \* selections a registration carries, valid or not
    Endpoints,
    MaxIncarnation,
    ReportedStates,    \* what set_producer_state() and set_consumer_state() are called with
    MaxParticipants, MaxPatterns, MaxItems,   \* Limits
    MaxTopology        \* bound of the model: the last generation

Partitions == 0 .. PartitionCount - 1
ParticipantStates == {"Pending", "Active", "Suspect", "Failed", "Withdrawn"}

ASSUME TopologyAssumption ==
    /\ ProducerIds \subseteq Nat \ {0} /\ ConsumerIds \subseteq Nat \ {0}
    /\ PartitionCount \in 1 .. 9
    /\ ReportedStates \subseteq ParticipantStates

VARIABLES
    generation,        \* generation_
    producers,         \* producers_: identifier -> record
    consumers,         \* consumers_: identifier -> record
    active_producers,  \* active_producers_, ascending
    patterns,          \* patterns_: [selection, consumers], appended
    pattern_order,     \* pattern_order_: indices by canonical key
    interned_items     \* interned_selection_items_

topology == <<generation, producers, consumers, active_producers, patterns, pattern_order,
              interned_items>>

TopologyInit ==
    /\ generation = 0
    /\ producers = << >> /\ consumers = << >>
    /\ active_producers = << >>
    /\ patterns = << >> /\ pattern_order = << >> /\ interned_items = 0

----------------------------------------------------------------------------
(***************************************************************************)
(* Selections.                                                              *)
(***************************************************************************)
\* from_list(): sorted; an empty list or a repeated identifier is refused.
FromList(list) == SetToSortSeq(Range(list), <)
Canonical(request) ==
    IF request.kind = "List" THEN [request EXCEPT !.list = FromList(@)] ELSE request

\* covers()
Covers(selection, p) ==
    CASE selection.kind = "All"   -> TRUE
      [] selection.kind = "Range" -> selection.begin <= p /\ p < selection.end
      [] selection.kind = "List"  -> p \in Range(selection.list)

\* selected_count(), in closed form.
SelectedAtEnd(selection) ==                   \* mutant: the range includes its end
    CASE selection.kind = "All"   -> PartitionCount
      [] selection.kind = "Range" -> selection.end - selection.begin + 1
      [] selection.kind = "List"  -> Len(selection.list)
SelectedCount(selection) ==
    CASE selection.kind = "All"   -> PartitionCount
      [] selection.kind = "Range" ->
            IF selection.begin >= PartitionCount \/ selection.end <= selection.begin THEN 0
            ELSE Min({selection.end, PartitionCount}) - selection.begin
      [] selection.kind = "List"  -> Cardinality({p \in Range(selection.list) : p < PartitionCount})

\* canonical_key()
KeyOf(selection) ==
    CASE selection.kind = "All"   -> <<0>>
      [] selection.kind = "List"  -> <<1>> \o selection.list
      [] selection.kind = "Range" -> <<2, selection.begin, selection.end>>
KeyLess(a, b) ==
    \E n \in 0 .. Len(b) - 1 :
        /\ n <= Len(a)
        /\ \A i \in 1 .. n : a[i] = b[i]
        /\ n < Len(a) => a[n + 1] < b[n + 1]

\* The selections check_consumer_registration() lets through.
Acceptable(request) ==
    CASE request.kind = "All"   -> TRUE
      [] request.kind = "Range" -> request.begin < request.end /\ request.end <= PartitionCount
      [] request.kind = "List"  -> /\ request.list # << >>
                                   /\ IsInjective(request.list)
                                   /\ Range(request.list) \subseteq Partitions

----------------------------------------------------------------------------
(***************************************************************************)
(* The caches.                                                              *)
(***************************************************************************)
HoldsAuthority(record) == record.state = "Active"
CountsTowardRequirement(record) == record.state # "Withdrawn"

\* rebuild_active_producers()
RebuildActiveProducers(records) ==
    SetToSortSeq({id \in DOMAIN records : HoldsAuthority(records[id])}, <)

\* rebuild_pattern_order()
AppendedOrder(table) == [i \in DOMAIN table |-> i]      \* mutant: not sorted
RebuildPatternOrder(table) ==
    SortSeq([i \in DOMAIN table |-> i],
            LAMBDA i, j : KeyLess(KeyOf(table[i].selection), KeyOf(table[j].selection)))

\* intern_pattern(): patterns are found by key, and never removed.
Interned(selection) == \E i \in DOMAIN patterns : KeyOf(patterns[i].selection) = KeyOf(selection)
PatternIndex(selection) ==
    IF Interned(selection)
    THEN CHOOSE i \in DOMAIN patterns : KeyOf(patterns[i].selection) = KeyOf(selection)
    ELSE Len(patterns) + 1
ItemsOf(selection) == IF selection.kind = "List" THEN Len(selection.list) ELSE 1
RoomAlways(selection) ==                      \* mutant: counted again when interned
    /\ Len(patterns) < MaxPatterns
    /\ interned_items + ItemsOf(selection) <= MaxItems
RoomFor(selection) ==
    \/ Interned(selection)
    \/ /\ Len(patterns) < MaxPatterns
       /\ interned_items + ItemsOf(selection) <= MaxItems
InternPattern(selection) ==
    IF Interned(selection) THEN patterns
    ELSE Append(patterns, [selection |-> selection, consumers |-> {}])

\* remove_consumer_from_pattern() and add_consumer_to_pattern().
Leave(table, i, id) == [table EXCEPT ![i].consumers = @ \ {id}]
Join(table, i, id) == [table EXCEPT ![i].consumers = @ \cup {id}]

----------------------------------------------------------------------------
(***************************************************************************)
(* Operations.                                                              *)
(***************************************************************************)
KeepGeneration == generation' = generation    \* mutant: plans are not told apart
BumpGeneration == generation < MaxTopology /\ generation' = generation + 1

ProducerAccepted(id, incarnation, endpoint) ==
    IF id \in DOMAIN producers
    THEN producers[id].incarnation = incarnation => producers[id].endpoint = endpoint
    ELSE Cardinality(DOMAIN producers) < MaxParticipants

RegisterProducer(id, incarnation, endpoint) ==
    /\ incarnation # 0
    /\ ProducerAccepted(id, incarnation, endpoint)
    /\ id \in DOMAIN producers => producers[id].incarnation # incarnation   \* else idempotent
    /\ producers' = (id :> [incarnation |-> incarnation, state |-> "Active",
                            endpoint |-> endpoint]) @@ producers
    /\ active_producers' = RebuildActiveProducers(producers')
    /\ BumpGeneration
    /\ UNCHANGED <<consumers, patterns, pattern_order, interned_items>>

ConsumerAccepted(id, request) ==
    /\ Acceptable(request)
    /\ id \in DOMAIN consumers \/ Cardinality(DOMAIN consumers) < MaxParticipants
    /\ RoomFor(Canonical(request))

RegisterConsumer(id, incarnation, endpoint, request) ==
    LET selection == Canonical(request)
        index     == PatternIndex(selection)
        record    == [incarnation |-> incarnation, endpoint |-> endpoint, pattern |-> index,
                      state |-> "Active"]
        table     == InternPattern(selection)
        left      == IF id \in DOMAIN consumers THEN Leave(table, consumers[id].pattern, id)
                                                ELSE table
        identical == id \in DOMAIN consumers /\ [consumers[id] EXCEPT !.state = "Active"] = record
    IN  /\ incarnation # 0
        /\ ConsumerAccepted(id, request)
        /\ ~identical                                                       \* else idempotent
        /\ consumers' = (id :> record) @@ consumers
        /\ patterns' = Join(left, index, id)
        /\ pattern_order' = IF Interned(selection) THEN pattern_order
                                                   ELSE RebuildPatternOrder(table)
        /\ interned_items' = IF Interned(selection) THEN interned_items
                                                    ELSE interned_items + ItemsOf(selection)
        /\ BumpGeneration
        /\ UNCHANGED <<producers, active_producers>>

\* set_producer_state() and withdraw_producer(), for the current incarnation.
SetProducerState(id, state) ==
    /\ id \in DOMAIN producers
    /\ producers[id].state # state
    /\ producers' = [producers EXCEPT ![id].state = state]
    /\ active_producers' = RebuildActiveProducers(producers')
    /\ BumpGeneration
    /\ UNCHANGED <<consumers, patterns, pattern_order, interned_items>>

\* set_consumer_state() and withdraw_consumer(), for the current incarnation.
SetConsumerState(id, state) ==
    LET record == consumers[id]
        now    == [record EXCEPT !.state = state]
        change == IF CountsTowardRequirement(now) THEN Join(patterns, record.pattern, id)
                                                  ELSE Leave(patterns, record.pattern, id)
    IN  /\ id \in DOMAIN consumers
        /\ record.state # state
        /\ consumers' = [consumers EXCEPT ![id] = now]
        /\ patterns' = IF CountsTowardRequirement(record) = CountsTowardRequirement(now)
                       THEN patterns ELSE change
        /\ BumpGeneration
        /\ UNCHANGED <<producers, active_producers, pattern_order, interned_items>>

TopologyNext ==
    \/ \E id \in ProducerIds, n \in 1 .. MaxIncarnation, e \in Endpoints : RegisterProducer(id, n, e)
    \/ \E id \in ConsumerIds, n \in 1 .. MaxIncarnation, e \in Endpoints, r \in Requests :
           RegisterConsumer(id, n, e, r)
    \/ \E id \in ProducerIds, s \in ReportedStates : SetProducerState(id, s)
    \/ \E id \in ConsumerIds, s \in ReportedStates : SetConsumerState(id, s)

TopologySpec == TopologyInit /\ [][TopologyNext]_topology

----------------------------------------------------------------------------
(***************************************************************************)
(* Questions, answered in closed form.                                      *)
(***************************************************************************)
HasOwner == active_producers # << >>
OwnerOf(p) == active_producers[(p % Len(active_producers)) + 1]

\* covering_consumers()
CoveringConsumers(p) ==
    FoldLeft(LAMBDA seen, i :
                 IF Covers(patterns[i].selection, p)
                 THEN seen \o SetToSortSeq(patterns[i].consumers, <) ELSE seen,
             << >>, pattern_order)

\* covering_consumer_count() and fan_out()
FanOut(p) ==
    FoldLeft(LAMBDA sum, entry :
                 IF Covers(entry.selection, p) THEN sum + Cardinality(entry.consumers) ELSE sum,
             0, patterns)

\* fan_in()
FanIn(id) ==
    LET selection == patterns[consumers[id].pattern].selection
        producer_count == Len(active_producers)
    IN  IF producer_count = 0 THEN 0
        ELSE IF selection.kind = "List"
             THEN Cardinality({p % producer_count : p \in Range(selection.list)})
             ELSE Min({SelectedCount(selection), producer_count})

\* planned_edge_count()
PlannedEdgeCount ==
    FoldLeft(LAMBDA sum, entry : sum + Cardinality(entry.consumers) * SelectedCount(entry.selection),
             0, patterns)

\* evaluate_policy()
EvaluatePolicy(max_edges, max_fan_out, max_fan_in) ==
    /\ PlannedEdgeCount <= max_edges
    /\ \A p \in Partitions : FanOut(p) <= max_fan_out
    /\ \A id \in DOMAIN consumers : FanIn(id) <= max_fan_in

\* validate()
Validate ==
    /\ \A id \in DOMAIN consumers : consumers[id].pattern \in DOMAIN patterns
    /\ \A i \in DOMAIN patterns : \A id \in patterns[i].consumers :
           /\ id \in DOMAIN consumers
           /\ consumers[id].pattern = i
           /\ CountsTowardRequirement(consumers[id])
    /\ Len(pattern_order) = Len(patterns)
    /\ \A n \in 2 .. Len(pattern_order) :
           KeyLess(KeyOf(patterns[pattern_order[n - 1]].selection),
                   KeyOf(patterns[pattern_order[n]].selection))

----------------------------------------------------------------------------
\* The types of the topology's members.
TopologyType ==
    /\ generation \in 0 .. MaxTopology
    /\ DOMAIN producers \subseteq ProducerIds /\ DOMAIN consumers \subseteq ConsumerIds
    /\ active_producers \in Seq(ProducerIds)
    /\ \A i \in DOMAIN patterns : patterns[i].consumers \subseteq ConsumerIds
    /\ Len(patterns) <= MaxPatterns /\ interned_items <= MaxItems

\* The requirement, as the documents put it: a consumer requires each partition it
\* last asked for, from its registration until it is withdrawn.
AskedFor(id) == patterns[consumers[id].pattern].selection
RequiredEdges ==
    {<<p, id>> \in Partitions \X DOMAIN consumers :
        CountsTowardRequirement(consumers[id]) /\ Covers(AskedFor(id), p)}

\* validate() accepts every reachable topology, and what it leaves unchecked holds
\* too: no consumer that counts is missing from its pattern, whose edges would then
\* silently be no longer required, and the active producers are those with authority.
CachesAgree ==
    /\ TopologyType /\ Validate
    /\ \A id \in DOMAIN consumers :
           CountsTowardRequirement(consumers[id]) => id \in patterns[consumers[id].pattern].consumers
    /\ active_producers = RebuildActiveProducers(producers)
    /\ interned_items = FoldLeft(LAMBDA sum, entry : sum + ItemsOf(entry.selection), 0, patterns)

\* The closed forms count what an enumeration of the edges would: the planned edges,
\* the consumers of a partition (each reported once), and the distinct producers that
\* a consumer's partitions belong to.  evaluate_policy() accepts the bounds that such
\* an enumeration stays within.  The consumers of a partition are those that count, the
\* Suspect ones included: see OnlyAuthorityCovers.
ClosedFormsExact ==
    /\ PlannedEdgeCount = Cardinality(RequiredEdges)
    /\ \A p \in Partitions :
           LET needing == {id \in DOMAIN consumers : <<p, id>> \in RequiredEdges}
           IN  /\ FanOut(p) = Cardinality(needing)
               /\ Range(CoveringConsumers(p)) = needing
               /\ IsInjective(CoveringConsumers(p))
    /\ HasOwner =>
           \A id \in DOMAIN consumers :
               FanIn(id) = Cardinality({OwnerOf(p) : p \in {q \in Partitions : Covers(AskedFor(id), q)}})
    /\ \A most \in 0 .. PartitionCount * Cardinality(ConsumerIds) :
           EvaluatePolicy(most, most, most)
               <=> Cardinality(RequiredEdges) <= most /\ \A id \in DOMAIN consumers : FanIn(id) <= most

\* topology.hpp says of covering_consumers(): "Only consumers holding authority are
\* reported."  It does not hold: a Suspect consumer holds none and stays in its pattern.
OnlyAuthorityCovers ==
    \A p \in Partitions : \A id \in Range(CoveringConsumers(p)) : HoldsAuthority(consumers[id])

\* A participant that returns is never refused for want of room: whatever filled the
\* tables since, its record and the pattern it asks for again are still there.
ReturnAccepted ==
    /\ \A id \in DOMAIN consumers : ConsumerAccepted(id, AskedFor(id))
    /\ \A id \in DOMAIN producers, e \in Endpoints :
           ProducerAccepted(id, producers[id].incarnation + 1, e)

\* topology.hpp: plans are bound to a generation.  While the generation stands, the
\* owner of every partition, the edges and the order they are enumerated in stand,
\* which is what the scheduler's cursor relies on between two waves.
PlansStandWithin == [][generation' = generation =>
                          UNCHANGED <<producers, consumers, active_producers, patterns,
                                      pattern_order>>]_topology
=============================================================================
