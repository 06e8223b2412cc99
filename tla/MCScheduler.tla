---------------------------- MODULE MCScheduler ----------------------------
(***************************************************************************)
(* Instances of the scheduler for model checking.  The shuffle starts with  *)
(* its participants registered, by the operations of Topology, in a state   *)
(* that TopologyNext reaches.                                               *)
(***************************************************************************)
EXTENDS Scheduler

\* Consumer 1 asks for every partition, each other one for the last only.
LastOnly == [kind |-> "Range", begin |-> PartitionCount - 1, end |-> PartitionCount]
MCRequests == {[kind |-> "All"], LastOnly}

MCInit ==
    /\ SchedulerInit
    /\ generation = Cardinality(ProducerIds) + Cardinality(ConsumerIds)
    /\ producers = [id \in ProducerIds |-> [incarnation |-> 1, state |-> "Active", endpoint |-> id]]
    /\ consumers = [id \in ConsumerIds |->
                       [incarnation |-> 1, state |-> "Active", endpoint |-> id,
                        pattern |-> IF id = 1 THEN 1 ELSE 2]]
    /\ active_producers = SetToSortSeq(ProducerIds, <)
    /\ patterns = <<[selection |-> [kind |-> "All"], consumers |-> {1}],
                    [selection |-> LastOnly, consumers |-> ConsumerIds \ {1}]>>
    /\ pattern_order = <<1, 2>>
    /\ interned_items = 2

MCSpec == MCInit /\ [][Next]_vars /\ Fairness

MCPressured == {Everyone}
=============================================================================
