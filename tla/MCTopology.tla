---------------------------- MODULE MCTopology ----------------------------
(***************************************************************************)
(* Selections for model checking Topology: two that select the same         *)
(* partitions under different keys, two lists that select different ones    *)
(* and are asked for in another order than their keys', and one that is     *)
(* refused.                                                                 *)
(***************************************************************************)
EXTENDS Topology

MCRequests ==
    {[kind |-> "Range", begin |-> 1, end |-> 3],
     [kind |-> "List", list |-> <<2, 1>>],
     [kind |-> "List", list |-> <<0, 2>>],
     [kind |-> "All"],
     [kind |-> "Range", begin |-> 1, end |-> 4]}
=============================================================================
