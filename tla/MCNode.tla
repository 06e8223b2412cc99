------------------------------ MODULE MCNode ------------------------------
(***************************************************************************)
(* Node with two consumer processes, of which the first selects every        *)
(* partition and the second the first one.                                   *)
(***************************************************************************)
EXTENDS Node

SelectsOne == [c \in Nodes |-> {1}]
SelectsTwo == [c \in Nodes |-> IF c = "c1" THEN Partitions ELSE {1}]

=============================================================================
