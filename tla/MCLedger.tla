------------------------------ MODULE MCLedger ------------------------------
(***************************************************************************)
(* Small instances of the ledger for TLC.                                   *)
(***************************************************************************)
EXTENDS Ledger, TLC

CONSTANTS c1, c2, one, other

\* The first and the last generation whose keys stay apart when KeySpan is 4.
TwoGenerations == {1, 3}
ThreeGenerations == 1 .. 3
MCBytesOf == [x \in Claims |-> 1]

Symmetry == Permutations(Consumers) \cup Permutations(Claims)
=============================================================================
