----------------------------- MODULE Enumeration -----------------------------
(***************************************************************************)
(* The members of a finite set of numbers in ascending order: how the code  *)
(* walks its ordered containers.                                            *)
(***************************************************************************)
EXTENDS Integers, FiniteSets

\* The members of S below x, and the i-th member of S.
Below(S, x) == {y \in S : y < x}
Nth(S, i) == CHOOSE x \in S : Cardinality(Below(S, x)) = i - 1

Ascending(S) == [i \in 1 .. Cardinality(S) |-> Nth(S, i)]
=============================================================================
