------------------------------- MODULE Sorting -------------------------------
(* What sort.Strings and sort.Slice make of values that are all different   *)
(* (src/internal/rules/engine.go, src/internal/app/service.go).             *)
EXTENDS Integers, FiniteSets

\* The elements of S in order: each stands behind as many as are smaller.
Ascending(S) ==
    [i \in 1..Cardinality(S) |-> CHOOSE x \in S : Cardinality({y \in S : y < x}) = i - 1]
=============================================================================
