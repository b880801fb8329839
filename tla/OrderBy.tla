-------------------------------- MODULE OrderBy --------------------------------
(***************************************************************************)
(* What "order by" makes of the rows of a query: a sequence.               *)
(***************************************************************************)
EXTENDS Integers, FiniteSets

\* The elements of S, a finite set of integers, in ascending order.
Ascending(S) ==
    [n \in 1..Cardinality(S) |-> CHOOSE x \in S : Cardinality({y \in S : y < x}) = n - 1]
==============================================================================
