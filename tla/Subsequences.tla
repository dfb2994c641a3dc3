----------------------------- MODULE Subsequences -----------------------------
(***************************************************************************)
(* Loops of the code that visit a set of numbers in increasing order, or   *)
(* keep some elements of a vector in their order.                          *)
(***************************************************************************)
EXTENDS Integers, Sequences, FiniteSets

\* The elements of a finite set of numbers, in increasing order.
Ascending(S) ==
    [k \in 1..Cardinality(S) |->
        CHOOSE x \in S : Cardinality({y \in S : y <= x}) = k]

\* The elements of s at the positions in I, in the order of s.
Picked(s, I) == [k \in 1..Cardinality(I) |-> s[Ascending(I)[k]]]

=============================================================================
