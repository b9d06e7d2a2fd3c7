------------------------------ MODULE Ascending ------------------------------
(***************************************************************************)
(* A finite set of integers written down in ascending order, and the part  *)
(* of a sequence at a set of its positions, in the order of the sequence:  *)
(* what a sort and a filter of the code compute, in a form that can be     *)
(* reasoned about.                                                         *)
(***************************************************************************)
EXTENDS Integers, FiniteSets, Sequences

\* How many of S come before x.
Rank(S, x) == Cardinality({y \in S : y < x})

InOrder(S) == [n \in 1 .. Cardinality(S) |-> CHOOSE x \in S : Rank(S, x) = n - 1]

Only(s, I) == LET order == InOrder(I) IN [n \in DOMAIN order |-> s[order[n]]]
=============================================================================
