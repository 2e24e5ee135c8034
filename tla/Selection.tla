------------------------------ MODULE Selection ------------------------------
(***************************************************************************)
(* Some elements of a sequence, in their order: what a filter keeps.         *)
(***************************************************************************)
EXTENDS Integers, FiniteSets

\* The k-th of the numbers I.
Nth(I, k) == CHOOSE i \in I : Cardinality({j \in I : j <= i}) = k

\* The elements of s at the places I.
Chosen(s, I) == [k \in 1..Cardinality(I) |-> s[Nth(I, k)]]
=============================================================================
