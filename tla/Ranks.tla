------------------------------- MODULE Ranks -------------------------------
(***************************************************************************)
(* Finite sets of numbers in increasing order: what a loop over an array   *)
(* visits when it skips some of the indices.                               *)
(***************************************************************************)
EXTENDS Integers, FiniteSets

\* The k-th smallest member of S.
NthOf(S, k) == CHOOSE i \in S : Cardinality({j \in S : j <= i}) = k

=============================================================================
