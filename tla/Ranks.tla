------------------------------- MODULE Ranks -------------------------------
(* Sets of numbers in ascending order.  Nth(S, k) is SetToSortSeq(S, <)[k]  *)
(* of the community modules, in terms that can be reasoned about.           *)
EXTENDS Integers, FiniteSets

Rank(S, i) == Cardinality({j \in S : j <= i})

Nth(S, k) == CHOOSE i \in S : Rank(S, i) = k
=============================================================================
