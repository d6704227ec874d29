----------------------------- MODULE Selections -----------------------------
(* The members of a set of positions in their order, and the part of a      *)
(* sequence at such positions.  The sorting and selecting operators of the  *)
(* library are recursive; these say the same by counting, so that the       *)
(* provers can follow.                                                      *)
EXTENDS Integers, FiniteSets, Sequences

(* How many of S are at most i, and the n-th smallest of S. *)
Rank(S, i) == Cardinality({j \in S : j <= i})
Nth(S, n)  == CHOOSE i \in S : Rank(S, i) = n

(* What s has at the positions in S, in its order. *)
Picked(s, S) == [k \in 1..Cardinality(S) |-> s[Nth(S, k)]]
=============================================================================
