------------------------------- MODULE Orders -------------------------------
(* Some places of a sequence, in their order: what is left when regions are *)
(* removed from an entry, or the answers with a code among all.             *)
EXTENDS Naturals, Sequences, FiniteSets

(* The r-th number of a set in their order, and what a sequence has at the  *)
(* numbers of a set.                                                        *)
Nth(places, r) == CHOOSE p \in places : Cardinality({q \in places : q < p}) = r - 1
At(places, s) == [r \in 1..Cardinality(places) |-> s[Nth(places, r)]]
=============================================================================
