-------------------------- MODULE MCOpportunities --------------------------
(* Two opportunities and two requests, each of them like the other. *)
EXTENDS Opportunities, TLC

Symmetry == Permutations(Opps) \union Permutations(Slots)
=============================================================================
