--------------------------- MODULE MCSocialToggle ---------------------------
(* The other users and the requests are interchangeable. *)
EXTENDS SocialToggle, TLC

Symmetry == Permutations(Users \ {Me}) \union Permutations(Slots)
=============================================================================
