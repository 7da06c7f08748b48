--------------------------- MODULE MCApplications ---------------------------
(***************************************************************************)
(* Instances of Applications for TLC.                                      *)
(***************************************************************************)
EXTENDS Applications, TLC

CONSTANTS good    \* a code every candidate may use; any other code is bound elsewhere

GoodForAll == {good} \X Keys

\* Slots and candidates are interchangeable; every run with a symmetry checks safety only.
RunSymmetry == Permutations(Requests) \union Permutations(Candidates)
=============================================================================
