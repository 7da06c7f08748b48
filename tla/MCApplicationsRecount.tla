------------------------ MODULE MCApplicationsRecount ------------------------
(***************************************************************************)
(* Instances of ApplicationsRecount for TLC.  Referral codes play no part  *)
(* in the recount, so there are none.                                      *)
(***************************************************************************)
EXTENDS ApplicationsRecount, TLC

RunSymmetry == Permutations(Candidates)
=============================================================================
