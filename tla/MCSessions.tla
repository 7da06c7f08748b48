----------------------------- MODULE MCSessions -----------------------------
(***************************************************************************)
(* An instance of Sessions: the first tab does everything, the second one  *)
(* loads its user.                                                         *)
(***************************************************************************)
EXTENDS Sessions

CONSTANTS t1, t2

MCSlots == {<<t1, "me">>, <<t1, "call">>, <<t2, "me">>}
=============================================================================
