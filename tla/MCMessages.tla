----------------------------- MODULE MCMessages -----------------------------
(***************************************************************************)
(* Instances of Messages for TLC: in the one discussion, the users send    *)
(* in turn.                                                                *)
(***************************************************************************)
EXTENDS Messages, TLC

CONSTANTS d1, u1, u2, m1, m2

Chat == (m1 :> <<d1, u1>>) @@ (m2 :> <<d1, u2>>)

\* The users are interchangeable together with their messages.
Swap == (u1 :> u2) @@ (u2 :> u1) @@ (m1 :> m2) @@ (m2 :> m1)

RunSymmetry == Permutations(Requests) \union {Swap}
=============================================================================
