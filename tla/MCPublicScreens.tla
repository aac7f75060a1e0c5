---------------------------- MODULE MCPublicScreens ----------------------------
(* Two visitors at a tablet whose clock has three ticks to clear it; two   *)
(* identities behind one contact point, one of which declined one of the  *)
(* two purposes.                                                           *)
EXTENDS PublicScreens

CONSTANTS p1, p2, u1, u2

MCDeclined == {<<p2, u2>>}
===============================================================================
