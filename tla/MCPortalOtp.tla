------------------------------ MODULE MCPortalOtp ------------------------------
(***************************************************************************)
(* Instances of PortalOtp for TLC.                                         *)
(***************************************************************************)
EXTENDS PortalOtp, TLC

Calls == Permutations(Requests) \cup Permutations(Verifications)
===============================================================================
