----------------------------- MODULE PublicScreens -----------------------------
(***************************************************************************)
(* The screens the public sees: the tablet on the counter (Kiosk) and the  *)
(* page on which consent is withdrawn (WithdrawScreen).  They share        *)
(* nothing but the server, and what each needs of it is in its own module; *)
(* a behaviour is that of one of them.                                     *)
(***************************************************************************)
EXTENDS Kiosk, WithdrawScreen

VARIABLE at   \* the screen that somebody is at

publicVars == <<at, kioskVars, withdrawVars>>

PublicInit == at \in {"counter", "home"} /\ KioskInit /\ WithdrawInit

AtCounter(A) == at = "counter" /\ A /\ UNCHANGED <<at, withdrawVars>>
AtHome(A)    == at = "home" /\ A /\ UNCHANGED <<at, kioskVars>>

PublicNext == AtCounter(KioskNext) \/ AtHome(WithdrawNext)

\* The timers of the tablet run.
PublicSpec == PublicInit /\ [][PublicNext]_publicVars /\ WF_publicVars(AtCounter(Moment))

\* Types of both screens.
PublicTypeOK == KioskTypeOK /\ WithdrawTypeOK
===============================================================================
