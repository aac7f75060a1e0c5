------------------------------ MODULE MCDpoDesk ------------------------------
(***************************************************************************)
(* An instance of DpoDesk for TLC.  Rows, people and desks have no order;  *)
(* the order rows are listed in is the variable arrivals.                  *)
(***************************************************************************)
EXTENDS DpoDesk, TLC

Alike == Permutations(Persons) \cup Permutations(Desks) \cup Permutations(Items)
===============================================================================
