------------------------------- MODULE Scene -------------------------------
(***************************************************************************)
(* The part of the console a behaviour of an instance is about.  The parts *)
(* share no state, so one at a time moves and the others rest.             *)
(***************************************************************************)
VARIABLE scene
=============================================================================
