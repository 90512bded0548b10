---------------------------- MODULE MCServerLive ----------------------------
(***************************************************************************)
(* What the server promises to do in the end, on smaller instances: every  *)
(* dispatched command is answered, and what no recovery point needs is     *)
(* deleted.  A behaviour is one of two scenes; the other part stays in its *)
(* initial state.                                                          *)
(***************************************************************************)
EXTENDS CommandDispatch, RecoveryPoints

VARIABLE scene

MCInit == scene \in {"dispatch", "points"} /\ DispatchInit /\ Init

MCNext ==
    /\ UNCHANGED scene
    /\ \/ scene = "dispatch" /\ DispatchNext /\ UNCHANGED vars
       \/ scene = "points" /\ Next /\ UNCHANGED dispatchVars

\* The fairness of each part, in its scene.
MCFairness == (scene = "dispatch" => DispatchFairness) /\ (scene = "points" => Fairness)

MCSpec == MCInit /\ [][MCNext]_<<scene, dispatchVars, vars>> /\ MCFairness
=============================================================================
