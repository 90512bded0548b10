------------------------------ MODULE MCServer ------------------------------
(***************************************************************************)
(* Instances of two parts of the server that share no state: dispatched    *)
(* commands and the recovery points of an application.  A behaviour is one *)
(* of two scenes; the other part stays in its initial state.               *)
(***************************************************************************)
EXTENDS CommandDispatch, RecoveryPoints, TLC

CmdSymmetry == Permutations(Cmds)

VARIABLE scene

MCInit == scene \in {"dispatch", "points"} /\ DispatchInit /\ Init

MCNext ==
    /\ UNCHANGED scene
    /\ \/ scene = "dispatch" /\ DispatchNext /\ UNCHANGED vars
       \/ scene = "points" /\ Next /\ UNCHANGED dispatchVars

MCSpec == MCInit /\ [][MCNext]_<<scene, dispatchVars, vars>>
=============================================================================
