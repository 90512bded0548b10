------------------------------ MODULE MCAgent ------------------------------
(***************************************************************************)
(* Instances of two parts of an agent that share no state: its leases and  *)
(* one restore.  A behaviour is one of two scenes; the other part      *)
(* stays in an initial state.                                              *)
(***************************************************************************)
EXTENDS QuiesceLease, RestoreSwap, TLC

CONSTANTS l1, l2, a1, c1, c2

\* Two containers of one application.
SameApp == c1 :> a1 @@ c2 :> a1
LeaseSymmetry == Permutations(Leases)

VARIABLE scene

MCInit ==
    /\ scene \in {"lease", "swap"} /\ Init /\ SwapInit
    /\ scene # "lease" => cur = l1 /\ answer[1] = l1 /\ \A c \in Containers : container[c] = "running"

\* A restore may wait for ever for its next command.
Waits == at = "idle"

MCNext ==
    /\ UNCHANGED scene
    /\ \/ scene = "lease" /\ Next /\ UNCHANGED swapVars
       \/ scene = "swap" /\ SwapNext /\ UNCHANGED vars
       \/ scene = "swap" /\ Waits /\ UNCHANGED <<vars, swapVars>>

MCSpec == MCInit /\ [][MCNext]_<<scene, vars, swapVars>>
=============================================================================
