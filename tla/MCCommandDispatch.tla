------------------------- MODULE MCCommandDispatch -------------------------
(* Small instances of CommandDispatch for TLC. *)
EXTENDS CommandDispatch, TLC

CmdSymmetry == Permutations(Cmds)
=============================================================================
