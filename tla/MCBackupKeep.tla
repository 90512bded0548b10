---------------------------- MODULE MCBackupKeep ---------------------------
(***************************************************************************)
(* Instances of a backup run, and of the retention rule that decides what  *)
(* of its results is kept: two scenes without common state.                *)
(***************************************************************************)
EXTENDS MCBackupRun, RetentionKeep

\* Two kinds of periods that do not nest.
TwoKinds == <<2, 3>>

VARIABLE scene

\* A run that has ended without having held anything.
RunOver ==
    /\ Init /\ container = [c \in Containers |-> "running"]
    /\ wf = "end" /\ pending = {} /\ got = [c \in Commands |-> "none"]
    /\ saga = {} /\ resumed = "no" /\ hooked = {} /\ failed = "yes" /\ auto = "no"
    /\ reading = "no" /\ torn = "no" /\ manifest = "no"

MCInit ==
    \/ scene = "run" /\ RunInit /\ KeepInit
       /\ policy = [last |-> 0, every |-> [k \in Kinds |-> 0]]
    \/ scene = "keep" /\ KeepInit /\ RunOver

MCNext ==
    /\ UNCHANGED scene
    /\ \/ scene = "run" /\ RunNext /\ UNCHANGED keepVars
       \/ scene = "keep" /\ KeepNext /\ UNCHANGED RunVars

MCSpec == MCInit /\ [][MCNext]_<<scene, RunVars, keepVars>> /\ (scene = "run" => RunFairness)

\* The states of both scenes are well formed, and a run leaves nothing half done:
\* when it ends a Quiesce that may have reached the agent was followed by Resume,
\* pre hooks by post hooks (backup.go:184, 195).
BackupStateOK == RunTypeOK /\ KeepTypeOK /\ Compensated
=============================================================================
