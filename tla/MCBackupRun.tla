---------------------------- MODULE MCBackupRun ----------------------------
(* Instances of BackupRun for TLC. *)
EXTENDS BackupRun, TLC

CONSTANTS l1, a1, c1, c2

\* The containers of the application.
OneApp == [c \in Containers |-> a1]
=============================================================================
