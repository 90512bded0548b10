----------------------- MODULE RecoveryPointsProofs ------------------------
(***************************************************************************)
(* A recovery point whose manifest is in the Repository has all of its     *)
(* components, its manifest never changes and never comes back, and what   *)
(* the index calls committed exists: for any number of recovery points,    *)
(* components, failures, deletions, reindexing runs and restores.          *)
(***************************************************************************)
EXTENDS RecoveryPoints, TLAPS

Types ==
    /\ snaps \in [RPs -> SUBSET Components] /\ refs \in [RPs -> SUBSET Components]
    /\ state \in [RPs -> States] /\ delete \in [RPs -> {"none", "future", "due"}]
    /\ manifests \subseteq RPs /\ aged \subseteq RPs
    /\ gc \subseteq RPs \X Components /\ reindex \subseteq SUBSET RPs
    /\ todo \subseteq RPs \X {"manual", "retention"} /\ cur \subseteq RPs \X {"manual", "retention"}
    /\ last \in Nat /\ last <= MaxRP
    /\ backup \in {"idle", "capture", "commit", "write", "written"}
    /\ backup # "idle" => last > 0

(* Nothing is known of a recovery point before it is created.              *)
Known(r) == r <= last
OnlyKnown ==
    /\ \A r \in RPs : state[r] # "none" \/ delete[r] # "none" \/ snaps[r] # {} => Known(r)
    /\ \A r \in manifests : Known(r)
    /\ \A found \in reindex : \A r \in found : Known(r)

(* What aged, is due or is a candidate for deletion is not in backup, and  *)
(* will never be again; what orphan collection has listed has no manifest, *)
(* and will never get one.                                                 *)
Settled(r) == r <= last /\ NotInBackup(r)
OnlySettled ==
    /\ \A r \in aged : Settled(r)
    /\ \A r \in RPs : delete[r] = "due" => Settled(r)
    /\ \A x \in todo \union cur : Settled(x[1])
    /\ \A x \in gc : x[1] \in aged /\ x[1] \notin manifests

(* The components the backup looked up are still there when it writes.     *)
Looked ==
    /\ backup \in {"commit", "write", "written"} => Required \subseteq refs[last]
    /\ backup = "write" => refs[last] \subseteq snaps[last]

IInv == Types /\ OnlyKnown /\ OnlySettled /\ Looked /\ ManifestComplete

(* Nothing exists at the start.                                            *)
LEMMA InitIInv == Init => IInv
BY BoundsAssumption DEF Init, IInv, Types, OnlyKnown, OnlySettled, Looked, ManifestComplete,
                        Known, Settled, NotInBackup, RPs, States

(* Every step preserves IInv: one step of the proof per action.            *)
LEMMA Inductive == IInv /\ [Next]_vars => IInv'
<1> SUFFICES ASSUME IInv, [Next]_vars PROVE IInv'
  OBVIOUS
<1> USE BoundsAssumption DEF IInv, Types, OnlyKnown, OnlySettled, Looked, ManifestComplete,
                            Known, Settled, NotInBackup, RPs, repo, index, job, maint, ret
<1>1. CASE PrepareBackup
  BY <1>1 DEF PrepareBackup, States
<1>2. ASSUME NEW c \in Components, Snapshot(c) PROVE IInv'
  BY <1>2 DEF Snapshot
<1>3. CASE Captured
  BY <1>3 DEF Captured
<1>4. CASE CommitValidate
  BY <1>4 DEF CommitValidate
<1>5. CASE CommitWrite
  BY <1>5 DEF CommitWrite
<1>6. CASE CompleteCommitted
  BY <1>6 DEF CompleteCommitted, States
<1>7. CASE CompleteFailed
  BY <1>7 DEF CompleteFailed, States
<1>8. ASSUME NEW r \in RPs, GraceEnds(r) PROVE IInv'
  BY <1>8 DEF GraceEnds
<1>9. CASE CollectList
  BY <1>9 DEF CollectList, Orphans
<1>10. CASE CollectDelete
  BY <1>10 DEF CollectDelete
<1>11. CASE CollectFails
  BY <1>11 DEF CollectFails
<1>12. CASE ReindexRead
  BY <1>12 DEF ReindexRead
<1>13. CASE ReindexWrite
  BY <1>13 DEF ReindexWrite, States
<1>14. CASE RetentionList
  <2>1. PICK keep \in SUBSET Committed :
            /\ Newest(Committed) \subseteq keep
            /\ todo' = {<<r, "manual">> : r \in {s \in RPs \ busy : delete[s] = "due"
                                                    /\ state[s] \in {"committed", "missing", "deleting"}}}
                       \union {<<r, "retention">> : r \in {s \in Committed \ (keep \union busy) : delete[s] = "none"}}
    BY <1>14 DEF RetentionList
  <2>2. ASSUME NEW r \in Committed \ keep PROVE r < last
    <3>1. PICK s \in Committed : ~(s <= r)
      BY <2>1, <2>2 DEF Newest
    <3> QED
      BY <3>1 DEF Committed
  <2>3. ASSUME NEW x \in todo' PROVE x \in RPs \X {"manual", "retention"} /\ Settled(x[1])
    <3>1. CASE \E r \in RPs : x = <<r, "manual">> /\ delete[r] = "due"
      BY <3>1
    <3>2. CASE \E r \in Committed \ keep : x = <<r, "retention">>
      BY <2>2, <3>2 DEF Committed
    <3> QED
      BY <2>1, <2>3, <3>1, <3>2
  <2>4. UNCHANGED <<repo, index, job, maint, cur>>
    BY <1>14 DEF RetentionList
  <2>5. Types'
    BY <2>3, <2>4
  <2>6. OnlySettled'
    BY <2>3, <2>4
  <2>7. (OnlyKnown /\ Looked /\ ManifestComplete)'
    BY <2>4
  <2> QED
    BY <2>5, <2>6, <2>7
<1>15. CASE BeginDeletion
  BY <1>15 DEF BeginDeletion, States
<1>16. CASE DeleteManifest
  BY <1>16 DEF DeleteManifest
<1>17. CASE DeleteComponent
  BY <1>17 DEF DeleteComponent
<1>18. CASE FinishDeletion
  BY <1>18 DEF FinishDeletion, States
<1>19. CASE DeletionFails
  BY <1>19 DEF DeletionFails
<1>20. ASSUME NEW r \in RPs, ScheduleDeletion(r) PROVE IInv'
  BY <1>20 DEF ScheduleDeletion
<1>21. ASSUME NEW r \in RPs, DeletionDue(r) PROVE IInv'
  BY <1>21 DEF DeletionDue
<1>22. ASSUME NEW r \in RPs, CancelDeletion(r) PROVE IInv'
  BY <1>22 DEF CancelDeletion
<1>23. ASSUME NEW r \in RPs, StartRestore(r) PROVE IInv'
  BY <1>23 DEF StartRestore
<1>24. CASE FinishRestore
  BY <1>24 DEF FinishRestore
<1>25. CASE UNCHANGED vars
  BY <1>25 DEF vars
<1> QED
  BY <1>1, <1>2, <1>3, <1>4, <1>5, <1>6, <1>7, <1>8, <1>9, <1>10, <1>11, <1>12, <1>13, <1>14, <1>15, <1>16, <1>17, <1>18, <1>19, <1>20, <1>21, <1>22, <1>23, <1>24, <1>25
     DEF Next, BackupStep, DeletionStep, Operator

(* In every behaviour, a manifest in the Repository names only components  *)
(* that are in the Repository, and all required ones.                      *)
THEOREM ManifestsAlwaysComplete == Spec => []ManifestComplete
<1>1. IInv => ManifestComplete
  BY DEF IInv
<1> QED
  BY InitIInv, Inductive, <1>1, PTL DEF Spec

(* The manifest of the backup in progress is written once, and before its  *)
(* commit is reported; until somebody reindexes, a deletion in progress    *)
(* has marked its recovery point, and the committed ones have manifests.   *)
Indexed ==
    /\ backup = "capture" => last \notin manifests
    /\ backup = "written" => last \in manifests
    /\ reindexes \in Nat
    /\ reindexes = 0 => /\ reindex = {}
                        /\ \A x \in cur : state[x[1]] = "deleting"
                        /\ \A r \in RPs : state[r] = "committed" => r \in manifests

(* The index is empty at the start.                                        *)
LEMMA InitIndexed == Init => Indexed
BY DEF Init, Indexed, RPs

(* Every step preserves Indexed.                                           *)
LEMMA IndexedInductive == IInv /\ IInv' /\ Indexed /\ [Next]_vars => Indexed'
<1> SUFFICES ASSUME IInv, IInv', Indexed, [Next]_vars PROVE Indexed'
  OBVIOUS
<1> USE BoundsAssumption DEF IInv, Types, OnlyKnown, OnlySettled, Indexed, Known, Settled,
        NotInBackup, RPs, repo, index, job, maint, ret, budget, Fault
<1>1. CASE PrepareBackup
  BY <1>1 DEF PrepareBackup
<1>2. ASSUME NEW c \in Components, Snapshot(c) PROVE Indexed'
  BY <1>2 DEF Snapshot
<1>3. CASE Captured
  BY <1>3 DEF Captured
<1>4. CASE CommitValidate
  BY <1>4 DEF CommitValidate
<1>5. CASE CommitWrite
  BY <1>5 DEF CommitWrite
<1>6. CASE CompleteCommitted
  BY <1>6 DEF CompleteCommitted
<1>7. CASE CompleteFailed
  BY <1>7 DEF CompleteFailed
<1>8. ASSUME NEW r \in RPs, GraceEnds(r) PROVE Indexed'
  BY <1>8 DEF GraceEnds
<1>9. CASE CollectList
  BY <1>9 DEF CollectList
<1>10. CASE CollectDelete
  BY <1>10 DEF CollectDelete
<1>11. CASE CollectFails
  BY <1>11 DEF CollectFails
<1>12. CASE ReindexRead
  BY <1>12 DEF ReindexRead
<1>13. CASE ReindexWrite
  BY <1>13 DEF ReindexWrite
<1>14. CASE RetentionList
  BY <1>14 DEF RetentionList
<1>15. CASE BeginDeletion
  BY <1>15 DEF BeginDeletion
<1>16. CASE DeleteManifest
  BY <1>16 DEF DeleteManifest
<1>17. CASE DeleteComponent
  BY <1>17 DEF DeleteComponent
<1>18. CASE FinishDeletion
  BY <1>18 DEF FinishDeletion
<1>19. CASE DeletionFails
  BY <1>19 DEF DeletionFails
<1>20. ASSUME NEW r \in RPs, ScheduleDeletion(r) PROVE Indexed'
  BY <1>20 DEF ScheduleDeletion
<1>21. ASSUME NEW r \in RPs, DeletionDue(r) PROVE Indexed'
  BY <1>21 DEF DeletionDue
<1>22. ASSUME NEW r \in RPs, CancelDeletion(r) PROVE Indexed'
  BY <1>22 DEF CancelDeletion
<1>23. ASSUME NEW r \in RPs, StartRestore(r) PROVE Indexed'
  BY <1>23 DEF StartRestore
<1>24. CASE FinishRestore
  BY <1>24 DEF FinishRestore
<1>25. CASE UNCHANGED vars
  BY <1>25 DEF vars
<1> QED
  BY <1>1, <1>2, <1>3, <1>4, <1>5, <1>6, <1>7, <1>8, <1>9, <1>10, <1>11, <1>12, <1>13,
     <1>14, <1>15, <1>16, <1>17, <1>18, <1>19, <1>20, <1>21, <1>22, <1>23, <1>24, <1>25
     DEF Next, BackupStep, DeletionStep, Operator

(* While nobody reindexes, what the index calls committed has its manifest *)
(* in the Repository: CompleteBackup follows the commit, and               *)
(* BeginRecoveryPointDeletion precedes the deletion of the manifest.       *)
THEOREM CommittedAlwaysExists == Spec => []CommittedExists
<1>1. Indexed => CommittedExists
  BY DEF Indexed, CommittedExists, Committed
<1> QED
  BY InitIInv, Inductive, InitIndexed, IndexedInductive, <1>1, PTL DEF Spec

(* A recovery point is immutable: no step changes what a manifest in the   *)
(* Repository names, and none writes the manifest of a recovery point      *)
(* whose backup is over, so a deleted recovery point never comes back,     *)
(* whatever retries, late deletions and reindexing runs do.                *)
Immutable ==
    \A r \in RPs : /\ r \in manifests => refs'[r] = refs[r]
                   /\ Settled(r) /\ r \notin manifests => r \notin manifests'

(* Every execution of captures, commits, deletions, collections and        *)
(* reindexing keeps recovery points immutable (activities.go, commitWith). *)
THEOREM RecoveryPointsImmutable == Spec => [][Immutable]_vars
<1>1. IInv /\ Indexed /\ Next => Immutable
  <2> SUFFICES ASSUME IInv, Indexed, Next PROVE Immutable
    OBVIOUS
  <2> USE DEF IInv, Types, OnlyKnown, Indexed, Known, Settled, NotInBackup, Immutable, repo, RPs
  <2>1. CASE Captured
    BY <2>1 DEF Captured
  <2>2. CASE CommitWrite
    BY <2>2 DEF CommitWrite
  <2>3. CASE DeleteManifest
    BY <2>3 DEF DeleteManifest
  <2>4. CASE UNCHANGED <<manifests, refs>>
    BY <2>4
  <2>5. Captured \/ CommitWrite \/ DeleteManifest \/ UNCHANGED <<manifests, refs>>
    BY DEF Next, BackupStep, DeletionStep, Operator, PrepareBackup, Snapshot, CommitValidate,
       CompleteCommitted, CompleteFailed, GraceEnds, CollectList, CollectDelete, CollectFails,
       ReindexRead, ReindexWrite, RetentionList, BeginDeletion, DeleteComponent, FinishDeletion,
       DeletionFails, ScheduleDeletion, DeletionDue, CancelDeletion, StartRestore, FinishRestore
  <2> QED
    BY <2>1, <2>2, <2>3, <2>4, <2>5
<1> QED
  BY InitIInv, Inductive, InitIndexed, IndexedInductive, <1>1, PTL DEF Spec
=============================================================================
