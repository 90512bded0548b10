--------------------------- MODULE RecoveryPoints ---------------------------
(***************************************************************************)
(* The recovery points of one application: their snapshots and manifests in *)
(* the Repository, and their index in PostgreSQL.                          *)
(*                                                                         *)
(* A backup (workflows/backup/backup.go, activities.go) captures component *)
(* snapshots, writes the manifest last and then updates the index.         *)
(* Retention (workflows/backup/retention.go,                               *)
(* internal/protection/retention.go) deletes the manifest first and then   *)
(* the components.  Orphan collection and reindexing                       *)
(* (workflows/backup/maintenance.go, internal/protection/platform.go) work *)
(* on what they listed before.  Operators schedule and cancel deletions    *)
(* and start restores.  Backups and restores exclude one another through   *)
(* the workflow identifier of the application; the maintenance workflows   *)
(* are single but run beside everything else.                              *)
(***************************************************************************)
EXTENDS Naturals, FiniteSets

CONSTANTS
    MaxRP,      \* bound: recovery points, numbered in the order of creation
    Components, \* components of the application
    Optional,   \* those whose failure makes a Partial recovery point
    MaxFaults,  \* bound: failed activities and Repository calls
    MaxManual,  \* bound: deletions scheduled by operators
    MaxReindex, \* bound: reindexing runs
    MaxRestores \* bound: restores

ASSUME OptionalAssumption == Optional \subseteq Components
ASSUME BoundsAssumption == /\ MaxRP \in Nat /\ MaxFaults \in Nat /\ MaxManual \in Nat
                           /\ MaxReindex \in Nat /\ MaxRestores \in Nat

VARIABLES
    snaps,     \* component snapshots in the Repository, per recovery point
    manifests, \* recovery points whose manifest is in the Repository
    refs,      \* the components a recovery point's manifest names
    aged,      \* recovery points whose snapshots are older than the GC grace
    state,     \* recovery_points.state
    delete,    \* recovery_points.delete_after: none, in the future, or passed
    last,      \* the last recovery point created
    backup,    \* step of the backup of recovery point `last`
    busy,      \* recovery points used by an active restore
    gc,        \* snapshots orphan collection has listed and will delete
    reindex,   \* the manifests a reindexing run has read: none, or one set
    todo,      \* the retention run's candidates, as pairs of point and reason
    cur,       \* the candidate being deleted, at most one
    faults, manuals, reindexes, restores  \* what was spent of the bounds

repo   == <<snaps, manifests, refs, aged>>
index  == <<state, delete>>
job    == <<last, backup>>
maint  == <<gc, reindex>>
ret    == <<todo, cur>>
budget == <<faults, manuals, reindexes, restores>>
vars == <<snaps, manifests, refs, aged, state, delete, last, backup, busy, gc, reindex,
          todo, cur, faults, manuals, reindexes, restores>>

RPs == 1..MaxRP
Required == Components \ Optional
States == {"none", "pending", "committed", "failed", "missing", "deleting", "deleted"}

Init ==
    /\ snaps = [r \in RPs |-> {}] /\ manifests = {} /\ refs = snaps /\ aged = {}
    /\ state = [r \in RPs |-> "none"] /\ delete = [r \in RPs |-> "none"]
    /\ last = 0 /\ backup = "idle" /\ busy = {}
    /\ gc = {} /\ reindex = {} /\ todo = {} /\ cur = {}
    /\ faults = 0 /\ manuals = 0 /\ reindexes = 0 /\ restores = 0

Fault == /\ faults < MaxFaults /\ faults' = faults + 1
         /\ UNCHANGED <<manuals, reindexes, restores>>

(***************************************************************************)
(* Backup: capture, commit, index.                                         *)
(***************************************************************************)

\* PrepareBackup: a pending recovery point; no restore holds the application.
PrepareBackup ==
    /\ backup = "idle" /\ busy = {} /\ last < MaxRP
    /\ last' = last + 1 /\ backup' = "capture"
    /\ state' = [state EXCEPT ![last'] = "pending"]
    /\ UNCHANGED <<repo, delete, busy, maint, ret, budget>>

\* The agent writes the snapshot of a component.
Snapshot(c) ==
    /\ backup = "capture" /\ c \notin snaps[last]
    /\ snaps' = [snaps EXCEPT ![last] = @ \union {c}]
    /\ UNCHANGED <<manifests, refs, aged, index, job, busy, maint, ret, budget>>

\* failedRequired: without a required component there is no commit.
Captured ==
    /\ backup = "capture" /\ Required \subseteq snaps[last]
    /\ backup' = "commit"
    /\ refs' = [refs EXCEPT ![last] = snaps[last]]
    /\ UNCHANGED <<snaps, manifests, aged, index, last, busy, maint, ret, budget>>

\* commitWith, first part: every component of the manifest is looked up; a
\* manifest an earlier attempt wrote is returned.
CommitValidate ==
    /\ backup = "commit" /\ refs[last] \subseteq snaps[last]
    /\ backup' = IF last \in manifests THEN "written" ELSE "write"
    /\ UNCHANGED <<repo, index, last, busy, maint, ret, budget>>

\* commitWith, second part: the manifest is written; the attempt may be lost
\* after that, and Commit is then tried again.
CommitWrite ==
    /\ backup = "write"
    /\ manifests' = manifests \union {last}
    /\ \/ backup' = "written" /\ UNCHANGED budget
       \/ backup' = "commit" /\ Fault
    /\ UNCHANGED <<snaps, refs, aged, index, last, busy, maint, ret>>

\* Mutant: the index is updated though the commit is not known.
CompleteCommitted_Early ==
    /\ backup \in {"commit", "written"} /\ backup' = "idle"
    /\ state' = [state EXCEPT ![last] = "committed"]
    /\ UNCHANGED <<repo, delete, last, busy, maint, ret, budget>>

\* CompleteBackup with outcome committed; a failure is only logged.
CompleteCommitted ==
    /\ backup = "written" /\ backup' = "idle"
    /\ \/ state' = [state EXCEPT ![last] = "committed"] /\ UNCHANGED budget
       \/ UNCHANGED state /\ Fault
    /\ UNCHANGED <<repo, delete, last, busy, maint, ret>>

\* The workflow fails before the commit is known; CompleteBackup with outcome
\* failed changes pending recovery points only, and its failure is ignored.
CompleteFailed ==
    /\ backup \in {"capture", "commit"} /\ backup' = "idle" /\ Fault
    /\ \/ /\ state[last] = "pending"
          /\ state' = [state EXCEPT ![last] = "failed"]
       \/ UNCHANGED state
    /\ UNCHANGED <<repo, delete, last, busy, maint, ret>>

(***************************************************************************)
(* Orphan collection.                                                      *)
(***************************************************************************)

\* Both grace periods, of orphans and of manual deletions, are longer than what
\* is left of the backup that made the recovery point: its activities have
\* timeouts and a bounded number of attempts.
NotInBackup(r) == r = last => backup = "idle"

\* The grace period of a recovery point's snapshots passes.
GraceEnds(r) ==
    /\ r \notin aged /\ snaps[r] # {} /\ NotInBackup(r)
    /\ aged' = aged \union {r}
    /\ UNCHANGED <<snaps, manifests, refs, index, job, busy, maint, ret, budget>>

\* Mutant: snapshots younger than the grace period are orphans too.
Orphans_NoGrace == {x \in RPs \X Components : x[2] \in snaps[x[1]] /\ x[1] \notin manifests}

Orphans == {x \in RPs \X Components : x[2] \in snaps[x[1]] /\ x[1] \notin manifests /\ x[1] \in aged}

\* collectOrphans: one listing, then the deletions it found.
CollectList ==
    /\ gc = {} /\ Orphans # {}
    /\ gc' = Orphans
    /\ UNCHANGED <<repo, index, job, busy, reindex, ret, budget>>

CollectDelete ==
    /\ \E x \in gc : /\ snaps' = [snaps EXCEPT ![x[1]] = @ \ {x[2]}]
                     /\ gc' = gc \ {x}
    /\ UNCHANGED <<manifests, refs, aged, index, job, busy, reindex, ret, budget>>

CollectFails ==
    /\ gc # {} /\ gc' = {} /\ Fault
    /\ UNCHANGED <<repo, index, job, busy, reindex, ret>>

(***************************************************************************)
(* Reindexing.                                                             *)
(***************************************************************************)

\* readManifests.
ReindexRead ==
    /\ reindex = {} /\ reindexes < MaxReindex
    /\ reindexes' = reindexes + 1
    /\ reindex' = {manifests}
    /\ UNCHANGED <<repo, index, job, busy, gc, ret, faults, manuals, restores>>

\* IndexRecoveryPoints, in one transaction: what was read is committed, what
\* was committed and not read is missing.
ReindexWrite ==
    /\ \E found \in reindex :
           state' = [r \in RPs |-> IF r \in found THEN "committed"
                                  ELSE IF state[r] = "committed" THEN "missing"
                                  ELSE state[r]]
    /\ reindex' = {}
    /\ UNCHANGED <<repo, delete, job, busy, gc, ret, budget>>

(***************************************************************************)
(* Retention.                                                              *)
(***************************************************************************)

Committed == {r \in RPs : state[r] = "committed"}

Newest(S) == {r \in S : \A s \in S : s <= r}

\* ListRetentionCandidates: due manual deletions, and the committed recovery
\* points outside the policy.  retentionKeep keeps at least the newest one.
RetentionList ==
    /\ todo = {} /\ cur = {}
    /\ \E keep \in SUBSET Committed :
        /\ Newest(Committed) \subseteq keep
        /\ todo' = {<<r, "manual">> : r \in {s \in RPs \ busy : delete[s] = "due"
                                               /\ state[s] \in {"committed", "missing", "deleting"}}}
                   \union {<<r, "retention">> : r \in {s \in Committed \ (keep \union busy) : delete[s] = "none"}}
    /\ todo' # {}
    /\ UNCHANGED <<repo, index, job, busy, maint, cur, budget>>

\* Mutant: a deletion that was begun is not taken up again.
BeginDeletion_CommittedOnly ==
    /\ cur = {}
    /\ \E x \in todo :
        /\ todo' = todo \ {x}
        /\ IF state[x[1]] \in {"committed", "missing"}
           THEN cur' = {x} /\ state' = [state EXCEPT ![x[1]] = "deleting"]
           ELSE UNCHANGED <<cur, state>>
    /\ UNCHANGED <<repo, delete, job, busy, maint, budget>>

\* BeginRecoveryPointDeletion looks at the state only.
BeginDeletion ==
    /\ cur = {}
    /\ \E x \in todo :
        /\ todo' = todo \ {x}
        /\ IF state[x[1]] \in {"committed", "missing", "deleting"}
           THEN cur' = {x} /\ state' = [state EXCEPT ![x[1]] = "deleting"]
           ELSE UNCHANGED <<cur, state>>
    /\ UNCHANGED <<repo, delete, job, busy, maint, budget>>

\* deleteRecoveryPoint: the manifest, then the components.
DeleteManifest ==
    /\ \E x \in cur : x[1] \in manifests /\ manifests' = manifests \ {x[1]}
    /\ UNCHANGED <<snaps, refs, aged, index, job, busy, maint, ret, budget>>

DeleteComponent ==
    /\ \E x \in cur : /\ x[1] \notin manifests
                      /\ \E c \in snaps[x[1]] : snaps' = [snaps EXCEPT ![x[1]] = @ \ {c}]
    /\ UNCHANGED <<manifests, refs, aged, index, job, busy, maint, ret, budget>>

\* FinishRecoveryPointDeletion.
FinishDeletion ==
    /\ \E x \in cur : /\ x[1] \notin manifests /\ snaps[x[1]] = {}
                      /\ state' = [state EXCEPT ![x[1]] = "deleted"]
    /\ cur' = {}
    /\ UNCHANGED <<repo, delete, job, busy, maint, todo, budget>>

\* Every attempt failed: the failure is recorded and the run goes on.
DeletionFails ==
    /\ cur # {} /\ cur' = {} /\ Fault
    /\ UNCHANGED <<repo, index, job, busy, maint, todo>>

(***************************************************************************)
(* Operators.                                                              *)
(***************************************************************************)

ScheduleDeletion(r) ==
    /\ manuals < MaxManual /\ manuals' = manuals + 1
    /\ state[r] \in {"committed", "missing"} /\ delete[r] = "none"
    /\ delete' = [delete EXCEPT ![r] = "future"]
    /\ UNCHANGED <<repo, state, job, busy, maint, ret, faults, reindexes, restores>>

DeletionDue(r) ==
    /\ delete[r] = "future" /\ NotInBackup(r)
    /\ delete' = [delete EXCEPT ![r] = "due"]
    /\ UNCHANGED <<repo, state, job, busy, maint, ret, budget>>

CancelDeletion(r) ==
    /\ state[r] \in {"committed", "missing"} /\ delete[r] # "none"
    /\ delete' = [delete EXCEPT ![r] = "none"]
    /\ UNCHANGED <<repo, state, job, busy, maint, ret, budget>>

\* StartRestore: only committed recovery points, and no backup is running.
StartRestore(r) ==
    /\ state[r] = "committed" /\ backup = "idle" /\ busy = {}
    /\ restores < MaxRestores /\ restores' = restores + 1
    /\ busy' = {r}
    /\ UNCHANGED <<repo, index, job, maint, ret, faults, manuals, reindexes>>

FinishRestore ==
    /\ busy # {} /\ busy' = {}
    /\ UNCHANGED <<repo, index, job, maint, ret, budget>>

BackupStep == \/ PrepareBackup \/ Captured \/ CommitValidate \/ CommitWrite \/ CompleteCommitted
              \/ \E c \in Components : Snapshot(c)
DeletionStep == BeginDeletion \/ DeleteManifest \/ DeleteComponent \/ FinishDeletion
Operator(r) == ScheduleDeletion(r) \/ CancelDeletion(r) \/ StartRestore(r)
Next ==
    \/ BackupStep \/ CompleteFailed \/ FinishRestore
    \/ CollectList \/ CollectDelete \/ CollectFails
    \/ ReindexRead \/ ReindexWrite
    \/ RetentionList \/ DeletionStep \/ DeletionFails
    \/ \E r \in RPs : GraceEnds(r) \/ DeletionDue(r) \/ Operator(r)

Spec == Init /\ [][Next]_vars

\* Temporal runs started workflows to their end and the schedules of retention
\* and orphan collection start new ones; time passes; restores end.
Fairness ==
    /\ WF_vars(CollectList) /\ WF_vars(CollectDelete) /\ WF_vars(ReindexWrite)
    /\ WF_vars(RetentionList) /\ WF_vars(DeletionStep) /\ WF_vars(FinishRestore)
    /\ \A r \in RPs : WF_vars(GraceEnds(r)) /\ WF_vars(DeletionDue(r))
FairSpec == Spec /\ Fairness

(***************************************************************************)
(* Properties.                                                             *)
(***************************************************************************)

\* The variables keep their types; a started job stays within its lists.
TypeOK ==
    /\ snaps \in [RPs -> SUBSET Components] /\ refs \in [RPs -> SUBSET Components]
    /\ manifests \subseteq RPs /\ aged \subseteq RPs /\ busy \subseteq RPs
    /\ state \in [RPs -> States] /\ delete \in [RPs -> {"none", "future", "due"}]
    /\ last \in 0..MaxRP /\ backup \in {"idle", "capture", "commit", "write", "written"}
    /\ gc \subseteq RPs \X Components /\ reindex \subseteq SUBSET RPs
    /\ todo \subseteq RPs \X {"manual", "retention"} /\ cur \subseteq RPs \X {"manual", "retention"}
    /\ Cardinality(cur) <= 1 /\ Cardinality(busy) <= 1
    /\ faults \in 0..MaxFaults /\ manuals \in 0..MaxManual
    /\ reindexes \in 0..MaxReindex /\ restores \in 0..MaxRestores

\* A recovery point whose manifest is in the Repository has every component
\* its manifest names, while backups, deletions and orphan collections run and
\* fail half way (activities.go, commitWith: manifest last; retention.go,
\* deleteRecoveryPoint: manifest first; maintenance.go, collectOrphans).
ManifestComplete == \A r \in manifests : refs[r] \subseteq snaps[r] /\ Required \subseteq refs[r]

\* As long as nobody reindexes, what the index calls committed has its
\* manifest: it is written before CompleteBackup and deleted after
\* BeginRecoveryPointDeletion.
CommittedExists == reindexes = 0 => \A r \in Committed : r \in manifests

\* What is to go goes.  Snapshots of a recovery point that has no manifest do not
\* stay for ever, whatever failed, the backup or a deletion (maintenance.go,
\* collectOrphans); and a manual deletion whose grace period has passed is carried
\* out or cancelled, though attempts fail and restores delay it
\* (ListDueDeletions).
GarbageGoes ==
    \A r \in RPs :
        /\ (snaps[r] # {} /\ r \notin manifests /\ backup = "idle")
                ~> (snaps[r] = {} \/ r \in manifests)
        /\ delete[r] = "due" ~> (state[r] = "deleted" \/ delete[r] # "due")

\* As the failure alert says: a deletion that failed is tried again.
FailedDeletionRetried == \A r \in RPs : state[r] = "deleting" ~> state[r] # "deleting"
=============================================================================
