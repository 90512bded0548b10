---------------------------- MODULE RestoreSwap ----------------------------
(***************************************************************************)
(* One restore on an agent: staging, the swap of every target path, what   *)
(* the restore creates in Docker, and the journal restores/<id>.json from   *)
(* which FinalizeRestore commits or undoes it (internal/agent/restore.go,  *)
(* restorejournal.go, finalize.go, recreate.go).                           *)
(*                                                                         *)
(* The commands of a restore exclude one another (restoreStore.lock), so   *)
(* one command is in progress at a time: `at` is its step and `copy` its   *)
(* copy of the journal.  The agent may stop between any two steps.  Any    *)
(* file operation, journal write or Docker call may fail (OpFails); a       *)
(* Docker call that fails has no effect.                                   *)
(*                                                                         *)
(* The journal keeps one entry per target: earlier entries of the same     *)
(* target are rolled back or committed and the code skips them             *)
(* everywhere.  No target lies inside another, so the order of swaps and   *)
(* of their undoing is left open.                                          *)
(***************************************************************************)
EXTENDS Naturals, FiniteSets

CONSTANTS
    Paths,       \* bind mounts and configuration files to restore
    Present,     \* those of them that exist on the host
    Volumes,     \* volumes to restore that do not exist on the host
    Missing,  \* captured containers and networks that do not exist on the host
    MaxCommands, \* bound: executions of RestoreComponents and RecreateContainers
    MaxFailures,   \* bound: failed operations
    MaxStops     \* bound: stops of the agent

Targets == Paths \cup Volumes

ASSUME PathsAssumption == /\ Present \subseteq Paths
                          /\ Paths \cap Volumes = {} /\ Missing \cap Targets = {}
ASSUME SwapBoundsAssumption == MaxCommands \in Nat /\ MaxFailures \in Nat /\ MaxStops \in Nat

\* What a path holds: nothing, what the restore found, complete restored
\* content, restored content still being written, a partly deleted tree.
Content == {"none", "old", "new", "part", "half"}

EntryStates == {"none", "staging", "swapping", "swapped", "undone", "committed"}
Finished == {"none", "undone", "committed"}

VARIABLES
    tgt, prev, stag, \* content of every target, its previous and its staging path
    made,            \* volumes, containers and networks the restore has created
    dsw, dhad,       \* journal file: state of the swaps, targets with HadPrevious
    dmade, dst,      \* journal file: created objects, state of the restore
    msw, mhad,       \* the same in the memory of the command in progress
    mmade,
    at,              \* step of the command in progress
    item,             \* the target or object it works on
    left,            \* what it has still to do
    own,             \* targets this command has journaled (restoreJob.swaps)
    bad,            \* "some" when an operation of the command has failed
    alive,              \* the agent runs
    expired,         \* the dead-man switch has restarted the application
    outcome,         \* the last result of a command
    plan,            \* the workflow goes on or has turned to the rollback
    dropped,         \* targets whose previous content a commit began to delete
    commands, failures, stops

files == <<tgt, prev, stag>>
file == <<dsw, dhad, dmade, dst>>
copy == <<msw, mhad, mmade>>
command == <<at, item, left, own, bad>>
budgets == <<commands, failures, stops>>
swapVars == <<files, made, file, copy, command, alive, expired, outcome, plan, dropped, budgets>>

None == "none"
Before(t) == IF t \in Present THEN "old" ELSE "none"

SwapInit ==
    /\ tgt = [t \in Targets |-> Before(t)]
    /\ prev = [t \in Targets |-> "none"] /\ stag = [t \in Targets |-> "none"]
    /\ made = {}
    /\ dsw = [t \in Targets |-> "none"] /\ dhad = {} /\ dmade = {} /\ dst = "active"
    /\ msw = dsw /\ mhad = {} /\ mmade = {}
    /\ at = "idle" /\ item = None /\ left = {} /\ own = {} /\ bad = "none"
    /\ alive = "yes" /\ expired = "no" /\ outcome = "none" /\ plan = "forward" /\ dropped = {}
    /\ commands = 0 /\ failures = 0 /\ stops = 0

OpFails == failures < MaxFailures /\ failures' = failures + 1
Ok == UNCHANGED failures

\* restoreStore.save of the command's copy, as the step leaves it, or unchanged.
SaveJournal == dsw' = msw' /\ dhad' = mhad' /\ dmade' = mmade' /\ UNCHANGED dst
SaveMem == dsw' = msw /\ dhad' = mhad /\ dmade' = mmade

\* The command loads the journal and works through `work`.
Load(step, work) ==
    /\ at = "idle" /\ alive = "yes" /\ dst = "active"
    /\ msw' = dsw /\ mhad' = dhad /\ mmade' = dmade
    /\ at' = step /\ left' = work
    /\ own' = {} /\ bad' = "none" /\ item' = None

\* The command ends and reports.
Return(result) ==
    /\ at' = "idle" /\ left' = {} /\ own' = {} /\ item' = None /\ bad' = "none"
    /\ msw' = dsw' /\ mhad' = dhad' /\ mmade' = dmade'
    /\ outcome' = result

-----------------------------------------------------------------------------
(* undoSwap. *)

Undoing == at \in {"repair", "back", "rollback"}

UndoSkip(t) ==
    /\ Undoing /\ t \in left /\ msw[t] \in Finished
    /\ left' = left \ {t}
    /\ UNCHANGED <<files, made, file, copy, at, item, own, bad, alive, expired, outcome, plan,
                   dropped, budgets>>

UndoStaging(t) ==
    /\ Undoing /\ t \in left /\ msw[t] \notin Finished
    /\ stag[t] # "none" /\ stag' = [stag EXCEPT ![t] = "none"]
    /\ UNCHANGED <<tgt, prev, made, file, copy, command, alive, expired, outcome, plan, dropped,
                   budgets>>

\* Something was moved: the target goes unless its previous content never left.
Moved(t) == /\ msw[t] \in {"swapping", "swapped"} /\ stag[t] = "none"
            /\ (t \in mhad => prev[t] # "none")

UndoDiscard(t) ==
    /\ Undoing /\ t \in left /\ Moved(t)
    /\ tgt[t] # "none" /\ tgt' = [tgt EXCEPT ![t] = "none"]
    /\ UNCHANGED <<prev, stag, made, file, copy, command, alive, expired, outcome, plan, dropped,
                   budgets>>

UndoDone(t) ==
    /\ Undoing /\ t \in left /\ msw[t] \notin Finished /\ stag[t] = "none"
    /\ \/ Moved(t) /\ tgt[t] = "none" /\ t \in mhad
          /\ tgt' = [tgt EXCEPT ![t] = prev[t]] /\ prev' = [prev EXCEPT ![t] = "none"]
       \/ (Moved(t) => tgt[t] = "none" /\ t \notin mhad) /\ UNCHANGED <<tgt, prev>>
    /\ msw' = [msw EXCEPT ![t] = "undone"] /\ left' = left \ {t}
    /\ UNCHANGED <<stag, made, file, mhad, mmade, at, item, own, bad, alive, expired, outcome,
                   plan, dropped, budgets>>

\* Repairing an interrupted attempt stops at the first error; the others go on.
UndoFails(t) ==
    /\ Undoing /\ t \in left /\ msw[t] \notin Finished /\ OpFails
    /\ IF at = "repair"
       THEN UNCHANGED file /\ Return("failed")
       ELSE /\ left' = left \ {t} /\ bad' = "some"
            /\ UNCHANGED <<file, copy, at, item, own, outcome>>
    /\ UNCHANGED <<files, made, alive, expired, plan, dropped, commands, stops>>

-----------------------------------------------------------------------------
(* RestoreComponents. *)

RestoreComponents ==
    /\ commands < MaxCommands /\ commands' = commands + 1
    /\ Load("repair", {t \in Targets : dsw[t] \in {"staging", "swapping"}})
    /\ UNCHANGED <<files, made, file, alive, expired, outcome, plan, dropped, failures, stops>>

\* The repaired journal is saved, the repository session opened.
Repaired ==
    /\ at = "repair" /\ left = {}
    /\ \/ Ok /\ SaveMem /\ UNCHANGED dst /\ at' = "next" /\ left' = Targets
          /\ UNCHANGED <<copy, own, item, bad, outcome>>
       \/ OpFails /\ ((SaveMem /\ UNCHANGED dst) \/ UNCHANGED file) /\ Return("failed")
    /\ UNCHANGED <<files, made, alive, expired, plan, dropped, commands, stops>>

\* The failure of a component undoes the swaps of this command.
Fails == at' = "back" /\ left' = own' /\ item' = None

\* A missing volume is journaled and created.
JournalVolume(t) ==
    /\ at = "next" /\ t \in left \cap Volumes /\ t \notin made
    /\ mmade' = mmade \cup {t} /\ UNCHANGED <<msw, mhad, own>>
    /\ \/ Ok /\ SaveJournal /\ at' = "create" /\ item' = t /\ UNCHANGED left
       \/ OpFails /\ UNCHANGED file /\ Fails
    /\ UNCHANGED <<files, made, bad, alive, expired, outcome, plan, dropped, commands, stops>>

CreateVolume ==
    /\ at = "create" /\ UNCHANGED own
    /\ \/ /\ Ok /\ made' = made \cup {item} /\ tgt' = [tgt EXCEPT ![item] = "old"]
          /\ at' = "next" /\ UNCHANGED <<item, left>>
       \/ OpFails /\ Fails /\ UNCHANGED <<made, tgt>>
    /\ UNCHANGED <<prev, stag, file, copy, bad, alive, expired, outcome, plan, dropped, commands,
                   stops>>

\* begin: journal the entry, then empty the staging path.  A target this
\* restore has swapped before is refused.
Begin(t) ==
    /\ at = "next" /\ t \in left /\ (t \in Volumes => t \in made)
    /\ msw[t] # "swapped"
    /\ msw' = [msw EXCEPT ![t] = "staging"] /\ mhad' = mhad \ {t} /\ UNCHANGED mmade
    /\ own' = own \cup {t}
    /\ \/ Ok /\ SaveJournal /\ at' = "stage" /\ item' = t /\ UNCHANGED left
       \/ OpFails /\ UNCHANGED file /\ Fails
    /\ UNCHANGED <<files, made, bad, alive, expired, outcome, plan, dropped, commands, stops>>

Refused(t) ==
    /\ at = "next" /\ t \in left /\ msw[t] = "swapped"
    /\ UNCHANGED own /\ Fails
    /\ UNCHANGED <<files, made, file, copy, bad, alive, expired, outcome, plan, dropped, budgets>>

StageBegin ==
    /\ at = "stage" /\ stag' = [stag EXCEPT ![item] = "part"] /\ at' = "staging"
    /\ UNCHANGED <<tgt, prev, made, file, copy, item, left, own, bad, alive, expired, outcome,
                   plan, dropped, budgets>>

\* The content is complete, its metadata applied and verified.
StageDone ==
    /\ at = "staging" /\ stag' = [stag EXCEPT ![item] = "new"] /\ at' = "staged"
    /\ UNCHANGED <<tgt, prev, made, file, copy, item, left, own, bad, alive, expired, outcome,
                   plan, dropped, budgets>>

\* A step of the component before the swap fails, or a rename.
ComponentFails ==
    /\ at \in {"stage", "staging", "aside", "movein"} /\ OpFails /\ UNCHANGED own /\ Fails
    /\ UNCHANGED <<files, made, file, copy, bad, alive, expired, outcome, plan, dropped, commands,
                   stops>>

SwapJournal_NotSaved ==
    /\ at = "staged" /\ expired = "no"
    /\ mhad' = IF tgt[item] # "none" THEN mhad \cup {item} ELSE mhad
    /\ msw' = [msw EXCEPT ![item] = "swapping"] /\ UNCHANGED mmade
    /\ at' = "aside"
    /\ UNCHANGED <<files, made, file, item, left, own, bad, alive, expired, outcome, plan,
                   dropped, budgets>>

\* swap: refused once the application runs again; journaled before the renames.
SwapJournal ==
    /\ at = "staged" /\ expired = "no"
    /\ mhad' = IF tgt[item] # "none" THEN mhad \cup {item} ELSE mhad
    /\ msw' = [msw EXCEPT ![item] = "swapping"] /\ UNCHANGED <<mmade, own>>
    /\ \/ Ok /\ SaveJournal /\ at' = "aside" /\ UNCHANGED <<item, left>>
       \/ OpFails /\ UNCHANGED file /\ Fails
    /\ UNCHANGED <<files, made, bad, alive, expired, outcome, plan, dropped, commands, stops>>

SwapRefused ==
    /\ at = "staged" /\ expired = "yes" /\ UNCHANGED own /\ Fails
    /\ UNCHANGED <<files, made, file, copy, bad, alive, expired, outcome, plan, dropped, budgets>>

MoveAside ==
    /\ at = "aside" /\ at' = "movein"
    /\ IF item \in mhad
       THEN prev' = [prev EXCEPT ![item] = tgt[item]] /\ tgt' = [tgt EXCEPT ![item] = "none"]
       ELSE UNCHANGED <<prev, tgt>>
    /\ UNCHANGED <<stag, made, file, copy, item, left, own, bad, alive, expired, outcome, plan,
                   dropped, budgets>>

MoveIn ==
    /\ at = "movein" /\ at' = "swapped"
    /\ tgt' = [tgt EXCEPT ![item] = stag[item]] /\ stag' = [stag EXCEPT ![item] = "none"]
    /\ msw' = [msw EXCEPT ![item] = "swapped"]
    /\ UNCHANGED <<prev, made, file, mhad, mmade, item, left, own, bad, alive, expired, outcome,
                   plan, dropped, budgets>>

SwapSaved ==
    /\ at = "swapped" /\ UNCHANGED <<copy, own>>
    /\ \/ Ok /\ SaveMem /\ UNCHANGED dst /\ at' = "next" /\ left' = left \ {item} /\ item' = None
       \/ OpFails /\ UNCHANGED file /\ Fails
    /\ UNCHANGED <<files, made, bad, alive, expired, outcome, plan, dropped, commands, stops>>

ComponentsDone ==
    /\ at = "next" /\ left = {} /\ UNCHANGED file /\ Return("restored")
    /\ UNCHANGED <<files, made, alive, expired, plan, dropped, budgets>>

ComponentsRolledBack ==
    /\ at = "back" /\ left = {}
    /\ (Ok /\ SaveMem /\ UNCHANGED dst) \/ (OpFails /\ UNCHANGED file)
    /\ Return("failed")
    /\ UNCHANGED <<files, made, alive, expired, plan, dropped, commands, stops>>

-----------------------------------------------------------------------------
(* RecreateContainers, after the data. *)

RecreateContainers ==
    /\ outcome = "restored" /\ commands < MaxCommands /\ commands' = commands + 1
    /\ Load("recreate", Missing \ made)
    /\ UNCHANGED <<files, made, file, alive, expired, outcome, plan, dropped, failures, stops>>

JournalContainer(c) ==
    /\ at = "recreate" /\ c \in left
    /\ \/ /\ Ok /\ mmade' = mmade \cup {c} /\ UNCHANGED <<msw, mhad>>
          /\ SaveJournal /\ at' = "container" /\ item' = c
          /\ UNCHANGED <<left, own, bad, outcome>>
       \/ OpFails /\ UNCHANGED file /\ Return("failed")
    /\ UNCHANGED <<files, made, alive, expired, plan, dropped, commands, stops>>

CreateContainer_Unlisted ==
    /\ at = "container" /\ at' = "recreate" /\ left' = left \ {item} /\ item' = None
    /\ made' = made \cup {item} /\ mmade' = mmade \ {item}
    /\ UNCHANGED <<files, file, msw, mhad, own, bad, alive, expired, outcome, plan, dropped,
                   budgets>>

\* A container or network that cannot be created is taken off the list; a
\* missing network ends the command.
CreateContainer ==
    /\ at = "container"
    /\ \/ /\ Ok /\ made' = made \cup {item}
          /\ at' = "recreate" /\ left' = left \ {item} /\ item' = None
          /\ UNCHANGED <<file, copy, own, bad, outcome>>
       \/ /\ OpFails /\ mmade' = mmade \ {item} /\ bad' = "some"
          /\ at' = "recreate" /\ left' = left \ {item} /\ item' = None
          /\ UNCHANGED <<made, file, msw, mhad, own, outcome>>
       \/ /\ OpFails /\ dmade' = dmade \ {item} /\ UNCHANGED <<made, dsw, dhad, dst>>
          /\ Return("failed")
    /\ UNCHANGED <<files, alive, expired, plan, dropped, commands, stops>>

Recreated ==
    /\ at = "recreate" /\ left = {}
    /\ \/ Ok /\ SaveMem /\ UNCHANGED dst /\ Return(IF bad = "none" THEN "restored" ELSE "failed")
       \/ OpFails /\ UNCHANGED file /\ Return("failed")
    /\ UNCHANGED <<files, made, alive, expired, plan, dropped, commands, stops>>

-----------------------------------------------------------------------------
(* FinalizeRestore, COMMIT: the workflow sends it once everything succeeded. *)

Commit ==
    /\ outcome = "restored" /\ plan = "forward"
    /\ \A t \in Targets : dsw[t] \notin {"staging", "swapping"}
    /\ Load("commit", {t \in Targets : dsw[t] = "swapped"})
    /\ UNCHANGED <<files, made, file, alive, expired, outcome, plan, dropped, budgets>>

CommitTears(t) ==
    /\ at = "commit" /\ t \in left /\ prev[t] \notin {"none", "half"}
    /\ prev' = [prev EXCEPT ![t] = "half"] /\ dropped' = dropped \cup {t}
    /\ UNCHANGED <<tgt, stag, made, file, copy, command, alive, expired, outcome, plan, budgets>>

CommitRemoves(t) ==
    /\ at = "commit" /\ t \in left /\ prev[t] \in {"none", "half"}
    /\ prev' = [prev EXCEPT ![t] = "none"] /\ stag' = [stag EXCEPT ![t] = "none"]
    /\ msw' = [msw EXCEPT ![t] = "committed"] /\ left' = left \ {t}
    /\ dropped' = dropped \cup {t}
    /\ UNCHANGED <<tgt, made, file, mhad, mmade, at, item, own, bad, alive, expired, outcome,
                   plan, budgets>>

CommitRemoveFails(t) ==
    /\ at = "commit" /\ t \in left /\ OpFails
    /\ left' = left \ {t} /\ bad' = "some"
    /\ UNCHANGED <<files, made, file, copy, at, item, own, alive, expired, outcome, plan, dropped,
                   commands, stops>>

Committed ==
    /\ at = "commit" /\ left = {}
    /\ \/ /\ Ok /\ SaveMem
          /\ dst' = IF bad = "none" THEN "committed" ELSE dst
          /\ Return(IF bad = "none" THEN "committed" ELSE "failed")
       \/ OpFails /\ UNCHANGED file /\ Return("failed")
    /\ UNCHANGED <<files, made, alive, expired, plan, dropped, commands, stops>>

-----------------------------------------------------------------------------
(* FinalizeRestore, ROLLBACK: the workflow's compensation, repeated while it *)
(* fails.                                                                    *)

Rollback ==
    /\ Load("rollback", Targets) /\ plan' = "undo"
    /\ UNCHANGED <<files, made, file, alive, expired, outcome, dropped, budgets>>

\* Stopping the application fails: nothing is swapped under it.
StopFails ==
    /\ at = "rollback" /\ left = Targets /\ msw = dsw
    /\ OpFails /\ UNCHANGED file /\ Return("failed")
    /\ UNCHANGED <<files, made, alive, expired, plan, dropped, commands, stops>>

SwapsUndone ==
    /\ at = "rollback" /\ left = {} /\ at' = "remove" /\ left' = mmade
    /\ \/ Ok /\ SaveMem /\ UNCHANGED <<dst, bad>>
       \/ OpFails /\ UNCHANGED file /\ bad' = "some"
    /\ UNCHANGED <<files, made, copy, item, own, alive, expired, outcome, plan, dropped, commands,
                   stops>>

\* Removing a volume removes every path in it.
RemoveCreated(c) ==
    /\ at = "remove" /\ c \in left /\ left' = left \ {c}
    /\ made' = made \ {c} /\ mmade' = mmade \ {c}
    /\ IF c \in Volumes
       THEN /\ tgt' = [tgt EXCEPT ![c] = "none"] /\ prev' = [prev EXCEPT ![c] = "none"]
            /\ stag' = [stag EXCEPT ![c] = "none"]
       ELSE UNCHANGED files
    /\ UNCHANGED <<file, msw, mhad, at, item, own, bad, alive, expired, outcome, plan, dropped,
                   budgets>>

RemoveFails(c) ==
    /\ at = "remove" /\ c \in left /\ left' = left \ {c} /\ OpFails /\ bad' = "some"
    /\ UNCHANGED <<files, made, file, copy, at, item, own, alive, expired, outcome, plan, dropped,
                   commands, stops>>

CreatedRemoved_ErrsIgnored ==
    /\ at = "remove" /\ left = {} /\ Ok /\ SaveMem /\ at' = "restart"
    /\ UNCHANGED <<dst, copy, item, left, own, bad, outcome>>
    /\ UNCHANGED <<files, made, alive, expired, plan, dropped, commands, stops>>

CreatedRemoved ==
    /\ at = "remove" /\ left = {}
    /\ \/ /\ Ok /\ SaveMem /\ UNCHANGED dst
          /\ IF bad = "none"
             THEN at' = "restart" /\ UNCHANGED <<copy, item, left, own, bad, outcome>>
             ELSE Return("failed")
       \/ OpFails /\ UNCHANGED file /\ Return("failed")
    /\ UNCHANGED <<files, made, alive, expired, plan, dropped, commands, stops>>

\* The containers that ran before are started; only then is the restore rolled back.
RolledBack ==
    /\ at = "restart"
    /\ \/ Ok /\ dst' = "rolled_back" /\ UNCHANGED <<dsw, dhad, dmade>> /\ Return("rolled_back")
       \/ OpFails /\ UNCHANGED file /\ Return("failed")
    /\ UNCHANGED <<files, made, alive, expired, plan, dropped, commands, stops>>

-----------------------------------------------------------------------------
(* The dead-man switch fires; the agent stops and starts. *)

SwitchFires ==
    /\ expired = "no" /\ expired' = "yes"
    /\ UNCHANGED <<files, made, file, copy, command, alive, outcome, plan, dropped, budgets>>

AgentStops ==
    /\ alive = "yes" /\ stops < MaxStops /\ stops' = stops + 1 /\ alive' = "no"
    /\ UNCHANGED file /\ Return(IF at = "idle" THEN outcome ELSE "failed")
    /\ UNCHANGED <<files, made, expired, plan, dropped, commands, failures>>

\* cleanupRestores: staging that never reached the swap is removed.
AgentStarts ==
    /\ alive = "no" /\ alive' = "yes"
    /\ LET staged == IF dst = "active" THEN {t \in Targets : dsw[t] = "staging"} ELSE {}
       IN \E gone \in SUBSET staged :
             /\ stag' = [t \in Targets |-> IF t \in gone THEN "none" ELSE stag[t]]
             /\ \/ /\ gone = staged /\ Ok
                   /\ dsw' = [t \in Targets |-> IF t \in gone THEN "undone" ELSE dsw[t]]
                \/ /\ OpFails
                   /\ \/ dsw' = [t \in Targets |-> IF t \in gone THEN "undone" ELSE dsw[t]]
                      \/ UNCHANGED dsw
    /\ msw' = dsw'
    /\ UNCHANGED <<tgt, prev, made, dhad, dmade, dst, mhad, mmade, command, expired, outcome,
                   plan, dropped, commands, stops>>

SwapNext ==
    \/ \E t \in Targets : UndoSkip(t) \/ UndoStaging(t) \/ UndoDiscard(t) \/ UndoDone(t)
                          \/ UndoFails(t) \/ JournalVolume(t) \/ Begin(t) \/ Refused(t)
                          \/ CommitTears(t) \/ CommitRemoves(t) \/ CommitRemoveFails(t)
    \/ \E c \in Missing : JournalContainer(c)
    \/ \E c \in Targets \cup Missing : RemoveCreated(c) \/ RemoveFails(c)
    \/ RestoreComponents \/ Repaired \/ CreateVolume \/ StageBegin \/ StageDone
    \/ ComponentFails \/ SwapJournal \/ SwapRefused \/ MoveAside \/ MoveIn \/ SwapSaved
    \/ ComponentsDone \/ ComponentsRolledBack
    \/ RecreateContainers \/ CreateContainer \/ Recreated
    \/ Commit \/ Committed
    \/ Rollback \/ StopFails \/ SwapsUndone \/ CreatedRemoved \/ RolledBack
    \/ SwitchFires \/ AgentStops \/ AgentStarts

SwapSpec == SwapInit /\ [][SwapNext]_swapVars

(***************************************************************************)
(* Properties.                                                             *)
(***************************************************************************)

\* The paths, both copies of the journal and the command keep their types.
SwapTypeOK ==
    /\ tgt \in [Targets -> Content] /\ prev \in [Targets -> Content]
    /\ stag \in [Targets -> Content]
    /\ made \in SUBSET (Volumes \cup Missing)
    /\ dsw \in [Targets -> EntryStates] /\ msw \in [Targets -> EntryStates]
    /\ dhad \in SUBSET Targets /\ mhad \in SUBSET Targets
    /\ dmade \in SUBSET (Volumes \cup Missing) /\ mmade \in SUBSET (Volumes \cup Missing)
    /\ dst \in {"active", "committed", "rolled_back"}
    /\ at \in {"idle", "repair", "back", "next", "create", "stage", "staging", "staged", "aside",
               "movein", "swapped", "recreate", "container", "commit", "rollback", "remove",
               "restart"}
    /\ left \in SUBSET (Targets \cup Missing) /\ own \in SUBSET Targets
    /\ bad \in {"none", "some"} /\ alive \in {"yes", "no"} /\ expired \in {"yes", "no"}
    /\ outcome \in {"none", "restored", "failed", "committed", "rolled_back"}
    /\ plan \in {"forward", "undo"} /\ dropped \in SUBSET Targets

\* What a restore found at a path survives, whole, until a commit deletes it:
\* it is at the path, or beside it with an entry of the journal file from which
\* undoSwap brings it back.  This holds after any stop of the agent, failed
\* rename and failed journal write ("recorded BEFORE it happens, so
\* FinalizeRestore can undo a restore after a crash", restorejournal.go:34).
PreviousRecoverable ==
    \A t \in Present \ dropped :
        \/ tgt[t] = "old"
        \/ prev[t] = "old" /\ t \in dhad /\ dsw[t] \in {"swapping", "swapped"}

\* A volume, container or network the restore has created is named in the
\* journal file, so a rollback after a restart finds it (recreate.go:235,
\* restore.go:369).
CreatedIsJournaled == made \subseteq dmade

\* What the journal file says of the end of a restore is true.  Rolled back:
\* every path holds again what it held before, nothing is left beside it and
\* nothing the restore created remains; paths whose previous content a failed
\* commit had begun to delete are excepted (finalize.go:84).  Committed: restored
\* content at every path and nothing beside it, so the data is never half old,
\* half new (finalize.go:51).
RecordedEndIsTrue ==
    /\ dst = "rolled_back" =>
          /\ made = {}
          /\ \A t \in Targets \ dropped : tgt[t] = Before(t) /\ prev[t] = "none" /\ stag[t] = "none"
    /\ dst = "committed" =>
          \A t \in Targets : tgt[t] = "new" /\ prev[t] = "none" /\ stag[t] = "none"

\* A path never holds a partly written or partly deleted tree ("one rename, so
\* the target never holds a half-deleted tree", restorejournal.go:204).
TargetWhole == \A t \in Targets : tgt[t] \notin {"part", "half"}
=============================================================================
