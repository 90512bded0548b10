------------------------ MODULE RestoreEndProofs ------------------------
(***************************************************************************)
(* The end a restore records is true and final: RestoreSwap for any set of *)
(* targets, any number of failed operations and of agent stops, on top of  *)
(* the invariant of RestoreSwapProofs.                                     *)
(***************************************************************************)
EXTENDS RestoreSwapProofs

\* The end of a restore.  Resident targets hold something when they are swapped;
\* what a target held, or holds once its volume is created, is its original.
Resident == Present \cup Volumes
Original(t) == IF t \in Present \/ t \in made THEN "old" ELSE "none"
Open == {"swapping", "swapped"}

\* Nothing of t was moved, or it was and both copies of the journal say so.
AtHome(t) == tgt[t] = Original(t) /\ prev[t] = "none"
Moving(t) ==
    /\ dsw[t] \in Open /\ msw[t] \in Open /\ tgt[t] \in {"none", "new"}
    /\ IF t \in Resident THEN prev[t] = "old" /\ Original(t) = "old" ELSE prev[t] = "none"

\* The life of every target whose previous content no commit has touched.
Undoable ==
    \A t \in Targets \ dropped :
        /\ AtHome(t) \/ Moving(t)
        /\ msw[t] \in Open => (t \in mhad <=> t \in Resident)
        /\ dsw[t] \in Open => (t \in dhad <=> t \in Resident)
        /\ msw[t] \in Finished => stag[t] = "none" /\ msw[t] # "committed"
        /\ dsw[t] \in Finished => stag[t] = "none" /\ dsw[t] # "committed"
        /\ at = "aside" /\ item = t => AtHome(t)
        /\ at = "movein" /\ item = t /\ t \in Resident => Moving(t)

\* What the step of the command says of its current target.
Current ==
    /\ dst # "active" => at = "idle"
    /\ at \in {"recreate", "container"} => outcome = "restored"
    /\ at = "create" => item \in left /\ item \notin made
    /\ at \in OnCurrent => item \in left /\ (item \in Volumes => item \in made)
    /\ at \in {"stage", "staging", "staged"} => dsw[item] = "staging" /\ item \notin mhad
    /\ at \in {"staged", "aside", "movein"} => stag[item] = "new"
    /\ at = "swapped" => tgt[item] = "new" /\ stag[item] = "none"

\* t is restored, and both copies of the journal say so.
Restored(t) == dsw[t] = "swapped" /\ msw[t] = "swapped" /\ tgt[t] = "new" /\ stag[t] = "none"

\* What has been done of the command in progress.
Progressed ==
    /\ at \in Forward => \A t \in Targets \ left : Restored(t)
    /\ outcome = "restored" /\ at \in {"idle", "recreate", "container"} =>
           \A t \in Targets : Restored(t)
    /\ at = "commit" => \A t \in Targets : /\ tgt[t] = "new" /\ stag[t] = "none"
                                           /\ bad = "none" /\ t \notin left => prev[t] = "none"
    /\ at = "rollback" /\ bad = "none" => \A t \in Targets \ left : msw[t] \in Finished
    /\ at \in {"remove", "restart"} /\ bad = "none" => \A t \in Targets : msw[t] \in Finished
    /\ at = "remove" /\ bad = "none" => made \subseteq left
    /\ at = "restart" => bad = "none" /\ made = {}

EndInv == Undoable /\ Current /\ Progressed /\ RecordedEndIsTrue

\* The end of the restore is open when it begins.
LEMMA InitEndInv == SwapInit => EndInv
BY PathsAssumption DEF SwapInit, EndInv, Undoable, Current, Progressed, RecordedEndIsTrue, AtHome,
   Moving, Restored, Resident, Original, Open, Before, Targets, Finished, Forward, OnCurrent, None

\* A step that records no end, and none at all once one is recorded.
Settled == dst' = dst /\ (dst # "active" => UNCHANGED <<files, made, dropped>>)

\* Only the last steps of a commit and of a rollback record an end, and once an
\* end is recorded no step changes a path or what the restore created.
LEMMA FinalStep ==
    ASSUME SwapTypeOK, Current, ~ Committed, ~ RolledBack, [SwapNext]_swapVars
    PROVE  Settled
<1>1. ASSUME NEW t \in Targets, UndoSkip(t) \/ UndoStaging(t) \/ UndoDiscard(t) \/ UndoDone(t)
       PROVE  Settled
  BY <1>1 DEF UndoSkip, UndoStaging, UndoDiscard, UndoDone, Settled, Current, Undoing,
     files, file, copy, command, Moved
<1>2. ASSUME NEW t \in Targets, UndoFails(t) \/ JournalVolume(t) \/ Begin(t) \/ Refused(t)
       PROVE  Settled
  BY <1>2 DEF UndoFails, JournalVolume, Begin, Refused, Settled, Current, Undoing, OpFails,
     Return, files, file, copy, Ok, SaveJournal, Fails
<1>3. ASSUME NEW t \in Targets, CommitTears(t) \/ CommitRemoves(t) \/ CommitRemoveFails(t)
       PROVE  Settled
  BY <1>3 DEF CommitTears, CommitRemoves, CommitRemoveFails, Settled, Current, file, copy,
     command, OpFails, files
<1>4. ASSUME NEW c \in Missing, JournalContainer(c)
       PROVE  Settled
  BY <1>4 DEF JournalContainer, Settled, Current, Ok, SaveJournal, OpFails, Return, file,
     files
<1>5. ASSUME NEW c \in Targets \cup Missing, RemoveCreated(c) \/ RemoveFails(c)
       PROVE  Settled
  BY <1>5 DEF RemoveCreated, RemoveFails, Settled, Current, files, file, OpFails, copy
<1>6. CASE RestoreComponents \/ Repaired \/ CreateVolume \/ StageBegin
  BY <1>6 DEF RestoreComponents, Repaired, CreateVolume, StageBegin, Settled, Current, Load,
     files, file, Ok, SaveMem, OpFails, Return, copy, Fails
<1>7. CASE StageDone \/ ComponentFails \/ SwapJournal \/ SwapRefused \/ MoveAside
  BY <1>7 DEF StageDone, ComponentFails, SwapJournal, SwapRefused, MoveAside, Settled,
     Current, file, copy, OpFails, Fails, files, Ok, SaveJournal
<1>8. CASE MoveIn \/ SwapSaved \/ ComponentsDone
  BY <1>8 DEF MoveIn, SwapSaved, ComponentsDone, Settled, Current, file, Ok, SaveMem,
     OpFails, Fails, files, copy, Return
<1>9. CASE ComponentsRolledBack \/ RecreateContainers \/ CreateContainer
  BY <1>9 DEF ComponentsRolledBack, RecreateContainers, CreateContainer, Settled, Current,
     Ok, SaveMem, OpFails, Return, file, files, Load, copy
<1>10. CASE Recreated \/ Commit \/ Rollback
  BY <1>10 DEF Recreated, Commit, Rollback, Settled, Current, Ok, SaveMem, OpFails, Return,
     file, files, Load
<1>11. CASE StopFails \/ SwapsUndone \/ CreatedRemoved
  BY <1>11 DEF StopFails, SwapsUndone, CreatedRemoved, Settled, Current, OpFails, Return,
     file, files, Ok, SaveMem, copy
<1>12. CASE SwitchFires \/ AgentStops
  BY <1>12 DEF SwitchFires, AgentStops, Settled, Current, files, file, copy, command, Return
<1>13. CASE AgentStarts
  BY <1>13 DEF AgentStarts, Settled, Current, SwapTypeOK, Content, EntryStates, Targets, Ok,
     OpFails, command, files
<1>14. CASE UNCHANGED swapVars
  BY <1>14 DEF swapVars, Settled, Current, files, file, copy, command
<1> QED
  BY <1>1, <1>2, <1>3, <1>4, <1>5, <1>6, <1>7, <1>8, <1>9, <1>10, <1>11, <1>12, <1>13, <1>14
     DEF SwapNext

\* The recorded end is true when it is recorded, and stays true.
LEMMA RecordedStep == IInv /\ EndInv /\ [SwapNext]_swapVars => RecordedEndIsTrue'
<1> SUFFICES ASSUME SwapTypeOK, Undoable, Current, Progressed, RecordedEndIsTrue, [SwapNext]_swapVars
             PROVE  RecordedEndIsTrue'
  BY DEF IInv, EndInv
<1>1. CASE Committed
  BY <1>1 DEF Committed, Return, OpFails, Ok, file, files, RecordedEndIsTrue, Progressed, Current
<1>2. CASE RolledBack
  BY <1>2 DEF RolledBack, Return, OpFails, Ok, file, files, RecordedEndIsTrue, Progressed, Undoable,
     AtHome, Moving, Original, Before, Open, Finished, Current, Targets
<1>3. CASE Settled /\ dst = "active"
  BY <1>3 DEF Settled, RecordedEndIsTrue
<1>4. CASE Settled /\ dst # "active"
  BY <1>4 DEF Settled, RecordedEndIsTrue, files
<1> QED
  BY <1>1, <1>2, <1>3, <1>4, FinalStep

\* What the step of the command says of its target stays true.
LEMMA CurrentStep == IInv /\ EndInv /\ [SwapNext]_swapVars => Current'
<1> SUFFICES ASSUME SwapTypeOK, Control, Created, Undoable, Current, Progressed, [SwapNext]_swapVars
             PROVE  Current'
  BY DEF IInv, EndInv
<1>1. ASSUME NEW t \in Targets, UndoSkip(t) \/ UndoFails(t) \/ JournalVolume(t) \/ Refused(t)
       PROVE  Current'
  BY <1>1 DEF UndoSkip, UndoFails, JournalVolume, Refused, Current, OnCurrent, Undoing,
     files, file, copy, OpFails, Return, Ok, SaveJournal, Fails
<1>2. ASSUME NEW t \in Targets, CommitRemoveFails(t)
       PROVE  Current'
  BY <1>2 DEF CommitRemoveFails, Current, OnCurrent, OpFails, files, file, copy
<1>3. ASSUME NEW t \in Targets, UndoStaging(t) \/ UndoDiscard(t) \/ UndoDone(t)
       PROVE  Current'
  BY <1>3 DEF UndoStaging, UndoDiscard, UndoDone, Current, OnCurrent, SwapTypeOK,
     Content, EntryStates, Targets, Undoing, file, copy, command, Moved
<1>4. ASSUME NEW t \in Targets, Begin(t)
       PROVE  Current'
  BY <1>4 DEF Begin, Current, OnCurrent, SwapTypeOK, Content, EntryStates, Targets, file, Ok,
     SaveJournal, OpFails, Fails, files
<1>5. ASSUME NEW t \in Targets, CommitTears(t) \/ CommitRemoves(t)
       PROVE  Current'
  BY <1>5 DEF CommitTears, CommitRemoves, Current, OnCurrent, SwapTypeOK, Content,
     EntryStates, Targets, file, copy, command
<1>6. ASSUME NEW c \in Missing, JournalContainer(c)
       PROVE  Current'
  BY <1>6 DEF JournalContainer, Current, OnCurrent, Ok, SaveJournal, OpFails, Return, file,
     files
<1>7. ASSUME NEW c \in Targets \cup Missing, RemoveCreated(c)
       PROVE  Current'
  BY <1>7 DEF RemoveCreated, Current, OnCurrent, SwapTypeOK, Content, EntryStates, Targets,
     files, file
<1>8. ASSUME NEW c \in Targets \cup Missing, RemoveFails(c)
       PROVE  Current'
  BY <1>8 DEF RemoveFails, Current, OnCurrent, OpFails, files, file, copy
<1>9. CASE RestoreComponents \/ Repaired \/ ComponentFails \/ SwapRefused
  BY <1>9 DEF RestoreComponents, Repaired, ComponentFails, SwapRefused, Current, OnCurrent,
     Load, files, file, Ok, SaveMem, OpFails, Return, copy, Fails
<1>10. CASE SwapSaved \/ ComponentsDone \/ ComponentsRolledBack
  BY <1>10 DEF SwapSaved, ComponentsDone, ComponentsRolledBack, Current, OnCurrent, Ok,
     SaveMem, OpFails, Fails, file, files, copy, Return
<1>11. CASE RecreateContainers \/ CreateContainer \/ Recreated
  BY <1>11 DEF RecreateContainers, CreateContainer, Recreated, Current, OnCurrent, Load,
     files, file, Ok, OpFails, Return, copy, SaveMem
<1>12. CASE Commit \/ Committed \/ Rollback
  BY <1>12 DEF Commit, Committed, Rollback, Current, OnCurrent, Load, files, file, Ok,
     SaveMem, OpFails, Return
<1>13. CASE StopFails \/ SwapsUndone \/ CreatedRemoved
  BY <1>13 DEF StopFails, SwapsUndone, CreatedRemoved, Current, OnCurrent, OpFails, Return,
     file, files, Ok, SaveMem, copy
<1>14. CASE RolledBack \/ SwitchFires \/ AgentStops
  BY <1>14 DEF RolledBack, SwitchFires, AgentStops, Current, OnCurrent, Ok, OpFails, Return,
     file, files, copy, command
<1>15. CASE CreateVolume \/ SwapJournal
  BY <1>15 DEF CreateVolume, SwapJournal, Current, OnCurrent, SwapTypeOK, Content, EntryStates,
     Targets, Ok, OpFails, Fails, file, copy, SaveJournal, files
<1>16. CASE StageBegin \/ MoveAside
  BY <1>16 DEF StageBegin, MoveAside, Current, OnCurrent, SwapTypeOK, Content, EntryStates,
     Targets, file, copy
<1>17. CASE StageDone \/ MoveIn
  BY <1>17 DEF StageDone, MoveIn, Current, OnCurrent, SwapTypeOK, Content, EntryStates, Targets,
     Control, Forward, Finished, file, copy
<1>18. CASE AgentStarts
  BY <1>18 DEF AgentStarts, Current, OnCurrent, SwapTypeOK, Content, EntryStates, Targets,
     Control, Forward, Finished, Ok, OpFails, command
<1>19. CASE UNCHANGED swapVars
  BY <1>19 DEF swapVars, Current, files, file, copy, command
<1> QED
  BY <1>1, <1>2, <1>3, <1>4, <1>5, <1>6, <1>7, <1>8, <1>9, <1>10, <1>11, <1>12, <1>13,
     <1>14, <1>15, <1>16, <1>17, <1>18, <1>19 DEF SwapNext

\* Every step leaves each target at home or on its way, with a journal that says
\* which.
LEMMA UndoableStep == IInv /\ EndInv /\ [SwapNext]_swapVars => Undoable'
<1> SUFFICES ASSUME SwapTypeOK, Control, Created, Undoable, Current, Progressed, [SwapNext]_swapVars
             PROVE  Undoable'
  BY DEF IInv, EndInv
<1>1. ASSUME NEW t \in Targets, UndoSkip(t) \/ UndoFails(t)
       PROVE  Undoable'
  BY <1>1 DEF UndoSkip, UndoFails, Undoable, AtHome, Moving, Resident, Original, Open,
     Finished, Undoing, files, file, copy, OpFails, Return
<1>2. ASSUME NEW t \in Targets, JournalVolume(t) \/ Refused(t) \/ CommitRemoveFails(t)
       PROVE  Undoable'
  BY <1>2 DEF JournalVolume, Refused, CommitRemoveFails, Undoable, AtHome, Moving, Resident,
     Original, Open, Finished, Ok, SaveJournal, OpFails, Fails, file, files, copy
<1>3. ASSUME NEW t \in Targets, UndoStaging(t) \/ CommitTears(t) \/ CommitRemoves(t)
       PROVE  Undoable'
  BY <1>3 DEF UndoStaging, CommitTears, CommitRemoves, Undoable, AtHome, Moving, Resident,
     Original, Open, Finished, SwapTypeOK, Content, EntryStates, Targets, Undoing, file,
     copy, command
<1>4. ASSUME NEW t \in Targets, UndoDiscard(t) \/ UndoDone(t)
       PROVE  Undoable'
  BY <1>4, PathsAssumption DEF UndoDiscard, UndoDone, Undoable, AtHome, Moving, Resident,
     Original, Open, Finished, SwapTypeOK, Content, EntryStates, Targets, Undoing, Moved,
     file, copy, command
<1>5. ASSUME NEW t \in Targets, Begin(t)
       PROVE  Undoable'
  BY <1>5 DEF Begin, Undoable, AtHome, Moving, Resident, Original, Open, Finished,
     SwapTypeOK, Content, EntryStates, Targets, Control, OnCurrent, Forward, Progressed,
     Restored, Ok, SaveJournal, OpFails, Fails, file, files
<1>6. ASSUME NEW c \in Missing, JournalContainer(c)
       PROVE  Undoable'
  BY <1>6 DEF JournalContainer, Undoable, AtHome, Moving, Resident, Original, Open,
     Finished, Ok, SaveJournal, OpFails, Return, file, files
<1>7. ASSUME NEW c \in Targets \cup Missing, RemoveCreated(c)
       PROVE  Undoable'
  BY <1>7, PathsAssumption DEF RemoveCreated, Undoable, AtHome, Moving, Resident, Original,
     Open, Finished, SwapTypeOK, Content, EntryStates, Targets, files, file
<1>8. ASSUME NEW c \in Targets \cup Missing, RemoveFails(c)
       PROVE  Undoable'
  BY <1>8 DEF RemoveFails, Undoable, AtHome, Moving, Resident, Original, Open, Finished,
     OpFails, files, file, copy
<1>9. CASE RestoreComponents \/ Repaired
  BY <1>9 DEF RestoreComponents, Repaired, Undoable, AtHome, Moving, Resident, Original,
     Open, Finished, Load, files, file, Ok, SaveMem, OpFails, Return, copy
<1>10. CASE ComponentFails \/ SwapRefused \/ SwapSaved
  BY <1>10 DEF ComponentFails, SwapRefused, SwapSaved, Undoable, AtHome, Moving, Resident,
     Original, Open, Finished, OpFails, Fails, files, file, copy, Ok, SaveMem
<1>11. CASE ComponentsDone \/ ComponentsRolledBack
  BY <1>11 DEF ComponentsDone, ComponentsRolledBack, Undoable, AtHome, Moving, Resident,
     Original, Open, Finished, Return, file, files, Ok, SaveMem, OpFails
<1>12. CASE RecreateContainers \/ Recreated
  BY <1>12 DEF RecreateContainers, Recreated, Undoable, AtHome, Moving, Resident, Original,
     Open, Finished, Load, files, file, Ok, SaveMem, OpFails, Return
<1>13. CASE Commit \/ Committed
  BY <1>13 DEF Commit, Committed, Undoable, AtHome, Moving, Resident, Original, Open,
     Finished, Load, files, file, Ok, SaveMem, OpFails, Return
<1>14. CASE Rollback \/ StopFails
  BY <1>14 DEF Rollback, StopFails, Undoable, AtHome, Moving, Resident, Original, Open,
     Finished, Load, files, file, OpFails, Return
<1>15. CASE SwapsUndone \/ CreatedRemoved
  BY <1>15 DEF SwapsUndone, CreatedRemoved, Undoable, AtHome, Moving, Resident, Original,
     Open, Finished, Ok, SaveMem, OpFails, file, files, copy, Return
<1>16. CASE RolledBack \/ SwitchFires
  BY <1>16 DEF RolledBack, SwitchFires, Undoable, AtHome, Moving, Resident, Original, Open,
     Finished, Ok, OpFails, Return, file, files, copy, command
<1>17. CASE AgentStops
  BY <1>17 DEF AgentStops, Undoable, AtHome, Moving, Resident, Original, Open, Finished,
     Return, file, files
<1>18. CASE CreateVolume
  BY <1>18, PathsAssumption DEF CreateVolume, Undoable, AtHome, Moving, Resident, Original,
     Open, Finished, SwapTypeOK, Content, EntryStates, Targets, Control, OnCurrent, Forward,
     Current, Ok, OpFails, Fails, file, copy
<1>19. CASE StageBegin \/ StageDone
  BY <1>19 DEF StageBegin, StageDone, Undoable, AtHome, Moving, Resident, Original, Open,
     Finished, SwapTypeOK, Content, EntryStates, Targets, Control, OnCurrent, Forward,
     Current, file, copy
<1>20. CASE MoveAside
  BY <1>20 DEF MoveAside, Undoable, AtHome, Moving, Resident, Original, Open, Finished,
     SwapTypeOK, Content, EntryStates, Targets, Control, OnCurrent, Forward, Current, file,
     copy
<1>21. CASE MoveIn
  BY <1>21 DEF MoveIn, Undoable, AtHome, Moving, Resident, Original, Open, Finished,
     SwapTypeOK, Content, EntryStates, Targets, Control, OnCurrent, Forward, Current, file
<1>22. CASE SwapJournal
  BY <1>22, PathsAssumption DEF SwapJournal, Undoable, AtHome, Moving, Resident, Original,
     Open, Finished, SwapTypeOK, Content, EntryStates, Targets, Current, OnCurrent, Ok,
     SaveJournal, OpFails, Fails, file, files
<1>23. CASE CreateContainer
  BY <1>23, PathsAssumption DEF CreateContainer, Undoable, AtHome, Moving, Resident,
     Original, Open, Finished, Created, Targets, Ok, OpFails, Return, file, copy, files
<1>24. CASE AgentStarts
  BY <1>24 DEF AgentStarts, Undoable, AtHome, Moving, Resident, Original, Open, Finished,
     SwapTypeOK, Content, EntryStates, Targets, Control, OnCurrent, Forward, Ok, OpFails,
     command
<1>25. CASE UNCHANGED swapVars
  BY <1>25 DEF swapVars, Undoable, AtHome, Moving, Original, files, file, copy, command
<1> QED
  BY <1>1, <1>2, <1>3, <1>4, <1>5, <1>6, <1>7, <1>8, <1>9, <1>10, <1>11, <1>12, <1>13,
     <1>14, <1>15, <1>16, <1>17, <1>18, <1>19, <1>20, <1>21, <1>22, <1>23, <1>24, <1>25 DEF
     SwapNext

\* What has been done of the command stays done.
LEMMA ProgressedStep == IInv /\ EndInv /\ [SwapNext]_swapVars => Progressed'
<1> SUFFICES ASSUME SwapTypeOK, Control, Created, Undoable, Current, Progressed, [SwapNext]_swapVars
             PROVE  Progressed'
  BY DEF IInv, EndInv
<1>1. ASSUME NEW t \in Targets, UndoSkip(t) \/ UndoFails(t)
       PROVE  Progressed'
  BY <1>1 DEF UndoSkip, UndoFails, Progressed, Restored, Forward, Finished, Undoing, files,
     file, copy, OpFails, Return
<1>2. ASSUME NEW t \in Targets, JournalVolume(t) \/ Refused(t) \/ CommitRemoveFails(t)
       PROVE  Progressed'
  BY <1>2 DEF JournalVolume, Refused, CommitRemoveFails, Progressed, Restored, Forward,
     Finished, Ok, SaveJournal, OpFails, Fails, file, files, copy
<1>3. ASSUME NEW t \in Targets, UndoStaging(t) \/ UndoDiscard(t)
       PROVE  Progressed'
  BY <1>3 DEF UndoStaging, UndoDiscard, Progressed, Restored, Forward, Finished, SwapTypeOK,
     Content, EntryStates, Targets, Undoing, file, copy, command, Moved
<1>4. ASSUME NEW t \in Targets, UndoDone(t) \/ Begin(t)
       PROVE  Progressed'
  BY <1>4 DEF UndoDone, Begin, Progressed, Restored, Forward, Finished, SwapTypeOK, Content,
     EntryStates, Targets, Undoing, Moved, file, Ok, SaveJournal, OpFails, Fails, files
<1>5. ASSUME NEW t \in Targets, CommitTears(t) \/ CommitRemoves(t)
       PROVE  Progressed'
  BY <1>5 DEF CommitTears, CommitRemoves, Progressed, Restored, Forward, Finished,
     SwapTypeOK, Content, EntryStates, Targets, file, copy, command
<1>6. ASSUME NEW c \in Missing, JournalContainer(c)
       PROVE  Progressed'
  BY <1>6 DEF JournalContainer, Progressed, Restored, Forward, Finished, Ok, SaveJournal,
     OpFails, Return, file, files
<1>7. ASSUME NEW c \in Targets \cup Missing, RemoveCreated(c)
       PROVE  Progressed'
  BY <1>7 DEF RemoveCreated, Progressed, Restored, Forward, Finished, SwapTypeOK, Content,
     EntryStates, Targets, files, file
<1>8. ASSUME NEW c \in Targets \cup Missing, RemoveFails(c)
       PROVE  Progressed'
  BY <1>8 DEF RemoveFails, Progressed, Restored, Forward, Finished, OpFails, files, file,
     copy
<1>9. CASE RestoreComponents \/ Repaired
  BY <1>9 DEF RestoreComponents, Repaired, Progressed, Restored, Forward, Finished, Load,
     files, file, Ok, SaveMem, OpFails, Return, copy
<1>10. CASE ComponentFails \/ SwapRefused
  BY <1>10 DEF ComponentFails, SwapRefused, Progressed, Restored, Forward, Finished,
     OpFails, Fails, files, file, copy
<1>11. CASE ComponentsDone \/ ComponentsRolledBack
  BY <1>11 DEF ComponentsDone, ComponentsRolledBack, Progressed, Restored, Forward,
     Finished, Return, file, files, Ok, SaveMem, OpFails
<1>12. CASE RecreateContainers \/ CreateContainer
  BY <1>12 DEF RecreateContainers, CreateContainer, Progressed, Restored, Forward, Finished,
     Load, files, file, Ok, OpFails, Return, copy
<1>13. CASE Commit \/ Committed
  BY <1>13 DEF Commit, Committed, Progressed, Restored, Forward, Finished, Load, files,
     file, Ok, SaveMem, OpFails, Return
<1>14. CASE Rollback \/ StopFails
  BY <1>14 DEF Rollback, StopFails, Progressed, Restored, Forward, Finished, Load, files,
     file, OpFails, Return
<1>15. CASE CreatedRemoved \/ RolledBack
  BY <1>15 DEF CreatedRemoved, RolledBack, Progressed, Restored, Forward, Finished, Ok,
     SaveMem, OpFails, Return, file, files, copy
<1>16. CASE SwitchFires \/ AgentStops
  BY <1>16 DEF SwitchFires, AgentStops, Progressed, Restored, Forward, Finished, files,
     file, copy, command, Return
<1>17. CASE CreateVolume
  BY <1>17 DEF CreateVolume, Progressed, Restored, Forward, Finished, SwapTypeOK, Content,
     EntryStates, Targets, Current, OnCurrent, Ok, OpFails, Fails, file, copy
<1>18. CASE StageBegin \/ StageDone \/ SwapJournal
  BY <1>18 DEF StageBegin, StageDone, SwapJournal, Progressed, Restored, Forward, Finished,
     SwapTypeOK, Content, EntryStates, Targets, Control, OnCurrent, file, copy, Ok,
     SaveJournal, OpFails, Fails, files
<1>19. CASE MoveAside \/ MoveIn
  BY <1>19 DEF MoveAside, MoveIn, Progressed, Restored, Forward, Finished, SwapTypeOK,
     Content, EntryStates, Targets, Control, OnCurrent, file, copy
<1>20. CASE AgentStarts
  BY <1>20 DEF AgentStarts, Progressed, Restored, Forward, Finished, SwapTypeOK, Content,
     EntryStates, Targets, Control, OnCurrent, Ok, OpFails, command
<1>21. CASE SwapSaved
  BY <1>21 DEF SwapSaved, Progressed, Restored, Forward, Finished, Control, OnCurrent,
     Current, Ok, SaveMem, OpFails, Fails, file, files, copy
<1>22. CASE Recreated
  BY <1>22 DEF Recreated, Progressed, Restored, Forward, Finished, Current, OnCurrent, Ok,
     SaveMem, OpFails, Return, file, files
<1>23. CASE SwapsUndone
  BY <1>23 DEF SwapsUndone, Progressed, Restored, Forward, Finished, Created, Ok, SaveMem,
     OpFails, file, files, copy
<1>24. CASE UNCHANGED swapVars
  BY <1>24 DEF swapVars, Progressed, Restored, files, file, copy, command
<1> QED
  BY <1>1, <1>2, <1>3, <1>4, <1>5, <1>6, <1>7, <1>8, <1>9, <1>10, <1>11, <1>12, <1>13,
     <1>14, <1>15, <1>16, <1>17, <1>18, <1>19, <1>20, <1>21, <1>22, <1>23, <1>24 DEF
     SwapNext

\* Every step of every command keeps the invariant of the end.
LEMMA EndInductive == IInv /\ EndInv /\ [SwapNext]_swapVars => EndInv'
BY UndoableStep, CurrentStep, ProgressedStep, RecordedStep DEF EndInv

\* What the journal file says of the end of a restore is true: rolled back means
\* that every path a commit has not touched is as it was found and that nothing
\* created remains, committed that every path is restored and nothing is beside it.
THEOREM RecordedEndAlwaysTrue == SwapSpec => []RecordedEndIsTrue
<1>1. EndInv => RecordedEndIsTrue
    BY DEF EndInv
<1> QED
    BY InitIInv, Inductive, InitEndInv, EndInductive, <1>1, PTL DEF SwapSpec

\* An end is final: once a restore is committed or rolled back, no step changes
\* its record, a path, or what the restore created; cleanupRestores, which runs
\* at every start of the agent, leaves its staging paths alone.
THEOREM EndsAreFinal == SwapSpec => [][dst # "active" => UNCHANGED <<dst, files, made>>]_swapVars
<1>1. ASSUME IInv, EndInv, SwapNext, dst # "active" PROVE UNCHANGED <<dst, files, made>>
  <2>1. SwapTypeOK /\ Current /\ at = "idle"
    BY <1>1 DEF IInv, EndInv, Current
  <2>2. ~ Committed /\ ~ RolledBack
    BY <2>1 DEF Committed, RolledBack
  <2> QED
    BY <1>1, <2>1, <2>2, FinalStep DEF Settled
<1>2. IInv /\ EndInv /\ [SwapNext]_swapVars
          => [dst # "active" => UNCHANGED <<dst, files, made>>]_swapVars
    BY <1>1
<1> QED
    BY InitIInv, Inductive, InitEndInv, EndInductive, <1>2, PTL DEF SwapSpec
=============================================================================
