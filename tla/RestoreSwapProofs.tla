------------------------ MODULE RestoreSwapProofs ------------------------
(***************************************************************************)
(* What a restore found is recoverable until it is committed, and what it  *)
(* created is journaled: RestoreSwap for any set of targets, any number of *)
(* failed operations and of agent stops.                                   *)
(***************************************************************************)
EXTENDS RestoreSwap, TLAPS

Forward == {"next", "create", "stage", "staging", "staged", "aside", "movein", "swapped"}
OnCurrent == {"stage", "staging", "staged", "aside", "movein", "swapped"}

\* What was found at t is at t and nothing is beside it.
Home(t) == tgt[t] = "old" /\ prev[t] = "none"

\* It is beside t, and both copies of the journal say so.
Away(t) ==
    /\ prev[t] = "old"
    /\ t \in dhad /\ dsw[t] \in {"swapping", "swapped"}
    /\ t \in mhad /\ msw[t] \in {"swapping", "swapped"}

\* The copy in memory is the file's while no command runs; the step of the
\* command fixes what its current target or object is.
Control ==
    /\ alive = "no" => at = "idle"
    /\ at = "idle" => msw = dsw /\ mhad = dhad /\ mmade = dmade
    /\ at = "create" => item \in Volumes /\ item \in mmade /\ item \in dmade
    /\ at \in OnCurrent => item \in Targets
    /\ at \in {"stage", "staging", "staged"} => msw[item] = "staging"
    /\ at \in {"aside", "movein"} => msw[item] = "swapping" /\ dsw[item] = "swapping"
    /\ at = "swapped" => msw[item] = "swapped"
    /\ at = "repair" => \A t \in Targets : msw[t] \in {"staging", "swapping"} => t \in left
    /\ at \in Forward => \A t \in Targets :
           msw[t] \in {"staging", "swapping"} => t = item /\ at \in OnCurrent

\* The life of what was found.
Found ==
    \A t \in Present \ dropped :
        /\ Home(t) \/ Away(t)
        /\ msw[t] \in {"swapping", "swapped"} => t \in mhad
        /\ dsw[t] \in {"swapping", "swapped"} => t \in dhad
        /\ at = "aside" /\ item = t => Home(t) /\ t \in mhad /\ t \in dhad
        /\ at = "movein" /\ item = t => Away(t)

\* The life of what was created.
Created ==
    /\ made \subseteq dmade /\ made \subseteq mmade
    /\ at \in {"recreate", "container"} => left \cap made = {}
    /\ at = "container" => item \in left /\ item \in Missing /\ item \in mmade /\ item \in dmade

IInv == SwapTypeOK /\ Control /\ Found /\ Created

\* Nothing is moved or created when the restore begins.
LEMMA InitIInv == SwapInit => IInv
BY PathsAssumption DEF SwapInit, IInv, SwapTypeOK, Control, Found, Created, Home, Away, Before,
   None, Targets, Content, EntryStates, Forward, OnCurrent

\* Every step of every command keeps it.
LEMMA Inductive == IInv /\ [SwapNext]_swapVars => IInv'
<1> SUFFICES ASSUME IInv, [SwapNext]_swapVars PROVE IInv'
    OBVIOUS
<1> USE PathsAssumption DEF IInv, SwapTypeOK, Control, Found, Created, Home, Away, Targets, Content,
        EntryStates, Finished, Forward, OnCurrent, None, files, file, copy, command, budgets,
        Load, Return, SaveJournal, SaveMem, OpFails, Ok, Fails, Undoing
<1>1. ASSUME NEW t \in Targets, UndoSkip(t) PROVE IInv'
    BY <1>1 DEF UndoSkip
<1>2. ASSUME NEW t \in Targets, UndoStaging(t) PROVE IInv'
    BY <1>2 DEF UndoStaging
<1>3. ASSUME NEW t \in Targets, UndoDiscard(t) PROVE IInv'
    BY <1>3 DEF UndoDiscard, Moved
<1>4. ASSUME NEW t \in Targets, UndoDone(t) PROVE IInv'
    BY <1>4 DEF UndoDone, Moved
<1>5. ASSUME NEW t \in Targets, UndoFails(t) PROVE IInv'
    BY <1>5 DEF UndoFails
<1>6. ASSUME NEW t \in Targets, JournalVolume(t) PROVE IInv'
    BY <1>6 DEF JournalVolume
<1>7. ASSUME NEW t \in Targets, Begin(t) PROVE IInv'
    BY <1>7 DEF Begin
<1>8. ASSUME NEW t \in Targets, Refused(t) PROVE IInv'
    BY <1>8 DEF Refused
<1>9. ASSUME NEW t \in Targets, CommitTears(t) PROVE IInv'
    BY <1>9 DEF CommitTears
<1>10. ASSUME NEW t \in Targets, CommitRemoves(t) PROVE IInv'
    BY <1>10 DEF CommitRemoves
<1>11. ASSUME NEW t \in Targets, CommitRemoveFails(t) PROVE IInv'
    BY <1>11 DEF CommitRemoveFails
<1>12. ASSUME NEW c \in Missing, JournalContainer(c) PROVE IInv'
    BY <1>12 DEF JournalContainer
<1>13. ASSUME NEW c \in Targets \cup Missing, RemoveCreated(c) PROVE IInv'
    BY <1>13 DEF RemoveCreated
<1>14. ASSUME NEW c \in Targets \cup Missing, RemoveFails(c) PROVE IInv'
    BY <1>14 DEF RemoveFails
<1>15. CASE RestoreComponents
    BY <1>15 DEF RestoreComponents
<1>16. CASE Repaired
    BY <1>16 DEF Repaired
<1>17. CASE CreateVolume
    BY <1>17 DEF CreateVolume
<1>18. CASE StageBegin
    BY <1>18 DEF StageBegin
<1>19. CASE StageDone
    BY <1>19 DEF StageDone
<1>20. CASE ComponentFails
    BY <1>20 DEF ComponentFails
<1>21. CASE SwapJournal
    BY <1>21 DEF SwapJournal
<1>22. CASE SwapRefused
    BY <1>22 DEF SwapRefused
<1>23. CASE MoveAside
    BY <1>23 DEF MoveAside
<1>24. CASE MoveIn
    BY <1>24 DEF MoveIn
<1>25. CASE SwapSaved
    BY <1>25 DEF SwapSaved
<1>26. CASE ComponentsDone
    BY <1>26 DEF ComponentsDone
<1>27. CASE ComponentsRolledBack
    BY <1>27 DEF ComponentsRolledBack
<1>28. CASE RecreateContainers
    BY <1>28 DEF RecreateContainers
<1>29. CASE CreateContainer
    BY <1>29 DEF CreateContainer
<1>30. CASE Recreated
    BY <1>30 DEF Recreated
<1>31. CASE Commit
    BY <1>31 DEF Commit
<1>32. CASE Committed
    BY <1>32 DEF Committed
<1>33. CASE Rollback
    BY <1>33 DEF Rollback
<1>34. CASE StopFails
    BY <1>34 DEF StopFails
<1>35. CASE SwapsUndone
    BY <1>35 DEF SwapsUndone
<1>36. CASE CreatedRemoved
    BY <1>36 DEF CreatedRemoved
<1>37. CASE RolledBack
    BY <1>37 DEF RolledBack
<1>38. CASE SwitchFires
    BY <1>38 DEF SwitchFires
<1>39. CASE AgentStops
    BY <1>39 DEF AgentStops
<1>40. CASE AgentStarts
    BY <1>40 DEF AgentStarts
<1>41. CASE UNCHANGED swapVars
    BY <1>41 DEF swapVars
<1> HIDE DEF IInv, Targets
<1> QED
    BY <1>1, <1>2, <1>3, <1>4, <1>5, <1>6, <1>7, <1>8, <1>9, <1>10, <1>11, <1>12, <1>13, <1>14,
       <1>15, <1>16, <1>17, <1>18, <1>19, <1>20, <1>21, <1>22, <1>23, <1>24, <1>25, <1>26,
       <1>27, <1>28, <1>29, <1>30, <1>31, <1>32, <1>33, <1>34, <1>35, <1>36, <1>37, <1>38,
       <1>39, <1>40, <1>41 DEF SwapNext

\* The end of a restore.  Resident targets hold something when they are swapped;
\* The agent's restore state keeps its type.
THEOREM TypeCorrect == SwapSpec => []SwapTypeOK
<1>1. IInv => SwapTypeOK
    BY DEF IInv
<1> QED
    BY InitIInv, Inductive, <1>1, PTL DEF SwapSpec

\* What was found at a path can be brought back until a commit deletes it.
THEOREM PreviousAlwaysRecoverable == SwapSpec => []PreviousRecoverable
<1>1. IInv => PreviousRecoverable
    BY DEF IInv, Found, Home, Away, PreviousRecoverable
<1> QED
    BY InitIInv, Inductive, <1>1, PTL DEF SwapSpec

\* What the restore created is always named in the journal file.
THEOREM CreatedAlwaysJournaled == SwapSpec => []CreatedIsJournaled
<1>1. IInv => CreatedIsJournaled
    BY DEF IInv, Created, CreatedIsJournaled
<1> QED
    BY InitIInv, Inductive, <1>1, PTL DEF SwapSpec
=============================================================================
