------------------------- MODULE QuiesceLeaseProofs -------------------------
(***************************************************************************)
(* Proofs about QuiesceLease for every set of leases, applications and     *)
(* containers and every bound on failures, stops and outside changes.      *)
(***************************************************************************)
EXTENDS QuiesceLease, TLAPS

\* What the operation holding the mutex relies on.  Its lease is active and
\* stays so until it ends; while quiescing, the journal holds it too; a lease
\* being resumed is still armed, so that a failed Resume leaves it so; a restore
\* without errors has brought back every container it no longer has to visit.
OpInv ==
    /\ pc # "idle" => /\ up /\ mem[cur].st = "active" /\ cur \notin boot
                      /\ todo \subseteq mem[cur].pre
    /\ pc = "quiesce" => disk[cur] = mem[cur]
    /\ pc = "resume" => armed[cur] # "no" \/ cur \in fired
    /\ pc \in {"rollback", "resume", "auto"} /\ errs = "none"
          => held \intersect mem[cur].pre \subseteq todo

\* What counts as taken down is down.
HeldDown == \A c \in held : container[c] # "running"

\* start() has only active leases left to look at.
BootInv == \A l \in boot : up /\ mem[l].st = "active"

\* The same cover as HeldIsCovered, in memory: what a later save() writes.
MemCovered ==
    up => \A c \in held : \E l \in Leases : mem[l].st = "active" /\ c \in mem[l].pre

IInv == /\ TypeOK /\ OpInv /\ HeldDown /\ BootInv /\ MemCovered
        /\ HeldIsCovered /\ SwitchPending /\ OneActiveLease

\* What the proofs use of lease records; the record set itself stays folded.
LEMMA Records ==
    /\ NoLease \in LeaseRecord /\ NoLease.st = "none"
    /\ \A a \in Apps, m \in Modes, pre \in SUBSET Containers :
          /\ NewLease(a, m, pre) \in LeaseRecord
          /\ NewLease(a, m, pre).st = "active"
          /\ NewLease(a, m, pre).app = a
          /\ NewLease(a, m, pre).pre = pre
    /\ \A r \in LeaseRecord :
          /\ r.pre \in SUBSET Containers
          /\ AutoResumed(r) \in LeaseRecord /\ AutoResumed(r).st = "auto"
          /\ Warned(r) \in LeaseRecord /\ Warned(r).st = r.st
          /\ Warned(r).app = r.app /\ Warned(r).pre = r.pre
BY AppsAssumption DEF NoLease, LeaseRecord, NewLease, AutoResumed, Warned

\* No lease exists at the start.
LEMMA InitIInv == Init => IInv
BY Records, BoundsAssumption
   DEF Init, IInv, TypeOK, OpInv, HeldDown, BootInv, MemCovered, HeldIsCovered,
       SwitchPending, OneActiveLease, Active, ContainerStates

\* Every step keeps the types.
LEMMA TypeStep == TypeOK /\ [Next]_vars => TypeOK'
<1> SUFFICES ASSUME TypeOK, [Next]_vars PROVE TypeOK'
  OBVIOUS
<1> USE Records, BoundsAssumption
    DEF TypeOK, ContainerStates, docker, journal, timers, op, budget,
        Fault, Save, Answer, Enter, Leave, Free, MayQuiesce, TakeDown, StartContainer
<1>1. ASSUME NEW l \in Leases, NEW a \in Apps, QuiesceRepeat(l, a) PROVE TypeOK'
  BY <1>1 DEF QuiesceRepeat
<1>2. ASSUME NEW l \in Leases, NEW a \in Apps, QuiesceRefused(l, a) PROVE TypeOK'
  BY <1>2 DEF QuiesceRefused
<1>3. ASSUME NEW l \in Leases, NEW a \in Apps, QuiesceFails(l, a) PROVE TypeOK'
  BY <1>3 DEF QuiesceFails
<1>4. ASSUME NEW l \in Leases, NEW a \in Apps, NEW m \in Modes, QuiesceBegin(l, a, m) PROVE TypeOK'
  BY <1>4 DEF QuiesceBegin
<1>5. ASSUME NEW l \in Leases, ResumeUnknown(l) PROVE TypeOK'
  BY <1>5 DEF ResumeUnknown
<1>6. ASSUME NEW l \in Leases, ResumeAutoResumed(l) PROVE TypeOK'
  BY <1>6 DEF ResumeAutoResumed
<1>7. ASSUME NEW l \in Leases, ResumeBegin(l) PROVE TypeOK'
  BY <1>7 DEF ResumeBegin
<1>8. ASSUME NEW l \in Leases, LeaseExpires(l) PROVE TypeOK'
  BY <1>8 DEF LeaseExpires
<1>9. ASSUME NEW l \in Leases, TimerFires(l) PROVE TypeOK'
  BY <1>9 DEF TimerFires
<1>10. ASSUME NEW l \in Leases, Expire(l) PROVE TypeOK'
  BY <1>10 DEF Expire
<1>11. ASSUME NEW l \in Leases, Warn(l) PROVE TypeOK'
  BY <1>11 DEF Warn
<1>12. ASSUME NEW l \in Leases, StartLease(l) PROVE TypeOK'
  BY <1>12 DEF StartLease
<1>13. ASSUME NEW c \in Containers, QuiesceContainer(c) PROVE TypeOK'
  BY <1>13 DEF QuiesceContainer
<1>14. ASSUME NEW c \in Containers, QuiesceContainerFails(c) PROVE TypeOK'
  <2>1. UNCHANGED docker \/ TakeDown(c)
    BY <1>14 DEF QuiesceContainerFails
  <2>2. container' \in [Containers -> ContainerStates] /\ held' \in SUBSET Containers
    BY <2>1
  <2>3. faults' \in 0..MaxFaults /\ crashes' = crashes /\ outside' = outside
    BY <1>14 DEF QuiesceContainerFails
  <2>4. mem[cur].pre \in SUBSET Containers
    OBVIOUS
  <2> HIDE DEF TakeDown, Fault, docker
  <2> QED
    BY <1>14, <2>2, <2>3, <2>4 DEF QuiesceContainerFails
<1>15. ASSUME NEW c \in Containers, RestoreContainer(c) PROVE TypeOK'
  BY <1>15 DEF RestoreContainer
<1>16. ASSUME NEW c \in Containers, RestoreContainerFails(c) PROVE TypeOK'
  BY <1>16 DEF RestoreContainerFails
<1>17. ASSUME NEW c \in Containers, OutsideChange(c) PROVE TypeOK'
  BY <1>17 DEF OutsideChange
<1>18. CASE RestoreUnavailable
  BY <1>18 DEF RestoreUnavailable
<1>19. CASE QuiesceDone
  BY <1>19 DEF QuiesceDone
<1>20. CASE RollbackDone
  BY <1>20 DEF RollbackDone
<1>21. CASE ResumeDone
  BY <1>21 DEF ResumeDone
<1>22. CASE AutoResumeDone
  BY <1>22 DEF AutoResumeDone
<1>23. CASE Stop
  <2>1. up' \in BOOLEAN
    BY <1>23, Zenon DEF Stop
  <2> QED
    BY <1>23, <2>1 DEF Stop
<1>24. CASE Start
  BY <1>24 DEF Start
<1>25. CASE UNCHANGED vars
  BY <1>25 DEF vars
<1> HIDE DEF TypeOK
<1> QED
  BY <1>1, <1>2, <1>3, <1>4, <1>5, <1>6, <1>7, <1>8, <1>9, <1>10, <1>11, <1>12, <1>13, <1>14,
     <1>15, <1>16, <1>17, <1>18, <1>19, <1>20, <1>21, <1>22, <1>23, <1>24, <1>25
     DEF Next, Quiesce, Resume, OpStep

\* Every step of the agent keeps the inductive invariant.
LEMMA IInvStep == IInv /\ [Next]_vars => IInv'
<1> SUFFICES ASSUME IInv, [Next]_vars PROVE IInv'
  OBVIOUS
<1> DEFINE Rest == /\ OpInv /\ HeldDown /\ BootInv /\ MemCovered
                   /\ HeldIsCovered /\ SwitchPending /\ OneActiveLease
<1>0. TypeOK /\ TypeOK'
  BY TypeStep DEF IInv
<1> SUFFICES Rest'
  BY <1>0 DEF IInv
<1> USE <1>0, Records
    DEF IInv, TypeOK, OpInv, HeldDown, BootInv, MemCovered, HeldIsCovered, SwitchPending,
        OneActiveLease, Active, docker, journal, timers, op, budget,
        Fault, Save, Answer, Enter, Leave, Free, MayQuiesce, TakeDown, StartContainer,
        Restoring
<1>1. ASSUME NEW l \in Leases, NEW a \in Apps, QuiesceRepeat(l, a) PROVE Rest'
  BY <1>1 DEF QuiesceRepeat
<1>2. ASSUME NEW l \in Leases, NEW a \in Apps, QuiesceRefused(l, a) PROVE Rest'
  BY <1>2 DEF QuiesceRefused
<1>3. ASSUME NEW l \in Leases, NEW a \in Apps, QuiesceFails(l, a) PROVE Rest'
  BY <1>3 DEF QuiesceFails
<1>4. ASSUME NEW l \in Leases, NEW a \in Apps, NEW m \in Modes, QuiesceBegin(l, a, m) PROVE Rest'
  BY <1>4 DEF QuiesceBegin
<1>5. ASSUME NEW l \in Leases, ResumeUnknown(l) PROVE Rest'
  BY <1>5 DEF ResumeUnknown
<1>6. ASSUME NEW l \in Leases, ResumeAutoResumed(l) PROVE Rest'
  BY <1>6 DEF ResumeAutoResumed
<1>7. ASSUME NEW l \in Leases, ResumeBegin(l) PROVE Rest'
  BY <1>7 DEF ResumeBegin
<1>8. ASSUME NEW l \in Leases, LeaseExpires(l) PROVE Rest'
  BY <1>8 DEF LeaseExpires
<1>9. ASSUME NEW l \in Leases, TimerFires(l) PROVE Rest'
  BY <1>9 DEF TimerFires
<1>10. ASSUME NEW l \in Leases, Expire(l) PROVE Rest'
  BY <1>10 DEF Expire
<1>11. ASSUME NEW l \in Leases, Warn(l) PROVE Rest'
  BY <1>11 DEF Warn
<1>12. ASSUME NEW l \in Leases, StartLease(l) PROVE Rest'
  BY <1>12 DEF StartLease
<1>13. ASSUME NEW c \in Containers, QuiesceContainer(c) PROVE Rest'
  BY <1>13 DEF QuiesceContainer
<1>14. ASSUME NEW c \in Containers, QuiesceContainerFails(c) PROVE Rest'
  BY <1>14 DEF QuiesceContainerFails
<1>15. ASSUME NEW c \in Containers, RestoreContainer(c) PROVE Rest'
  BY <1>15 DEF RestoreContainer
<1>16. ASSUME NEW c \in Containers, RestoreContainerFails(c) PROVE Rest'
  BY <1>16 DEF RestoreContainerFails
<1>17. ASSUME NEW c \in Containers, OutsideChange(c) PROVE Rest'
  BY <1>17 DEF OutsideChange
<1>18. CASE RestoreUnavailable
  BY <1>18 DEF RestoreUnavailable
<1>19. CASE QuiesceDone
  BY <1>19 DEF QuiesceDone
<1>20. CASE RollbackDone
  BY <1>20, SMTT(30) DEF RollbackDone
<1>21. CASE ResumeDone
  BY <1>21 DEF ResumeDone
<1>22. CASE AutoResumeDone
  BY <1>22 DEF AutoResumeDone
<1>23. CASE Stop
  BY <1>23 DEF Stop
<1>24. CASE Start
  BY <1>24 DEF Start
<1>25. CASE UNCHANGED vars
  BY <1>25 DEF vars
<1> HIDE DEF IInv, TypeOK, Rest
<1> QED
  BY <1>1, <1>2, <1>3, <1>4, <1>5, <1>6, <1>7, <1>8, <1>9, <1>10, <1>11, <1>12, <1>13, <1>14,
     <1>15, <1>16, <1>17, <1>18, <1>19, <1>20, <1>21, <1>22, <1>23, <1>24, <1>25
     DEF Next, Quiesce, Resume, OpStep

\* The three theorems below are about every run of the agent: any number of
\* leases, any failed Docker call or journal write, a stop at any point.
LEMMA Inductive == Spec => []IInv
BY InitIInv, IInvStep, PTL DEF Spec

\* Type correctness of the lease manager's state.
THEOREM TypeCorrect == Spec => []TypeOK
<1>1. IInv => TypeOK
  BY DEF IInv
<1> QED
  BY <1>1, Inductive, PTL

\* No container the agent took down is ever missing from the journaled active
\* leases (quiesce.go:299-304): an agent that starts again can bring it back.
THEOREM HeldAlwaysCovered == Spec => []HeldIsCovered
<1>1. IInv => HeldIsCovered
  BY DEF IInv
<1> QED
  BY <1>1, Inductive, PTL

\* The dead-man switch of every active lease is always pending while the agent
\* runs (quiesce.go:149, 189-213, 322, 334).
THEOREM SwitchAlwaysPending == Spec => []SwitchPending
<1>1. IInv => SwitchPending
  BY DEF IInv
<1> QED
  BY <1>1, Inductive, PTL

\* Two leases are never active for one application, in memory or in the journal
\* (quiesce.go:280-284).
THEOREM NeverTwoActiveLeases == Spec => []OneActiveLease
<1>1. IInv => OneActiveLease
  BY DEF IInv
<1> QED
  BY <1>1, Inductive, PTL
=============================================================================
