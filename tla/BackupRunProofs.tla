-------------------------- MODULE BackupRunProofs --------------------------
(***************************************************************************)
(* A backup and the lease manager together: every behaviour of the backup  *)
(* is one of the lease manager, a run that ends has undone what it began,  *)
(* and an undisturbed run commits only what it read while nothing ran.     *)
(* For every set of containers, both modes, with and without hooks.        *)
(***************************************************************************)
EXTENDS BackupRun, QuiesceLeaseProofs

-----------------------------------------------------------------------------
(* The backup drives the lease manager and never bypasses it. *)

\* A step of the workflow itself does not touch the lease manager.
LEMMA RunStepLeavesLease == RunStep => UNCHANGED lease
<1>1. Begin \/ PreHooks \/ SendQuiesce \/ QuiesceAnswered \/ QuiesceTimesOut => UNCHANGED lease
    BY DEF Begin, PreHooks, SendQuiesce, QuiesceAnswered, QuiesceTimesOut
<1>2. CaptureBegins \/ CaptureEnds \/ ReadingStops \/ ResumeAnswered \/ ResumeFails
          => UNCHANGED lease
    BY DEF CaptureBegins, CaptureEnds, ReadingStops, ResumeAnswered, ResumeFails
<1>3. PostHooks \/ Commit \/ UndoResume \/ UndoPost => UNCHANGED lease
    BY DEF PostHooks, Commit, UndoResume, UndoPost
<1> QED
    BY <1>1, <1>2, <1>3 DEF RunStep

\* Every step of the run is a step of the lease manager or leaves it alone.
LEMMA RunStepIsLeaseStep == [RunNext]_RunVars => [Next]_vars
<1> SUFFICES ASSUME [RunNext]_RunVars PROVE [Next]_vars
    OBVIOUS
<1> USE OneLease DEF lease, docker, journal, timers, op, budget, vars
<1>1. CASE ExecuteQuiesce
    BY <1>1 DEF ExecuteQuiesce, Next
<1>2. CASE ExecuteResume
    BY <1>2 DEF ExecuteResume, Next
<1>3. CASE Proceed
    BY <1>3 DEF Proceed, Next
<1>4. CASE Switch
    BY <1>4 DEF Switch, Next
<1>5. CASE AgentStops
    BY <1>5 DEF AgentStops, Next
<1>6. ASSUME NEW c \in Commands, LateLost(c) PROVE [Next]_vars
    BY <1>6 DEF LateLost
<1>7. CASE RunStep
    BY <1>7, RunStepLeavesLease
<1>8. CASE UNCHANGED RunVars
    BY <1>8 DEF RunVars
<1> QED
    BY <1>1, <1>2, <1>3, <1>4, <1>5, <1>6, <1>7, <1>8 DEF RunNext

\* The backup implements the lease manager: whatever the workflow sends, repeats,
\* abandons or loses, the agent's leases behave as QuiesceLease says, so what is
\* proved of them holds in every backup.
THEOREM BackupKeepsTheLeases == RunSpec => Spec
<1>1. RunInit => Init
    BY DEF RunInit
<1> QED
    BY <1>1, RunStepIsLeaseStep, PTL DEF RunSpec, Spec

\* The same for the invariant of the lease manager.
LEMMA RunKeepsIInv == RunSpec => []IInv
BY BackupKeepsTheLeases, Inductive, PTL

\* A container the agent has taken down for a backup is named by an active lease
\* of leases.json, whatever the workflow does.
THEOREM BackupHoldsAreCovered == RunSpec => []HeldIsCovered
BY BackupKeepsTheLeases, HeldAlwaysCovered, PTL

-----------------------------------------------------------------------------
(* The saga. *)

\* Compensations are registered before what they undo is attempted.
SagaInv ==
    /\ "pre" \in hooked => "post" \in saga
    /\ wf = "end" => /\ "post" \in saga => "post" \in hooked
                     /\ "resume" \in saga => resumed = "yes"

\* When a run ends, a Quiesce that may have reached the agent was followed by a
\* Resume that succeeded or was given up, and pre hooks by post hooks
\* (backup.go:184, 195).
THEOREM AlwaysCompensated == RunSpec => []Compensated
<1>1. RunInit => SagaInv
    BY DEF RunInit, SagaInv
<1>2. SagaInv /\ [RunNext]_RunVars => SagaInv'
    BY DEF SagaInv, RunNext, RunStep, RunVars, run, Keeps, ExecuteQuiesce, ExecuteResume, Proceed,
       Switch, AgentStops, LateLost, Undo, Send, Begin, PreHooks, SendQuiesce, QuiesceAnswered,
       QuiesceTimesOut, CaptureBegins, CaptureEnds, ReadingStops, ResumeAnswered, ResumeFails,
       PostHooks, Commit, UndoResume, UndoPost
<1>3. SagaInv => Compensated
    BY DEF SagaInv, Compensated
<1> QED
    BY <1>1, <1>2, <1>3, PTL DEF RunSpec

-----------------------------------------------------------------------------
(* The window. *)

\* No Docker call or journal write has failed, the agent has not stopped and
\* nobody else has changed a container.
Undisturbed == faults = 0 /\ crashes = 0 /\ outside = 0

Mode == mem[Lease].st

\* An active lease that nobody is working on holds the whole application down;
\* while Quiesce works, what still runs is what it has still to visit.
Quieted ==
    /\ up /\ boot = {} /\ errs = "none" /\ pc # "rollback"
    /\ \A c \in Containers : container[c] # "dead"
    /\ Mode = "active" /\ pc = "idle" => ~Running
    /\ pc = "quiesce" => \A c \in Containers : c \in todo <=> container[c] = "running"

\* The lease is held, or the dead-man switch is bringing it to its end or has;
\* data that was torn was torn by the switch.
LeaseHeld == Mode \in {"active", "auto"} /\ pc \in {"idle", "auto", "resume"}
TornBySwitch == torn = "yes" => Mode = "auto" \/ pc = "auto"

\* The window from the workflow's side.
BeforeWindow ==
    wf \in {"start", "pre", "window"} =>
        /\ pending = {} /\ Mode = "none" /\ pc = "idle"
        /\ failed = "no" /\ reading = "no" /\ torn = "no"
InQuiesce ==
    wf = "quiesce" =>
        /\ failed = "no" /\ reading = "no" /\ torn = "no"
        /\ \/ pending = {"quiesce"} /\ got["quiesce"] = "none"
              /\ ((Mode = "none" /\ pc = "idle") \/ pc = "quiesce")
           \/ pending = {} /\ LeaseHeld /\ pc # "resume"
InCapture ==
    wf = "capture" => /\ pending = {} /\ failed = "no" /\ LeaseHeld /\ pc # "resume"
                      /\ TornBySwitch
InResume ==
    wf = "resume" /\ failed = "no" =>
        /\ reading = "no"
        /\ \/ pending = {"resume"} /\ got["resume"] = "none" /\ LeaseHeld /\ TornBySwitch
           \/ /\ pending = {} /\ Mode = "none" /\ pc = "idle"
              /\ torn = "yes" => got["resume"] = "autoResumed"
AfterWindow ==
    /\ wf = "post" /\ failed = "no" => reading = "no" /\ (torn = "yes" => auto = "yes")
    /\ wf = "commit" => reading = "no" /\ torn = "no"
    /\ manifest = "yes" => wf \in {"undo", "undoresume", "end"} /\ reading = "no" /\ torn = "no"

Window == BeforeWindow /\ InQuiesce /\ InCapture /\ InResume /\ AfterWindow

QuietInv == Undisturbed => Quieted /\ Window

\* What is spent of the bounds is never given back.
LEMMA BoundsAreSpent == TypeOK /\ [Next]_vars /\ Undisturbed' => Undisturbed
<1> SUFFICES ASSUME TypeOK, [Next]_vars, Undisturbed' PROVE Undisturbed
    OBVIOUS
<1> USE DEF budget, Fault, Save
<1>1. faults \in Nat /\ crashes \in Nat /\ outside \in Nat
    BY BoundsAssumption DEF TypeOK
<1>2. CASE UNCHANGED vars
    BY <1>2 DEF Undisturbed, vars
<1>3. CASE OpStep
  <2>1. UNCHANGED budget \/ Fault
    BY <1>3 DEF OpStep, QuiesceContainer, QuiesceContainerFails, RestoreContainer,
       RestoreContainerFails, RestoreUnavailable, QuiesceDone, RollbackDone, ResumeDone,
       AutoResumeDone
  <2> QED
    BY <1>1, <2>1 DEF Undisturbed
<1>4. ASSUME NEW l \in Leases, Quiesce(l) \/ Resume(l) PROVE Undisturbed
  <2>1. UNCHANGED budget \/ Fault
    BY <1>4 DEF Quiesce, QuiesceRepeat, QuiesceRefused, QuiesceFails, QuiesceBegin, Resume,
       ResumeUnknown, ResumeAutoResumed, ResumeBegin
  <2> QED
    BY <1>1, <2>1 DEF Undisturbed
<1>5. ASSUME NEW l \in Leases,
             LeaseExpires(l) \/ TimerFires(l) \/ Expire(l) \/ Warn(l) \/ StartLease(l)
      PROVE  Undisturbed
  <2>1. UNCHANGED budget \/ Fault
    BY <1>5 DEF LeaseExpires, TimerFires, Expire, Warn, StartLease
  <2> QED
    BY <1>1, <2>1 DEF Undisturbed
<1>6. CASE Stop \/ Start
    BY <1>1, <1>6 DEF Stop, Start, Undisturbed
<1>7. ASSUME NEW c \in Containers, OutsideChange(c) PROVE Undisturbed
    BY <1>1, <1>7 DEF OutsideChange, Undisturbed
<1> QED
    BY <1>2, <1>3, <1>4, <1>5, <1>6, <1>7 DEF Next

\* What each operation does to the lease while nothing disturbs it.
AtRest == Undisturbed /\ Undisturbed' /\ IInv /\ IInv' /\ Quieted

\* Quiesce takes the lease, or answers a repeat.
LEMMA QuiesceEffect ==
    ASSUME AtRest, Quiesce(Lease)
    PROVE  /\ Quieted' /\ pc = "idle"
           /\ \/ Mode = "none" /\ Mode' = "active" /\ pc' = "quiesce"
              \/ Mode # "none" /\ Mode' = Mode /\ pc' = "idle"
<1>0. Undisturbed /\ Undisturbed' /\ TypeOK /\ TypeOK' /\ Quieted
    BY DEF AtRest, IInv
<1> USE <1>0, OneLease, Records DEF TypeOK, Quieted, Mode, Running, Undisturbed, Free,
        Active, MayQuiesce, Answer, Enter, Fault, docker, journal, timers, op, budget
<1>1. ASSUME NEW a \in Apps, QuiesceRepeat(Lease, a)
      PROVE  Quieted' /\ pc = "idle" /\ Mode # "none" /\ Mode' = Mode /\ pc' = "idle"
    BY <1>1 DEF QuiesceRepeat
<1>2. ASSUME NEW a \in Apps, QuiesceRefused(Lease, a)
      PROVE  Quieted' /\ pc = "idle" /\ Mode # "none" /\ Mode' = Mode /\ pc' = "idle"
    BY <1>2 DEF QuiesceRefused
<1>3. ASSUME NEW a \in Apps, QuiesceFails(Lease, a) PROVE FALSE
    BY <1>3 DEF QuiesceFails
<1>4. ASSUME NEW a \in Apps, NEW m \in Modes, QuiesceBegin(Lease, a, m)
      PROVE  Quieted' /\ pc = "idle" /\ Mode = "none" /\ Mode' = "active" /\ pc' = "quiesce"
  <2>1. \A c \in Containers : AppOf[c] = a
    BY AppOfAssumption, OneApplication
  <2>2. todo' = {c \in Containers : AppOf[c] = a /\ container[c] = "running"}
    BY <1>4 DEF QuiesceBegin
  <2>3. mem' = [mem EXCEPT ![Lease] = NewLease(a, m, todo')] /\ todo' \in SUBSET Containers
    BY <1>4 DEF QuiesceBegin
  <2>4. Mode' = "active"
    BY <2>3
  <2> QED
    BY <1>4, <2>1, <2>2, <2>4 DEF QuiesceBegin
<1> QED
    BY <1>1, <1>2, <1>3, <1>4 DEF Quiesce

\* Resume begins to release the lease, or reports that the switch has done so.
LEMMA ResumeEffect ==
    ASSUME AtRest, Resume(Lease)
    PROVE  /\ Quieted' /\ pc = "idle"
           /\ \/ Mode = "none" /\ Mode' = "none" /\ pc' = "idle"
              \/ Mode = "auto" /\ Mode' = "none" /\ pc' = "idle" /\ answer'[2] = "autoResumed"
              \/ Mode = "active" /\ Mode' = "active" /\ pc' = "resume"
<1>0. Undisturbed /\ Undisturbed' /\ TypeOK /\ TypeOK' /\ Quieted
    BY DEF AtRest, IInv
<1> USE <1>0, OneLease, Records DEF TypeOK, Quieted, Mode, Running, Undisturbed, Free,
        Active, Answer, Enter, Fault, Save, docker, journal, timers, op, budget
<1>1. CASE ResumeUnknown(Lease)
    BY <1>1 DEF ResumeUnknown
<1>2. CASE ResumeAutoResumed(Lease)
    BY <1>2 DEF ResumeAutoResumed
<1>3. CASE ResumeBegin(Lease)
    BY <1>3 DEF ResumeBegin
<1> QED
    BY <1>1, <1>2, <1>3 DEF Resume

\* An operation that holds the mutex goes on, or ends and leaves the lease where it
\* says: nothing fails, so nothing is rolled back.
LEMMA OpEffect ==
    ASSUME AtRest, OpStep
    PROVE  /\ Quieted' /\ pc \in {"quiesce", "resume", "auto"} /\ Mode = "active"
           /\ \/ pc' = pc /\ Mode' = Mode
              \/ pc' = "idle" /\ \/ pc = "quiesce" /\ Mode' = "active"
                                 \/ pc = "resume" /\ Mode' = "none"
                                 \/ pc = "auto" /\ Mode' = "auto"
<1>0. Undisturbed /\ Undisturbed' /\ TypeOK /\ TypeOK' /\ OpInv /\ Quieted
    BY DEF AtRest, IInv
<1> USE <1>0, OneLease, Records DEF TypeOK, OpInv, ContainerStates, Quieted, Mode, Running,
        Undisturbed, Active, Restoring, CanTake, TakeDown, StartContainer, Answer, Enter, Leave,
        Fault, Save, docker, journal, timers, op, budget
<1>1. ASSUME NEW c \in Containers, QuiesceContainer(c)
      PROVE  Quieted' /\ pc = "quiesce" /\ Mode = "active" /\ pc' = pc /\ Mode' = Mode
    BY <1>1 DEF QuiesceContainer
<1>2. ASSUME NEW c \in Containers, QuiesceContainerFails(c) PROVE FALSE
    BY <1>2 DEF QuiesceContainerFails
<1>3. ASSUME NEW c \in Containers, RestoreContainer(c)
      PROVE  Quieted' /\ pc \in {"resume", "auto"} /\ Mode = "active" /\ pc' = pc /\ Mode' = Mode
    BY <1>3 DEF RestoreContainer
<1>4. ASSUME NEW c \in Containers, RestoreContainerFails(c) PROVE FALSE
    BY <1>4 DEF RestoreContainerFails
<1>5. CASE RestoreUnavailable
    BY <1>5 DEF RestoreUnavailable
<1>6. CASE QuiesceDone
    BY <1>6 DEF QuiesceDone
<1>7. CASE RollbackDone
    BY <1>7 DEF RollbackDone
<1>8. CASE ResumeDone
    BY <1>8 DEF ResumeDone
<1>9. CASE AutoResumeDone
    BY <1>9, SMTT(30) DEF AutoResumeDone
<1> HIDE DEF TypeOK, OpInv, Quieted, Mode, Running, Undisturbed
<1> QED
    BY <1>1, <1>2, <1>3, <1>4, <1>5, <1>6, <1>7, <1>8, <1>9 DEF OpStep

\* The dead-man switch only acts on an active lease nobody is working on.
LEMMA SwitchEffect ==
    ASSUME AtRest, Switch
    PROVE  Quieted' /\ Mode' = Mode /\ (pc' = pc \/ (pc = "idle" /\ pc' = "auto" /\ Mode = "active"))
<1>0. Undisturbed /\ Undisturbed' /\ TypeOK /\ TypeOK' /\ Quieted
    BY DEF AtRest, IInv
<1> USE <1>0, OneLease, Records DEF TypeOK, Quieted, Mode, Running, Undisturbed, Free,
        Active, Enter, Fault, Save, docker, journal, timers, op, budget
<1>1. CASE LeaseExpires(Lease)
    BY <1>1 DEF LeaseExpires
<1>2. CASE TimerFires(Lease)
    BY <1>2 DEF TimerFires
<1>3. CASE Expire(Lease)
    BY <1>3 DEF Expire
<1>4. CASE Warn(Lease)
    BY <1>4 DEF Warn
<1>5. CASE StartLease(Lease)
    BY <1>5 DEF StartLease
<1>6. CASE Start
    BY <1>6 DEF Start
<1>7. ASSUME NEW c \in Containers, OutsideChange(c) PROVE FALSE
    BY <1>7 DEF OutsideChange
<1> HIDE DEF TypeOK, Quieted, Mode, Running, Undisturbed
<1> QED
    BY <1>1, <1>2, <1>3, <1>4, <1>5, <1>6, <1>7 DEF Switch

\* The workflow's variables keep their types.
LEMMA RunTypes == RunTypeOK /\ TypeOK' /\ [RunNext]_RunVars => RunTypeOK'
<1> SUFFICES ASSUME RunTypeOK, TypeOK', [RunNext]_RunVars PROVE RunTypeOK'
    OBVIOUS
<1> USE DEF RunTypeOK, Commands
<1> DEFINE Results == {"none", "quiesced", "refused", "failed", "resumed", "autoResumed", "already"}
<1>1. (Quiesce(Lease) \/ Resume(Lease) \/ (OpStep /\ pc # "auto")) /\ pc' = "idle"
          => answer'[2] \in Results
  <2>1. Quiesce(Lease) /\ pc' = "idle" => answer'[2] \in Results
    BY DEF Quiesce, QuiesceRepeat, QuiesceRefused, QuiesceFails, QuiesceBegin, Answer, Enter
  <2>2. Resume(Lease) /\ pc' = "idle" => answer'[2] \in Results
    BY DEF Resume, ResumeUnknown, ResumeAutoResumed, ResumeBegin, Answer, Enter
  <2>3. QuiesceDone \/ RollbackDone \/ ResumeDone => answer'[2] \in Results
    BY DEF QuiesceDone, RollbackDone, ResumeDone, Answer
  <2>4. ASSUME NEW c \in Containers,
               QuiesceContainer(c) \/ QuiesceContainerFails(c) \/ RestoreContainer(c)
                   \/ RestoreContainerFails(c)
        PROVE  pc' # "idle"
    BY <2>4 DEF QuiesceContainer, QuiesceContainerFails, RestoreContainer, RestoreContainerFails,
       Restoring, Enter
  <2>5. (RestoreUnavailable => pc' # "idle") /\ (AutoResumeDone => pc = "auto")
    BY DEF AutoResumeDone, RestoreUnavailable, Restoring
  <2> QED
    BY <2>1, <2>2, <2>3, <2>4, <2>5 DEF OpStep
<1>2. CASE ExecuteQuiesce
  <2>1. got' \in [Commands -> Results] /\ pending' \subseteq pending
    BY <1>1, <1>2 DEF ExecuteQuiesce, Ends
  <2>2. torn' \in {"no", "yes"} /\ Keeps
    BY <1>2 DEF ExecuteQuiesce, Watch
  <2> QED
    BY <2>1, <2>2 DEF Keeps
<1>3. CASE ExecuteResume
  <2>1. got' \in [Commands -> Results] /\ pending' \subseteq pending
    BY <1>1, <1>3 DEF ExecuteResume, Ends
  <2>2. torn' \in {"no", "yes"} /\ Keeps
    BY <1>3 DEF ExecuteResume, Watch
  <2> QED
    BY <2>1, <2>2 DEF Keeps
<1>4. CASE Proceed
  <2>1. got' \in [Commands -> Results] /\ pending' \subseteq pending
    BY <1>1, <1>4 DEF Proceed, Ends
  <2>2. torn' \in {"no", "yes"} /\ Keeps
    BY <1>4 DEF Proceed, Watch
  <2> QED
    BY <2>1, <2>2 DEF Keeps
<1>5. CASE Switch
  <2>1. torn' \in {"no", "yes"} /\ Keeps /\ UNCHANGED <<pending, got>>
    BY <1>5 DEF Switch, Watch
  <2> QED
    BY <2>1 DEF Keeps
<1>6. CASE AgentStops
    BY <1>6 DEF AgentStops
<1>7. ASSUME NEW c \in Commands, LateLost(c) PROVE RunTypeOK'
    BY <1>7 DEF LateLost
<1>8. CASE RunStep
  <2>1. CASE Begin
    BY <2>1 DEF Begin, Undo
  <2>2. CASE PreHooks
    BY <2>2 DEF PreHooks, Undo
  <2>3. CASE SendQuiesce
    BY <2>3 DEF SendQuiesce, Send
  <2>4. CASE QuiesceAnswered
    BY <2>4 DEF QuiesceAnswered, Undo
  <2>5. CASE QuiesceTimesOut
    BY <2>5 DEF QuiesceTimesOut, Undo
  <2>6. CASE CaptureBegins
    BY <2>6 DEF CaptureBegins
  <2>7. CASE CaptureEnds
    BY <2>7 DEF CaptureEnds, Send
  <2>8. CASE ReadingStops
    BY <2>8 DEF ReadingStops
  <2>9. CASE ResumeAnswered
    BY <2>9 DEF ResumeAnswered, Undo
  <2>10. CASE ResumeFails
    BY <2>10 DEF ResumeFails, Undo
  <2>11. CASE PostHooks
    BY <2>11 DEF PostHooks, Undo
  <2>12. CASE Commit
    BY <2>12 DEF Commit, Undo
  <2>13. CASE UndoResume
    BY <2>13 DEF UndoResume, Send
  <2>14. CASE UndoPost
    BY <2>14 DEF UndoPost
  <2> QED
    BY <1>8, <2>1, <2>2, <2>3, <2>4, <2>5, <2>6, <2>7, <2>8, <2>9, <2>10, <2>11, <2>12, <2>13, <2>14
       DEF RunStep
<1>9. CASE UNCHANGED RunVars
    BY <1>9 DEF RunVars, run
<1> QED
    BY <1>2, <1>3, <1>4, <1>5, <1>6, <1>7, <1>8, <1>9 DEF RunNext

\* Every step of an undisturbed run keeps the window.
LEMMA WindowStep ==
    IInv /\ IInv' /\ RunTypeOK /\ RunTypeOK' /\ QuietInv /\ [RunNext]_RunVars => QuietInv'
<1> SUFFICES ASSUME IInv, IInv', RunTypeOK, RunTypeOK', QuietInv, [RunNext]_RunVars, Undisturbed'
             PROVE  Quieted' /\ Window'
    BY DEF QuietInv
<1>0. AtRest /\ Window
    BY BoundsAreSpent, RunStepIsLeaseStep DEF QuietInv, AtRest, IInv
<1> USE <1>0 DEF RunTypeOK, Commands, Window, BeforeWindow, InQuiesce, InCapture, InResume,
        AfterWindow, LeaseHeld, TornBySwitch
<1>1. CASE ExecuteQuiesce
  <2>1. Quieted' /\ pc = "idle"
    BY <1>1, QuiesceEffect DEF ExecuteQuiesce
  <2>2. (Mode = "none" /\ Mode' = "active" /\ pc' = "quiesce")
        \/ (Mode # "none" /\ Mode' = Mode /\ pc' = "idle")
    BY <1>1, QuiesceEffect DEF ExecuteQuiesce
  <2> QED
    BY <1>1, <2>1, <2>2 DEF ExecuteQuiesce, Ends, Watch, Keeps
<1>2. CASE ExecuteResume
  <2>1. Quieted' /\ pc = "idle"
    BY <1>2, ResumeEffect DEF ExecuteResume
  <2>2. \/ Mode = "none" /\ Mode' = "none" /\ pc' = "idle"
        \/ Mode = "auto" /\ Mode' = "none" /\ pc' = "idle" /\ answer'[2] = "autoResumed"
        \/ Mode = "active" /\ Mode' = "active" /\ pc' = "resume"
    BY <1>2, ResumeEffect DEF ExecuteResume
  <2> QED
    BY <1>2, <2>1, <2>2 DEF ExecuteResume, Ends, Watch, Keeps
<1>3. CASE Proceed
  <2>1. Quieted' /\ pc \in {"quiesce", "resume", "auto"} /\ Mode = "active"
    BY <1>3, OpEffect DEF Proceed
  <2>2. \/ pc' = pc /\ Mode' = Mode
        \/ pc' = "idle" /\ \/ pc = "quiesce" /\ Mode' = "active"
                           \/ pc = "resume" /\ Mode' = "none"
                           \/ pc = "auto" /\ Mode' = "auto"
    BY <1>3, OpEffect DEF Proceed
  <2>3. Mode' = "active" /\ pc' = "idle" => ~Running'
    BY <2>1 DEF Quieted
  <2> QED
    BY <1>3, <2>1, <2>2, <2>3 DEF Proceed, Ends, Watch, Keeps
<1>4. CASE Switch
  <2>1. Quieted' /\ Mode' = Mode /\ (pc' = pc \/ (pc = "idle" /\ pc' = "auto" /\ Mode = "active"))
    BY <1>4, SwitchEffect
  <2>2. Mode' = "active" /\ pc' = "idle" => ~Running'
    BY <2>1 DEF Quieted
  <2> QED
    BY <1>4, <2>1, <2>2 DEF Switch, Watch, Keeps
<1>5. CASE AgentStops
  <2>1. crashes' = crashes + 1 /\ crashes = 0 /\ crashes' = 0
    BY <1>5 DEF AgentStops, Stop, AtRest, Undisturbed
  <2> QED
    BY <2>1
<1>6. ASSUME UNCHANGED lease
      PROVE Quieted' /\ Mode' = Mode /\ pc' = pc /\ (Running <=> Running')
    BY <1>6 DEF lease, docker, journal, timers, op, budget, AtRest, Quieted, Mode, Running
<1>7. ASSUME NEW c \in Commands, LateLost(c)
      PROVE Quieted' /\ Window'
    BY <1>6, <1>7 DEF LateLost, Awaited
<1>8. CASE RunStep
  <2>1. UNCHANGED lease
    BY <1>8, RunStepLeavesLease
  <2>2. Quieted' /\ Mode' = Mode /\ pc' = pc
    BY <2>1, <1>6
  <2>3. Mode = "active" /\ pc = "idle" => ~Running
    BY DEF AtRest, Quieted
  <2>4. CASE Begin \/ PreHooks \/ SendQuiesce
    BY <2>2, <2>4 DEF Undo, Send, Begin, PreHooks, SendQuiesce
  <2>5. CASE QuiesceAnswered \/ QuiesceTimesOut
    BY <2>2, <2>5 DEF Undo, Send, QuiesceAnswered, QuiesceTimesOut
  <2>6. CASE CaptureBegins \/ CaptureEnds \/ ReadingStops
    BY <2>2, <2>3, <2>6 DEF Send, CaptureBegins, CaptureEnds, ReadingStops
  <2>7. CASE ResumeAnswered \/ ResumeFails
    BY <2>2, <2>7 DEF Undo, Send, ResumeAnswered, ResumeFails
  <2>8. CASE PostHooks \/ Commit
    BY <2>2, <2>8 DEF Undo, Send, PostHooks, Commit
  <2>9. CASE UndoResume \/ UndoPost
    BY <2>2, <2>9 DEF Undo, Send, UndoResume, UndoPost
  <2> HIDE DEF RunTypeOK, Window
  <2> QED
    BY <1>8, <2>4, <2>5, <2>6, <2>7, <2>8, <2>9 DEF RunStep
<1>9. CASE UNCHANGED RunVars
    BY <1>6, <1>9 DEF RunVars, run, vars, lease, docker, journal, timers, op, budget
<1> HIDE DEF RunTypeOK, Window
<1> QED
    BY <1>1, <1>2, <1>3, <1>4, <1>5, <1>7, <1>8, <1>9 DEF RunNext

\* The window at the start: nothing is quiesced and nothing was read.
LEMMA WindowInit == RunInit => RunTypeOK /\ QuietInv
<1> SUFFICES ASSUME RunInit PROVE RunTypeOK /\ QuietInv
    OBVIOUS
<1>1. RunTypeOK
    BY DEF RunInit, RunTypeOK, Commands
<1>2. Mode = "none" /\ Quieted
    BY OneLease, Records DEF RunInit, Init, Quieted, Mode
<1>3. Window
    BY <1>2 DEF RunInit, Init, Window, BeforeWindow, InQuiesce, InCapture, InResume, AfterWindow
<1> QED
    BY <1>1, <1>2, <1>3 DEF QuietInv

\* The workflow's state keeps its type in every run.
THEOREM RunTypeCorrect == RunSpec => []RunTypeOK
<1>1. IInv => TypeOK
    BY DEF IInv
<1> QED
    BY <1>1, RunKeepsIInv, WindowInit, RunTypes, PTL DEF RunSpec

\* As long as no Docker call or journal write fails, the agent does not stop and
\* nobody else starts a container, a committed recovery point was captured while
\* no container of the application ran, wherever in the capture the lease expires.
THEOREM CommittedAlwaysQuiet == RunSpec => []CommittedMeansQuiet
<1>1. QuietInv => CommittedMeansQuiet
    BY DEF QuietInv, Undisturbed, Window, AfterWindow, CommittedMeansQuiet, CommittedIsConsistent
<1> QED
    BY <1>1, RunKeepsIInv, RunTypeCorrect, WindowInit, WindowStep, PTL DEF RunSpec
=============================================================================
