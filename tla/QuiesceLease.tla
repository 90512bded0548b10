---------------------------- MODULE QuiesceLease ----------------------------
(***************************************************************************)
(* The agent's quiesce leases and its dead-man switch                      *)
(* (internal/agent/quiesce.go).                                            *)
(*                                                                         *)
(* Quiesce pauses or stops the running containers of an application under  *)
(* a lease that is journaled first; Resume, or the expiry of the lease,    *)
(* brings them back.  The manager's mutex is held across Docker calls, so  *)
(* at most one operation is in progress (pc, cur, todo, errs), but the   *)
(* agent may stop between any two Docker calls, any call or journal write  *)
(* may fail, timers fire while the mutex is taken, and somebody else may   *)
(* start or stop a container at any time.                                  *)
(***************************************************************************)
EXTENDS Naturals, FiniteSets

CONSTANTS
    Leases,      \* lease identifiers (recovery point identifiers)
    Apps,        \* applications of this host
    Containers,  \* Docker containers of this host
    AppOf,       \* the application each container belongs to
    Modes,       \* the quiesce modes in use: "pause", "stop"
    MaxFaults,   \* bound: failed Docker calls and journal writes
    MaxCrashes,  \* bound: agent stops
    MaxOutside   \* bound: container state changes made by somebody else

ASSUME AppOfAssumption == AppOf \in [Containers -> Apps]
ASSUME BoundsAssumption == /\ MaxFaults \in Nat
                           /\ MaxCrashes \in Nat
                           /\ MaxOutside \in Nat
ASSUME AppsAssumption == Apps # {} /\ Modes # {} /\ Modes \subseteq {"pause", "stop"}

VARIABLES
    container,   \* Docker: the state of each container
    mem,         \* leaseManager.leases
    disk,        \* leases.json
    armed,       \* leaseManager.timers: the expiry timer of each lease
    fired,       \* expire callbacks that fired and wait for the mutex
    boot,        \* leases start() has still to look at
    due,         \* leases whose ExpiresAt has passed
    pc,          \* the operation holding the mutex, "idle" if none
    cur,         \* its lease
    todo,        \* the containers it has still to visit
    errs,        \* the errors restore() collected: "none" or "some"
    up,          \* whether the agent runs
    answer,      \* the last answer to a command, <<lease, result>>
    faults, crashes, outside,   \* what was spent of the bounds
    held         \* history: containers the agent took down and nobody brought back

docker  == <<container, held>>
journal == <<mem, disk>>
timers  == <<armed, fired, due>>
op      == <<pc, cur, todo, errs>>
budget  == <<faults, crashes, outside>>
vars == <<container, held, mem, disk, armed, fired, due, boot, pc, cur, todo,
          errs, up, answer, faults, crashes, outside>>

ContainerStates == {"running", "paused", "exited", "dead"}
LeaseRecord == [st : {"none", "active", "auto"}, app : Apps, mode : Modes,
                pre : SUBSET Containers, warned : BOOLEAN]

\* No record; "auto" is a record whose AutoResumedAt is set.
NoLease == [st |-> "none", app |-> CHOOSE a \in Apps : TRUE,
            mode |-> CHOOSE m \in Modes : TRUE,
            pre |-> {}, warned |-> FALSE]

NewLease(a, m, pre) == [st |-> "active", app |-> a, mode |-> m,
                         pre |-> pre, warned |-> FALSE]
AutoResumed(r) == [r EXCEPT !.st = "auto"]
Warned(r) == [r EXCEPT !.warned = TRUE]

Active(l) == mem[l].st = "active"

Init ==
    /\ container \in [Containers -> {"running", "exited"}]
    /\ mem = [l \in Leases |-> NoLease]
    /\ disk = mem
    /\ armed = [l \in Leases |-> "no"]
    /\ fired = {} /\ boot = {} /\ due = {}
    /\ pc = "idle" /\ cur \in Leases /\ todo = {} /\ errs = "none"
    /\ up = TRUE
    /\ answer \in Leases \X {"nothing"}
    /\ faults = 0 /\ crashes = 0 /\ outside = 0
    /\ held = {}

(***************************************************************************)
(* Helpers.                                                                *)
(***************************************************************************)

Fault == /\ faults < MaxFaults
         /\ faults' = faults + 1
         /\ UNCHANGED <<crashes, outside>>

\* save(): the whole map replaces the file atomically, or the write fails.
Save(m) == \/ disk' = m /\ UNCHANGED budget
           \/ UNCHANGED disk /\ Fault

\* The mutex is free: a handler or a timer callback may enter.
Free == up /\ pc = "idle" /\ boot = {}

Answer(l, result) == answer' = <<l, result>>

Enter(kind, l, cs) == /\ pc' = kind /\ cur' = l /\ todo' = cs
                      /\ errs' = "none"
Leave == /\ pc' = "idle" /\ todo' = {} /\ errs' = "none"
         /\ UNCHANGED cur

(***************************************************************************)
(* quiesce.                                                                *)
(***************************************************************************)

\* The lease is already active for this application: an idempotent repeat.
QuiesceRepeat(l, a) ==
    /\ Free /\ Active(l) /\ mem[l].app = a
    /\ Answer(l, "quiesced")
    /\ UNCHANGED <<docker, journal, timers, boot, op, up, budget>>

\* The lease belongs to another application, was auto-resumed, or another
\* lease of the application is active.
QuiesceRefused(l, a) ==
    /\ Free
    /\ IF mem[l].st # "none"
       THEN mem[l].app # a \/ ~Active(l)
       ELSE \E k \in Leases : Active(k) /\ mem[k].app = a
    /\ Answer(l, "refused")
    /\ UNCHANGED <<docker, journal, timers, boot, op, up, budget>>

MayQuiesce_OwnLeaseOnly(l, a) == Free /\ mem[l].st = "none"
MayQuiesce(l, a) ==
    /\ Free /\ mem[l].st = "none"
    /\ ~\E k \in Leases : Active(k) /\ mem[k].app = a

\* Docker is unreachable, an inspect fails or the lease cannot be journaled.
QuiesceFails(l, a) ==
    /\ MayQuiesce(l, a)
    /\ Fault /\ Answer(l, "failed")
    /\ UNCHANGED <<docker, journal, timers, boot, op, up>>

QuiesceBegin_NotJournaled(l, a, m) ==
    /\ MayQuiesce(l, a)
    /\ LET pre == {c \in Containers : AppOf[c] = a /\ container[c] = "running"}
       IN mem' = [mem EXCEPT ![l] = NewLease(a, m, pre)] /\ Enter("quiesce", l, pre)
    /\ due' = due \ {l} /\ Answer(l, "nothing")
    /\ UNCHANGED <<disk, docker, armed, fired, boot, up, budget>>

\* The pre-state is recorded and journaled before anything is touched.
QuiesceBegin(l, a, m) ==
    /\ MayQuiesce(l, a)
    /\ LET pre == {c \in Containers : AppOf[c] = a /\ container[c] = "running"}
       IN /\ mem' = [mem EXCEPT ![l] = NewLease(a, m, pre)]
          /\ Enter("quiesce", l, pre)
    /\ disk' = mem'
    /\ due' = due \ {l}
    /\ Answer(l, "nothing")
    /\ UNCHANGED <<docker, armed, fired, boot, up, budget>>

\* Docker pauses only a running container; stop accepts any live one.
CanTake(c) == \/ container[c] = "running"
              \/ mem[cur].mode = "stop" /\ container[c] \in {"paused", "exited"}
TakeDown(c) ==
    /\ container' = [container EXCEPT ![c] =
                        IF mem[cur].mode = "pause" THEN "paused" ELSE "exited"]
    /\ held' = IF container[c] = "exited" THEN held ELSE held \union {c}

\* One turn of the loop: the container is paused or stopped.
QuiesceContainer(c) ==
    /\ up /\ pc = "quiesce" /\ c \in todo
    /\ CanTake(c) /\ TakeDown(c)
    /\ todo' = todo \ {c}
    /\ UNCHANGED <<journal, timers, boot, pc, cur, errs, up, answer, budget>>

\* The call fails, with or without effect: roll back with restore().
QuiesceContainerFails(c) ==
    /\ up /\ pc = "quiesce" /\ c \in todo
    /\ \/ ~CanTake(c) /\ UNCHANGED <<docker, budget>>
       \/ CanTake(c) /\ Fault /\ (TakeDown(c) \/ UNCHANGED docker)
    /\ Enter("rollback", cur, mem[cur].pre)
    /\ UNCHANGED <<journal, timers, boot, up, answer>>

QuiesceDone ==
    /\ up /\ pc = "quiesce" /\ todo = {}
    /\ armed' = [armed EXCEPT ![cur] = "expiry"]
    /\ Answer(cur, "quiesced") /\ Leave
    /\ UNCHANGED <<docker, journal, fired, due, boot, up, budget>>

RollbackDone_NotArmed ==
    /\ up /\ pc = "rollback" /\ todo = {}
    /\ Answer(cur, "failed") /\ Leave
    /\ \/ errs = "some" /\ UNCHANGED <<journal, budget>>
       \/ /\ errs = "none"
          /\ mem' = [mem EXCEPT ![cur] = NoLease] /\ Save(mem')
    /\ UNCHANGED <<docker, timers, boot, up>>

\* The rollback failed: the lease is kept and armed.  It succeeded: the lease
\* is dropped, and the journal may still hold it.
RollbackDone ==
    /\ up /\ pc = "rollback" /\ todo = {}
    /\ Answer(cur, "failed") /\ Leave
    /\ \/ /\ errs = "some"
          /\ armed' = [armed EXCEPT ![cur] = "expiry"]
          /\ UNCHANGED <<journal, budget>>
       \/ /\ errs = "none"
          /\ mem' = [mem EXCEPT ![cur] = NoLease]
          /\ Save(mem')
          /\ UNCHANGED armed
    /\ UNCHANGED <<docker, fired, due, boot, up>>

(***************************************************************************)
(* restore: shared by the rollback, Resume and the dead-man switch.  It    *)
(* visits the containers that ran before and goes on after an error.       *)
(***************************************************************************)

Restoring == up /\ pc \in {"rollback", "resume", "auto"}

\* The runtime is unreachable: nothing is visited.
RestoreUnavailable ==
    /\ Restoring /\ errs = "none" /\ todo = mem[cur].pre
    /\ Fault /\ todo' = {} /\ errs' = "some"
    /\ UNCHANGED <<docker, journal, timers, boot, pc, cur, up, answer>>

StartContainer(c) ==
    /\ container' = [container EXCEPT ![c] = "running"]
    /\ held' = held \ {c}

\* A running container is skipped; a paused or exited one is brought back.
RestoreContainer(c) ==
    /\ Restoring /\ c \in todo
    /\ \/ container[c] = "running" /\ UNCHANGED docker
       \/ container[c] \in {"paused", "exited"} /\ StartContainer(c)
    /\ todo' = todo \ {c}
    /\ UNCHANGED <<journal, timers, boot, pc, cur, errs, up, answer, budget>>

\* The container cannot be brought back, or a call fails with or without effect.
RestoreContainerFails(c) ==
    /\ Restoring /\ c \in todo
    /\ \/ container[c] = "dead" /\ UNCHANGED <<docker, budget>>
       \/ /\ container[c] # "dead" /\ Fault
          /\ UNCHANGED docker \/ StartContainer(c)
    /\ todo' = todo \ {c} /\ errs' = "some"
    /\ UNCHANGED <<journal, timers, boot, pc, cur, up, answer>>

(***************************************************************************)
(* resume.                                                                 *)
(***************************************************************************)

ResumeUnknown(l) ==
    /\ Free /\ mem[l].st = "none"
    /\ Answer(l, "already")
    /\ UNCHANGED <<docker, journal, timers, boot, op, up, budget>>

ResumeAutoResumed(l) ==
    /\ Free /\ mem[l].st = "auto"
    /\ mem' = [mem EXCEPT ![l] = NoLease]
    /\ Save(mem')
    /\ Answer(l, "autoResumed")
    /\ UNCHANGED <<docker, timers, boot, op, up>>

ResumeBegin(l) ==
    /\ Free /\ Active(l)
    /\ Enter("resume", l, mem[l].pre)
    /\ UNCHANGED <<docker, journal, timers, boot, up, answer, budget>>

\* A failed resume leaves the lease armed; a complete one releases it.
ResumeDone ==
    /\ up /\ pc = "resume" /\ todo = {}
    /\ Leave
    /\ \/ /\ errs = "some"
          /\ Answer(cur, "failed")
          /\ UNCHANGED <<journal, armed, budget>>
       \/ /\ errs = "none"
          /\ Answer(cur, "resumed")
          /\ armed' = [armed EXCEPT ![cur] = "no"]
          /\ mem' = [mem EXCEPT ![cur] = NoLease]
          /\ Save(mem')
    /\ UNCHANGED <<docker, fired, due, boot, up>>

(***************************************************************************)
(* The dead-man switch: timers, expire, autoResume, warn.                  *)
(***************************************************************************)

LeaseExpires(l) ==
    /\ l \notin due /\ (Active(l) \/ disk[l].st = "active")
    /\ due' = due \union {l}
    /\ UNCHANGED <<docker, journal, armed, fired, boot, op, up, answer, budget>>

\* The timer's goroutine starts; stopping the timer no longer stops it.
TimerFires(l) ==
    /\ up
    /\ armed[l] = "retry" \/ (armed[l] = "expiry" /\ l \in due)
    /\ armed' = [armed EXCEPT ![l] = "no"]
    /\ fired' = fired \union {l}
    /\ UNCHANGED <<docker, journal, due, boot, op, up, answer, budget>>

\* The callback gets the mutex; it re-checks the lease, not its expiry time.
Expire(l) ==
    /\ Free /\ l \in fired
    /\ fired' = fired \ {l}
    /\ IF Active(l) THEN Enter("auto", l, mem[l].pre) ELSE UNCHANGED op
    /\ UNCHANGED <<docker, journal, armed, due, boot, up, answer, budget>>

AutoResumeDone_NoRetry ==
    /\ up /\ pc = "auto" /\ todo = {}
    /\ Leave
    /\ armed' = [armed EXCEPT ![cur] = "no"]
    /\ \/ errs = "some" /\ UNCHANGED <<journal, budget>>
       \/ /\ errs = "none"
          /\ mem' = [mem EXCEPT ![cur] = AutoResumed(@)] /\ Save(mem')
    /\ UNCHANGED <<docker, fired, due, boot, up, answer>>

\* A failed auto-resume is retried; a complete one is journaled.
AutoResumeDone ==
    /\ up /\ pc = "auto" /\ todo = {}
    /\ Leave
    /\ \/ /\ errs = "some"
          /\ armed' = [armed EXCEPT ![cur] = "retry"]
          /\ UNCHANGED <<journal, budget>>
       \/ /\ errs = "none"
          /\ armed' = [armed EXCEPT ![cur] = "no"]
          /\ mem' = [mem EXCEPT ![cur] = AutoResumed(@)]
          /\ Save(mem')
    /\ UNCHANGED <<docker, fired, due, boot, up, answer>>

Warn(l) ==
    /\ Free /\ Active(l) /\ ~mem[l].warned
    /\ mem' = [mem EXCEPT ![l] = Warned(@)]
    /\ Save(mem')
    /\ UNCHANGED <<docker, timers, boot, op, up, answer>>

(***************************************************************************)
(* The agent stops (crash, or shutdown that cancels the operation) and     *)
(* starts: openLeases drops auto-resumed leases kept for long enough, then *)
(* start() resumes the expired ones at once and re-arms the others.        *)
(***************************************************************************)

Stop ==
    /\ up /\ crashes < MaxCrashes
    /\ up' = FALSE /\ crashes' = crashes + 1
    /\ mem' = [l \in Leases |-> NoLease]
    /\ armed' = [l \in Leases |-> "no"]
    /\ fired' = {} /\ boot' = {} /\ Leave
    /\ UNCHANGED <<docker, disk, due, answer, faults, outside>>

Start ==
    /\ ~up /\ up' = TRUE
    /\ \E old \in SUBSET {l \in Leases : disk[l].st = "auto"} :
           mem' = [l \in Leases |-> IF l \in old THEN NoLease ELSE disk[l]]
    /\ boot' = {l \in Leases : disk[l].st = "active"}
    /\ UNCHANGED <<docker, disk, timers, op, answer, budget>>

StartLease(l) ==
    /\ up /\ pc = "idle" /\ l \in boot
    /\ boot' = boot \ {l}
    /\ IF l \in due
       THEN Enter("auto", l, mem[l].pre) /\ UNCHANGED armed
       ELSE UNCHANGED op /\ armed' = [armed EXCEPT ![l] = "expiry"]
    /\ UNCHANGED <<docker, journal, fired, due, up, answer, budget>>

\* Docker or an operator changes a container's state.
OutsideChange(c) ==
    /\ outside < MaxOutside /\ outside' = outside + 1
    /\ \E s \in ContainerStates \ {container[c]} :
           container' = [container EXCEPT ![c] = s]
    /\ held' = held \ {c}
    /\ UNCHANGED <<journal, timers, boot, op, up, answer, faults, crashes>>

Quiesce(l) == \E a \in Apps :
    \/ QuiesceRepeat(l, a) \/ QuiesceRefused(l, a) \/ QuiesceFails(l, a)
    \/ \E m \in Modes : QuiesceBegin(l, a, m)
Resume(l) == ResumeUnknown(l) \/ ResumeAutoResumed(l) \/ ResumeBegin(l)
OpStep ==
    \/ \E c \in Containers : \/ QuiesceContainer(c) \/ QuiesceContainerFails(c)
                             \/ RestoreContainer(c) \/ RestoreContainerFails(c)
    \/ RestoreUnavailable
    \/ QuiesceDone \/ RollbackDone \/ ResumeDone \/ AutoResumeDone

Next ==
    \/ \E l \in Leases : \/ Quiesce(l) \/ Resume(l)
                         \/ LeaseExpires(l) \/ TimerFires(l) \/ Expire(l)
                         \/ Warn(l) \/ StartLease(l)
    \/ OpStep
    \/ Stop \/ Start
    \/ \E c \in Containers : OutsideChange(c)

Spec == Init /\ [][Next]_vars

(***************************************************************************)
(* Properties.                                                             *)
(***************************************************************************)

\* Leases, timers and the operation in progress keep their types.
TypeOK ==
    /\ container \in [Containers -> ContainerStates] /\ held \in SUBSET Containers
    /\ mem \in [Leases -> LeaseRecord] /\ disk \in [Leases -> LeaseRecord]
    /\ armed \in [Leases -> {"no", "expiry", "retry"}]
    /\ fired \in SUBSET Leases /\ boot \in SUBSET Leases /\ due \in SUBSET Leases
    /\ pc \in {"idle", "quiesce", "rollback", "resume", "auto"}
    /\ cur \in Leases /\ todo \in SUBSET Containers /\ errs \in {"none", "some"}
    /\ up \in BOOLEAN
    /\ answer \in Leases \X {"nothing", "quiesced", "refused", "failed",
                             "resumed", "autoResumed", "already"}
    /\ faults \in 0..MaxFaults /\ crashes \in 0..MaxCrashes /\ outside \in 0..MaxOutside

\* A container the agent has paused or stopped and that is still down is named
\* by an active lease in leases.json: whatever call or journal write failed and
\* wherever the agent stopped, the next start finds it ("Journal before
\* touching anything", quiesce.go:299).
HeldIsCovered ==
    \A c \in held : \E l \in Leases : disk[l].st = "active" /\ c \in disk[l].pre

\* While the agent runs, the dead-man switch of every active lease is pending:
\* a timer is armed, its callback waits for the mutex, start() has still to look
\* at the lease, or an operation on the lease is in progress (and arms or
\* releases it when it ends, quiesce.go:322, 334, 201, 359).
SwitchPending ==
    up => \A l \in Leases : Active(l) =>
              \/ armed[l] # "no" \/ l \in fired \/ l \in boot
              \/ pc # "idle" /\ cur = l

\* An application has at most one active lease, in memory and in the journal,
\* so two backups never pause and resume the same containers (quiesce.go:280).
\* Failed journal writes and restarts, which bring old records back, included.
OneActiveLease ==
    \A k, l \in Leases : \A r \in {mem, disk} :
        r[k].st = "active" /\ r[l].st = "active" /\ r[k].app = r[l].app => k = l
=============================================================================
