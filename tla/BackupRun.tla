----------------------------- MODULE BackupRun -----------------------------
(***************************************************************************)
(* One backup of one application: BackupWorkflow                           *)
(* (workflows/backup/backup.go) with its saga (workflows/saga/saga.go)     *)
(* driving the agent's lease manager (QuiesceLease).                       *)
(*                                                                         *)
(* The workflow is durable; it waits for one activity at a time.  Quiesce  *)
(* and Resume are commands: one that was sent stays pending at the agent   *)
(* until it is executed, even when the activity has timed out or was       *)
(* cancelled, and is executed again after an agent stop while the activity *)
(* still waits for it.  The snapshot reads the application's data outside  *)
(* the lease manager's mutex.                                              *)
(***************************************************************************)
EXTENDS QuiesceLease

CONSTANTS
    Lease,  \* the backup's lease, its recovery point identifier
    Hooks   \* whether the plan has hooks: "yes" or "no"

ASSUME OneLease == Leases = {Lease}
ASSUME OneApplication == \A a, b \in Apps : a = b

VARIABLES
    wf,       \* step of the workflow
    pending,  \* commands sent and not executed to their end
    got,      \* the result of a command the workflow has not consumed
    saga,     \* compensations registered
    resumed,  \* the workflow's `resumed` and `postHooksDone`
    hooked,   \* hooks that were attempted: "pre", "post"
    failed,   \* "yes" once the run can no longer commit
    auto,     \* ResumeResult.AutoResumed
    reading,  \* the agent reads the application's data
    torn,     \* history: a container ran while the captured data was read
    manifest  \* the manifest of the recovery point exists

run == <<wf, pending, got, saga, resumed, hooked, failed, auto, reading, torn, manifest>>
lease == <<docker, journal, timers, boot, op, up, answer, budget>>

Commands == {"quiesce", "resume"}

RunInit ==
    /\ Init
    /\ wf = "start" /\ pending = {} /\ got = [c \in Commands |-> "none"]
    /\ saga = {} /\ resumed = "no" /\ hooked = {} /\ failed = "no" /\ auto = "no"
    /\ reading = "no" /\ torn = "no" /\ manifest = "no"

Running == \E c \in Containers : container[c] = "running"

-----------------------------------------------------------------------------
(* The agent executes the workflow's commands. *)

\* While the data is read, a running container tears it.
Watch == torn' = IF reading = "yes" /\ Running' THEN "yes" ELSE torn

\* A command ends with the lease manager's answer.
Ends(c) == pending' = pending \ {c} /\ got' = [got EXCEPT ![c] = answer'[2]]

Keeps == UNCHANGED <<wf, saga, resumed, hooked, failed, auto, reading, manifest>>

ExecuteQuiesce ==
    /\ "quiesce" \in pending /\ Quiesce(Lease)
    /\ IF pc' = "idle" THEN Ends("quiesce") ELSE UNCHANGED <<pending, got>>
    /\ Watch /\ Keeps

ExecuteResume ==
    /\ "resume" \in pending /\ Resume(Lease)
    /\ IF pc' = "idle" THEN Ends("resume") ELSE UNCHANGED <<pending, got>>
    /\ Watch /\ Keeps

Proceed ==
    /\ OpStep
    /\ IF pc' # "idle" \/ pc = "auto" THEN UNCHANGED <<pending, got>>
       ELSE Ends(IF pc = "resume" THEN "resume" ELSE "quiesce")
    /\ Watch /\ Keeps

Switch ==
    /\ \/ LeaseExpires(Lease) \/ TimerFires(Lease) \/ Expire(Lease)
       \/ Warn(Lease) \/ StartLease(Lease) \/ Start
       \/ \E c \in Containers : OutsideChange(c)
    /\ Watch /\ UNCHANGED <<pending, got>> /\ Keeps

\* The agent stops: it reads no more, and a result it had not journaled is
\* computed again if the workflow still waits for it.
AgentStops ==
    /\ Stop
    /\ \E lost \in SUBSET {c \in Commands : got[c] # "none"} :
           /\ got' = [c \in Commands |-> IF c \in lost THEN "none" ELSE got[c]]
           /\ pending' = pending \cup lost
    /\ reading' = IF reading = "yes" THEN "again" ELSE reading
    /\ UNCHANGED <<wf, saga, resumed, hooked, failed, auto, torn, manifest>>

Awaited(c) == wf = c \/ (c = "resume" /\ wf = "undoresume")

\* A command nobody waits for never reaches the agent.
LateLost(c) ==
    /\ c \in pending /\ pc = "idle" /\ ~Awaited(c)
    /\ pending' = pending \ {c}
    /\ UNCHANGED <<lease, wf, got, saga, resumed, hooked, failed, auto, reading, torn, manifest>>

-----------------------------------------------------------------------------
(* The workflow. *)

\* An error returns from BackupWorkflow: the compensations run.
Undo == wf' = "undo" /\ failed' = "yes"

Send(c) == pending' = pending \cup {c} /\ got' = [got EXCEPT ![c] = "none"]

\* PrepareBackup, agent access, the seed pass and the database dumps precede
\* the quiesce window and need no compensation.
Begin ==
    /\ wf = "start"
    /\ \/ wf' = (IF Hooks = "yes" THEN "pre" ELSE "window") /\ UNCHANGED failed
       \/ Undo
    /\ UNCHANGED <<lease, pending, got, saga, resumed, hooked, auto, reading, torn, manifest>>

\* The post hooks are registered before the pre hooks run.
PreHooks ==
    /\ wf = "pre" /\ saga' = saga \cup {"post"} /\ hooked' = hooked \cup {"pre"}
    /\ (wf' = "window" /\ UNCHANGED failed) \/ Undo
    /\ UNCHANGED <<lease, pending, got, resumed, auto, reading, torn, manifest>>

\* So is Resume, before Quiesce is attempted.
SendQuiesce ==
    /\ wf = "window" /\ wf' = "quiesce"
    /\ saga' = saga \cup {"resume"} /\ Send("quiesce")
    /\ UNCHANGED <<lease, resumed, hooked, failed, auto, reading, torn, manifest>>

QuiesceAnswered ==
    /\ wf = "quiesce" /\ got["quiesce"] # "none"
    /\ IF got["quiesce"] = "quiesced" THEN wf' = "capture" /\ UNCHANGED failed ELSE Undo
    /\ got' = [got EXCEPT !["quiesce"] = "none"]
    /\ UNCHANGED <<lease, pending, saga, resumed, hooked, auto, reading, torn, manifest>>

\* The activity times out, is cancelled or loses its agent.
QuiesceTimesOut ==
    /\ wf = "quiesce" /\ Undo
    /\ UNCHANGED <<lease, pending, got, saga, resumed, hooked, auto, reading, torn, manifest>>

\* The first attempt, or one after the agent has stopped.
CaptureBegins ==
    /\ wf = "capture" /\ up /\ reading \in {"no", "again"} /\ reading' = "yes"
    /\ torn' = IF Running THEN "yes" ELSE "no"
    /\ UNCHANGED <<lease, wf, pending, got, saga, resumed, hooked, failed, auto, manifest>>

\* Every path of the snapshot leads to Resume; the error is looked at later.
CaptureEnds ==
    /\ wf = "capture" /\ wf' = "resume" /\ Send("resume")
    /\ \/ reading = "yes" /\ reading' = "no" /\ UNCHANGED failed
       \/ failed' = "yes" /\ UNCHANGED reading
    /\ UNCHANGED <<lease, saga, resumed, hooked, auto, torn, manifest>>

\* The agent stops reading after the activity has timed out.
ReadingStops ==
    /\ wf # "capture" /\ reading # "no" /\ reading' = "no"
    /\ UNCHANGED <<lease, wf, pending, got, saga, resumed, hooked, failed, auto, torn, manifest>>

ResumeAnswered ==
    /\ wf \in {"resume", "undoresume"} /\ got["resume"] \notin {"none", "failed"}
    /\ resumed' = "yes"
    /\ auto' = IF got["resume"] = "autoResumed" THEN "yes" ELSE auto
    /\ IF wf = "resume" THEN wf' = "post" /\ UNCHANGED failed ELSE Undo
    /\ got' = [got EXCEPT !["resume"] = "none"]
    /\ UNCHANGED <<lease, pending, saga, hooked, reading, torn, manifest>>

ResumeFails_NoTimeout ==
    /\ wf \in {"resume", "undoresume"} /\ got["resume"] = "failed" /\ Undo
    /\ saga' = IF wf = "undoresume" THEN saga \ {"resume"} ELSE saga
    /\ got' = [got EXCEPT !["resume"] = "none"]
    /\ UNCHANGED <<lease, pending, resumed, hooked, auto, reading, torn, manifest>>

\* The command failed or the activity gave up.  In the compensation this is the
\* last attempt: the agent's lease still fires.
ResumeFails ==
    /\ wf \in {"resume", "undoresume"} /\ Undo
    /\ saga' = IF wf = "undoresume" THEN saga \ {"resume"} ELSE saga
    /\ got' = [got EXCEPT !["resume"] = "none"]
    /\ UNCHANGED <<lease, pending, resumed, hooked, auto, reading, torn, manifest>>

PostHooks_AutoIgnored ==
    /\ wf = "post"
    /\ hooked' = IF Hooks = "yes" THEN hooked \cup {"post"} ELSE hooked
    /\ IF failed = "yes" THEN Undo ELSE wf' = "commit" /\ UNCHANGED failed
    /\ UNCHANGED <<lease, pending, got, saga, resumed, auto, reading, torn, manifest>>

\* Post hooks, whose failure only warns; then the snapshot's error and an
\* auto-resume end the run.
PostHooks ==
    /\ wf = "post"
    /\ hooked' = IF Hooks = "yes" THEN hooked \cup {"post"} ELSE hooked
    /\ IF failed = "yes" \/ auto = "yes" THEN Undo ELSE wf' = "commit" /\ UNCHANGED failed
    /\ UNCHANGED <<lease, pending, got, saga, resumed, auto, reading, torn, manifest>>

\* A required component failed, the commit failed with or without having
\* written the manifest, or it succeeded; recording it may fail and only logs.
Commit ==
    /\ wf = "commit"
    /\ \/ Undo /\ manifest' \in {"no", "yes"}
       \/ wf' = "undo" /\ manifest' = "yes" /\ UNCHANGED failed
    /\ UNCHANGED <<lease, pending, got, saga, resumed, hooked, auto, reading, torn>>

\* Saga.Run: in reverse order, in a context that no cancellation reaches.
UndoResume ==
    /\ wf = "undo" /\ "resume" \in saga /\ resumed = "no"
    /\ wf' = "undoresume" /\ Send("resume")
    /\ UNCHANGED <<lease, saga, resumed, hooked, failed, auto, reading, torn, manifest>>

UndoPost_Skipped ==
    /\ wf = "undo" /\ ("resume" \in saga => resumed = "yes") /\ wf' = "end"
    /\ UNCHANGED <<lease, pending, got, saga, resumed, hooked, failed, auto, reading, torn, manifest>>

\* The post hooks, unless they ran, and the outcome of a failed run.
UndoPost ==
    /\ wf = "undo" /\ ("resume" \in saga => resumed = "yes")
    /\ hooked' = IF "post" \in saga THEN hooked \cup {"post"} ELSE hooked
    /\ wf' = "end"
    /\ UNCHANGED <<lease, pending, got, saga, resumed, failed, auto, reading, torn, manifest>>

RunStep ==
    \/ Begin \/ PreHooks \/ SendQuiesce \/ QuiesceAnswered \/ QuiesceTimesOut
    \/ CaptureBegins \/ CaptureEnds \/ ReadingStops
    \/ ResumeAnswered \/ ResumeFails \/ PostHooks \/ Commit \/ UndoResume \/ UndoPost

RunNext ==
    \/ ExecuteQuiesce \/ ExecuteResume \/ Proceed \/ Switch \/ AgentStops
    \/ \E c \in Commands : LateLost(c)
    \/ RunStep

RunVars == <<vars, run>>

RunSpec == RunInit /\ [][RunNext]_RunVars

(***************************************************************************)
(* Fairness.  On the agent, time passes, runtime timers fire, a goroutine  *)
(* that runs goes on and the service manager restarts the agent; a         *)
(* callback waiting for the mutex gets it even when commands keep arriving *)
(* (Go's mutex is starvation-free), hence strong fairness for Expire.      *)
(* Temporal goes on with a workflow, whose activities all have timeouts.   *)
(* Nothing makes a command reach the agent.                                *)
(***************************************************************************)
RunFairness ==
    /\ WF_RunVars(RunStep) /\ WF_RunVars(Proceed)
    /\ WF_RunVars(Start /\ Switch) /\ WF_RunVars(StartLease(Lease) /\ Switch)
    /\ WF_RunVars(LeaseExpires(Lease) /\ Switch) /\ WF_RunVars(TimerFires(Lease) /\ Switch)
    /\ SF_RunVars(Expire(Lease) /\ Switch)

FairRunSpec == RunSpec /\ RunFairness

(***************************************************************************)
(* Properties.                                                             *)
(***************************************************************************)

\* The workflow's variables keep their types.
RunTypeOK ==
    /\ wf \in {"start", "pre", "window", "quiesce", "capture", "resume", "post", "commit",
               "undo", "undoresume", "end"}
    /\ pending \in SUBSET Commands /\ saga \in SUBSET {"post", "resume"}
    /\ got \in [Commands -> {"none", "quiesced", "refused", "failed", "resumed", "autoResumed",
                             "already"}]
    /\ hooked \in SUBSET {"pre", "post"} /\ reading \in {"no", "yes", "again"}
    /\ resumed \in {"no", "yes"} /\ failed \in {"no", "yes"} /\ auto \in {"no", "yes"}
    /\ torn \in {"no", "yes"} /\ manifest \in {"no", "yes"}

\* A committed recovery point was captured while no container of the application
\* ran: the lease may expire at any moment of the capture, and Resume then tells
\* (ADR-0005: "the RP is not committed as Quiesced").
CommittedIsConsistent == manifest = "yes" => torn = "no"

\* This is so as long as no Docker call or journal write fails, the agent does
\* not stop and nobody else starts a container.
CommittedMeansQuiet ==
    faults = 0 /\ crashes = 0 /\ outside = 0 => CommittedIsConsistent

\* When the run ends, whatever it had begun was undone: a Quiesce that may have
\* reached the agent was followed by Resume (or the attempt was given up with an
\* alert), pre hooks by post hooks (backup.go:184, 195).
Compensated ==
    wf = "end" =>
        /\ "pre" \in hooked => "post" \in hooked
        /\ "resume" \in saga => resumed = "yes"

\* Every run ends, whatever activity it waits for and whether or not the agent
\* answers (the timeouts at backup.go:94, 166, 207, 245).
RunEnds == <>(wf = "end")

\* Nothing the agent took down stays down: the workflow or the dead-man switch
\* brings every container back, after a late Quiesce, restarts and failed calls
\* included (quiesce.go:60-62).
Released == \A c \in Containers : c \in held ~> c \notin held
=============================================================================
