-------------------------- MODULE CommandDispatch --------------------------
(***************************************************************************)
(* How a Temporal activity gets a command executed by an agent             *)
(* (workflows/agentcmd/agentcmd.go, internal/gateway/gateway.go,           *)
(* internal/agent/agent.go, internal/agent/journal.go).                    *)
(*                                                                         *)
(* An activity attempt calls Dispatch at the gateway, which sends the      *)
(* command on the agent's session and sends it again on every new session. *)
(* The agent looks the command up in its journal, runs it in a goroutine   *)
(* bound to the agent and not to the session, journals the result, reports *)
(* it, and reports it again on every session until it is acknowledged.     *)
(* Sessions break, attempts time out and are retried under the same        *)
(* command identifier, journal and database writes fail, and the agent     *)
(* stops and starts.  Progress updates are left out: they carry no result. *)
(***************************************************************************)
EXTENDS Naturals, Sequences, SequencesExt

CONSTANTS
    Cmds,        \* command identifiers
    Discover,    \* those whose result the gateway ingests before acknowledging
    MaxAttempts, \* bound: attempts of the activity (RetryPolicy)
    MaxDrops,    \* bound: broken sessions
    MaxStops,    \* bound: agent stops
    MaxCallFaults    \* bound: failed journal, database or ingestion writes

ASSUME DiscoverAssumption == IsFiniteSet(Cmds) /\ Discover \subseteq Cmds
ASSUME DispatchBoundsAssumption == /\ MaxAttempts \in Nat /\ MaxDrops \in Nat
                           /\ MaxStops \in Nat /\ MaxCallFaults \in Nat

VARIABLES
    disp,      \* the attempt's Dispatch call: off, waiting for a session, sent
    attempts,  \* attempts of the activity so far
    got,       \* what the last finished attempt returned
    linger,    \* an abandoned Dispatch call the gateway has not cancelled yet
    stored,    \* commands whose terminal result was written to agent_commands
    gw,        \* the gateway has a session registered for the agent
    link,      \* the session's stream is alive
    down, up,  \* messages in flight to the agent and to the gateway
    alive,     \* the agent process runs
    handling,  \* the command handleCommand found no result for, at most one
    running,   \* Agent.running
    live,      \* goroutines inside execute, per command
    ended,     \* the result execute returned, until it is reported
    journaled, \* commands whose returned result is journaled
    mem, disk, \* the journal's records and its file
    drops, stops, callFaults,   \* what was spent of the bounds
    runs,      \* history: executions started, per command
    outcomes   \* history: results of completed executions, per command

gateway == <<disp, attempts, got, linger, stored>>
stream  == <<gw, link, down, up>>
agent   == <<alive, handling, running, live, ended, journaled>>
journal == <<mem, disk>>
bounds  == <<drops, stops, callFaults>>
hist    == <<runs, outcomes>>
dispatchVars == <<disp, attempts, got, linger, stored, gw, link, down, up, alive, handling,
          running, live, ended, journaled, mem, disk, drops, stops, callFaults, runs, outcomes>>

Results == {"succeeded", "retryable", "permanent"}
Record == [st : {"none", "accepted", "finished", "acked"}, upd : Results \union {"none"}]

NoRecord == [st |-> "none", upd |-> "none"]
Accepted == [st |-> "accepted", upd |-> "none"]
Finished(r) == [st |-> "finished", upd |-> r]
Acked(r) == [st |-> "acked", upd |-> r]

CommandMsg(c) == [type |-> "command", cmd |-> c, res |-> "none"]
AckMsg(c) == [type |-> "ack", cmd |-> c, res |-> "none"]
Update(c, r) == [type |-> "update", cmd |-> c, res |-> r]
Msgs == [type : {"command", "ack", "update"}, cmd : Cmds, res : Results \union {"none"}]

DispatchInit ==
    /\ disp = [c \in Cmds |-> "off"] /\ attempts = [c \in Cmds |-> 0]
    /\ got = [c \in Cmds |-> "none"] /\ linger = disp /\ stored = {}
    /\ gw = FALSE /\ link = FALSE /\ down = <<>> /\ up = <<>>
    /\ alive = TRUE /\ handling = {} /\ running = {} /\ journaled = {}
    /\ live = [c \in Cmds |-> 0] /\ ended = [c \in Cmds |-> "none"]
    /\ mem = [c \in Cmds |-> NoRecord] /\ disk = mem
    /\ drops = 0 /\ stops = 0 /\ callFaults = 0
    /\ runs = [c \in Cmds |-> 0] /\ outcomes = [c \in Cmds |-> {}]

(***************************************************************************)
(* The activity and the gateway's Dispatch.                                *)
(***************************************************************************)

\* Mutant: a permanent failure is retried like any other.
Over_RetriesPermanent(c) == got[c] = "succeeded" \/ (disp[c] = "off" /\ attempts[c] = MaxAttempts)

\* The activity is over: it succeeded, failed for good, or used its attempts.
Over(c) == got[c] \in {"succeeded", "permanent"} \/ (disp[c] = "off" /\ attempts[c] = MaxAttempts)

\* Mutant: calls waiting on a broken session are not woken.
Woken_Stays(calls) == calls

\* A session that broke wakes every Dispatch call waiting on it.
Woken(calls) == [c \in Cmds |-> IF calls[c] = "sent" THEN "waiting" ELSE calls[c]]
Wake == disp' = Woken(disp) /\ linger' = Woken(linger)

\* Messages enqueued on a session whose stream is dead are lost.
ToAgent(m) == IF link THEN Append(down, m) ELSE down

CallFails == /\ callFaults < MaxCallFaults /\ callFaults' = callFaults + 1
         /\ UNCHANGED <<drops, stops>>

\* An attempt starts; its waiter replaces the one of an abandoned call.
Attempt(c) ==
    /\ disp[c] = "off" /\ ~Over(c)
    /\ disp' = [disp EXCEPT ![c] = "waiting"]
    /\ attempts' = [attempts EXCEPT ![c] = @ + 1]
    /\ UNCHANGED <<got, linger, stored, stream, agent, journal, bounds, hist>>

\* The session is there: the command is sent.
Send(c) ==
    /\ disp[c] = "waiting" /\ gw
    /\ disp' = [disp EXCEPT ![c] = "sent"]
    /\ down' = ToAgent(CommandMsg(c))
    /\ UNCHANGED <<attempts, got, linger, stored, gw, link, up, agent, journal, bounds, hist>>

\* The attempt times out or its worker dies; the gateway's call may linger.
AttemptLost(c) ==
    /\ disp[c] # "off" /\ attempts[c] < MaxAttempts
    /\ disp' = [disp EXCEPT ![c] = "off"]
    /\ linger' \in {linger, [linger EXCEPT ![c] = disp[c]]}
    /\ UNCHANGED <<attempts, got, stored, stream, agent, journal, bounds, hist>>

\* A lingering call sends its command as well, until it is cancelled.
LingeringSend(c) ==
    /\ linger[c] = "waiting" /\ gw
    /\ linger' = [linger EXCEPT ![c] = "sent"]
    /\ down' = ToAgent(CommandMsg(c))
    /\ UNCHANGED <<disp, attempts, got, stored, gw, link, up, agent, journal, bounds, hist>>

LingeringEnds(c) ==
    /\ linger[c] # "off"
    /\ linger' = [linger EXCEPT ![c] = "off"]
    /\ UNCHANGED <<disp, attempts, got, stored, stream, agent, journal, bounds, hist>>

\* Mutant: a result is given to every waiter of the agent.
Route_AnyWaiter(c, r) ==
    /\ disp' = [d \in Cmds |-> "off"]
    /\ got' = [d \in Cmds |-> IF disp[d] # "off" THEN r ELSE got[d]]

\* route: the waiter of the command, if there is one, returns the result.
Route(c, r) ==
    IF disp[c] # "off"
    THEN /\ disp' = [disp EXCEPT ![c] = "off"]
         /\ got' = [got EXCEPT ![c] = r]
    ELSE UNCHANGED <<disp, got>>

\* A call still waiting for a session sends its command before it looks at the
\* results its waiter was given.
Resent(c) == IF disp[c] = "waiting" THEN <<CommandMsg(c)>> ELSE <<>>

\* Mutant: only results somebody waits for are recorded.
Deliver_WaiterOnly ==
    /\ link /\ up # <<>>
    /\ up' = Tail(up)
    /\ LET c == Head(up).cmd
       IN /\ stored' = IF disp[c] # "off" THEN stored \union {c} ELSE stored
          /\ down' = Append(down, AckMsg(c)) \o Resent(c) /\ Route(c, Head(up).res)
    /\ UNCHANGED <<attempts, linger, gw, link, agent, journal, bounds, runs, outcomes>>

\* deliver: ingest a discovery, record the result, acknowledge it, route it.
\* A failed ingestion is not acknowledged and becomes a retryable failure; a
\* failed write of the command's row is ignored.
Deliver ==
    /\ link /\ up # <<>>
    /\ up' = Tail(up)
    /\ LET c == Head(up).cmd
           r == Head(up).res
       IN \/ /\ stored' = stored \union {c} /\ UNCHANGED bounds
             /\ down' = Append(down, AckMsg(c)) \o Resent(c) /\ Route(c, r)
          \/ /\ CallFails /\ UNCHANGED stored
             /\ down' = Append(down, AckMsg(c)) \o Resent(c) /\ Route(c, r)
          \/ /\ c \in Discover /\ r = "succeeded" /\ CallFails
             /\ UNCHANGED stored
             /\ down' = down \o Resent(c) /\ Route(c, "retryable")
    /\ UNCHANGED <<attempts, linger, gw, link, agent, journal, runs, outcomes>>

(***************************************************************************)
(* Sessions.                                                               *)
(***************************************************************************)

Cut == link' = FALSE /\ down' = <<>> /\ up' = <<>>

\* The stream breaks; what was in flight is lost.
Drop ==
    /\ link /\ drops < MaxDrops
    /\ drops' = drops + 1 /\ Cut
    /\ UNCHANGED <<gateway, gw, agent, journal, stops, callFaults, hist>>

\* The gateway notices (keepalive): unregister, and Dispatch calls wake.
Unregister ==
    /\ gw /\ ~link
    /\ gw' = FALSE /\ Wake
    /\ UNCHANGED <<attempts, got, stored, link, down, up, agent, journal, bounds, hist>>

\* Mutant: unacknowledged results are not replayed.
Connect_NoReplay ==
    /\ alive /\ ~link /\ handling = {}
    /\ gw' = TRUE /\ link' = TRUE /\ Wake
    /\ down' = <<>> /\ up' = <<>>
    /\ UNCHANGED <<attempts, got, stored, agent, journal, bounds, hist>>

\* The agent connects: register (a session not yet noticed as dead is
\* superseded), then the results not acknowledged are sent again,
\* in the order in which the map of records yields them.
Connect ==
    /\ alive /\ ~link /\ handling = {}
    /\ gw' = TRUE /\ link' = TRUE /\ Wake
    /\ down' = <<>>
    /\ up' \in SetToSeqs({Update(c, mem[c].upd) : c \in {d \in Cmds : mem[d].st = "finished"}})
    /\ UNCHANGED <<attempts, got, stored, agent, journal, bounds, hist>>

(***************************************************************************)
(* The agent.                                                              *)
(***************************************************************************)

\* write: the record is replaced in memory, then appended to the file.
Write(c, rec) ==
    /\ mem' = [mem EXCEPT ![c] = rec]
    /\ \/ disk' = [disk EXCEPT ![c] = rec] /\ UNCHANGED bounds
       \/ UNCHANGED disk /\ CallFails

\* emit: sent on the session, or dropped when there is none or when its queue
\* stays full.
Emit(m) ==
    \/ up' = (IF link THEN Append(up, m) ELSE up) /\ UNCHANGED bounds
    \/ link /\ CallFails /\ UNCHANGED up

Received(type) == /\ alive /\ link /\ handling = {} /\ down # <<>>
                  /\ Head(down).type = type
                  /\ down' = Tail(down)

\* handleCommand, first part: a journaled result answers the command.
HandleResult ==
    /\ Received("command")
    /\ LET c == Head(down).cmd
       IN IF mem[c].upd # "none"
          THEN Emit(Update(c, mem[c].upd)) /\ UNCHANGED handling
          ELSE handling' = {c} /\ UNCHANGED <<up, bounds>>
    /\ UNCHANGED <<gateway, gw, link, alive, running, live, ended, journaled, journal, hist>>

\* Mutant: the command is started without a look at the running commands.
HandleStart_NoCheck(c) ==
    /\ alive /\ c \in handling /\ handling' = {}
    /\ running' = running \union {c}
    /\ Write(c, Accepted)
    /\ live' = [live EXCEPT ![c] = @ + 1]
    /\ runs' = [runs EXCEPT ![c] = @ + 1]
    /\ UNCHANGED <<gateway, stream, alive, ended, journaled, outcomes>>

\* handleCommand, second part, under the agent's mutex: a running command is
\* left alone, any other is registered, journaled as accepted and started.
HandleStart(c) ==
    /\ alive /\ c \in handling /\ handling' = {}
    /\ IF c \in running
       THEN UNCHANGED <<running, live, journal, bounds, runs>>
       ELSE /\ running' = running \union {c}
            /\ Write(c, Accepted)
            /\ live' = [live EXCEPT ![c] = @ + 1]
            /\ runs' = [runs EXCEPT ![c] = @ + 1]
    /\ UNCHANGED <<gateway, stream, alive, ended, journaled, outcomes>>

\* The goroutine: execute returns; the result is journaled; it is reported and
\* the command is no longer running.
Execute(c) ==
    /\ alive /\ live[c] > 0
    /\ live' = [live EXCEPT ![c] = @ - 1]
    /\ \E r \in Results : /\ ended' = [ended EXCEPT ![c] = r]
                          /\ outcomes' = [outcomes EXCEPT ![c] = @ \union {r}]
    /\ UNCHANGED <<gateway, stream, alive, handling, running, journaled, journal, bounds, runs>>

Finish(c) ==
    /\ alive /\ ended[c] # "none" /\ c \notin journaled
    /\ journaled' = journaled \union {c}
    /\ Write(c, Finished(ended[c]))
    /\ UNCHANGED <<gateway, stream, alive, handling, running, live, ended, hist>>

Report(c) ==
    /\ alive /\ c \in journaled
    /\ Emit(Update(c, ended[c]))
    /\ ended' = [ended EXCEPT ![c] = "none"]
    /\ journaled' = journaled \ {c}
    /\ running' = running \ {c}
    /\ UNCHANGED <<gateway, gw, link, down, alive, handling, live, journal, hist>>

\* Ack: a terminal record becomes acknowledged and keeps its result.
HandleAck ==
    /\ Received("ack")
    /\ LET c == Head(down).cmd
       IN IF mem[c].st = "finished" THEN Write(c, Acked(mem[c].upd))
                                    ELSE UNCHANGED <<journal, bounds>>
    /\ UNCHANGED <<gateway, gw, link, up, agent, hist>>

\* The agent stops: executions are cut short and not journaled.
Stop ==
    /\ alive /\ stops < MaxStops
    /\ stops' = stops + 1 /\ alive' = FALSE
    /\ handling' = {} /\ running' = {} /\ journaled' = {}
    /\ live' = [c \in Cmds |-> 0] /\ ended' = [c \in Cmds |-> "none"]
    /\ mem' = [c \in Cmds |-> NoRecord] /\ Cut
    /\ UNCHANGED <<gateway, gw, disk, drops, callFaults, hist>>

\* OpenJournal: old acknowledged records, of activities long over, are dropped.
Start ==
    /\ ~alive /\ alive' = TRUE
    /\ \E old \in SUBSET {c \in Cmds : disk[c].st = "acked" /\ Over(c) /\ linger[c] = "off"} :
           mem' = [c \in Cmds |-> IF c \in old THEN NoRecord ELSE disk[c]]
    /\ disk' = mem'
    /\ UNCHANGED <<gateway, stream, handling, running, live, ended, journaled, bounds, hist>>

CommandStep(c) ==
    \/ Attempt(c) \/ Send(c) \/ LingeringSend(c)
    \/ HandleStart(c) \/ Execute(c) \/ Finish(c) \/ Report(c)
Progress == \/ Deliver \/ Unregister \/ Connect \/ HandleResult \/ HandleAck \/ Start
            \/ \E c \in Cmds : CommandStep(c)

DispatchNext == Progress \/ Drop \/ Stop \/ \E c \in Cmds : AttemptLost(c) \/ LingeringEnds(c)

\* Everything but failures goes on: the runtime schedules goroutines, the agent
\* reconnects with backoff, the service manager restarts it, Temporal retries.
DispatchFairness ==
    /\ WF_dispatchVars(Deliver) /\ WF_dispatchVars(Unregister) /\ WF_dispatchVars(Connect)
    /\ WF_dispatchVars(HandleResult) /\ WF_dispatchVars(HandleAck) /\ WF_dispatchVars(Start)
    /\ \A c \in Cmds : /\ WF_dispatchVars(Attempt(c)) /\ WF_dispatchVars(Send(c)) /\ WF_dispatchVars(LingeringSend(c))
                       /\ WF_dispatchVars(HandleStart(c)) /\ WF_dispatchVars(Execute(c))
                       /\ WF_dispatchVars(Finish(c)) /\ WF_dispatchVars(Report(c))

DispatchSpec == DispatchInit /\ [][DispatchNext]_dispatchVars
FairDispatch == DispatchSpec /\ DispatchFairness

(***************************************************************************)
(* Properties.                                                             *)
(***************************************************************************)

\* The variables keep their types, the bounds included.
DispatchTypeOK ==
    /\ disp \in [Cmds -> {"off", "waiting", "sent"}] /\ linger \in [Cmds -> {"off", "waiting", "sent"}]
    /\ attempts \in [Cmds -> 0..MaxAttempts] /\ got \in [Cmds -> Results \union {"none"}]
    /\ stored \subseteq Cmds
    /\ gw \in BOOLEAN /\ link \in BOOLEAN /\ down \in Seq(Msgs) /\ up \in Seq(Msgs)
    /\ alive \in BOOLEAN /\ handling \subseteq Cmds /\ running \subseteq Cmds
    /\ live \in [Cmds -> Nat] /\ ended \in [Cmds -> Results \union {"none"}]
    /\ journaled \subseteq Cmds /\ mem \in [Cmds -> Record] /\ disk \in [Cmds -> Record]
    /\ drops \in 0..MaxDrops /\ stops \in 0..MaxStops /\ callFaults \in 0..MaxCallFaults
    /\ runs \in [Cmds -> Nat] /\ outcomes \in [Cmds -> SUBSET Results]

\* Two executions of one command never overlap, whatever sessions, attempts
\* and restarts do, and a command that executes is registered as running
\* (agent.go, handleCommand: the running map under the mutex).
NoOverlap == \A c \in Cmds : /\ live[c] <= 1
                             /\ live[c] = 1 => c \in running /\ ended[c] = "none"

\* What an activity is told is the result of a completed execution of its own
\* command; only a discovery the gateway could not ingest is reported as a
\* retryable failure it did not have (gateway.go, deliver and route).
ToldTheTruth ==
    \A c \in Cmds : got[c] # "none" =>
        \/ got[c] \in outcomes[c]
        \/ c \in Discover /\ got[c] = "retryable" /\ "succeeded" \in outcomes[c]

\* Sessions, queues, journals and restarts are invisible to an activity: seen
\* through its calls, command dispatch is a remote call that returns results of
\* executions of its own command (gateway.go, Dispatch).
Calls == INSTANCE RemoteCalls WITH calling <- [c \in Cmds |-> disp[c] # "off"]
DispatchIsACall == Calls!CallsSpec

\* A result is acknowledged only after the gateway recorded it, as long as no
\* write failed (gateway.go, deliver: a failed write of the row is ignored).
AckedIsRecorded == \A c \in Cmds : mem[c].st = "acked" /\ callFaults = 0 => c \in stored

\* A dispatched command is answered, though sessions break and the agent
\* restarts: each new session gets the command again (gateway.go, Dispatch).
Answered == \A c \in Cmds : disp[c] # "off" ~> disp[c] = "off"

\* A journaled result does not wait for its acknowledgement for ever, even if
\* the activity no longer asks: it is replayed on every session (agent.go,
\* session; journal.go, Unacked).
ResultsAcknowledged == \A c \in Cmds : disk[c].st = "finished" ~> disk[c].st # "finished"

\* As handleCommand's comment says: "a command_id runs at most once".
NeverRunTwice == \A c \in Cmds : runs[c] <= 1
=============================================================================
