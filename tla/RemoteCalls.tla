---------------------------- MODULE RemoteCalls -----------------------------
(***************************************************************************)
(* What an activity that dispatches a command may rely on (workflows/      *)
(* agentcmd/agentcmd.go, Dispatch), with sessions, messages, journals and   *)
(* restarts left out: the agent executes commands, any number of times,    *)
(* and a call returns a result one of the executions of its command had,   *)
(* or is abandoned.  An activity that succeeded or failed for good does    *)
(* not call again.                                                         *)
(***************************************************************************)
CONSTANTS
    Cmds,      \* command identifiers
    Discover   \* those whose result has to be ingested by the gateway

VARIABLES
    calling,   \* per command, a call is under way
    got,       \* what the last finished call returned
    outcomes   \* results of completed executions, per command

callVars == <<calling, got, outcomes>>

Outcomes == {"succeeded", "retryable", "permanent"}

CallsInit ==
    /\ calling = [c \in Cmds |-> FALSE]
    /\ got = [c \in Cmds |-> "none"]
    /\ outcomes = [c \in Cmds |-> {}]

Call(c) ==
    /\ ~calling[c] /\ got[c] \notin {"succeeded", "permanent"}
    /\ calling' = [calling EXCEPT ![c] = TRUE]
    /\ UNCHANGED <<got, outcomes>>

\* The agent completes an execution, whether or not anybody waits for it.
Complete(c, r) ==
    /\ outcomes' = [outcomes EXCEPT ![c] = @ \union {r}]
    /\ UNCHANGED <<calling, got>>

\* A discovery that succeeded may still fail to be ingested, and is retried.
Answers(c) ==
    outcomes[c] \union IF c \in Discover /\ "succeeded" \in outcomes[c] THEN {"retryable"} ELSE {}

CallReturns(c) ==
    /\ calling[c]
    /\ \E r \in Answers(c) : got' = [got EXCEPT ![c] = r]
    /\ calling' = [calling EXCEPT ![c] = FALSE]
    /\ UNCHANGED outcomes

\* The attempt timed out, or its worker died.
Abandon(c) ==
    /\ calling[c]
    /\ calling' = [calling EXCEPT ![c] = FALSE]
    /\ UNCHANGED <<got, outcomes>>

CallsNext ==
    \E c \in Cmds : Call(c) \/ CallReturns(c) \/ Abandon(c) \/ \E r \in Outcomes : Complete(c, r)

CallsSpec == CallsInit /\ [][CallsNext]_callVars
=============================================================================
