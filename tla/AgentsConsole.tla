---------------------------- MODULE AgentsConsole ---------------------------
(***************************************************************************)
(* The agents of the hosts: registration tokens, approval, suspension and  *)
(* revocation, and the dialogs that ask for them.                          *)
(*                                                                         *)
(* web/scripts/mock-fleet.mjs (TRANSITIONS and the agent routes);          *)
(* web/src/components/hosts/host-actions.tsx, agents-view.tsx,             *)
(* host-detail.tsx, hosts-view.tsx, add-host-dialog.tsx and                *)
(* registration-tokens.tsx.                                                *)
(*                                                                         *)
(* A host is first "absent"; an agent enrolls with a registration token    *)
(* (that route is the control plane's).  The page is the list of agents,   *)
(* or the page of the one host Focus.                                      *)
(***************************************************************************)
EXTENDS Naturals, FiniteSets

CONSTANTS
    Hosts, Focus,  \* the hosts; the one whose page may be opened
    FirstHosts,    \* functions from Hosts to a status, to start from
    MaxTokens,     \* bound: registration tokens ever
    MaxActs,       \* bound: requests of the console
    MaxOuter       \* bound: requests of others, lost answers

ASSUME AgentsConsoleAssumption ==
    /\ Focus \in Hosts /\ MaxTokens \in Nat /\ MaxActs \in Nat /\ MaxOuter \in Nat

VARIABLES
    asrv,    \* the server: [status, connected, tokens]
    view,    \* "list", "host" or "away"
    listed,  \* the agents as the list has them cached
    focused, \* the agent of Focus as its page has it cached
    adlg,    \* the dialog of an action, or NoAction
    addDlg,  \* the dialog "Add host": [open, busy, error, result]
    tokensQ, \* the list of registration tokens: [open, rows]
    acts,    \* the requests under way: [id, kind, host, action, here (its page is
             \* still open), current (its dialog too), st, row, token]
    actCount, outer

uiVars == <<view, listed, focused, adlg, addDlg, tokensQ, acts, actCount>>
agentsVars == <<asrv, uiVars, outer>>

Statuses == {"absent", "pending", "active", "suspended", "revoked"}
Tokens == 1..MaxTokens

-----------------------------------------------------------------------------
(* The server.                                                             *)

TRANSITIONS ==
    [approve |-> [from |-> {"pending"}, to |-> "active"],
     suspend |-> [from |-> {"active"}, to |-> "suspended"],
     resume  |-> [from |-> {"suspended"}, to |-> "active"],
     revoke  |-> [from |-> {"pending", "active", "suspended"}, to |-> "revoked"]]

Actions == DOMAIN TRANSITIONS

accepts(s, h, action) == s.status[h] \in TRANSITIONS[action].from

(* POST /agents/{id}/(approve|suspend|resume|revoke)                       *)
agentAction(s, h, action) ==
    [s EXCEPT !.status[h] = TRANSITIONS[action].to,
              !.connected[h] = CASE action = "approve" -> TRUE
                                 [] action \in {"suspend", "revoke"} -> FALSE
                                 [] action = "resume" -> @]

NewToken == [used |-> FALSE, revoked |-> FALSE, expired |-> FALSE]
Made(s) == DOMAIN s.tokens
NextToken(s) == Cardinality(Made(s)) + 1

(* POST /agents/registration-tokens                                        *)
createToken(s) ==
    [s EXCEPT !.tokens = [t \in Made(s) \cup {NextToken(s)} |->
                              IF t \in Made(s) THEN s.tokens[t] ELSE NewToken]]

\* Mutant: only a token that was revoked is refused.
revokeTokenOk_Used(s, t) == ~s.tokens[t].revoked

(* DELETE /agents/registration-tokens/{id}                                 *)
revokeTokenOk(s, t) == ~s.tokens[t].used /\ ~s.tokens[t].revoked

revokeToken(s, t) == IF revokeTokenOk(s, t) THEN [s EXCEPT !.tokens[t].revoked = TRUE] ELSE s

tokenState(t) ==
    CASE t.revoked -> "revoked"
      [] ~t.revoked /\ t.used -> "used"
      [] ~t.revoked /\ ~t.used /\ t.expired -> "expired"
      [] OTHER -> "unused"

(* The control plane's side: an agent enrolls, connects, drops; a token    *)
(* expires.                                                                *)
Enroll(h, t) ==
    /\ asrv.status[h] = "absent"
    /\ tokenState(asrv.tokens[t]) = "unused"
    /\ asrv' = [asrv EXCEPT !.status[h] = "pending", !.tokens[t].used = TRUE]
    /\ UNCHANGED <<uiVars, outer>>

Session(h) ==
    /\ asrv.status[h] = "active"
    /\ outer < MaxOuter /\ outer' = outer + 1
    /\ asrv' = [asrv EXCEPT !.connected[h] = ~@]
    /\ UNCHANGED uiVars

TokenExpires(t) ==
    /\ ~asrv.tokens[t].expired
    /\ outer < MaxOuter /\ outer' = outer + 1
    /\ asrv' = [asrv EXCEPT !.tokens[t].expired = TRUE]
    /\ UNCHANGED uiVars

OtherActs ==
    /\ outer < MaxOuter /\ outer' = outer + 1
    /\ \/ \E h \in Hosts, a \in Actions : accepts(asrv, h, a) /\ asrv' = agentAction(asrv, h, a)
       \/ \E t \in Made(asrv) : revokeTokenOk(asrv, t) /\ asrv' = revokeToken(asrv, t)
    /\ UNCHANGED uiVars

-----------------------------------------------------------------------------
(* The pages.  An agent is its status and whether it is connected.         *)

Row(s, h) == [status |-> s.status[h], connected |-> s.connected[h]]

NoRow == [status |-> "absent", connected |-> FALSE]
agentsOut(s) == [h \in Hosts |-> Row(s, h)]

(* The buttons of a host.                                                  *)
actionsFor(status) ==
    CASE status = "pending" -> {"approve", "revoke"}
      [] status = "active" -> {"suspend", "revoke"}
      [] status = "suspended" -> {"resume", "revoke"}
      [] status \in {"revoked", "absent"} -> {}

NoAction == [host |-> Focus, action |-> "none", reason |-> FALSE, typed |-> FALSE,
             busy |-> FALSE, error |-> FALSE]
NoAdd == [open |-> FALSE, busy |-> FALSE, error |-> FALSE, result |-> 0]
NoTokens == [open |-> FALSE, rows |-> <<>>]

Modal == adlg.action # "none" \/ addDlg.open
ShownRow(h) == IF view = "host" THEN focused ELSE listed[h]
OnPage(h) == view = "list" \/ (view = "host" /\ h = Focus)

(* A page is opened: the list is read; a host that is cached may be shown  *)
(* from there first.  What is not shown is dropped from the cache in time. *)
GoTo(v) ==
    /\ ~Modal /\ v # view
    /\ view' = v
    /\ listed' = IF v = "list" THEN agentsOut(asrv) ELSE [h \in Hosts |-> NoRow]
    /\ focused' \in IF v # "host" THEN {NoRow}
                    ELSE {Row(asrv, Focus)} \cup (IF focused = NoRow THEN {} ELSE {focused})
    /\ tokensQ' = NoTokens
    /\ addDlg' = NoAdd
    /\ acts' = {[a EXCEPT !.here = FALSE, !.current = FALSE] : a \in acts}
    /\ UNCHANGED <<asrv, adlg, actCount, outer>>

(* The requests whose dialog is gone: they go on without it.               *)
Detached(kind) == {[a EXCEPT !.current = @ /\ a.kind # kind] : a \in acts}

(* HostActions renders a dash, and no dialog, for a host without actions.  *)
Rerendered(h, row) ==
    IF adlg.action # "none" /\ adlg.host = h /\ actionsFor(row.status) = {}
    THEN adlg' = NoAction /\ acts' = Detached("action")
    ELSE UNCHANGED <<adlg, acts>>

(* The poll of the page (AGENTS_REFRESH_MS), or an invalidation.           *)
RefetchAgents ==
    \/ /\ view = "list" /\ listed # agentsOut(asrv)
       /\ listed' = agentsOut(asrv) /\ focused' = focused
       /\ Rerendered(adlg.host, listed'[adlg.host])
       /\ UNCHANGED <<asrv, view, addDlg, tokensQ, actCount, outer>>
    \/ /\ view = "host" /\ focused # Row(asrv, Focus)
       /\ focused' = Row(asrv, Focus) /\ listed' = listed
       /\ Rerendered(Focus, focused')
       /\ UNCHANGED <<asrv, view, addDlg, tokensQ, actCount, outer>>

-----------------------------------------------------------------------------
(* AgentActionDialog.                                                      *)

OpenAction(h, action) ==
    /\ OnPage(h) /\ ~Modal /\ action \in actionsFor(ShownRow(h).status)
    /\ adlg' = [NoAction EXCEPT !.host = h, !.action = action]
    /\ UNCHANGED <<asrv, view, listed, focused, addDlg, tokensQ, acts, actCount, outer>>

(* A reason is typed; the hostname too, for a revocation.                  *)
TypeAction ==
    /\ adlg.action # "none" /\ ~adlg.busy
    /\ \/ ~adlg.reason /\ adlg' = [adlg EXCEPT !.reason = TRUE]
       \/ adlg.action = "revoke" /\ ~adlg.typed /\ adlg' = [adlg EXCEPT !.typed = TRUE]
    /\ UNCHANGED <<asrv, view, listed, focused, addDlg, tokensQ, acts, actCount, outer>>

(* Escape closes the dialog also while its request is under way.           *)
CloseAction ==
    /\ adlg.action # "none"
    /\ adlg' = NoAction
    /\ acts' = Detached("action")
    /\ UNCHANGED <<asrv, view, listed, focused, addDlg, tokensQ, actCount, outer>>

confirmed(d) == d.action # "revoke" \/ d.typed

Request(kind, h, action) ==
    /\ actCount < MaxActs /\ actCount' = actCount + 1
    /\ acts' = acts \cup {[id |-> actCount, kind |-> kind, host |-> h, action |-> action, here |-> TRUE,
                           current |-> TRUE, st |-> "sent", row |-> NoRow, token |-> 0]}

SubmitAction ==
    /\ adlg.action # "none" /\ ~adlg.busy /\ adlg.reason /\ confirmed(adlg)
    /\ Request("action", adlg.host, adlg.action)
    /\ adlg' = [adlg EXCEPT !.busy = TRUE, !.error = FALSE]
    /\ UNCHANGED <<asrv, view, listed, focused, addDlg, tokensQ, outer>>

HandleAct(a) ==
    /\ a.st = "sent"
    /\ \/ /\ a.kind = "action"
          /\ LET ok == accepts(asrv, a.host, a.action)
             IN  /\ asrv' = IF ok THEN agentAction(asrv, a.host, a.action) ELSE asrv
                 /\ acts' = (acts \ {a}) \cup
                        {[a EXCEPT !.st = IF ok THEN "ok" ELSE "refused", !.row = Row(asrv', a.host)]}
       \/ /\ a.kind = "create"
          /\ asrv' = createToken(asrv)
          /\ acts' = (acts \ {a}) \cup {[a EXCEPT !.st = "ok", !.token = NextToken(asrv)]}
    /\ UNCHANGED <<view, listed, focused, adlg, addDlg, tokensQ, actCount, outer>>

(* onSuccess: the answer becomes the cached agent, the dialog of the host  *)
(* closes, whichever it is by now, and the agents are read again.          *)
ActionOnSuccess(a) ==
    /\ a.kind = "action" /\ a.st = "ok"
    /\ focused' = IF a.host = Focus THEN a.row ELSE focused
    /\ listed' = IF view = "list" THEN agentsOut(asrv) ELSE listed
    /\ adlg' = IF a.here /\ adlg.host = a.host THEN NoAction ELSE adlg
    /\ acts' = acts \ {a}
    /\ UNCHANGED <<asrv, view, addDlg, tokensQ, actCount, outer>>

(* Refused, or the answer is lost.                                         *)
Fails(a) ==
    \/ a.st = "refused" /\ outer' = outer
    \/ a.st \in {"sent", "ok"} /\ outer < MaxOuter /\ outer' = outer + 1

ActionOnError(a) ==
    /\ a.kind = "action" /\ Fails(a)
    /\ adlg' = IF a.current THEN [adlg EXCEPT !.busy = FALSE, !.error = TRUE] ELSE adlg
    /\ acts' = acts \ {a}
    /\ UNCHANGED <<asrv, view, listed, focused, addDlg, tokensQ, actCount>>

-----------------------------------------------------------------------------
(* AddHostDialog, and the list of registration tokens.                     *)

OpenAdd ==
    /\ view = "list" /\ ~Modal
    /\ addDlg' = [addDlg EXCEPT !.open = TRUE]
    /\ UNCHANGED <<asrv, view, listed, focused, adlg, tokensQ, acts, actCount, outer>>

CloseAdd ==
    /\ addDlg.open
    /\ addDlg' = NoAdd
    /\ acts' = Detached("create")
    /\ UNCHANGED <<asrv, view, listed, focused, adlg, tokensQ, actCount, outer>>

SubmitAdd ==
    /\ addDlg.open /\ ~addDlg.busy /\ addDlg.result = 0
    /\ Cardinality(Made(asrv)) + Cardinality({a \in acts : a.kind = "create" /\ a.st = "sent"}) < MaxTokens
    /\ Request("create", Focus, "none")
    /\ addDlg' = [addDlg EXCEPT !.busy = TRUE, !.error = FALSE]
    /\ UNCHANGED <<asrv, view, listed, focused, adlg, tokensQ, outer>>

(* setResult, also when the dialog was closed in the meantime: the command *)
(* is then shown when it is next opened.                                   *)
AddOnSuccess(a) ==
    /\ a.kind = "create" /\ a.st = "ok"
    /\ addDlg' = IF a.here THEN [addDlg EXCEPT !.result = a.token, !.busy = @ /\ ~a.current] ELSE addDlg
    /\ tokensQ' = IF tokensQ.open THEN [tokensQ EXCEPT !.rows = asrv.tokens] ELSE NoTokens
    /\ acts' = acts \ {a}
    /\ UNCHANGED <<asrv, view, listed, focused, adlg, actCount, outer>>

AddOnError(a) ==
    /\ a.kind = "create" /\ Fails(a)
    /\ addDlg' = IF a.here THEN [addDlg EXCEPT !.error = TRUE, !.busy = @ /\ ~a.current] ELSE addDlg
    /\ acts' = acts \ {a}
    /\ UNCHANGED <<asrv, view, listed, focused, adlg, tokensQ, actCount>>

OpenTokens ==
    /\ view = "list" /\ ~Modal
    /\ tokensQ' = IF tokensQ.open THEN NoTokens ELSE [open |-> TRUE, rows |-> asrv.tokens]
    /\ UNCHANGED <<asrv, view, listed, focused, adlg, addDlg, acts, actCount, outer>>

(* The clock is the console's own: an expired token shows at once.         *)
ShownState(t) == tokenState([tokensQ.rows[t] EXCEPT !.expired = asrv.tokens[t].expired])

(* After a refusal the list stays as it is, with a toast.                  *)
RevokeTokenButton(t) ==
    /\ tokensQ.open /\ ~Modal /\ ShownState(t) = "unused"
    /\ actCount < MaxActs /\ actCount' = actCount + 1
    /\ asrv' = revokeToken(asrv, t)
    /\ tokensQ' = IF revokeTokenOk(asrv, t) THEN [tokensQ EXCEPT !.rows = asrv'.tokens] ELSE tokensQ
    /\ UNCHANGED <<view, listed, focused, adlg, addDlg, acts, outer>>

-----------------------------------------------------------------------------
AgentsInit ==
    /\ \E st \in FirstHosts :
           asrv = [status |-> st, connected |-> [h \in Hosts |-> st[h] = "active"], tokens |-> <<>>]
    /\ view = "away"
    /\ listed = [h \in Hosts |-> NoRow] /\ focused = NoRow
    /\ adlg = NoAction /\ addDlg = NoAdd /\ tokensQ = NoTokens
    /\ acts = {} /\ actCount = 0 /\ outer = 0

Answers(a) ==
    \/ HandleAct(a)
    \/ ActionOnSuccess(a) \/ ActionOnError(a)
    \/ AddOnSuccess(a) \/ AddOnError(a)

AgentsNext ==
    \/ \E h \in Hosts, t \in Made(asrv) : Enroll(h, t)
    \/ \E h \in Hosts : Session(h)
    \/ \E t \in Made(asrv) : TokenExpires(t)
    \/ OtherActs
    \/ \E v \in {"list", "host", "away"} : GoTo(v)
    \/ RefetchAgents
    \/ \E h \in Hosts, a \in Actions : OpenAction(h, a)
    \/ TypeAction \/ CloseAction \/ SubmitAction
    \/ \E a \in acts : Answers(a)
    \/ OpenAdd \/ CloseAdd \/ SubmitAdd
    \/ OpenTokens
    \/ \E t \in DOMAIN tokensQ.rows : RevokeTokenButton(t)

(* The server answers, the browser runs the callbacks, the pages poll.     *)
AgentsFairness ==
    /\ WF_agentsVars(\E a \in acts : Answers(a))
    /\ WF_agentsVars(RefetchAgents)

AgentsSpec == AgentsInit /\ [][AgentsNext]_agentsVars /\ AgentsFairness

-----------------------------------------------------------------------------
RowType == [status : Statuses, connected : BOOLEAN]

(* The values of the variables; a dialog that waits is open.               *)
AgentsTypeOK ==
    /\ asrv.status \in [Hosts -> Statuses]
    /\ asrv.connected \in [Hosts -> BOOLEAN]
    /\ Made(asrv) \subseteq Tokens
    /\ view \in {"list", "host", "away"}
    /\ listed \in [Hosts -> RowType] /\ focused \in RowType
    /\ adlg.action \in Actions \cup {"none"}
    /\ adlg.busy => adlg.action # "none" /\ \E a \in acts : a.kind = "action" /\ a.current
    /\ addDlg.busy => addDlg.open
    /\ addDlg.result \in {0} \cup Made(asrv)
    /\ Cardinality(acts) <= MaxActs

(* An agent that is suspended, revoked or waiting for approval has no      *)
(* session, whatever the order of the requests of several managers and of  *)
(* what the agent does (the routes and TRANSITIONS).                       *)
ConnectedIsActive == \A h \in Hosts : asrv.connected[h] => asrv.status[h] = "active"

(* A registration token is spent once: used by one agent, or revoked       *)
(* before (the revocation races the enrollment).                           *)
TokenSpentOnce ==
    \A t \in Made(asrv) : ~(asrv.tokens[t].used /\ asrv.tokens[t].revoked)

(* "This cannot be undone" (the revoke dialog): a revoked agent stays      *)
(* revoked, also for the buttons clicked on an older list.                 *)
RevokedIsFinal ==
    [][\A h \in Hosts : asrv.status[h] = "revoked" => asrv'.status[h] = "revoked"]_agentsVars

(* The buttons a page offers for a host it shows as it is are the actions  *)
(* the server accepts (actionsFor and TRANSITIONS).                        *)
OfferedIsAccepted ==
    \A h \in Hosts : OnPage(h) /\ ShownRow(h) = Row(asrv, h)
        => actionsFor(ShownRow(h).status) = {a \in Actions : accepts(asrv, h, a)}

(* A host's page that stays open comes to show the agent as it is: an      *)
(* answer that arrives late, and is put into the cache over a newer read,  *)
(* is read over again.                                                     *)
HostPageSettles == []<>(view # "host" \/ focused = Row(asrv, Focus))
=============================================================================
