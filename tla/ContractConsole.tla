--------------------------- MODULE ContractConsole --------------------------
(***************************************************************************)
(* The Recovery Contract of an application: its evaluation against the     *)
(* latest recovery point, its record in a new one, and the card that edits *)
(* it while the page polls it.                                             *)
(*                                                                         *)
(* web/scripts/mock-policies.mjs (evaluate, contractOut, the contract      *)
(* routes, contractAtCapture); web/src/components/policies/                *)
(* contract-card.tsx; hooks.ts (useContract).                              *)
(*                                                                         *)
(* Minutes are numbers, 0 for no maximum RPO; ages of the point likewise.  *)
(***************************************************************************)
EXTENDS Naturals, FiniteSets

CONSTANTS
    Components,     \* the components of the application's plan
    Rpos,           \* the maximum RPOs contracts have, in minutes, 0 for none
    Drafts,         \* what is typed: a set of <<value, unit>>
    Ages,           \* the ages the latest point takes, in minutes
    MaxPuts,        \* bound: requests of this console
    MaxTurns        \* bound: changes elsewhere and lost answers

ASSUME ContractConsoleAssumption == MaxPuts \in Nat /\ MaxTurns \in Nat

VARIABLES
    con,      \* the stored contract: [has, rpo, req, since]
    point,    \* the latest committed point: [has, age, got, missing,
              \* same], same when the contract is the one it was captured under
    gone,     \* the application is missing from its host's inventory
    ended,    \* a read saw the contract satisfied since violated_since was set
    tabOpen,  \* the card is on the page
    conQ,     \* the query: [has, data, read, reading]
    edit,     \* the form: [key, touched, error], key the terms it was filled from
    puts,     \* requests under way: [n, kind, rpo, req, here, current, st, got]
    putCount,
    turns

conUi == <<tabOpen, conQ, edit>>
conVars == <<con, point, gone, ended, conUi, puts, putCount, turns>>

-----------------------------------------------------------------------------
(* The server.                                                             *)

NoContract == [has |-> FALSE, rpo |-> 0, req |-> {}, since |-> FALSE]
NoPoint == [has |-> FALSE, age |-> 0, got |-> {}, missing |-> {}, same |-> FALSE]

MissingOf(c, got) == c.req \ got

evaluate(c, p, isGone) ==
    IF isGone THEN "unknown"
    ELSE IF ~p.has \/ (c.rpo # 0 /\ p.age > c.rpo) \/ MissingOf(c, p.got) # {} THEN "violated"
    ELSE "satisfied"

(* contractOut: reading the contract begins or ends its violation.         *)
evaluated(c, p, isGone) ==
    LET s == evaluate(c, p, isGone)
    IN  IF ~c.has THEN c
        ELSE [c EXCEPT !.since = (@ \/ s = "violated") /\ s # "satisfied"]

contractOut(c, p, isGone) ==
    [has |-> c.has, rpo |-> c.rpo, req |-> c.req,
     state |-> IF c.has THEN evaluate(c, p, isGone) ELSE "none",
     since |-> evaluated(c, p, isGone).since /\ evaluate(c, p, isGone) = "violated"]

Answer == contractOut(con, point, gone)

(* What a read leaves behind, for the contract c.                          *)
ReadBy(c) ==
    /\ con' = evaluated(c, point, gone)
    /\ ended' = (c.has /\ IF con'.since /\ ~c.since THEN FALSE
                 ELSE ended \/ evaluate(c, point, gone) = "satisfied")

putContract(rpo, req) == [has |-> TRUE, rpo |-> rpo, req |-> req, since |-> con.since]

(* The components missing, as recorded in the manifest of a new point.     *)
contractAtCapture(c, got, tried) == IF c.has THEN MissingOf(c, got) ELSE {}

(* A backup commits a point; the point grows old; the application leaves   *)
(* its host's inventory, or is back; another manager writes the contract,  *)
(* or reads it.                                                            *)
ContractCommits ==
    /\ \E got \in SUBSET Components :
           point' = [has |-> TRUE, age |-> 0, got |-> got, same |-> TRUE,
                     missing |-> contractAtCapture(con, got, Components)]
    /\ UNCHANGED <<con, gone, ended>>

GrowsOld ==
    /\ point.has /\ \E a \in Ages : a > point.age /\ point' = [point EXCEPT !.age = a]
    /\ UNCHANGED <<con, gone, ended>>

OtherWrites ==
    /\ \/ \E rpo \in Rpos, req \in SUBSET Components :
              /\ rpo # 0 \/ req # {}
              /\ ReadBy(putContract(rpo, req))
       \/ con.has /\ con' = NoContract /\ ended' = FALSE
    /\ point' = [point EXCEPT !.same = FALSE]
    /\ UNCHANGED gone

Elsewhere ==
    /\ turns < MaxTurns /\ turns' = turns + 1
    /\ \/ ContractCommits \/ GrowsOld \/ OtherWrites
       \/ gone' = ~gone /\ UNCHANGED <<con, point, ended>>
    /\ UNCHANGED <<conUi, puts, putCount>>

OtherReads ==
    /\ con.has /\ evaluated(con, point, gone) # con
    /\ ReadBy(con)
    /\ UNCHANGED <<point, gone, conUi, puts, putCount, turns>>

-----------------------------------------------------------------------------
(* The form's numbers.                                                     *)

RPO_UNITS == [minutes |-> 1, hours |-> 60, days |-> 1440]

contractToDraft(rpo) ==
    IF rpo = 0 THEN <<0, "hours">>
    ELSE LET unit == IF rpo % 1440 = 0 THEN "days" ELSE IF rpo % 60 = 0 THEN "hours" ELSE "minutes"
         IN  <<rpo \div RPO_UNITS[unit], unit>>

contractDraftToRequest(d) == d[1] * RPO_UNITS[d[2]]
draftValid(d, req) == d[1] # 0 \/ req # {}

-----------------------------------------------------------------------------
(* The card.  The form is mounted anew when the contract's terms change.   *)

NoAnswer == [has |-> FALSE, rpo |-> 0, req |-> {}, state |-> "loading", since |-> FALSE]
NoQ == [data |-> NoAnswer, read |-> NoAnswer]
Key(a) == <<a.has, a.rpo, a.req>>
FormFor(a) == [key |-> Key(a), touched |-> FALSE, error |-> FALSE]
NoEdit == FormFor(NoAnswer)

ContractShows(a, ps) ==
    LET new == Key(a) # edit.key
    IN  /\ edit' = IF new THEN FormFor(a) ELSE edit
        /\ puts' = {[p EXCEPT !.current = @ /\ ~new] : p \in ps}

OpenCard ==
    /\ ~tabOpen /\ tabOpen' = TRUE
    /\ \/ conQ' = [conQ EXCEPT !.read = Answer] /\ ReadBy(con)
       \/ conQ.data # NoAnswer /\ UNCHANGED <<conQ, con, ended>>   \* cached less than staleTime ago
    /\ edit' = FormFor(conQ.data)
    /\ UNCHANGED <<point, gone, puts, putCount, turns>>

LeaveCard ==
    /\ tabOpen /\ tabOpen' = FALSE
    /\ conQ' = [conQ EXCEPT !.read = NoAnswer]
    /\ edit' = NoEdit
    /\ puts' = {[p EXCEPT !.here = FALSE, !.current = FALSE] : p \in puts}
    /\ UNCHANGED <<con, point, gone, ended, putCount, turns>>

(* useContract; a read whose answer would bring nothing new is left out.   *)
PollContract ==
    /\ tabOpen /\ conQ.read = NoAnswer /\ conQ.data # Answer
    /\ conQ' = [conQ EXCEPT !.read = Answer]
    /\ ReadBy(con)
    /\ UNCHANGED <<point, gone, tabOpen, edit, puts, putCount, turns>>

ContractLands ==
    /\ conQ.read # NoAnswer
    /\ conQ' = [data |-> conQ.read, read |-> NoAnswer]
    /\ ContractShows(conQ.read, puts)
    /\ UNCHANGED <<con, point, gone, ended, tabOpen, putCount, turns>>

Waits == \E p \in puts : p.current
Editable == tabOpen /\ conQ.data # NoAnswer /\ ~Waits

(* What is typed is in the draft of the request; it is forgotten with a    *)
(* form mounted anew.                                                      *)
EditContract ==
    /\ Editable /\ ~edit.touched
    /\ edit' = [edit EXCEPT !.touched = TRUE]
    /\ UNCHANGED <<con, point, gone, ended, tabOpen, conQ, puts, putCount, turns>>

NewPut(kind, rpo, req) ==
    /\ putCount < MaxPuts /\ putCount' = putCount + 1
    /\ puts' = puts \cup {[n |-> putCount', kind |-> kind, rpo |-> rpo, req |-> req, here |-> TRUE, current |-> TRUE,
                           clean |-> ~edit.touched, st |-> "sent", got |-> NoAnswer]}
    /\ edit' = [edit EXCEPT !.error = FALSE]
    /\ UNCHANGED <<con, point, gone, ended, tabOpen, conQ, turns>>

SaveContract(d, req) ==
    /\ Editable /\ draftValid(d, req)
    /\ edit.touched \/ (d = contractToDraft(edit.key[2]) /\ req = edit.key[3])
    /\ NewPut("save", contractDraftToRequest(d), req)

RemoveContract == Editable /\ conQ.data.has /\ NewPut("remove", 0, {})

HandlePut(p) ==
    LET c == IF p.kind = "save" THEN putContract(p.rpo, p.req) ELSE NoContract
        ok == p.kind = "save" \/ con.has
    IN  /\ p.st = "sent"
        /\ IF ok THEN ReadBy(c) /\ point' = [point EXCEPT !.same = FALSE] ELSE UNCHANGED <<con, ended, point>>
        /\ puts' = (puts \ {p}) \cup {[p EXCEPT !.st = IF ok THEN "ok" ELSE "refused",
                                                !.got = contractOut(c, point, gone)]}
        /\ UNCHANGED <<gone, conUi, putCount, turns>>

(* The answer is cached and shown; then the contract is read again.        *)
PutOnSuccess(p) ==
    /\ p.st = "ok"
    /\ conQ' = [data |-> p.got, read |-> IF tabOpen THEN Answer ELSE NoAnswer]
    /\ IF tabOpen THEN ReadBy(con) /\ ContractShows(p.got, puts \ {p})
       ELSE UNCHANGED <<con, ended, edit>> /\ puts' = puts \ {p}
    /\ UNCHANGED <<point, gone, tabOpen, putCount, turns>>

PutOnError(p) ==
    /\ \/ p.st = "refused" /\ turns' = turns
       \/ p.st \in {"sent", "ok"} /\ turns < MaxTurns /\ turns' = turns + 1
    /\ edit' = IF p.current THEN [edit EXCEPT !.error = TRUE] ELSE edit
    /\ puts' = puts \ {p}
    /\ UNCHANGED <<con, point, gone, ended, tabOpen, conQ, putCount>>

-----------------------------------------------------------------------------
ConInit ==
    /\ con \in {NoContract} \cup [has : {TRUE}, rpo : Rpos, req : {Components}, since : {FALSE}]
    /\ point = NoPoint /\ gone = FALSE /\ ended = FALSE
    /\ tabOpen = FALSE /\ conQ = NoQ /\ edit = NoEdit
    /\ puts = {} /\ putCount = 0 /\ turns = 0

PutSteps(p) == HandlePut(p) \/ PutOnSuccess(p) \/ PutOnError(p)

ConNext ==
    \/ Elsewhere \/ OtherReads
    \/ OpenCard \/ LeaveCard \/ PollContract \/ ContractLands
    \/ EditContract \/ RemoveContract
    \/ \E d \in Drafts \cup {contractToDraft(rpo) : rpo \in Rpos}, req \in SUBSET Components : SaveContract(d, req)
    \/ \E p \in puts : PutSteps(p)

(* The server answers, the browser runs callbacks and the poll's timer.    *)
ConFairness ==
    /\ WF_conVars(\E p \in puts : PutSteps(p))
    /\ WF_conVars(PollContract) /\ WF_conVars(ContractLands)

ConSpec == ConInit /\ [][ConNext]_conVars /\ ConFairness

-----------------------------------------------------------------------------
(* The values of the variables; the form is filled from the contract as    *)
(* cached, also after a poll changed it, and forgets its edits with it.    *)
ConTypeOK ==
    /\ con.rpo \in Nat /\ con.req \subseteq Components
    /\ con.has \/ con = NoContract
    /\ tabOpen => edit.key = Key(conQ.data)
    /\ \A p \in puts : p.current => p.here /\ tabOpen

(* A form saved as it was shown keeps the contract's terms: the unit it    *)
(* chose for the minutes stands for the same minutes (contractToDraft and  *)
(* contractDraftToRequest).                                                *)
UneditedContractKeeps ==
    \A p \in puts : p.clean /\ p.current /\ p.kind = "save" => p.rpo = conQ.data.rpo /\ p.req = conQ.data.req

(* The time a violation began is forgotten by a read that finds the        *)
(* contract satisfied, whoever reads it and whatever writes, deletions and *)
(* recovery points come between (contractOut; the PUT route carries it     *)
(* over).                                                                  *)
ViolationEnds == con.since => ~ended

(* The components a recovery point records as missing from its contract    *)
(* are the ones the contract's state is violated by, as long as the        *)
(* contract is the same (contractAtCapture, evaluate).                     *)
CaptureAgrees ==
    con.has /\ point.has /\ point.same /\ ~gone =>
        /\ point.missing # {} => evaluate(con, point, gone) = "violated"
        /\ point.missing = {} /\ (con.rpo = 0 \/ point.age <= con.rpo) => evaluate(con, point, gone) = "satisfied"

(* The card comes to show the contract and its state as they are, whatever *)
(* the order of polls, saves, removals and other managers' writes.         *)
ContractSettles == []<>(~tabOpen \/ conQ.data = Answer)
=============================================================================
