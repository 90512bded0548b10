---------------------------- MODULE PolicyConsole ---------------------------
(***************************************************************************)
(* Protection policies in the console: the list, a policy's page, the      *)
(* dialogs that create, edit and delete one, and the card that assigns an  *)
(* application to one, found by reading the details of every policy that   *)
(* has applications.                                                       *)
(*                                                                         *)
(* web/scripts/mock-policies.mjs (the policy routes);                      *)
(* web/src/components/policies/policies-view.tsx, policy-detail.tsx,       *)
(* policy-form.tsx (PolicyFormDialog), policy-assignment.tsx; hooks.ts.    *)
(*                                                                         *)
(* A policy is its name; 0 stands for no policy.  A query is [data, bad,   *)
(* read]: what is cached, whether it is invalidated, and the answer to the *)
(* read under way.  A read is served when it is sent, and its answer comes *)
(* any time later: serving it later could only bring newer data.           *)
(***************************************************************************)
EXTENDS Naturals, Sequences, FiniteSets

CONSTANTS
    PolicyNames,   \* the names typed
    FirstNames,    \* the names of the first two policies
    FirstAssigned, \* the assignments to begin with
    Tours,         \* the pages visited, and a bound on the requests sent from them: a set
                   \* of [pages, writes], pages a subset of {"app", "policy", "list"}
    MaxWrites,     \* bound: the most of those
    MaxOuts        \* bound: changes by other managers, lost answers

ASSUME PolicyConsoleAssumption ==
    /\ MaxWrites \in Nat /\ MaxOuts \in Nat
    /\ \A t \in Tours : t.pages \subseteq {"app", "policy", "list"} /\ t.writes \in 0..MaxWrites
    /\ Len(FirstNames) = 2 /\ FirstNames[1] # FirstNames[2]

VARIABLES
    pol,      \* the policies of the server: id -> name, "" when there is none
    asg,      \* the policy of application "a", of "b": 0 when none
    tour,     \* one of Tours
    polAt,       \* the page (the application's, that of the policy 1, the list) or "else"
    listQ,    \* the query "policies"
    detQ,     \* the queries of the details: id -> query
    polCard,     \* the assignment card: [key, error], key the policy it is mounted for
    polForm,     \* the policy form: [open, id, error], id 0 for a new policy
    trash,    \* the dialog that deletes a policy: [id, error], id 0 when closed
    writes,   \* requests under way: [n, kind, id, name, here, current, st]
    wrote,
    unseen,   \* something changed since the queries were last invalidated here
    joined,   \* that invalidation joined a first read sent before it
    outs

polUi == <<tour, polAt, listQ, detQ, polCard, polForm, trash>>
polVars == <<pol, asg, polUi, writes, wrote, unseen, joined, outs>>

\* the first two policies, and one for every request
Ids == 1..(2 + MaxWrites)
Apps == {"a", "b"}

-----------------------------------------------------------------------------
(* The server.                                                             *)

Has(i) == i \in Ids /\ pol[i] # ""
nameTaken(i, n) == \E j \in Ids \ {i} : pol[j] = n

(* GET /policies, GET /policies/{id}: policyOut, policyDetail.             *)
NoData == [none |-> TRUE]
policiesOut == [names |-> pol, used |-> {i \in Ids : \E x \in Apps : asg[x] = i}]
policyDetail(i) == [name |-> pol[i], apps |-> {x \in Apps : asg[x] = i}]

\* Mutant: a deleted policy keeps its assignments.
deletePolicy_Assigned(i) == pol' = [pol EXCEPT ![i] = ""] /\ UNCHANGED asg

deletePolicy(i) ==
    /\ pol' = [pol EXCEPT ![i] = ""]
    /\ asg' = [x \in Apps |-> IF asg[x] = i THEN 0 ELSE asg[x]]

-----------------------------------------------------------------------------
(* The queries.                                                            *)

NoQuery == [data |-> NoData, bad |-> FALSE, read |-> NoData]

\* the details the application's page reads: those of the policies with applications
candidates(l) == IF l.data = NoData THEN {} ELSE l.data.used

ActiveDetails(page, l) ==
    CASE page = "app" -> candidates(l) [] page = "policy" -> {1} [] OTHER -> {}
ActiveList(page) == page \in {"app", "list"}

(* A query that gets an observer reads unless its data is fresh (staleTime *)
(* may have passed or not); one that loses its last one drops its read.    *)
Mounts(q, now, old) == IF q.data = NoData \/ q.bad \/ old THEN [q EXCEPT !.read = now] ELSE q
Unmounts(q) == [q EXCEPT !.read = NoData]

DetailsFor(page, l, d, was, old) ==
    [i \in Ids |-> CASE i \in ActiveDetails(page, l) \ was -> Mounts(d[i], policyDetail(i), old)
                     [] i \in was \ ActiveDetails(page, l) -> Unmounts(d[i])
                     [] OTHER -> d[i]]

(* useApplicationPolicy: the first detail that has the application.        *)
cardKey(page, l, d) ==
    LET holds == {i \in candidates(l) : d[i].data # NoData /\ "a" \in d[i].data.apps}
    IN  IF page # "app" \/ l.data = NoData \/ \E i \in candidates(l) : d[i].data = NoData THEN 99
        ELSE IF holds = {} THEN 0 ELSE CHOOSE i \in holds : \A j \in holds : i <= j

CardFor(k) == [key |-> k, error |-> FALSE]

(* PolicyAssignmentCard: the card is mounted anew when its key changes.    *)
ShowPolicies(page, l, d, ws) ==
    LET k == cardKey(page, l, d)
    IN  /\ polAt' = page /\ tour' = tour /\ listQ' = l /\ detQ' = d
        /\ polCard' = IF k = polCard.key THEN polCard ELSE CardFor(k)
        /\ writes' = {[w EXCEPT !.here = @ /\ page = polAt,
                                !.current = @ /\ page = polAt /\ (w.kind = "assign" => k = polCard.key)] : w \in ws}

Visit(page, ws) ==
    \E old \in BOOLEAN :
        LET l == IF ~ActiveList(page) THEN Unmounts(listQ)
                 ELSE IF ActiveList(polAt) THEN listQ ELSE Mounts(listQ, policiesOut, old)
        IN  ShowPolicies(page, l, DetailsFor(page, l, detQ, ActiveDetails(polAt, listQ), old), ws)

GoToPolicyPage(page) ==
    /\ page # polAt /\ ~polForm.open /\ trash.id = 0
    /\ Visit(page, writes)
    /\ UNCHANGED <<pol, asg, polForm, trash, wrote, unseen, joined, outs>>

\* only the list is polled
PollPolicies ==
    /\ ActiveList(polAt) /\ listQ.read = NoData /\ listQ.data # policiesOut
    /\ ShowPolicies(polAt, [listQ EXCEPT !.read = policiesOut], detQ, writes)
    /\ UNCHANGED <<pol, asg, polForm, trash, wrote, unseen, joined, outs>>

(* A row that is gone takes its dialogs along.                             *)
RowGone(page, l) == page = "list" /\ polForm.id # 0 /\ l.data # NoData /\ l.data.names[polForm.id] = ""
TrashGone(page, l) == page = "list" /\ trash.id # 0 /\ l.data # NoData /\ l.data.names[trash.id] = ""
NoForm == [open |-> FALSE, id |-> 0, error |-> FALSE]
NoTrash == [id |-> 0, error |-> FALSE]

ListLands ==
    /\ listQ.read # NoData
    /\ \E old \in BOOLEAN :
           LET l == [data |-> listQ.read, bad |-> FALSE, read |-> NoData]
           IN  /\ ShowPolicies(polAt, l, DetailsFor(polAt, l, detQ, ActiveDetails(polAt, listQ), old), writes)
               /\ polForm' = IF RowGone(polAt, l) THEN NoForm ELSE polForm
               /\ trash' = IF TrashGone(polAt, l) THEN NoTrash ELSE trash
    /\ UNCHANGED <<pol, asg, wrote, unseen, joined, outs>>

\* a policy that is gone answers 404: what was cached stays shown
DetailLands(i) ==
    LET q == detQ[i]
    IN  /\ q.read # NoData
        /\ ShowPolicies(polAt, listQ, [detQ EXCEPT ![i] = IF q.read.name = "" THEN [q EXCEPT !.read = NoData, !.bad = TRUE]
                                               ELSE [data |-> q.read, bad |-> FALSE, read |-> NoData]], writes)
        /\ UNCHANGED <<pol, asg, polForm, trash, wrote, unseen, joined, outs>>

(* invalidateQueries: an active query reads again, dropping the read under *)
(* way, unless that is its first, which it joins.                          *)
Again(q, active, now) ==
    IF ~active THEN [q EXCEPT !.bad = TRUE]
    ELSE IF q.data = NoData /\ q.read # NoData THEN [q EXCEPT !.bad = TRUE]
    ELSE [q EXCEPT !.bad = TRUE, !.read = now]
Joins(q, active, now) == active /\ q.data = NoData /\ q.read # NoData /\ q.read # now

\* Mutant: only the list is invalidated.
InvalidatePolicies_ListOnly(page, l, d, ws) ==
    /\ ShowPolicies(page, Again(l, ActiveList(page), policiesOut), d, ws)
    /\ joined' = Joins(l, ActiveList(page), policiesOut)
    /\ unseen' = FALSE

InvalidatePolicies(page, l, d, ws) ==
    LET live == ActiveDetails(page, l)
    IN  /\ ShowPolicies(page, Again(l, ActiveList(page), policiesOut),
                [i \in Ids |-> Again(d[i], i \in live, policyDetail(i))], ws)
        /\ joined' = \/ Joins(l, ActiveList(page), policiesOut)
                     \/ \E i \in live : Joins(d[i], TRUE, policyDetail(i))
        /\ unseen' = FALSE

-----------------------------------------------------------------------------
(* The card and the dialogs.                                               *)

NewWrite(kind, i, n) ==
    /\ wrote < tour.writes /\ wrote' = wrote + 1
    /\ writes' = writes \cup {[n |-> wrote', kind |-> kind, id |-> i, name |-> n, here |-> TRUE,
                               current |-> TRUE, from |-> polAt, st |-> "sent"]}
Waiting(kinds) == \E w \in writes : w.kind \in kinds /\ w.current

(* Assignment: a policy is selected and saved; a card mounted anew meanwhile *)
(* forgets the selection.                                                  *)
SaveAssignment(i) ==
    /\ polAt = "app" /\ polCard.key # 99 /\ ~Waiting({"assign"})
    /\ i # polCard.key /\ (i # 0 => listQ.data.names[i] # "")
    /\ NewWrite("assign", i, "")
    /\ polCard' = [polCard EXCEPT !.error = FALSE]
    /\ UNCHANGED <<pol, asg, tour, polAt, listQ, detQ, polForm, trash, unseen, joined, outs>>

(* PolicyFormDialog: opening it fills the form and resets the mutation.    *)
OpenForm(i) ==
    /\ ~polForm.open /\ trash.id = 0
    /\ \/ polAt = "list" /\ i = 0
       \/ polAt = "list" /\ listQ.data # NoData /\ i # 0 /\ listQ.data.names[i] # ""
       \/ polAt = "policy" /\ i = 1 /\ detQ[1].data # NoData
    /\ polForm' = [open |-> TRUE, id |-> i, error |-> FALSE]
    /\ writes' = {[w EXCEPT !.current = @ /\ ~(w.kind \in {"create", "update"} /\ w.id = i)] : w \in writes}
    /\ UNCHANGED <<pol, asg, tour, polAt, listQ, detQ, polCard, trash, wrote, unseen, joined, outs>>

CloseForm ==
    /\ polForm.open
    /\ polForm' = NoForm
    /\ UNCHANGED <<pol, asg, tour, polAt, listQ, detQ, polCard, trash, writes, wrote, unseen,
                   joined, outs>>

FormWaits == \E w \in writes : w.kind \in {"create", "update"} /\ w.id = polForm.id /\ w.current

\* the name is typed and sent
SubmitForm(n) ==
    /\ polForm.open /\ ~FormWaits
    /\ NewWrite(IF polForm.id = 0 THEN "create" ELSE "update", polForm.id, n)
    /\ polForm' = [polForm EXCEPT !.error = FALSE]
    /\ UNCHANGED <<pol, asg, tour, polAt, listQ, detQ, polCard, trash, unseen, joined, outs>>

(* DeletePolicyButton: closing it does not reset the mutation.             *)
OpenTrash(i) ==
    /\ ~polForm.open /\ trash.id = 0
    /\ \/ polAt = "list" /\ listQ.data # NoData /\ listQ.data.names[i] # ""
       \/ polAt = "policy" /\ i = 1 /\ detQ[1].data # NoData
    /\ trash' = [NoTrash EXCEPT !.id = i]
    /\ UNCHANGED <<pol, asg, tour, polAt, listQ, detQ, polCard, polForm, writes, wrote, unseen,
                   joined, outs>>

CloseTrash ==
    /\ trash.id # 0
    /\ trash' = NoTrash
    /\ UNCHANGED <<pol, asg, tour, polAt, listQ, detQ, polCard, polForm, writes, wrote, unseen,
                   joined, outs>>

TrashWaits == \E w \in writes : w.kind = "delete" /\ w.id = trash.id /\ w.current

SubmitTrash ==
    /\ trash.id # 0 /\ ~TrashWaits
    /\ NewWrite("delete", trash.id, "")
    /\ UNCHANGED <<pol, asg, tour, polAt, listQ, detQ, polCard, polForm, trash, unseen, joined,
                   outs>>

-----------------------------------------------------------------------------
(* The requests.                                                           *)

Becomes(w, st) == writes' = (writes \ {w}) \cup {[w EXCEPT !.st = st]}

(* POST /policies                                                          *)
createPolicy(w) ==
    /\ w.kind = "create" /\ w.st = "sent"
    /\ IF nameTaken(0, w.name) THEN UNCHANGED pol /\ Becomes(w, "refused")
       ELSE pol' = [pol EXCEPT ![2 + w.n] = w.name] /\ Becomes(w, "ok")

(* PUT /policies/{id}: the policy is looked up before the body is read;    *)
(* one deleted in between is changed all the same, to no effect.           *)
findPolicy(w) ==
    /\ w.kind = "update" /\ w.st = "sent"
    /\ Becomes(w, IF Has(w.id) THEN "found" ELSE "refused")
    /\ UNCHANGED pol

updatePolicy(w) ==
    /\ w.kind = "update" /\ w.st = "found"
    /\ IF nameTaken(w.id, w.name) THEN UNCHANGED pol /\ Becomes(w, "refused")
       ELSE pol' = (IF Has(w.id) THEN [pol EXCEPT ![w.id] = w.name] ELSE pol) /\ Becomes(w, "ok")

(* PUT /applications/{id}/policy                                           *)
assignPolicy(w) ==
    /\ w.kind = "assign" /\ w.st = "sent"
    /\ IF w.id # 0 /\ ~Has(w.id) THEN UNCHANGED asg /\ Becomes(w, "refused")
       ELSE asg' = [asg EXCEPT !["a"] = w.id] /\ Becomes(w, "ok")

HandleWrite(w) ==
    /\ \/ (createPolicy(w) \/ findPolicy(w) \/ updatePolicy(w)) /\ UNCHANGED asg
       \/ assignPolicy(w) /\ UNCHANGED pol
       \/ /\ w.kind = "delete" /\ w.st = "sent"
          /\ IF Has(w.id) THEN deletePolicy(w.id) /\ Becomes(w, "ok")
             ELSE UNCHANGED <<pol, asg>> /\ Becomes(w, "refused")
    /\ UNCHANGED <<polUi, wrote, unseen, joined, outs>>

(* The dialog closes, the saved policy is merged into its cached detail, a *)
(* deleted one's detail is dropped; then every query of policies is        *)
(* invalidated.  A deletion from the policy's page goes on to the list,    *)
(* from wherever the user went meanwhile.                                  *)
Merged(w) ==
    [i \in Ids |-> IF w.kind = "delete" /\ w.id = i THEN NoQuery
                   ELSE IF w.kind = "update" /\ w.id = i /\ detQ[i].data # NoData
                        THEN [detQ[i] EXCEPT !.data.name = w.name, !.bad = FALSE]
                   ELSE detQ[i]]

WriteOnSuccess(w) ==
    /\ w.st = "ok"
    /\ polForm' = IF w.here /\ w.kind \in {"create", "update"} /\ polForm.id = w.id THEN NoForm ELSE polForm
    /\ trash' = IF w.here /\ w.kind = "delete" /\ trash.id = w.id THEN NoTrash ELSE trash
    /\ InvalidatePolicies(polAt, listQ, Merged(w),
           (writes \ {w}) \cup IF w.kind = "delete" /\ w.from = "policy"
                              THEN {[w EXCEPT !.st = "deleted", !.current = FALSE]} ELSE {})
    /\ UNCHANGED <<pol, asg, wrote, outs>>

OnDeleted(w) ==
    /\ w.st = "deleted"
    /\ Visit("list", writes \ {w})
    /\ polForm' = (IF polAt = "list" THEN polForm ELSE NoForm)
    /\ trash' = (IF polAt = "list" THEN trash ELSE NoTrash)
    /\ UNCHANGED <<pol, asg, wrote, unseen, joined, outs>>

(* Refused, or lost before or after it was handled.                        *)
WriteOnError(w) ==
    /\ \/ w.st = "refused" /\ UNCHANGED <<outs, unseen>>
       \/ w.st \in {"sent", "ok"} /\ outs < MaxOuts /\ outs' = outs + 1 /\ unseen' = TRUE
    /\ polCard' = IF w.kind = "assign" /\ w.current THEN [polCard EXCEPT !.error = TRUE] ELSE polCard
    /\ polForm' = IF polForm.open /\ w.here /\ w.kind \in {"create", "update"} /\ polForm.id = w.id
               THEN [polForm EXCEPT !.error = TRUE] ELSE polForm
    /\ trash' = IF w.here /\ w.kind = "delete" /\ trash.id = w.id THEN [trash EXCEPT !.error = TRUE] ELSE trash
    /\ writes' = writes \ {w}
    /\ UNCHANGED <<pol, asg, tour, polAt, listQ, detQ, wrote, joined>>

(* Another manager renames, deletes or assigns.                            *)
OtherManages ==
    /\ outs < MaxOuts /\ outs' = outs + 1
    /\ \/ \E i \in Ids : Has(i) /\ deletePolicy(i)
       \/ \E i \in Ids, n \in PolicyNames :
              Has(i) /\ pol[i] # n /\ ~nameTaken(i, n) /\ pol' = [pol EXCEPT ![i] = n] /\ UNCHANGED asg
       \/ \E x \in Apps, i \in Ids \cup {0} :
              (i # 0 => Has(i)) /\ asg[x] # i /\ asg' = [asg EXCEPT ![x] = i] /\ UNCHANGED pol
    /\ unseen' = TRUE
    /\ UNCHANGED <<polUi, writes, wrote, joined>>

-----------------------------------------------------------------------------
PolInit ==
    /\ pol = [i \in Ids |-> IF i \in {1, 2} THEN FirstNames[i] ELSE ""]
    /\ asg \in FirstAssigned
    /\ tour \in Tours /\ polAt = "else" /\ listQ = NoQuery /\ detQ = [i \in Ids |-> NoQuery]
    /\ polCard = CardFor(99) /\ polForm = NoForm /\ trash = NoTrash
    /\ writes = {} /\ wrote = 0 /\ unseen = FALSE /\ joined = FALSE /\ outs = 0

WriteSteps(w) == HandleWrite(w) \/ WriteOnSuccess(w) \/ OnDeleted(w) \/ WriteOnError(w)
Lands == ListLands \/ \E i \in Ids : DetailLands(i)

PolNext ==
    \/ \E page \in tour.pages \cup {"else"} : GoToPolicyPage(page)
    \/ PollPolicies \/ Lands
    \/ \E i \in Ids \cup {0} : SaveAssignment(i) \/ OpenForm(i)
    \/ CloseForm \/ \E n \in PolicyNames : SubmitForm(n)
    \/ \E i \in Ids : OpenTrash(i)
    \/ CloseTrash \/ SubmitTrash
    \/ \E w \in writes : WriteSteps(w)
    \/ OtherManages

(* The server answers, and the browser runs the callbacks.                 *)
PolFairness ==
    /\ WF_polVars(\E w \in writes : WriteSteps(w))
    /\ WF_polVars(ListLands) /\ \A i \in Ids : WF_polVars(DetailLands(i))
    /\ WF_polVars(PollPolicies)

PolSpec == PolInit /\ [][PolNext]_polVars /\ PolFairness

-----------------------------------------------------------------------------
(* The values of the variables; a dialog is open over the page that has    *)
(* it, of a policy listed there, and a query not shown reads nothing.                                *)
PolTypeOK ==
    /\ \A i \in Ids : pol[i] \in PolicyNames \cup {"", FirstNames[1], FirstNames[2]}
    /\ polAt \in tour.pages \cup {"list", "else"}
    /\ polCard.key \in Ids \cup {0, 99} /\ (polAt # "app" => polCard.key = 99)
    /\ polForm.open \/ trash.id # 0 => polAt \in {"list", "policy"}
    /\ ~RowGone(polAt, listQ) /\ ~TrashGone(polAt, listQ)
    /\ ~ActiveList(polAt) => listQ.read = NoData
    /\ \A i \in Ids \ ActiveDetails(polAt, listQ) : detQ[i].read = NoData

(* No two policies have the same name, whichever creations and renamings   *)
(* wait for their bodies at the same time (the POST and PUT routes).       *)
PolicyNamesUnique == \A i, j \in Ids : i # j /\ Has(i) => pol[i] # pol[j]

(* An application follows a policy that exists, also when one is deleted   *)
(* while a console that still lists it assigns it (the DELETE route).      *)
AssignedExists == \A x \in Apps : asg[x] = 0 \/ Has(asg[x])

(* The assignment card comes to show the policy the application follows    *)
(* after every save of this console, though only the list is polled: what  *)
(* it waits for is invalidated, and the details a list brings in are read. *)
(* Excepted are changes made elsewhere, lost answers, and an answer that   *)
(* found a first read of a detail under way (useApplicationPolicy).        *)
CardSettles == []<>(polAt # "app" \/ unseen \/ joined \/ polCard.key = asg["a"])

(* So does the page of a policy, whatever the order in which two saves     *)
(* from here are handled and answered (PolicyFormDialog).                  *)
DetailSettles ==
    []<>(polAt # "policy" \/ unseen \/ joined \/ ~Has(1) \/ detQ[1].data = policyDetail(1))
=============================================================================
