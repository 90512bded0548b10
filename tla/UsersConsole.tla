---------------------------- MODULE UsersConsole ----------------------------
(***************************************************************************)
(* The users page: roles granted by hand beside the roles of groups,       *)
(* disabling a user, and the mappings of groups to roles.  The lists are   *)
(* not polled.                                                             *)
(*                                                                         *)
(* web/scripts/mock-live.mjs (users, roles, group mappings);               *)
(* web/src/components/users/users-view.tsx; web/src/lib/api/hooks.ts.      *)
(***************************************************************************)
EXTENDS Naturals, Sequences, FiniteSets

CONSTANTS
    People,       \* users that sign in with the identity provider
    Self,         \* the one of them at this console
    Roles,        \* roles beside "administrator"
    GroupIds,
    MaxUserSaves,     \* bound: requests of this console
    MaxElse       \* bound: changes elsewhere and lost answers

ASSUME UsersConsoleAssumption == Self \in People /\ MaxUserSaves \in Nat /\ MaxElse \in Nat

VARIABLES
    users,      \* the server's: person -> [disabled, manual, group]
    mappings,   \* the server's list of <<group, role>>
    here,       \* the page is shown
    usersQ,     \* the users as cached, or Unread
    mapsQ,      \* the mappings as cached
    fresh,      \* the lists were read and not invalidated since
    userDialog,     \* [kind, of, picked, error]
    userAsks,       \* requests under way
    userAsked,
    behind,     \* the server has changed since the lists were read, by no answered request from here
    elses,
    granted     \* history: the roles ever ticked for each person

usersUi == <<here, usersQ, mapsQ, fresh, userDialog>>
usersVars == <<users, mappings, usersUi, userAsks, userAsked, behind, elses, granted>>

ADMIN == "administrator"
AllRoles == Roles \cup {ADMIN}
NoOne == "none"
Closed == [kind |-> "none", of |-> NoOne, picked |-> {}, error |-> FALSE]
UserHas(s, x) == \E i \in DOMAIN s : s[i] = x

-----------------------------------------------------------------------------
(* The server.                                                             *)

setRolesOk(w, roles) ==
    /\ roles \subseteq AllRoles
    /\ ~(w = Self /\ ADMIN \notin roles /\ ADMIN \in users[w].manual)

setRoles(us, w, roles) == [us EXCEPT ![w].manual = roles]

setStatus(us, w, disabled) == [us EXCEPT ![w].disabled = disabled]

addMapping(ms, m) == IF UserHas(ms, m) THEN ms ELSE Append(ms, m)

removeMapping(ms, m) ==
    LET i == CHOOSE j \in DOMAIN ms : ms[j] = m /\ \A k \in 1..(j - 1) : ms[k] # m
    IN  SubSeq(ms, 1, i - 1) \o SubSeq(ms, i + 1, Len(ms))

(* Someone else manages users.                                             *)
OtherManagerActs ==
    /\ elses < MaxElse /\ elses' = elses + 1 /\ behind' = TRUE
    /\ \/ \E w \in People, r \in Roles :
              /\ users' = setRoles(users, w, {r}) /\ users' # users
              /\ granted' = [granted EXCEPT ![w] = @ \cup {r}]
              /\ UNCHANGED mappings
       \/ \E w \in People :
              /\ users' = setStatus(users, w, ~users[w].disabled)
              /\ UNCHANGED <<mappings, granted>>
       \/ \E i \in DOMAIN mappings :
              /\ mappings' = removeMapping(mappings, mappings[i])
              /\ UNCHANGED <<users, granted>>
    /\ UNCHANGED <<usersUi, userAsks, userAsked>>

-----------------------------------------------------------------------------
(* The page.                                                               *)

Read == here' = TRUE /\ usersQ' = users /\ mapsQ' = mappings /\ fresh' = TRUE /\ behind' = FALSE

(* Mounting reads lists that are invalid or older than staleTime; leaving  *)
(* keeps them in the cache.                                                *)
OpenUsers ==
    /\ ~here
    /\ \/ Read
       \/ fresh /\ here' = TRUE /\ UNCHANGED <<usersQ, mapsQ, fresh, behind>>
    /\ UNCHANGED <<users, mappings, userDialog, userAsks, userAsked, elses, granted>>

LeaveUsers ==
    /\ here /\ userDialog = Closed
    /\ here' = FALSE
    /\ userAsks' = {[a EXCEPT !.on = FALSE] : a \in userAsks}
    /\ UNCHANGED <<users, mappings, usersQ, mapsQ, fresh, userDialog, userAsked, behind, elses,
                   granted>>

(* The window is focused after staleTime.                                  *)
FocusUsers ==
    /\ here /\ behind
    /\ Read
    /\ userDialog' = IF userDialog.kind = "remove" /\ ~UserHas(mappings, userDialog.of) THEN Closed ELSE userDialog
    /\ userAsks' = {[a EXCEPT !.on = @ /\ (a.kind = "remove" => UserHas(mappings, a.of))] : a \in userAsks}
    /\ UNCHANGED <<users, mappings, userAsked, elses, granted>>

manualRoles(u) == u.manual

(* RolesDialog, StatusDialog and AddMappingDialog reset when they open;    *)
(* RemoveMappingButton does not, so it still waits if it waited.           *)
OpenDialogOf(kind, x) ==
    /\ here /\ userDialog = Closed
    /\ kind = "add" \/ (kind = "remove" /\ UserHas(mapsQ, x)) \/ kind \in {"roles", "status"}
    /\ userDialog' = [Closed EXCEPT !.kind = kind, !.of = x,
                                !.picked = IF kind = "roles" THEN manualRoles(usersQ[x]) ELSE {}]
    /\ userAsks' = {[a EXCEPT !.on = @ /\ ~(kind # "remove" /\ a.kind = kind /\ a.of = x)] : a \in userAsks}
    /\ UNCHANGED <<users, mappings, here, usersQ, mapsQ, fresh, userAsked, behind, elses, granted>>

CloseDialogOf ==
    /\ userDialog # Closed
    /\ userDialog' = Closed
    /\ UNCHANGED <<users, mappings, here, usersQ, mapsQ, fresh, userAsks, userAsked, behind,
                   elses, granted>>

UserWaiting == \E a \in userAsks : a.kind = userDialog.kind /\ a.of = userDialog.of /\ a.on

AskFor(kind, x, roles, disabled, mapping) ==
    /\ userAsked < MaxUserSaves /\ userAsked' = userAsked + 1
    /\ userAsks' = userAsks \cup {[n |-> userAsked', kind |-> kind, of |-> x, roles |-> roles,
                           disabled |-> disabled, mapping |-> mapping, on |-> TRUE, st |-> "sent"]}
    /\ userDialog' = [userDialog EXCEPT !.error = FALSE]
    /\ UNCHANGED <<users, mappings, here, usersQ, mapsQ, fresh, behind, elses>>

NoMapping == <<"", "">>

(* At most one role is changed before the form is sent.                    *)
SubmitRoles ==
    /\ userDialog.kind = "roles" /\ ~UserWaiting
    /\ \E rs \in {userDialog.picked} \cup {userDialog.picked \cup {r} : r \in AllRoles} \cup {userDialog.picked \ {r} : r \in AllRoles} :
           /\ AskFor("roles", userDialog.of, rs, FALSE, NoMapping)
           /\ granted' = [granted EXCEPT ![userDialog.of] = @ \cup (rs \ userDialog.picked)]

(* The direction is that of the user as cached when the button is pressed. *)
SubmitStatus ==
    /\ userDialog.kind = "status" /\ ~UserWaiting
    /\ AskFor("status", userDialog.of, {}, ~usersQ[userDialog.of].disabled, NoMapping) /\ UNCHANGED granted

SubmitMapping ==
    /\ userDialog.kind = "add" /\ ~UserWaiting
    /\ \E g \in GroupIds, r \in Roles : AskFor("add", userDialog.of, {}, FALSE, <<g, r>>)
    /\ UNCHANGED granted

SubmitRemove ==
    /\ userDialog.kind = "remove" /\ ~UserWaiting
    /\ AskFor("remove", userDialog.of, {}, FALSE, userDialog.of) /\ UNCHANGED granted

-----------------------------------------------------------------------------
(* The requests.                                                           *)

AnswersTo(a, ok) == userAsks' = (userAsks \ {a}) \cup {[a EXCEPT !.st = IF ok THEN "ok" ELSE "refused"]}

putRoles(a) ==
    /\ a.kind = "roles" /\ AnswersTo(a, setRolesOk(a.of, a.roles))
    /\ users' = IF setRolesOk(a.of, a.roles) THEN setRoles(users, a.of, a.roles) ELSE users
    /\ UNCHANGED mappings

putStatus(a) ==
    /\ a.kind = "status" /\ AnswersTo(a, TRUE)
    /\ users' = setStatus(users, a.of, a.disabled)
    /\ UNCHANGED mappings

postMapping(a) ==
    /\ a.kind = "add" /\ AnswersTo(a, TRUE)
    /\ mappings' = addMapping(mappings, a.mapping)
    /\ UNCHANGED users

postRemove(a) ==
    /\ a.kind = "remove" /\ AnswersTo(a, UserHas(mappings, a.mapping))
    /\ mappings' = IF UserHas(mappings, a.mapping) THEN removeMapping(mappings, a.mapping) ELSE mappings
    /\ UNCHANGED users

HandleAskOf(a) ==
    /\ a.st = "sent"
    /\ putRoles(a) \/ putStatus(a) \/ postMapping(a) \/ postRemove(a)
    /\ UNCHANGED <<usersUi, userAsked, behind, elses, granted>>

Belongs(a) == here /\ userDialog.kind = a.kind /\ userDialog.of = a.of

(* The dialog it was sent from closes, whichever opening of it; the list   *)
(* of its kind is read again.                                              *)
AskOk(a) ==
    LET list == IF here /\ a.kind \in {"add", "remove"} THEN mappings ELSE mapsQ
        rest == {[b EXCEPT !.on = @ /\ (b.kind = "remove" => UserHas(list, b.of))] : b \in userAsks \ {a}}
    IN  /\ a.st = "ok"
        /\ usersQ' = IF here /\ a.kind \in {"roles", "status"} THEN users ELSE usersQ
        /\ fresh' = (fresh /\ here)
        /\ mapsQ' = list
        /\ userDialog' = IF Belongs(a) \/ (userDialog.kind = "remove" /\ ~UserHas(list, userDialog.of)) THEN Closed ELSE userDialog
        /\ userAsks' = rest
        /\ UNCHANGED <<users, mappings, here, userAsked, behind, elses, granted>>

(* Refused, or the answer is lost; nothing is read again.                  *)
AskFailed(a) ==
    /\ \/ a.st = "refused" /\ UNCHANGED <<elses, behind>>
       \/ a.st \in {"sent", "ok"} /\ elses < MaxElse /\ elses' = elses + 1 /\ behind' = TRUE
    /\ userDialog' = IF Belongs(a) THEN [userDialog EXCEPT !.error = TRUE] ELSE userDialog
    /\ userAsks' = userAsks \ {a}
    /\ UNCHANGED <<users, mappings, here, usersQ, mapsQ, fresh, userAsked, granted>>

-----------------------------------------------------------------------------
UsersInit ==
    /\ users = [w \in People |-> [disabled |-> FALSE, manual |-> IF w = Self THEN {ADMIN} ELSE {}, group |-> Roles]]
    /\ mappings = <<<<CHOOSE g \in GroupIds : TRUE, CHOOSE r \in Roles : TRUE>>>>
    /\ here = FALSE /\ usersQ = users /\ mapsQ = mappings /\ fresh = FALSE /\ userDialog = Closed
    /\ userAsks = {} /\ userAsked = 0 /\ behind = FALSE /\ elses = 0
    /\ granted = [w \in People |-> users[w].manual]

UserAskSteps(a) == HandleAskOf(a) \/ AskOk(a) \/ AskFailed(a)

UsersNext ==
    \/ OpenUsers \/ LeaveUsers \/ FocusUsers \/ CloseDialogOf
    \/ \E w \in People : OpenDialogOf("roles", w) \/ OpenDialogOf("status", w)
    \/ OpenDialogOf("add", NoOne)
    \/ \E i \in DOMAIN mapsQ : OpenDialogOf("remove", mapsQ[i])
    \/ SubmitRoles \/ SubmitStatus \/ SubmitMapping \/ SubmitRemove
    \/ \E a \in userAsks : UserAskSteps(a)
    \/ OtherManagerActs

UsersSpec == UsersInit /\ [][UsersNext]_usersVars

-----------------------------------------------------------------------------
(* The values of the variables; a dialog is over the page, and begins with *)
(* manual roles only.                                                      *)
UsersTypeOK ==
    /\ \A w \in People : users[w].manual \subseteq AllRoles /\ users[w].group \subseteq Roles
    /\ userDialog # Closed => here
    /\ userDialog.kind = "remove" => UserHas(mapsQ, userDialog.of)
    /\ Cardinality(userAsks) <= MaxUserSaves

(* Managing users by hand never changes the roles that came from groups    *)
(* (the route for roles keeps every other source).                         *)
GroupRolesAreTheGroups == [][\A w \in People : users'[w].group = users[w].group]_usersVars

(* A role held by hand was ticked for that person at some time: saving the *)
(* dialog never turns the role of a group, which ends with the group, into *)
(* one that stays (manualRoles, RolesDialog).                              *)
ManualWereGranted == \A w \in People : users[w].manual \subseteq granted[w]

(* A mapping is listed once, however often it is added (the route that     *)
(* adds one; the rows of GroupMappings are keyed by it).                   *)
MappingsListedOnce == \A i, j \in DOMAIN mappings : mappings[i] = mappings[j] => i = j

(* With every request answered, and no change made elsewhere since, the    *)
(* page shows what the server has, though nothing polls it (the            *)
(* invalidations of the four dialogs).                                     *)
OwnChangesAreShown == here /\ ~behind /\ userAsks = {} => usersQ = users /\ mapsQ = mappings
=============================================================================
