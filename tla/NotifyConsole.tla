---------------------------- MODULE NotifyConsole ---------------------------
(***************************************************************************)
(* Notification channels and the SMTP relay: which events a channel is     *)
(* subscribed to, the picker that edits them, and secrets the console may  *)
(* write and never reads.                                                  *)
(*                                                                         *)
(* web/scripts/mock-policies.mjs (channels, SMTP);                         *)
(* web/src/components/notifications/channels.tsx, event-picker.tsx,        *)
(* smtp-settings.tsx; web/src/lib/notifications.ts.                        *)
(*                                                                         *)
(* A pattern is <<g, e>>: the event e of the group g, or with e = "*" the  *)
(* wildcard of the group; All is the pattern "*".  The empty subscription  *)
(* is one to everything.                                                   *)
(***************************************************************************)
EXTENDS Naturals, FiniteSets

CONSTANTS
    Catalogue,    \* the events the picker lists
    OtherEvents,  \* events it does not list
    Custom,       \* the patterns typed
    FirstEvents,  \* the subscriptions to begin with
    Visits,       \* what a behaviour is about: [tab, picks, calls, kinds], picks a bound
                  \* on the changes of a subscription per opening of its form, calls on the
                  \* requests, of these kinds
    MaxCalls,     \* bound: requests of this console
    MaxOtherEdits     \* bound: changes elsewhere and lost answers

ASSUME NotifyConsoleAssumption ==
    /\ MaxCalls \in Nat /\ MaxOtherEdits \in Nat
    /\ \A v \in Visits : v.picks \in Nat /\ v.calls \in 0..MaxCalls

VARIABLES
    chans,     \* the channels of the server: id -> [has, kind, events, secret]
    smtp,      \* the relay: [terms, secret, at]
    visit,     \* the element of Visits chosen
    shown,     \* the tab "channels", "smtp" or "else"
    chansQ,    \* the channels as cached: id -> [has, kind, events, set]
    smtpQ,     \* the relay as cached: [terms, set, at], at 0 when not read
    box,       \* the channel form: [id, kind, events, picks, error], id 99 when closed
    bin,       \* the dialog that deletes a channel: its id, or 0
    calls,     \* requests under way
    called,
    otherEdits

notUi == <<visit, shown, chansQ, smtpQ, box, bin>>
notVars == <<chans, smtp, notUi, calls, called, otherEdits>>

-----------------------------------------------------------------------------
(* Subscriptions.                                                          *)

All == <<"*", "*">>
Events == Catalogue \cup OtherEvents
Groups == {e[1] : e \in Catalogue}
wildcard(g) == <<g, "*">>

matchEvent(ps, e) ==
    \/ ps = {}
    \/ \E p \in ps : p = All \/ p = e \/ p = wildcard(e[1])

coveredEvents(ps) == {e \in Events : matchEvent(ps, e)}

toggleWildcard(ps, g, on) ==
    IF on THEN {p \in ps : p[1] # g} \cup {wildcard(g)} ELSE ps \ {wildcard(g)}

toggleEvent(ps, e, on) == IF on THEN ps \cup {e} ELSE ps \ {e}

customPatterns(ps) == ps \ (Catalogue \cup {wildcard(g) : g \in Groups} \cup {All})

addCustom(ps, p) == (ps \ {All}) \cup {p}

(* The subscription a save sends.                                          *)
common(d) == d \ {All}

-----------------------------------------------------------------------------
(* The server.                                                             *)

NoChannel == [has |-> FALSE, kind |-> "email", events |-> {}, secret |-> ""]
ChannelIds == 1..(1 + MaxCalls)

channelOut(c) == [has |-> c.has, kind |-> c.kind, events |-> c.events, set |-> c.secret # ""]
channelsOut == [i \in ChannelIds |-> channelOut(chans[i])]
smtpOut == [terms |-> smtp.terms, set |-> smtp.secret # "", at |-> smtp.at]

\* Mutant: a secret that is not in the request is removed.
storedChannel_Omitted(old, secret) == IF secret = "keep" THEN "" ELSE secret

(* The secret after a request: omitted it is kept, "" removes it.          *)
storedChannel(old, secret) == IF secret = "keep" THEN old ELSE secret

-----------------------------------------------------------------------------
(* The page.                                                               *)

NoBox == [id |-> 99, kind |-> "email", events |-> {}, picks |-> 0, error |-> FALSE]
NoList == [i \in ChannelIds |-> channelOut(NoChannel)]
NoRelay == [terms |-> 0, set |-> FALSE, at |-> 0]
Quiet == box.id = 99 /\ bin = 0

(* Coming back after staleTime, the channels are read; the relay, which is *)
(* not polled, may be shown as cached.                                     *)
GoToTab(t) ==
    /\ t \in {visit.tab, "else"} \ {shown} /\ Quiet /\ shown' = t
    /\ chansQ' = IF t = "channels" THEN channelsOut ELSE NoList
    /\ \/ smtpQ' = IF t = "smtp" THEN smtpOut ELSE smtpQ
       \/ smtpQ.at # 0 /\ smtpQ' = smtpQ
    /\ calls' = {[c EXCEPT !.here = FALSE, !.current = FALSE] : c \in calls}
    /\ UNCHANGED <<chans, smtp, visit, box, bin, called, otherEdits>>

(* What a new list does to the dialogs of its rows.                        *)
Lists(q, cs) ==
    LET goneBox == box.id \in ChannelIds /\ ~q[box.id].has
        goneBin == bin # 0 /\ ~q[bin].has
    IN  /\ chansQ' = q
        /\ box' = IF goneBox THEN NoBox ELSE box
        /\ bin' = IF goneBin THEN 0 ELSE bin
        /\ calls' = {[c EXCEPT !.current = @ /\ (c.kind \in {"create", "smtp"} \/ q[c.id].has)] : c \in cs}

PollChannels ==
    /\ shown = "channels" /\ chansQ # channelsOut
    /\ Lists(channelsOut, calls)
    /\ UNCHANGED <<chans, smtp, visit, shown, smtpQ, called, otherEdits>>

(* ChannelFormDialog: opening fills the draft and resets the mutation; an  *)
(* id of 0 is a new channel.                                               *)
newChannelDraft == {CHOOSE e \in Catalogue : TRUE}

OpenBox(i) ==
    /\ shown = "channels" /\ Quiet /\ (IF i = 0 THEN "create" ELSE "update") \in visit.kinds
    /\ \/ i = 0 /\ \E k \in {"email", "webhook"} :
              box' = [NoBox EXCEPT !.id = 0, !.kind = k, !.events = newChannelDraft]
       \/ i # 0 /\ chansQ[i].has
          /\ box' = [NoBox EXCEPT !.id = i, !.kind = chansQ[i].kind, !.events = chansQ[i].events]
    /\ calls' = {[c EXCEPT !.current = @ /\ ~(c.kind \in {"create", "update"} /\ c.id = i)] : c \in calls}
    /\ UNCHANGED <<chans, smtp, visit, shown, chansQ, smtpQ, bin, called, otherEdits>>

CloseBox ==
    /\ box.id # 99
    /\ box' = NoBox
    /\ UNCHANGED <<chans, smtp, visit, shown, chansQ, smtpQ, bin, calls, called, otherEdits>>

BoxWaits == \E c \in calls : c.kind \in {"create", "update"} /\ c.id = box.id /\ c.current

(* EventPicker: with everything subscribed only "All events" is offered;   *)
(* an event under its group's wildcard cannot be toggled.                  *)
all(ps) == ps = {} \/ All \in ps

Picks(ps) ==
    IF all(ps) THEN {newChannelDraft}
    ELSE {{}}
         \cup {toggleWildcard(ps, g, wildcard(g) \notin ps) : g \in Groups}
         \cup {toggleEvent(ps, e, e \notin ps) : e \in {x \in Catalogue : wildcard(x[1]) \notin ps}}
         \cup {addCustom(ps, p) : p \in Custom}
         \cup {ps \ {p} : p \in customPatterns(ps)}

Pick ==
    /\ box.id # 99 /\ ~BoxWaits /\ box.picks < visit.picks
    /\ \E ps \in Picks(box.events) \ {box.events} :
           box' = [box EXCEPT !.events = ps, !.picks = @ + 1]
    /\ UNCHANGED <<chans, smtp, visit, shown, chansQ, smtpQ, bin, calls, called, otherEdits>>

Call(kind, i, k, ps, lost, secret, terms) ==
    /\ kind \in visit.kinds /\ called < visit.calls /\ called' = called + 1
    /\ calls' = calls \cup {[n |-> called', kind |-> kind, id |-> i, ckind |-> k, events |-> ps, lost |-> lost,
                             secret |-> secret, terms |-> terms, here |-> TRUE, current |-> TRUE, st |-> "sent",
                             got |-> NoRelay]}

(* secretField: "keep", "" to remove, or a new one; an email channel has   *)
(* none, a new one nothing to remove.                                      *)
secretsFor(i, k) ==
    IF k = "email" THEN {"keep"} ELSE IF i = 0 THEN {"keep", "s"} ELSE {"keep", "", "s"}

SubmitBox ==
    /\ box.id # 99 /\ ~BoxWaits
    /\ \E s \in secretsFor(box.id, box.kind) :
           Call(IF box.id = 0 THEN "create" ELSE "update", box.id, box.kind, common(box.events),
                coveredEvents(box.events) \ coveredEvents(common(box.events)), s, 0)
    /\ box' = [box EXCEPT !.error = FALSE]
    /\ UNCHANGED <<chans, smtp, visit, shown, chansQ, smtpQ, bin, otherEdits>>

(* DeleteChannelButton, SendTestButton                                     *)
OpenBin(i) ==
    /\ shown = "channels" /\ Quiet /\ chansQ[i].has /\ "delete" \in visit.kinds
    /\ bin' = i
    /\ UNCHANGED <<chans, smtp, visit, shown, chansQ, smtpQ, box, calls, called, otherEdits>>

CloseBin ==
    /\ bin # 0
    /\ bin' = 0
    /\ UNCHANGED <<chans, smtp, visit, shown, chansQ, smtpQ, box, calls, called, otherEdits>>

Busy(kind, i) == \E c \in calls : c.kind = kind /\ c.id = i /\ c.current

SubmitBin ==
    /\ bin # 0 /\ ~Busy("delete", bin)
    /\ Call("delete", bin, "email", {}, {}, "keep", 0)
    /\ UNCHANGED <<chans, smtp, notUi, otherEdits>>

SendTest(i) ==
    /\ shown = "channels" /\ Quiet /\ chansQ[i].has /\ ~Busy("test", i)
    /\ Call("test", i, "email", {}, {}, "keep", 0)
    /\ UNCHANGED <<chans, smtp, notUi, otherEdits>>

(* SmtpForm: a password is removed only when one is set.                   *)
SubmitSmtp ==
    /\ shown = "smtp" /\ ~Busy("smtp", 0)
    /\ \E s \in {"keep", "s"} \cup (IF smtpQ.set THEN {""} ELSE {}), v \in 1..2 :
           Call("smtp", 0, "email", {}, {}, s, v)
    /\ UNCHANGED <<chans, smtp, notUi, otherEdits>>

-----------------------------------------------------------------------------
(* The requests.                                                           *)

Turns(c, st) == calls' = (calls \ {c}) \cup {[c EXCEPT !.st = st]}
NotifyAnswers(c, ok) == Turns(c, IF ok THEN "ok" ELSE "refused")

createChannel(c) ==
    /\ c.kind = "create" /\ c.st = "sent"
    /\ chans' = [chans EXCEPT ![1 + c.n] =
                     [has |-> TRUE, kind |-> c.ckind, events |-> c.events, secret |-> storedChannel("", c.secret)]]
    /\ NotifyAnswers(c, TRUE) /\ UNCHANGED smtp

(* The channel is looked up before the body is read; one deleted meanwhile *)
(* is changed to no effect.                                                *)
updateChannel(c) ==
    /\ c.kind = "update" /\ UNCHANGED smtp
    /\ \/ c.st = "sent" /\ Turns(c, IF chans[c.id].has THEN "found" ELSE "refused") /\ UNCHANGED chans
       \/ /\ c.st = "found" /\ NotifyAnswers(c, TRUE)
          /\ chans' = IF ~chans[c.id].has THEN chans
                      ELSE [chans EXCEPT ![c.id].events = c.events, ![c.id].secret = storedChannel(@, c.secret)]

deleteChannel(c) ==
    /\ c.kind = "delete" /\ c.st = "sent"
    /\ chans' = [chans EXCEPT ![c.id] = NoChannel]
    /\ NotifyAnswers(c, chans[c.id].has) /\ UNCHANGED smtp

testChannel(c) ==
    /\ c.kind = "test" /\ c.st = "sent"
    /\ NotifyAnswers(c, chans[c.id].has) /\ UNCHANGED <<chans, smtp>>

updateSmtp(c) ==
    /\ c.kind = "smtp" /\ c.st = "sent"
    /\ smtp' = [terms |-> c.terms, secret |-> storedChannel(smtp.secret, c.secret), at |-> smtp.at + 1]
    /\ calls' = (calls \ {c}) \cup {[c EXCEPT !.st = "ok",
                     !.got = [terms |-> c.terms, set |-> smtp'.secret # "", at |-> smtp.at + 1]]}
    /\ UNCHANGED chans

HandleCall(c) ==
    /\ createChannel(c) \/ updateChannel(c) \/ deleteChannel(c) \/ testChannel(c) \/ updateSmtp(c)
    /\ UNCHANGED <<notUi, called, otherEdits>>

(* The form that sent it closes, whichever opening of it; the list is read *)
(* again.  The relay's answer is cached, and mounts its form anew.         *)
CallOnSuccess(c) ==
    LET rest == calls \ {c}
        ui == shown = "channels" /\ c.kind # "smtp"
        mine == c.here /\ c.kind \in {"create", "update"} /\ box.id = c.id
    IN  /\ c.st = "ok"
        /\ smtpQ' = IF c.kind = "smtp" THEN c.got ELSE smtpQ
        /\ chansQ' = IF ui THEN channelsOut ELSE chansQ
        /\ box' = IF mine \/ (ui /\ box.id \in ChannelIds /\ ~channelsOut[box.id].has) THEN NoBox ELSE box
        /\ bin' = IF (c.here /\ c.kind = "delete" /\ bin = c.id) \/ (ui /\ bin # 0 /\ ~channelsOut[bin].has)
                  THEN 0 ELSE bin
        /\ calls' = {[x EXCEPT !.current = @ /\ (x.kind = "smtp" => c.kind # "smtp")
                                             /\ (~ui \/ x.kind \in {"create", "smtp"} \/ channelsOut[x.id].has)]
                        : x \in rest}
        /\ UNCHANGED <<chans, smtp, visit, shown, called, otherEdits>>

CallOnError(c) ==
    /\ \/ c.st = "refused" /\ otherEdits' = otherEdits
       \/ c.st \in {"sent", "ok"} /\ otherEdits < MaxOtherEdits /\ otherEdits' = otherEdits + 1
    /\ box' = IF c.here /\ c.kind \in {"create", "update"} /\ box.id = c.id THEN [box EXCEPT !.error = TRUE] ELSE box
    /\ calls' = calls \ {c}
    /\ UNCHANGED <<chans, smtp, visit, shown, chansQ, smtpQ, bin, called>>

(* Another manager writes or deletes the first channel.                    *)
OtherChanges ==
    /\ otherEdits < MaxOtherEdits /\ otherEdits' = otherEdits + 1
    /\ chans[1].has
    /\ \/ chans' = [chans EXCEPT ![1] = NoChannel]
       \/ \E ps \in FirstEvents \ {chans[1].events} : chans' = [chans EXCEPT ![1].events = ps]
    /\ UNCHANGED <<smtp, notUi, calls, called>>

-----------------------------------------------------------------------------
NotInit ==
    /\ \E ps \in FirstEvents :
           chans = [i \in ChannelIds |-> IF i = 1 THEN [has |-> TRUE, kind |-> "webhook", events |-> ps, secret |-> "s0"]
                                         ELSE NoChannel]
    /\ smtp = [terms |-> 1, secret |-> "s0", at |-> 1]
    /\ visit \in Visits
    /\ shown = "else" /\ chansQ = NoList /\ smtpQ = NoRelay /\ box = NoBox /\ bin = 0
    /\ calls = {} /\ called = 0 /\ otherEdits = 0

CallSteps(c) == HandleCall(c) \/ CallOnSuccess(c) \/ CallOnError(c)

NotNext ==
    \/ \E t \in {"channels", "smtp", "else"} : GoToTab(t)
    \/ PollChannels
    \/ \E i \in ChannelIds \cup {0} : OpenBox(i)
    \/ CloseBox \/ Pick \/ SubmitBox
    \/ \E i \in ChannelIds : OpenBin(i) \/ SendTest(i)
    \/ CloseBin \/ SubmitBin \/ SubmitSmtp
    \/ \E c \in calls : CallSteps(c)
    \/ OtherChanges

(* The server answers, the browser runs callbacks and the poll's timer.    *)
NotFairness == WF_notVars(\E c \in calls : CallSteps(c)) /\ WF_notVars(PollChannels)

NotSpec == NotInit /\ [][NotNext]_notVars /\ NotFairness

-----------------------------------------------------------------------------
(* The values of the variables; a dialog is open over a row of the list,   *)
(* and an email channel has no secret.                                     *)
NotTypeOK ==
    /\ \A i \in ChannelIds : chans[i].kind = "email" => chans[i].secret = ""
    /\ box.id # 99 \/ bin # 0 => shown = "channels"
    /\ box.id \in ChannelIds => chansQ[box.id].has
    /\ bin # 0 => chansQ[bin].has
    /\ \A c \in calls : c.current => c.here

(* A subscription saved delivers the events the picker said it delivers    *)
(* (the summary below the picker; common).                                 *)
SavedIsShown == \A c \in calls : c.lost = {}

(* Turning on the wildcard of a group never ends the delivery of an event, *)
(* whatever was picked or typed before (toggleWildcard).                   *)
WildcardLosesNothing ==
    [][\A g \in Groups :
          box.id # 99 /\ box'.id = box.id /\ box'.picks > box.picks
          /\ wildcard(g) \in box'.events \ box.events => coveredEvents(box.events) \subseteq coveredEvents(box'.events)]_notVars

(* A stored secret changes only by a request that carries another, or the  *)
(* empty one: no edit of anything else loses a secret the console cannot   *)
(* read back (secretField; the PUT routes).                                *)
SecretsAreKept ==
    [][/\ \A i \in ChannelIds :
              chans[i].has /\ chans'[i].has /\ chans[i].secret # chans'[i].secret =>
                  \E c \in calls : c.id = i /\ c.secret = chans'[i].secret
       /\ smtp.secret # smtp'.secret => \E c \in calls : c.kind = "smtp" /\ c.secret = smtp'.secret]_notVars

(* The list of channels comes to be as the server has it.                  *)
ChannelsSettle == []<>(shown # "channels" \/ chansQ = channelsOut)
=============================================================================
