----------------------------- MODULE HostLimits -----------------------------
(***************************************************************************)
(* The limits of a host: how many jobs it runs at once and the window its  *)
(* scheduled backups may start in.  The card that edits them, the API that *)
(* stores them, and the wait the scheduler derives from them.              *)
(*                                                                         *)
(* web/src/components/hosts/host-limits-card.tsx; web/src/lib/             *)
(* protection.ts (minutesToHHMM, hhmmToMinutes, describeWindow);           *)
(* web/scripts/mock-protection.mjs (the settings routes);                  *)
(* internal/protection/settings.go (WaitForWindow).                        *)
(*                                                                         *)
(* A time is its hours and minutes as typed; seconds and changes of the    *)
(* clock of a time zone are left out.                                      *)
(***************************************************************************)
EXTENDS Integers, Sequences

CONSTANTS
    Zones,          \* the time zones the browser and the server know
    LimDrafts,      \* what is typed into the form
    OtherLimits,    \* what other clients of the API store
    LimMinutes,     \* the minutes of the day the scheduler looks at the window
    MaxLimSaves     \* bound: saves of this console

DAY == 1440
Unset == -1                              \* null, NaN, or an emptied field
MinuteOfDay == 0..(DAY - 1)
MAX_CONCURRENT_JOBS == 16
NoTime == [h |-> Unset, m |-> Unset]

WindowOk(s, e) == (s = Unset /\ e = Unset) \/ (s \in MinuteOfDay /\ e \in MinuteOfDay)

HostSettings ==
    {l \in [jobs: 1..MAX_CONCURRENT_JOBS, start: {Unset} \union MinuteOfDay,
            end: {Unset} \union MinuteOfDay, zone: Zones] : WindowOk(l.start, l.end)}

TimeTexts == [h: Int, m: Int]
LimitsDraft == [jobs: Int, noWindow: BOOLEAN, start: TimeTexts, end: TimeTexts, zone: STRING]

ASSUME LimitsAssumption ==
    /\ Zones \subseteq STRING /\ "UTC" \in Zones
    /\ LimDrafts \subseteq LimitsDraft
    /\ OtherLimits \subseteq HostSettings
    /\ LimMinutes \subseteq MinuteOfDay
    /\ MaxLimSaves \in Nat

VARIABLES
    limits,    \* the stored settings
    limOpen,   \* the page of the host is open
    limQ,      \* the query: [st, data]
    limGet,    \* the read under way: [st, data]
    limForm,   \* the form: [on, draft, error, mine], mine the save it waits for
    limPuts    \* the saves: [st, body]

limVars == <<limits, limOpen, limQ, limGet, limForm, limPuts>>

-----------------------------------------------------------------------------
(* Times and the window.                                                   *)

minutesToHHMM(n) ==
    IF n \in MinuteOfDay THEN [h |-> n \div 60, m |-> n % 60] ELSE NoTime

hhmmToMinutes(t) ==
    IF t.h \in 0..23 /\ t.m \in 0..59 THEN t.h * 60 + t.m ELSE Unset

describeWindow(s, e) ==
    IF s = Unset \/ e = Unset THEN "no window"
    ELSE IF s = e THEN "all day"
    ELSE IF s > e THEN "overnight" ELSE "same day"

\* Mutant: a window that wraps midnight is closed after it.
WaitForWindow_NoWrap(l, minute) ==
    LET open == \/ l.start <= l.end /\ minute >= l.start /\ minute < l.end
                \/ l.start > l.end /\ minute >= l.start
        wait == l.start - minute
    IN  IF l.start = Unset \/ l.end = Unset \/ open \/ l.start = l.end THEN 0
        ELSE IF wait < 0 THEN wait + DAY ELSE wait

(* Minutes until a scheduled backup may start.                             *)
WaitForWindow(l, minute) ==
    LET open == \/ l.start <= l.end /\ minute >= l.start /\ minute < l.end
                \/ l.start > l.end /\ (minute >= l.start \/ minute < l.end)
        wait == l.start - minute
    IN  IF l.start = Unset \/ l.end = Unset \/ open \/ l.start = l.end THEN 0
        ELSE IF wait < 0 THEN wait + DAY ELSE wait

-----------------------------------------------------------------------------
(* The form.                                                               *)

limitsToDraft(s) ==
    LET no == s.start = Unset \/ s.end = Unset
    IN  [jobs |-> s.jobs, noWindow |-> no,
         start |-> IF no THEN [h |-> 22, m |-> 0] ELSE minutesToHHMM(s.start),
         end |-> IF no THEN [h |-> 6, m |-> 0] ELSE minutesToHHMM(s.end),
         zone |-> s.zone]

draftAccepted(d) ==
    /\ ~d.noWindow => hhmmToMinutes(d.start) # Unset /\ hhmmToMinutes(d.end) # Unset
    /\ d.zone \in Zones
    /\ d.jobs \in 1..MAX_CONCURRENT_JOBS

draftToLimits(d) ==
    [jobs |-> d.jobs, zone |-> d.zone,
     start |-> IF d.noWindow THEN Unset ELSE hhmmToMinutes(d.start),
     end |-> IF d.noWindow THEN Unset ELSE hhmmToMinutes(d.end)]

NoLimits == [jobs |-> Unset, start |-> Unset, end |-> Unset, zone |-> "UTC"]
NoLimForm ==
    [on |-> FALSE, draft |-> limitsToDraft(NoLimits), error |-> FALSE, mine |-> 0]
FreshForm(data) ==
    [on |-> TRUE, draft |-> limitsToDraft(data), error |-> FALSE, mine |-> 0]

(* HostLimitsCard: the form is there while the query has data and no error. *)
CardShows(open, q) ==
    IF open /\ q.st = "success" THEN IF limForm.on THEN limForm ELSE FreshForm(q.data)
    ELSE NoLimForm

LimIdle == [st |-> "idle", data |-> NoLimits]
LimAsked == [st |-> "asked", data |-> NoLimits]

LimInit ==
    /\ limits \in OtherLimits
    /\ limOpen = FALSE
    /\ limQ = [st |-> "pending", data |-> NoLimits]
    /\ limGet = LimIdle
    /\ limForm = NoLimForm
    /\ limPuts = <<>>

(* The page is opened: cached data is shown while it is read again.        *)
OpenLimits ==
    /\ ~limOpen
    /\ limOpen' = TRUE
    /\ limGet' = LimAsked
    /\ limForm' = CardShows(TRUE, limQ)
    /\ UNCHANGED <<limits, limQ, limPuts>>

LeaveLimits ==
    /\ limOpen
    /\ limOpen' = FALSE
    /\ limForm' = NoLimForm
    /\ UNCHANGED <<limits, limQ, limGet, limPuts>>

(* Focus, "Try again", or an invalidation of the hosts.                    *)
RefetchLimits ==
    /\ limOpen
    /\ limGet' = LimAsked
    /\ UNCHANGED <<limits, limOpen, limQ, limForm, limPuts>>

HandleGetLimits ==
    /\ limGet.st = "asked"
    /\ limGet' = [st |-> "read", data |-> limits]
    /\ UNCHANGED <<limits, limOpen, limQ, limForm, limPuts>>

LimitsLand ==
    /\ limGet.st = "read"
    /\ limQ' = [st |-> "success", data |-> limGet.data]
    /\ limGet' = LimIdle
    /\ limForm' = CardShows(limOpen, limQ')
    /\ UNCHANGED <<limits, limOpen, limPuts>>

(* A read that fails takes the form away, with what was typed.             *)
LimitsReadFails ==
    /\ limGet.st # "idle"
    /\ limQ' = [limQ EXCEPT !.st = "error"]
    /\ limGet' = LimIdle
    /\ limForm' = CardShows(limOpen, limQ')
    /\ UNCHANGED <<limits, limOpen, limPuts>>

EditLimits ==
    /\ limForm.on /\ limForm.mine = 0
    /\ \E d \in LimDrafts : limForm' = [limForm EXCEPT !.draft = d]
    /\ UNCHANGED <<limits, limOpen, limQ, limGet, limPuts>>

SubmitLimits ==
    /\ limForm.on /\ limForm.mine = 0 /\ Len(limPuts) < MaxLimSaves
    /\ IF draftAccepted(limForm.draft)
       THEN /\ limPuts' = Append(limPuts, [st |-> "sent", body |-> draftToLimits(limForm.draft)])
            /\ limForm' = [limForm EXCEPT !.error = FALSE, !.mine = Len(limPuts) + 1]
       ELSE /\ limForm' = [limForm EXCEPT !.error = TRUE]
            /\ UNCHANGED limPuts
    /\ UNCHANGED <<limits, limOpen, limQ, limGet>>

-----------------------------------------------------------------------------
(* The API.                                                                *)

putAccepted(b) ==
    b.jobs \in 1..MAX_CONCURRENT_JOBS /\ WindowOk(b.start, b.end) /\ b.zone \in Zones

HandlePutLimits(k) ==
    /\ limPuts[k].st = "sent"
    /\ IF putAccepted(limPuts[k].body)
       THEN /\ limits' = limPuts[k].body
            /\ limPuts' = [limPuts EXCEPT ![k].st = "stored"]
       ELSE /\ limPuts' = [limPuts EXCEPT ![k].st = "refused"]
            /\ UNCHANGED limits
    /\ UNCHANGED <<limOpen, limQ, limGet, limForm>>

(* The request or its answer is lost.                                      *)
PutLimitsLost(k) ==
    /\ limPuts[k].st \in {"sent", "stored"}
    /\ limPuts' = [limPuts EXCEPT ![k].st = "refused"]
    /\ UNCHANGED <<limits, limOpen, limQ, limGet, limForm>>

(* onSuccess of the save, also after its form is gone.                     *)
LimitsSaved(k) ==
    /\ limPuts[k].st = "stored"
    /\ limPuts' = [limPuts EXCEPT ![k].st = "done"]
    /\ limQ' = [st |-> "success", data |-> limPuts[k].body]
    /\ limForm' = IF limForm.on /\ limForm.mine = k
                  THEN [limForm EXCEPT !.draft = limitsToDraft(limPuts[k].body), !.mine = 0]
                  ELSE CardShows(limOpen, limQ')
    /\ UNCHANGED <<limits, limOpen, limGet>>

LimitsNotSaved(k) ==
    /\ limPuts[k].st = "refused"
    /\ limPuts' = [limPuts EXCEPT ![k].st = "done"]
    /\ limForm' = IF limForm.mine = k THEN [limForm EXCEPT !.error = TRUE, !.mine = 0] ELSE limForm
    /\ UNCHANGED <<limits, limOpen, limQ, limGet>>

OtherPutsLimits ==
    /\ limits' \in OtherLimits
    /\ UNCHANGED <<limOpen, limQ, limGet, limForm, limPuts>>

LimNext ==
    \/ OpenLimits \/ LeaveLimits \/ RefetchLimits
    \/ HandleGetLimits \/ LimitsLand \/ LimitsReadFails
    \/ EditLimits \/ SubmitLimits \/ OtherPutsLimits
    \/ \E k \in 1..Len(limPuts) :
          HandlePutLimits(k) \/ PutLimitsLost(k) \/ LimitsSaved(k) \/ LimitsNotSaved(k)

LimSpec == LimInit /\ [][LimNext]_limVars

-----------------------------------------------------------------------------
(* The stored settings have one of the forms the API accepts, and a form   *)
(* on show waits for a save it has sent.                                   *)
LimTypeOK ==
    /\ limits \in HostSettings
    /\ limOpen \in BOOLEAN
    /\ limQ.st \in {"pending", "success", "error"}
    /\ limQ.st = "success" => limQ.data \in HostSettings
    /\ limGet.st \in {"idle", "asked", "read"}
    /\ limGet.st = "read" => limGet.data \in HostSettings
    /\ limForm.on => limOpen /\ limQ.st = "success" /\ limForm.mine \in 0..Len(limPuts)
    /\ \A k \in 1..Len(limPuts) : limPuts[k].st \in {"sent", "stored", "refused", "done"}

(* Saving a form nobody edited changes nothing: the draft made of the      *)
(* stored settings is accepted and turns back into them, at every minute   *)
(* of the day.                                                             *)
UneditedLimitsKeep ==
    LET d == limitsToDraft(limits) IN draftAccepted(d) /\ draftToLimits(d) = limits

(* While a save is under way the form shows what was sent, so the answer,  *)
(* which fills the form anew, takes nothing away that was typed since.     *)
SentIsShown ==
    limForm.mine # 0 =>
        /\ limPuts[limForm.mine].st # "done"
        /\ draftToLimits(limForm.draft) = limPuts[limForm.mine].body

(* The API accepts whatever the form lets through.                         *)
LimitsAccepted == \A k \in 1..Len(limPuts) : putAccepted(limPuts[k].body)

(* Minutes from the start of the window, going round the day.              *)
Into(l, minute) == (minute - l.start) % DAY
Inside(l, minute) ==
    l.start = Unset \/ l.start = l.end \/ Into(l, minute) < (l.end - l.start) % DAY

(* WaitForWindow ends in the window, at the first minute that is in it,    *)
(* whether or not the window wraps midnight.                               *)
WaitEndsInWindow ==
    \A minute \in LimMinutes :
        LET wait == WaitForWindow(limits, minute)
        IN  /\ wait \in MinuteOfDay
            /\ Inside(limits, (minute + wait) % DAY)
            /\ \A n \in LimMinutes : Inside(limits, n) => wait <= (n - minute) % DAY

(* What the card says of the window is how WaitForWindow will read it: a   *)
(* window that is none or all day never waits, an overnight one, and no    *)
(* other, is open in the last minute of the day.                           *)
SummaryIsTrue ==
    limForm.on /\ draftAccepted(limForm.draft) =>
        LET l == draftToLimits(limForm.draft)
            says == describeWindow(l.start, l.end)
        IN  IF says \in {"no window", "all day"}
            THEN \A minute \in LimMinutes : WaitForWindow(l, minute) = 0
            ELSE /\ WaitForWindow(l, l.start) = 0 /\ WaitForWindow(l, l.end) # 0
                 /\ (says = "overnight") <=> (WaitForWindow(l, DAY - 1) = 0)
=============================================================================
