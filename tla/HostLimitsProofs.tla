-------------------------- MODULE HostLimitsProofs --------------------------
(***************************************************************************)
(* Proofs about the limits of a host: conversions, the wait for the window *)
(* and the form, for every minute of the day, draft and order of answers.  *)
(***************************************************************************)
EXTENDS HostLimits, TLAPS

-----------------------------------------------------------------------------
(* The conversions.                                                        *)

(* A minute of the day is a number, and set.                               *)
LEMMA MinutesAreNumbers ==
    ASSUME NEW x \in MinuteOfDay
    PROVE  x \in 0..1439 /\ x \in Int /\ x # Unset
BY DEF MinuteOfDay, DAY, Unset

(* hhmmToMinutes undoes minutesToHHMM at every minute of the day.          *)
LEMMA TimesConvertBack ==
    ASSUME NEW n \in MinuteOfDay
    PROVE  hhmmToMinutes(minutesToHHMM(n)) = n
<1>1. n \div 60 \in 0..23 /\ n % 60 \in 0..59 /\ (n \div 60) * 60 + (n % 60) = n
  BY DEF MinuteOfDay, DAY
<1> QED
  BY <1>1 DEF hhmmToMinutes, minutesToHHMM

(* hhmmToMinutes yields a minute of the day, or nothing.                   *)
LEMMA TimesAreMinutes ==
    ASSUME NEW t \in TimeTexts
    PROVE  hhmmToMinutes(t) \in {Unset} \union MinuteOfDay
BY DEF hhmmToMinutes, TimeTexts, MinuteOfDay, DAY, Unset

(* minutesToHHMM yields a time the form can hold.                          *)
LEMMA MinutesAreTimes ==
    ASSUME NEW n \in Int
    PROVE  minutesToHHMM(n) \in TimeTexts
BY DEF minutesToHHMM, TimeTexts, MinuteOfDay, DAY, NoTime, Unset

(* What limitsToDraft makes of stored settings is a draft, accepted by the *)
(* form and turned back into the same settings by draftToLimits.           *)
LEMMA SettingsConvertBack ==
    ASSUME NEW s \in HostSettings
    PROVE  LET d == limitsToDraft(s)
           IN  d \in LimitsDraft /\ draftAccepted(d) /\ draftToLimits(d) = s
<1> DEFINE d == limitsToDraft(s)
<1>1. /\ s = [jobs |-> s.jobs, start |-> s.start, end |-> s.end, zone |-> s.zone]
      /\ s.jobs \in 1..16 /\ s.zone \in Zones /\ s.zone \in STRING
      /\ \/ s.start = Unset /\ s.end = Unset
         \/ s.start \in MinuteOfDay /\ s.end \in MinuteOfDay
  BY LimitsAssumption DEF HostSettings, WindowOk, MAX_CONCURRENT_JOBS
<1>2. CASE s.start = Unset /\ s.end = Unset
  <2>1. d = [jobs |-> s.jobs, noWindow |-> TRUE, start |-> [h |-> 22, m |-> 0],
             end |-> [h |-> 6, m |-> 0], zone |-> s.zone]
    BY <1>2 DEF limitsToDraft
  <2>2. d \in LimitsDraft
    BY <1>1, <2>1 DEF LimitsDraft, TimeTexts
  <2>3. draftAccepted(d)
    BY <1>1, <2>1 DEF draftAccepted, MAX_CONCURRENT_JOBS
  <2>4. draftToLimits(d) = s
    BY <1>1, <1>2, <2>1 DEF draftToLimits
  <2> QED  BY <2>2, <2>3, <2>4
<1>3. CASE s.start \in MinuteOfDay /\ s.end \in MinuteOfDay
  <2>1. s.start # Unset /\ s.end # Unset /\ s.start \in Int /\ s.end \in Int
    BY <1>3, MinutesAreNumbers
  <2>2. d = [jobs |-> s.jobs, noWindow |-> FALSE, start |-> minutesToHHMM(s.start),
             end |-> minutesToHHMM(s.end), zone |-> s.zone]
    BY <2>1, Zenon DEF limitsToDraft
  <2>3. d \in LimitsDraft
    BY <1>1, <2>1, <2>2, MinutesAreTimes DEF LimitsDraft
  <2>4. hhmmToMinutes(d.start) = s.start /\ hhmmToMinutes(d.end) = s.end
    BY <1>3, <2>2, TimesConvertBack
  <2>5. draftAccepted(d)
    BY <1>1, <2>1, <2>2, <2>4 DEF draftAccepted, MAX_CONCURRENT_JOBS
  <2>6. draftToLimits(d) = s
    BY <1>1, <2>2, <2>4 DEF draftToLimits
  <2> QED  BY <2>3, <2>5, <2>6
<1> QED
  BY <1>1, <1>2, <1>3

(* The API stores what the form accepts.                                   *)
LEMMA AcceptedDraftIsSettings ==
    ASSUME NEW d \in LimitsDraft, draftAccepted(d)
    PROVE  draftToLimits(d) \in HostSettings /\ putAccepted(draftToLimits(d))
<1>1. /\ hhmmToMinutes(d.start) \in {Unset} \union MinuteOfDay
      /\ hhmmToMinutes(d.end) \in {Unset} \union MinuteOfDay
  BY TimesAreMinutes DEF LimitsDraft
<1>2. WindowOk(draftToLimits(d).start, draftToLimits(d).end)
  BY <1>1 DEF WindowOk, draftToLimits, draftAccepted, LimitsDraft
<1> QED
  BY <1>1, <1>2 DEF draftAccepted, draftToLimits, HostSettings, putAccepted, LimitsDraft

-----------------------------------------------------------------------------
(* The window.                                                             *)

(* Going round the day: what is left of d minutes, and how to compute it   *)
(* when d is less than a day before the start or two days after it.        *)
Rem(d) == d % DAY
DayOf(d) == IF d < 0 THEN d + 1440 ELSE IF d < 1440 THEN d ELSE d - 1440

(* (d % DAY) is one addition or subtraction away for the differences and   *)
(* sums of two minutes of the day.                                         *)
LEMMA RoundTheDay ==
    \A d \in Int : -1440 < d /\ d < 2880 => Rem(d) = DayOf(d)
<1> SUFFICES ASSUME NEW d \in Int, -1440 < d, d < 2880 PROVE Rem(d) = DayOf(d)
  OBVIOUS
<1>1. CASE d < 0
  BY <1>1 DEF DayOf, DAY, Rem
<1>2. CASE d >= 0 /\ d < 1440
  BY <1>2 DEF DayOf, DAY, Rem
<1>3. CASE d >= 1440
  BY <1>3 DEF DayOf, DAY, Rem
<1> QED
  BY <1>1, <1>2, <1>3

(* The test of WaitForWindow for a window from s to e, and the wait.       *)
OpenAt(s, e, x) == \/ s <= e /\ x >= s /\ x < e
                   \/ s > e /\ (x >= s \/ x < e)
WaitFrom(s, e, x) ==
    IF OpenAt(s, e, x) THEN 0 ELSE IF s - x < 0 THEN s - x + 1440 ELSE s - x

(* The wait is less than a day, ends at a minute the test accepts, and is  *)
(* no longer than the way to any other minute it accepts.                  *)
LEMMA WaitArithmetic ==
    ASSUME NEW s \in MinuteOfDay, NEW e \in MinuteOfDay, s # e,
           NEW x \in MinuteOfDay, NEW n \in MinuteOfDay
    PROVE  /\ WaitFrom(s, e, x) \in MinuteOfDay
           /\ Rem(x + WaitFrom(s, e, x)) \in MinuteOfDay
           /\ OpenAt(s, e, Rem(x + WaitFrom(s, e, x)))
           /\ OpenAt(s, e, n) => WaitFrom(s, e, x) <= Rem(n - x)
<1>1. PICK w : w = WaitFrom(s, e, x)
  OBVIOUS
<1>2. w \in MinuteOfDay
  BY <1>1 DEF WaitFrom, OpenAt, MinuteOfDay, DAY
<1>3. Rem(x + w) = DayOf(x + w) /\ Rem(n - x) = DayOf(n - x)
  BY <1>2, RoundTheDay DEF MinuteOfDay, DAY
<1>4. PICK y : y = DayOf(x + w)
  OBVIOUS
<1>5. y = IF OpenAt(s, e, x) THEN x ELSE s
  BY <1>1, <1>2, <1>4 DEF WaitFrom, DayOf, MinuteOfDay, DAY
<1>6. OpenAt(s, e, s)
  BY DEF OpenAt, MinuteOfDay, DAY
<1>7. y \in MinuteOfDay /\ OpenAt(s, e, y)
  BY <1>5, <1>6
<1>8. OpenAt(s, e, n) => w <= DayOf(n - x)
  BY <1>1 DEF WaitFrom, OpenAt, DayOf, MinuteOfDay, DAY
<1> QED
  BY <1>1, <1>2, <1>3, <1>4, <1>7, <1>8

(* The test accepts the minutes that are less far into the window than its *)
(* end is.                                                                 *)
LEMMA OpenMeansInside ==
    ASSUME NEW s \in MinuteOfDay, NEW e \in MinuteOfDay, s # e, NEW x \in MinuteOfDay
    PROVE  OpenAt(s, e, x) <=> Rem(x - s) < Rem(e - s)
<1>1. Rem(x - s) = DayOf(x - s) /\ Rem(e - s) = DayOf(e - s)
  BY RoundTheDay DEF MinuteOfDay, DAY
<1>2. OpenAt(s, e, x) <=> DayOf(x - s) < DayOf(e - s)
  BY DEF OpenAt, DayOf, MinuteOfDay, DAY
<1> QED
  BY <1>1, <1>2

(* From every minute WaitForWindow leads to the first minute of the day    *)
(* that lies in the window, for windows that wrap midnight and that do not. *)
LEMMA WaitIsFirstMinute ==
    ASSUME NEW l \in HostSettings, NEW minute \in MinuteOfDay, NEW n \in MinuteOfDay
    PROVE  /\ WaitForWindow(l, minute) \in MinuteOfDay
           /\ Inside(l, (minute + WaitForWindow(l, minute)) % DAY)
           /\ Inside(l, n) => WaitForWindow(l, minute) <= (n - minute) % DAY
<1>1. \/ l.start = Unset /\ l.end = Unset
      \/ l.start \in MinuteOfDay /\ l.end \in MinuteOfDay
  BY DEF HostSettings, WindowOk
<1>2. CASE l.start = Unset \/ l.start = l.end
  <2>1. WaitForWindow(l, minute) = 0
    BY <1>1, <1>2 DEF WaitForWindow
  <2>2. 0 \in MinuteOfDay /\ 0 <= (n - minute) % DAY
    BY DEF MinuteOfDay, DAY
  <2>3. Inside(l, (minute + WaitForWindow(l, minute)) % DAY)
    BY <1>2 DEF Inside
  <2> QED  BY <2>1, <2>2, <2>3
<1>3. CASE l.start \in MinuteOfDay /\ l.end \in MinuteOfDay /\ l.start # l.end
  <2>1. PICK w : w = WaitFrom(l.start, l.end, minute)
    OBVIOUS
  <2>2. WaitForWindow(l, minute) = w
    BY <1>3, <2>1, MinutesAreNumbers DEF WaitForWindow, WaitFrom, OpenAt, DAY
  <2>3. /\ w \in MinuteOfDay
        /\ Rem(minute + w) \in MinuteOfDay
        /\ OpenAt(l.start, l.end, Rem(minute + w))
        /\ OpenAt(l.start, l.end, n) => w <= Rem(n - minute)
    BY <1>3, <2>1, WaitArithmetic
  <2>4. ASSUME NEW x \in MinuteOfDay PROVE Inside(l, x) <=> OpenAt(l.start, l.end, x)
    <3>1. OpenAt(l.start, l.end, x) <=> Rem(x - l.start) < Rem(l.end - l.start)
      BY <1>3, OpenMeansInside
    <3> QED
      BY <1>3, <3>1, MinutesAreNumbers DEF Inside, Into, Rem
  <2>5. Inside(l, Rem(minute + w)) /\ (Inside(l, n) => w <= Rem(n - minute))
    BY <2>3, <2>4
  <2> QED
    BY <2>2, <2>3, <2>5 DEF Rem
<1> QED
  BY <1>1, <1>2, <1>3

-----------------------------------------------------------------------------
(* The card and the API.                                                   *)

Replies == {"idle", "asked", "read"}
Moves == {"stored", "refused", "done"}
Saves == [st: {"sent", "stored", "refused", "done"}, body: HostSettings]

(* The inductive invariant.  What is stored, read, cached or sent has one  *)
(* of the forms the API accepts; a form waits for a save only while it is  *)
(* on show, and then that save is open and carries the draft as it stands. *)
LimInv ==
    /\ limits \in HostSettings
    /\ limOpen \in BOOLEAN
    /\ limQ.st \in {"pending", "success", "error"}
    /\ limQ = [st |-> limQ.st, data |-> limQ.data]
    /\ limQ.st = "success" => limQ.data \in HostSettings
    /\ limGet.st \in Replies
    /\ limGet.st = "read" => limGet.data \in HostSettings
    /\ limForm \in [on: BOOLEAN, draft: LimitsDraft, error: BOOLEAN, mine: Nat]
    /\ limForm.on => limOpen /\ limQ.st = "success"
    /\ limPuts \in Seq(Saves)
    /\ limForm.mine # 0 => /\ limForm.on
                           /\ limForm.mine \in 1..Len(limPuts)
                           /\ limPuts[limForm.mine].st # "done"
                           /\ draftToLimits(limForm.draft) = limPuts[limForm.mine].body

(* One save of the sequence changes its state.                             *)
Moved(q, k, st) == [q EXCEPT ![k].st = st]

(* A save that changes its state keeps its body, and the others stay.      *)
LEMMA SaveMoves ==
    ASSUME NEW q \in Seq(Saves), NEW k \in 1..Len(q),
           NEW st \in Moves, NEW p, p = Moved(q, k, st)
    PROVE  /\ q[k] \in Saves
           /\ p \in Seq(Saves) /\ Len(p) = Len(q)
           /\ \A j \in 1..Len(q) : p[j].body = q[j].body
           /\ \A j \in 1..Len(q) : p[j].st = IF j = k THEN st ELSE q[j].st
<1> DEFINE r == [q[k] EXCEPT !.st = st]
<1>0. p = [q EXCEPT ![k] = r]
  BY DEF Moved
<1>1. q[k] \in Saves
  OBVIOUS
<1>2. r \in Saves /\ r.body = q[k].body /\ r.st = st
  BY <1>1 DEF Saves, Moves
<1> HIDE DEF r
<1>3. p \in Seq(Saves) /\ Len(p) = Len(q)
  BY <1>0, <1>2
<1>4. \A j \in 1..Len(q) : p[j] = IF j = k THEN r ELSE q[j]
  BY <1>0
<1>5. \A j \in 1..Len(q) : p[j].body = q[j].body
  BY <1>2, <1>4
<1>6. \A j \in 1..Len(q) : p[j].st = IF j = k THEN st ELSE q[j].st
  BY <1>2, <1>4
<1> QED
  BY <1>1, <1>3, <1>5, <1>6

(* Every save carries settings.                                            *)
LEMMA SavesAreSettings ==
    ASSUME LimInv, NEW k \in 1..Len(limPuts)
    PROVE  limPuts[k].body \in HostSettings
<1>1. limPuts \in Seq(Saves)
  BY DEF LimInv
<1>2. limPuts[k] \in Saves
  BY <1>1
<1> QED
  BY <1>2 DEF Saves

(* The form of a card that shows nothing, and that of a card which just    *)
(* got its data.                                                           *)
LEMMA FormsAreForms ==
    /\ NoLimForm \in [on: BOOLEAN, draft: LimitsDraft, error: BOOLEAN, mine: Nat]
    /\ ~NoLimForm.on /\ NoLimForm.mine = 0
    /\ \A s \in HostSettings :
          /\ FreshForm(s) \in [on: BOOLEAN, draft: LimitsDraft, error: BOOLEAN, mine: Nat]
          /\ FreshForm(s).on /\ FreshForm(s).mine = 0
<1>1. limitsToDraft(NoLimits) = [jobs |-> Unset, noWindow |-> TRUE, start |-> [h |-> 22, m |-> 0],
                                 end |-> [h |-> 6, m |-> 0], zone |-> "UTC"]
  BY DEF limitsToDraft, NoLimits
<1>2. limitsToDraft(NoLimits) \in LimitsDraft
  <2>1. Unset \in Int
    BY DEF Unset
  <2>2. "UTC" \in STRING
    BY LimitsAssumption
  <2>3. [h |-> 22, m |-> 0] \in TimeTexts /\ [h |-> 6, m |-> 0] \in TimeTexts
    BY DEF TimeTexts
  <2> QED
    BY <1>1, <2>1, <2>2, <2>3 DEF LimitsDraft
<1>3. \A s \in HostSettings : limitsToDraft(s) \in LimitsDraft
  BY SettingsConvertBack
<1> QED
  BY <1>2, <1>3 DEF NoLimForm, FreshForm

(* What a card shows after its page or its query changed: the form it had, *)
(* a fresh one, or none.                                                   *)
LEMMA CardKeepsInvariant ==
    ASSUME LimInv, NEW open \in BOOLEAN, NEW q,
           q.st = "success" => q.data \in HostSettings
    PROVE  /\ CardShows(open, q) \in [on: BOOLEAN, draft: LimitsDraft, error: BOOLEAN, mine: Nat]
           /\ CardShows(open, q).on => open /\ q.st = "success"
           /\ \/ CardShows(open, q) = limForm
              \/ CardShows(open, q).mine = 0
BY FormsAreForms DEF CardShows, LimInv

(* The invariant holds when the page of the host is opened.                *)
LEMMA LimInitInvariant == LimInit => LimInv
<1> SUFFICES ASSUME LimInit PROVE LimInv
  OBVIOUS
<1>1. limits \in HostSettings
  BY LimitsAssumption DEF LimInit
<1>2. limPuts \in Seq(Saves)
  BY DEF LimInit
<1> QED
  BY <1>1, <1>2, FormsAreForms DEF LimInit, LimInv, Replies, LimIdle

(* The form after a step that leaves the saves alone and shows what        *)
(* CardShows says.                                                         *)
LEMMA CardStep ==
    ASSUME LimInv, limPuts' = limPuts,
           limForm' = CardShows(limOpen', limQ'), limOpen' \in BOOLEAN,
           limQ'.st = "success" => limQ'.data \in HostSettings
    PROVE  /\ limForm' \in [on: BOOLEAN, draft: LimitsDraft, error: BOOLEAN, mine: Nat]
           /\ limForm'.on => limOpen' /\ limQ'.st = "success"
           /\ limForm'.mine # 0 => /\ limForm'.on
                                  /\ limForm'.mine \in 1..Len(limPuts')
                                  /\ limPuts'[limForm'.mine].st # "done"
                                  /\ draftToLimits(limForm'.draft) = limPuts'[limForm'.mine].body
<1>1. PICK f : f = CardShows(limOpen', limQ')
  OBVIOUS
<1>2. /\ f \in [on: BOOLEAN, draft: LimitsDraft, error: BOOLEAN, mine: Nat]
      /\ f.on => limOpen' /\ limQ'.st = "success"
      /\ f = limForm \/ f.mine = 0
  BY <1>1, CardKeepsInvariant
<1> QED
  BY <1>1, <1>2 DEF LimInv

(* Every step of the card and of the API keeps the invariant.              *)
LEMMA LimStepInvariant == LimInv /\ [LimNext]_limVars => LimInv'
<1> SUFFICES ASSUME LimInv, [LimNext]_limVars PROVE LimInv'
  OBVIOUS
<1>1. CASE OpenLimits
  BY <1>1, CardStep DEF OpenLimits, LimInv, LimAsked, Replies
<1>2. CASE LeaveLimits
  BY <1>2, FormsAreForms DEF LeaveLimits, LimInv
<1>3. CASE RefetchLimits
  BY <1>3 DEF RefetchLimits, LimInv, LimAsked, Replies
<1>4. CASE HandleGetLimits
  BY <1>4 DEF HandleGetLimits, LimInv, Replies
<1>5. CASE LimitsLand
  BY <1>5, CardStep DEF LimitsLand, LimInv, LimIdle, Replies
<1>6. CASE LimitsReadFails
  BY <1>6, CardStep DEF LimitsReadFails, LimInv, LimIdle, Replies
<1>7. CASE EditLimits
  BY <1>7, LimitsAssumption DEF EditLimits, LimInv
<1>8. CASE SubmitLimits
  <2>1. CASE ~draftAccepted(limForm.draft)
    BY <1>8, <2>1 DEF SubmitLimits, LimInv
  <2>2. CASE draftAccepted(limForm.draft)
    <3>1. [st |-> "sent", body |-> draftToLimits(limForm.draft)] \in Saves
      BY <2>2, AcceptedDraftIsSettings DEF LimInv, Saves
    <3>2. /\ limPuts' = Append(limPuts, [st |-> "sent", body |-> draftToLimits(limForm.draft)])
          /\ limForm' = [limForm EXCEPT !.error = FALSE, !.mine = Len(limPuts) + 1]
          /\ limForm.on
      BY <1>8, <2>2 DEF SubmitLimits
    <3>3. /\ limPuts' \in Seq(Saves) /\ Len(limPuts') = Len(limPuts) + 1
          /\ Len(limPuts) \in Nat
          /\ limPuts'[Len(limPuts) + 1] = [st |-> "sent", body |-> draftToLimits(limForm.draft)]
      BY <3>1, <3>2 DEF LimInv
    <3>4. /\ limForm' \in [on: BOOLEAN, draft: LimitsDraft, error: BOOLEAN, mine: Nat]
          /\ limForm'.on = limForm.on /\ limForm'.draft = limForm.draft
          /\ limForm'.mine = Len(limPuts) + 1
      <4>1. limForm \in [on: BOOLEAN, draft: LimitsDraft, error: BOOLEAN, mine: Nat]
        BY DEF LimInv
      <4>2. PICK i \in Nat : i = Len(limPuts) + 1
        BY <3>3
      <4>3. limForm' = [limForm EXCEPT !.error = FALSE, !.mine = i]
        BY <3>2, <4>2
      <4> QED
        BY <4>1, <4>2, <4>3
    <3>5. /\ limForm'.mine \in 1..Len(limPuts')
          /\ limPuts'[limForm'.mine].st # "done"
          /\ draftToLimits(limForm'.draft) = limPuts'[limForm'.mine].body
      BY <3>3, <3>4
    <3> QED
      BY <1>8, <3>2, <3>3, <3>4, <3>5 DEF SubmitLimits, LimInv
  <2> QED  BY <2>1, <2>2
<1>9. CASE OtherPutsLimits
  BY <1>9, LimitsAssumption DEF OtherPutsLimits, LimInv
<1>10. ASSUME NEW k \in 1..Len(limPuts), NEW st \in Moves,
              limPuts' = Moved(limPuts, k, st)
       PROVE  /\ limPuts[k] \in Saves
              /\ limPuts' \in Seq(Saves) /\ Len(limPuts') = Len(limPuts)
              /\ \A j \in 1..Len(limPuts) : limPuts'[j].body = limPuts[j].body
              /\ \A j \in 1..Len(limPuts) : limPuts'[j].st = IF j = k THEN st ELSE limPuts[j].st
  <2>1. limPuts \in Seq(Saves)
    BY DEF LimInv
  <2> QED
    BY <1>10, <2>1, SaveMoves, SMTT(30)
<1>11. ASSUME NEW k \in 1..Len(limPuts), HandlePutLimits(k) PROVE LimInv'
  <2>1. /\ limits' \in HostSettings
        /\ \E st \in {"stored", "refused"} : limPuts' = Moved(limPuts, k, st)
        /\ UNCHANGED <<limOpen, limQ, limGet, limForm>>
    <3>1. limPuts[k].body \in HostSettings
      BY SavesAreSettings
    <3> QED
      BY <1>11, <3>1 DEF HandlePutLimits, LimInv, Moved
  <2> QED  BY <1>10, <2>1 DEF LimInv, Moves
<1>12. ASSUME NEW k \in 1..Len(limPuts), PutLimitsLost(k) PROVE LimInv'
  <2>1. limPuts' = Moved(limPuts, k, "refused")
    BY <1>12 DEF PutLimitsLost, Moved
  <2> QED  BY <1>10, <1>12, <2>1 DEF PutLimitsLost, LimInv, Moves
<1>13. ASSUME NEW k \in 1..Len(limPuts), LimitsSaved(k) PROVE LimInv'
  <2>1. limPuts' = Moved(limPuts, k, "done")
    BY <1>13 DEF LimitsSaved, Moved
  <2>2. limPuts[k].body \in HostSettings
    BY SavesAreSettings
  <2>3. limitsToDraft(limPuts[k].body) \in LimitsDraft
    BY <2>2, SettingsConvertBack
  <2>4. /\ limQ' = [st |-> "success", data |-> limPuts[k].body]
        /\ UNCHANGED <<limits, limOpen, limGet>>
    BY <1>13 DEF LimitsSaved
  <2>5. CASE limForm.on /\ limForm.mine = k
    <3>1. limForm' = [limForm EXCEPT !.draft = limitsToDraft(limPuts[k].body), !.mine = 0]
      BY <1>13, <2>5 DEF LimitsSaved
    <3>2. /\ limForm' \in [on: BOOLEAN, draft: LimitsDraft, error: BOOLEAN, mine: Nat]
          /\ limForm'.on = limForm.on /\ limForm'.mine = 0
      BY <2>3, <3>1 DEF LimInv
    <3>3. limPuts' \in Seq(Saves)
      BY <1>10, <2>1 DEF Moves
    <3> QED
      BY <2>2, <2>4, <3>2, <3>3 DEF LimInv
  <2>6. CASE ~(limForm.on /\ limForm.mine = k)
    <3>1. limForm' = CardShows(limOpen', limQ')
      BY <1>13, <2>4, <2>6 DEF LimitsSaved
    <3>2. /\ limForm' \in [on: BOOLEAN, draft: LimitsDraft, error: BOOLEAN, mine: Nat]
          /\ limForm'.on => limOpen' /\ limQ'.st = "success"
          /\ limForm' = limForm \/ limForm'.mine = 0
      BY <2>2, <2>4, <3>1, CardKeepsInvariant DEF LimInv
    <3>3. limForm.mine # k
      BY <2>6 DEF LimInv
    <3>4. /\ limPuts' \in Seq(Saves)
          /\ limForm.mine # 0 => /\ limForm.mine \in 1..Len(limPuts')
                                 /\ limPuts'[limForm.mine].st = limPuts[limForm.mine].st
                                 /\ limPuts'[limForm.mine].body = limPuts[limForm.mine].body
      <4>1. /\ limPuts' \in Seq(Saves) /\ Len(limPuts') = Len(limPuts)
            /\ \A j \in 1..Len(limPuts) : limPuts'[j].body = limPuts[j].body
            /\ \A j \in 1..Len(limPuts) : j # k => limPuts'[j].st = limPuts[j].st
        BY <1>10, <2>1 DEF Moves
      <4>2. limForm.mine # 0 => limForm.mine \in 1..Len(limPuts)
        BY DEF LimInv
      <4> QED
        BY <3>3, <4>1, <4>2
    <3> QED
      BY <2>2, <2>4, <3>2, <3>4 DEF LimInv
  <2> QED  BY <2>5, <2>6
<1>14. ASSUME NEW k \in 1..Len(limPuts), LimitsNotSaved(k) PROVE LimInv'
  <2>1. limPuts' = Moved(limPuts, k, "done")
    BY <1>14 DEF LimitsNotSaved, Moved
  <2> QED  BY <1>10, <1>14, <2>1 DEF LimitsNotSaved, LimInv, Moves
<1>15. CASE UNCHANGED limVars
  BY <1>15 DEF limVars, LimInv
<1> QED
  BY <1>1, <1>2, <1>3, <1>4, <1>5, <1>6, <1>7, <1>8, <1>9, <1>11, <1>12, <1>13, <1>14, <1>15
  DEF LimNext

(* What the card says of the window of an accepted draft is how            *)
(* WaitForWindow reads it.                                                 *)
LEMMA DescribedWindow ==
    ASSUME NEW l \in HostSettings
    PROVE  LET says == describeWindow(l.start, l.end)
           IN  IF says \in {"no window", "all day"}
               THEN \A minute \in MinuteOfDay : WaitForWindow(l, minute) = 0
               ELSE /\ WaitForWindow(l, l.start) = 0 /\ WaitForWindow(l, l.end) # 0
                    /\ (says = "overnight") <=> (WaitForWindow(l, DAY - 1) = 0)
<1>1. \/ l.start = Unset /\ l.end = Unset
      \/ l.start \in MinuteOfDay /\ l.end \in MinuteOfDay
  BY DEF HostSettings, WindowOk
<1>2. CASE l.start = Unset \/ l.start = l.end
  BY <1>1, <1>2 DEF describeWindow, WaitForWindow
<1>3. CASE l.start \in MinuteOfDay /\ l.end \in MinuteOfDay /\ l.start # l.end
  <2>1. PICK s \in MinuteOfDay, e \in MinuteOfDay : s = l.start /\ e = l.end
    BY <1>3
  <2>2. s # Unset /\ e # Unset /\ s # e
    BY <1>3, <2>1, MinutesAreNumbers
  <2>3. \A x : WaitForWindow(l, x) = WaitFrom(s, e, x)
    BY <2>1, <2>2 DEF WaitForWindow, WaitFrom, OpenAt, DAY
  <2>4. /\ WaitFrom(s, e, s) = 0
        /\ WaitFrom(s, e, e) # 0
        /\ (s > e) <=> (WaitFrom(s, e, DAY - 1) = 0)
    BY <2>2 DEF WaitFrom, OpenAt, MinuteOfDay, DAY
  <2>5. describeWindow(l.start, l.end) = IF s > e THEN "overnight" ELSE "same day"
    BY <2>1, <2>2 DEF describeWindow
  <2> QED
    BY <2>1, <2>3, <2>4, <2>5
<1> QED
  BY <1>1, <1>2, <1>3

(* So it holds in every execution of the card and the API.                 *)
LEMMA LimAlwaysInvariant == LimSpec => []LimInv
BY LimInitInvariant, LimStepInvariant, PTL DEF LimSpec

(* The stored settings always have one of the forms the API accepts, and a *)
(* form on show waits for a save it has sent (the card of host-limits-     *)
(* card.tsx and the settings routes).                                      *)
THEOREM LimitsTypeCorrect == LimSpec => []LimTypeOK
<1>1. LimInv => LimTypeOK
  <2> SUFFICES ASSUME LimInv PROVE LimTypeOK
    OBVIOUS
  <2>1. \A k \in 1..Len(limPuts) : limPuts[k].st \in {"sent", "stored", "refused", "done"}
    <3>1. limPuts \in Seq(Saves)
      BY DEF LimInv
    <3>2. \A k \in 1..Len(limPuts) : limPuts[k] \in Saves
      BY <3>1
    <3> QED
      BY <3>2 DEF Saves
  <2>2. limForm.mine \in 0..Len(limPuts)
    BY DEF LimInv
  <2> QED
    BY <2>1, <2>2 DEF LimInv, LimTypeOK, Replies
<1> QED
  BY <1>1, LimAlwaysInvariant, PTL

(* WaitForWindow leads from every minute into the window, at its first     *)
(* minute, whatever was stored through the card or by other clients.       *)
THEOREM WaitAlwaysEndsInWindow == LimSpec => []WaitEndsInWindow
<1>1. LimInv => WaitEndsInWindow
  BY WaitIsFirstMinute, LimitsAssumption DEF LimInv, WaitEndsInWindow
<1> QED
  BY <1>1, LimAlwaysInvariant, PTL

(* A form nobody edited always saves what is stored, to the minute.        *)
THEOREM UneditedLimitsAlwaysKeep == LimSpec => []UneditedLimitsKeep
<1>1. LimInv => UneditedLimitsKeep
  BY SettingsConvertBack DEF LimInv, UneditedLimitsKeep
<1> QED
  BY <1>1, LimAlwaysInvariant, PTL

(* While a save is under way its form shows what was sent, across refetches,*)
(* failed reads and answers of saves of earlier forms.                     *)
THEOREM SentAlwaysShown == LimSpec => []SentIsShown
<1>1. LimInv => SentIsShown
  BY DEF LimInv, SentIsShown
<1> QED
  BY <1>1, LimAlwaysInvariant, PTL

(* The API accepts whatever the form lets through: the two validations,    *)
(* host-limits-card.tsx and the settings PUT, never disagree.              *)
THEOREM LimitsAlwaysAccepted == LimSpec => []LimitsAccepted
<1>1. LimInv => LimitsAccepted
  BY SavesAreSettings DEF LimitsAccepted, putAccepted, HostSettings
<1> QED
  BY <1>1, LimAlwaysInvariant, PTL

(* What the card says of the window is what WaitForWindow will do with it. *)
THEOREM SummaryAlwaysTrue == LimSpec => []SummaryIsTrue
<1>1. LimInv => SummaryIsTrue
  <2> SUFFICES ASSUME LimInv, limForm.on, draftAccepted(limForm.draft) PROVE SummaryIsTrue
    BY DEF SummaryIsTrue
  <2>1. draftToLimits(limForm.draft) \in HostSettings
    BY AcceptedDraftIsSettings DEF LimInv
  <2> QED
    BY <2>1, DescribedWindow, LimitsAssumption DEF SummaryIsTrue
<1> QED
  BY <1>1, LimAlwaysInvariant, PTL
=============================================================================
