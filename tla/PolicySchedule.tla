--------------------------- MODULE PolicySchedule ---------------------------
(***************************************************************************)
(* The schedule of a protection policy: the form that edits it, its words, *)
(* the console's own cron parser and the one behind the API.               *)
(*                                                                         *)
(* web/src/lib/schedule.ts, web/src/components/policies/policy-form.tsx    *)
(* (draftCron, policyToDraft, policyDraftToRequest, SchedulePreview, the   *)
(* fields "Frequency" and "Cron expression"), web/scripts/                 *)
(* mock-policies.mjs (cronField, normalizeSchedule, nextRun, readPolicy).  *)
(*                                                                         *)
(* An expression is five fields, a field the parts between its commas, a   *)
(* part [kind, a, b, step]: "*", a value or a range, with "/step" unless   *)
(* step is NoStep.  A number out of its range stands for every token the   *)
(* parsers refuse, a step of 0 for every step they refuse.                 *)
(***************************************************************************)
EXTENDS Integers, Sequences, FiniteSets

CONSTANTS
    CronTokens,    \* the fields typed, of each of the five: a tuple of sets
    MaxEdits   \* bound: fields typed

ASSUME PolicyScheduleAssumption == Len(CronTokens) = 5 /\ MaxEdits \in Nat

VARIABLES
    draft,    \* the form: [schedule, cron], schedule a preset or "custom"
    stored,   \* the policy's expression at the server
    edits     \* fields typed so far

scheduleVars == <<draft, stored, edits>>

-----------------------------------------------------------------------------
(* The tables of schedule.ts.                                              *)

NoStep == -1
Star == <<[kind |-> "star", a |-> 0, b |-> 0, step |-> NoStep]>>
One(n) == <<[kind |-> "one", a |-> n, b |-> n, step |-> NoStep]>>

SCHEDULE_PRESETS ==
    [hourly  |-> <<One(0), Star, Star, Star, Star>>,
     daily   |-> <<One(0), One(1), Star, Star, Star>>,
     weekly  |-> <<One(0), One(1), Star, Star, One(0)>>,
     monthly |-> <<One(0), One(1), One(1), Star, Star>>]
SCHEDULE_PRESET_NAMES == DOMAIN SCHEDULE_PRESETS

FIELDS == <<[min |-> 0, max |-> 59], [min |-> 0, max |-> 23], [min |-> 1, max |-> 31],
            [min |-> 1, max |-> 12], [min |-> 0, max |-> 6]>>

presetOf(cron) ==
    LET is == {p \in SCHEDULE_PRESET_NAMES : SCHEDULE_PRESETS[p] = cron}
    IN  IF is = {} THEN "custom" ELSE CHOOSE p \in is : TRUE

-----------------------------------------------------------------------------
(* The console's parser.                                                   *)

parseValue(n, f) == n \in f.min..f.max

partOk(p, f) ==
    /\ p.step # 0
    /\ p.kind = "star" \/ (parseValue(p.a, f) /\ parseValue(p.b, f) /\ p.a <= p.b)

partValues(p, f) ==
    LET lo == IF p.kind = "star" THEN f.min ELSE p.a
        hi == IF p.kind = "star" \/ (p.kind = "one" /\ p.step # NoStep) THEN f.max ELSE p.b
        by == IF p.step = NoStep THEN 1 ELSE p.step
    IN  IF by = 0 THEN {} ELSE {v \in lo..hi : (v - lo) % by = 0}

\* Mutant: the step of a list's last part is taken for the whole field's.
parseField_StepOfAnyPart(raw, f) ==
    [ok     |-> \A i \in DOMAIN raw : partOk(raw[i], f),
     any    |-> raw = Star,
     step   |-> IF raw[1].kind = "star" /\ raw[1].step # NoStep THEN raw[1].step ELSE 0,
     values |-> UNION {partValues(raw[i], f) : i \in DOMAIN raw}]

(* step is set for a lone "*/n" only.                                      *)
parseField(raw, f) ==
    [ok     |-> \A i \in DOMAIN raw : partOk(raw[i], f),
     any    |-> raw = Star,
     step   |-> IF Len(raw) = 1 /\ raw[1].kind = "star" /\ raw[1].step # NoStep THEN raw[1].step ELSE 0,
     values |-> UNION {partValues(raw[i], f) : i \in DOMAIN raw}]

parseCron(cron) == [i \in 1..5 |-> parseField(cron[i], FIELDS[i])]
cronOk(cron) == \A i \in 1..5 : parseCron(cron)[i].ok

-----------------------------------------------------------------------------
(* The words, as what they name.                                           *)

dayPhrase(dom, dow) ==
    CASE dom.any /\ dow.any -> [says |-> "day", doms |-> {}, days |-> {}]
      [] dom.any /\ ~dow.any -> [says |-> "days", doms |-> {}, days |-> dow.values]
      [] ~dom.any /\ dow.any -> [says |-> "doms", doms |-> dom.values, days |-> {}]
      [] OTHER -> [says |-> "either", doms |-> dom.values, days |-> dow.values]

(* "Every minute", "Every 15 minutes", "Every 2 hours at minute 5", times  *)
(* of the day; with the days and the months.                               *)
describeCron(cron) ==
    LET f == parseCron(cron)
        min == f[1]   hour == f[2]
        text == CASE min.any /\ hour.any -> [says |-> "minute", n |-> 1, at |-> {}, hours |-> {}]
                  [] ~min.any /\ min.step # 0 /\ hour.any -> [says |-> "minutes", n |-> min.step, at |-> {}, hours |-> {}]
                  [] ~((min.any \/ min.step # 0) /\ hour.any) /\ (hour.any \/ hour.step # 0) ->
                       [says |-> "hours", n |-> IF hour.step > 1 THEN hour.step ELSE 1,
                        at |-> min.values, hours |-> {}]
                  [] OTHER -> [says |-> "at", n |-> 0, at |-> min.values, hours |-> hour.values]
    IN  [time |-> text, day |-> dayPhrase(f[3], f[5]), months |-> IF f[4].any THEN {} ELSE f[4].values]

-----------------------------------------------------------------------------
(* The server.                                                             *)

cronPart(p, f) ==
    LET all == p.kind = "star"
        lo == IF all THEN f.min ELSE p.a
        hi == IF all \/ (p.kind = "one" /\ p.step # NoStep) THEN f.max ELSE p.b
        step == IF p.step = NoStep THEN 1 ELSE p.step
    IN  IF step = 0 THEN {} ELSE {lo + k * step : k \in 0..((hi - lo) \div step)}

cronField(raw, f) ==
    [ok     |-> \A i \in DOMAIN raw :
                    /\ raw[i].step # 0
                    /\ \/ raw[i].kind = "star"
                       \/ f.min <= raw[i].a /\ raw[i].a <= raw[i].b /\ raw[i].b <= f.max,
     star   |-> raw = Star,
     values |-> UNION {cronPart(raw[i], f) : i \in DOMAIN raw}]

scheduleOk(s) == s.preset \/ \A i \in 1..5 : cronField(s.cron[i], FIELDS[i]).ok
normalizeSchedule(s) == IF s.preset THEN SCHEDULE_PRESETS[s.name] ELSE s.cron

(* nextRun: the months, the days <<day of month, weekday>> and the times of *)
(* day a stored expression fires.  With both days restricted it fires when *)
(* either matches.                                                         *)
firesIn(cron) == cronField(cron[4], FIELDS[4]).values

firesOn(cron) ==
    LET dom == cronField(cron[3], FIELDS[3])   dow == cronField(cron[5], FIELDS[5])
    IN  IF dom.star \/ dow.star THEN dom.values \X dow.values
        ELSE (dom.values \X (0..6)) \cup ((1..31) \X dow.values)

firesAt(cron) == cronField(cron[2], FIELDS[2]).values \X cronField(cron[1], FIELDS[1]).values

-----------------------------------------------------------------------------
(* The form.                                                               *)

draftCron(d) == IF d.schedule = "custom" THEN d.cron ELSE SCHEDULE_PRESETS[d.schedule]

policyToDraft(cron) == [schedule |-> presetOf(cron), cron |-> cron]

scheduleDraftOk(d) == d.schedule = "custom" => cronOk(d.cron)

policyDraftToRequest(d) ==
    IF d.schedule = "custom" THEN [preset |-> FALSE, name |-> "custom", cron |-> d.cron]
    ELSE [preset |-> TRUE, name |-> d.schedule, cron |-> d.cron]

(* "Custom" starts from the preset's expression; a preset replaces it.     *)
ChooseFrequency(v) ==
    /\ v # draft.schedule
    /\ draft' = [schedule |-> v, cron |-> IF v = "custom" THEN draftCron(draft) ELSE SCHEDULE_PRESETS[v]]
    /\ UNCHANGED <<stored, edits>>

EditCron(i, t) ==
    /\ draft.schedule = "custom" /\ draft.cron[i] # t
    /\ edits < MaxEdits /\ edits' = edits + 1
    /\ draft' = [draft EXCEPT !.cron[i] = t]
    /\ UNCHANGED stored

(* The request is checked here and by the server; the form is filled again *)
(* from what is stored.                                                    *)
SavePolicy ==
    LET s == policyDraftToRequest(draft)
    IN  /\ scheduleDraftOk(draft) /\ scheduleOk(s)
        /\ stored' = normalizeSchedule(s)
        /\ draft' = policyToDraft(stored')
        /\ UNCHANGED edits

ScheduleInit ==
    /\ stored \in {SCHEDULE_PRESETS[p] : p \in SCHEDULE_PRESET_NAMES}
    /\ draft = policyToDraft(stored)
    /\ edits = 0

ScheduleNext ==
    \/ \E v \in SCHEDULE_PRESET_NAMES \cup {"custom"} : ChooseFrequency(v)
    \/ \E i \in 1..5 : \E t \in CronTokens[i] : EditCron(i, t)
    \/ SavePolicy

ScheduleSpec == ScheduleInit /\ [][ScheduleNext]_scheduleVars

-----------------------------------------------------------------------------
(* What is stored is an expression the server can schedule, and the form   *)
(* names a preset only with its expression.                                *)
ScheduleTypeOK ==
    /\ \A i \in 1..5 : cronField(stored[i], FIELDS[i]).ok
    /\ draft.schedule = "custom" \/ draft.cron = SCHEDULE_PRESETS[draft.schedule]

(* The console's check of an expression and the server's parser agree: on  *)
(* what is valid, and on the minutes, hours, days and months it names      *)
(* (parseCron; cronField).                                                 *)
ParsersAgree ==
    \A i \in 1..5 :
        LET c == parseField(draft.cron[i], FIELDS[i])   s == cronField(draft.cron[i], FIELDS[i])
        IN  /\ c.ok <=> s.ok
            /\ c.ok => c.any = s.star /\ c.values = s.values

(* What the words of the preview stand for: times of the day, days.        *)
TimesSaid(t) ==
    CASE t.says = "minute" -> (0..23) \X (0..59)
      [] t.says = "minutes" -> {x \in (0..23) \X (0..59) : x[2] % t.n = 0}
      [] t.says = "hours" -> {h \in 0..23 : h % t.n = 0} \X t.at
      [] OTHER -> t.hours \X t.at

DaysSaid(w) ==
    CASE w.says = "day" -> (1..31) \X (0..6)
      [] w.says = "days" -> (1..31) \X w.days
      [] w.says = "doms" -> w.doms \X (0..6)
      [] OTHER -> (w.doms \X (0..6)) \cup ((1..31) \X w.days)

(* The description shown for a valid expression names exactly the times    *)
(* and the days the server runs it (describeCron; nextRun).                *)
DescriptionIsTrue ==
    LET cron == draftCron(draft)   w == describeCron(cron)
    IN  cronOk(cron) =>
            /\ TimesSaid(w.time) = firesAt(cron)
            /\ DaysSaid(w.day) = firesOn(cron)
            /\ (IF w.months = {} THEN 1..12 ELSE w.months) = firesIn(cron)

(* Saving stores the expression the preview described, whatever the        *)
(* frequencies chosen and the text left in the cron field before it, and   *)
(* the form opened again describes it: saved unedited it changes nothing   *)
(* (policyDraftToRequest; policyToDraft, presetOf).                        *)
PreviewIsStored ==
    [][SavePolicy => stored' = draftCron(draft) /\ draftCron(draft') = stored']_scheduleVars
=============================================================================
