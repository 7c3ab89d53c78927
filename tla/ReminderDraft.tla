--------------------------- MODULE ReminderDraft ---------------------------
(***************************************************************************)
(* What becomes of a recognised request: how its kind is decided, what is   *)
(* accepted, the reminder built from it and the key that identifies "the    *)
(* same reminder", and how a field of a draft is edited.                    *)
(*                                                                         *)
(* A draft is a record with the fields of nlu.ParseResult that matter:      *)
(* kind, trigger, type (of the event), title, params, message, condition,   *)
(* cron, fireAt, missing and understood (its confidence is above zero);     *)
(* params stand for the lead time and the currency too.                     *)
(* A schedule is [every, at]: the times congruent to at modulo every.       *)
(***************************************************************************)
EXTENDS Integers, Sequences, FiniteSets

CONSTANTS
  None,         \* an absent pointer, schedule or time
  Unparsable,   \* a time or schedule that does not parse
  DayLength,    \* ticks of a day
  Topics,       \* what a user may write as a text
  Conditions    \* the metric conditions a user may describe

Triggers == {"anchor", "threshold", "digest"}
MaxFeeds == 10
Daily(t) == [every |-> DayLength, at |-> t % DayLength]
Weekly(t) == [every |-> 7 * DayLength, at |-> t % (7 * DayLength)]
\* "*/5 * * * *"
defaultConditionalCron == [every |-> 1, at |-> 0]

nextCronAt(cron, t) ==
  t + cron.every - ((t - cron.at) % cron.every)

Has(d, param) == param \in DOMAIN d.params

\* Mutant: the kind named by the parser or an edit is taken first.
parseResultKindAsNamed(d) ==
  IF d.kind # "" THEN d.kind
  ELSE IF d.trigger \in Triggers THEN "conditional"
  ELSE IF d.fireAt # None THEN "absolute" ELSE "recurring"

\* The trigger decides before the kind the parser, or an edit, names.
parseResultKind(d) ==
  IF d.trigger \in Triggers THEN "conditional"
  ELSE IF d.kind # "" THEN d.kind
  ELSE IF d.fireAt # None THEN "absolute"
  ELSE IF d.cron # None THEN "recurring" ELSE ""

\* What a conditional reminder of each type of event must say.
validEvent(d) ==
  CASE d.type = "price" -> Has(d, "url")
    [] d.type = "tv_program" -> d.title # None /\ (Has(d, "channel") \/ Has(d, "channel_id"))
    [] d.type = "travel" -> FALSE
    [] d.type = "rss" -> d.trigger = "digest" /\ Has(d, "url") /\ d.params.url <= MaxFeeds
    [] d.type = "weather" ->
         /\ d.trigger \in {"anchor", "threshold"}
         /\ d.trigger = "threshold" => d.condition # None
         /\ d.condition # None /\ d.condition.target # None => d.condition.target \in -1000..1000
         /\ Has(d, "day") => d.params.day \in {"", "today", "tomorrow", "next_night", "date"}
    [] d.type = "exchange_rate" ->
         /\ d.trigger = "threshold" /\ d.condition # None
         /\ {"asset_type", "base", "quote", "metric"} \subseteq DOMAIN d.params
         /\ d.params.asset_type \in {"fiat", "crypto"}
         /\ \/ d.params.metric = "rate"
            \/ d.params.asset_type = "crypto" /\ d.params.metric = "change_24h"
    [] OTHER -> d.title # None

validateParseResult(d) ==
  /\ d.understood
  /\ LET kind == parseResultKind(d) IN
     \/ kind = "absolute" /\ d.fireAt \notin {None, Unparsable}
     \/ kind = "recurring" /\ d.cron \notin {None, Unparsable}
     \/ /\ kind = "conditional" /\ d.trigger # "" /\ d.type # ""
        /\ d.condition # None => d.trigger = "threshold" /\ d.condition.valid
        /\ validEvent(d)

\* A reminder whose idempotency_key is NULL.
NoKey == <<>>

\* Two reminders are the same when they watch the same event, or fire at the
\* same time with the same text.
reminderIdemKey(kind, d, next) ==
  CASE kind = "conditional" -> <<kind, d.type, d.trigger, d.title, d.params, d.condition>>
    [] kind = "absolute" -> <<kind, next, d.message>>
    [] kind = "recurring" -> <<kind, d.cron, d.message>>

\* When a conditional reminder is first evaluated, and with which schedule.
firstEval(d, t) ==
  LET cron == IF d.cron = None THEN defaultConditionalCron ELSE d.cron IN
  CASE d.type = "weather" /\ d.fireAt # None -> [cron |-> d.cron, next |-> d.fireAt]
    [] d.type = "weather" /\ d.fireAt = None /\ d.trigger = "anchor" ->
         [cron |-> d.cron, next |-> IF d.cron = None THEN t
                                    ELSE IF d.cron = Unparsable THEN Unparsable
                                    ELSE nextCronAt(d.cron, t)]
    [] OTHER ->
         [cron |-> cron, next |-> IF d.trigger # "digest" THEN t
                                  ELSE IF cron = Unparsable THEN Unparsable
                                  ELSE nextCronAt(cron, t)]

\* The reminder made of a draft at time t, or None when it cannot be made.
buildReminder(d, t) ==
  LET kind == parseResultKind(d)
      when == CASE kind = "absolute" -> [cron |-> None, next |-> d.fireAt]
                [] kind = "recurring" -> [cron |-> d.cron, next |-> nextCronAt(d.cron, t)]
                [] OTHER -> firstEval(d, t)
  IN
  IF ~validateParseResult(d) \/ when.next = Unparsable THEN None
  ELSE [kind |-> kind, trigger |-> d.trigger, cron |-> when.cron, next |-> when.next,
        key |-> reminderIdemKey(kind, d, when.next)]

\* What askConfirmation fills in: the configured schedule of a metric, and
\* the configured place of a weather reminder.
withDefaults(d, pollCron, location) ==
  LET placed == IF d.type = "weather" /\ ~Has(d, "location")
                THEN [d EXCEPT !.params = [p \in DOMAIN @ \cup {"location"} |->
                                             IF p = "location" THEN location ELSE @[p]]]
                ELSE d
  IN IF d.cron = None /\ d.trigger = "threshold" THEN [placed EXCEPT !.cron = pollCron]
     ELSE placed

(***************************************************************************)
(* Editing a field: the drafts an input may lead to.                        *)
(***************************************************************************)

withText(d, text) ==
  [d EXCEPT !.message = text,
            !.title = IF @ = None \/ @ = d.message THEN text ELSE @]

\* A new date or time moves the schedule's clock time too: whatever ran
\* every few minutes runs daily from then on.
withFireAt(d, t) ==
  [d EXCEPT !.fireAt = t,
            !.cron = IF @ \in {None, Unparsable} THEN @
                     ELSE IF @.every < DayLength THEN Daily(t)
                     ELSE [@ EXCEPT !.at = (@ \div DayLength) * DayLength + (t % DayLength)]]

withoutRepeat(d, t) ==
  [d EXCEPT !.cron = None, !.kind = "absolute",
            !.fireAt = IF @ \in {None, Unparsable} \/ @ <= t THEN t + 1 ELSE @]

withRepeat(d, cron) == [d EXCEPT !.cron = cron, !.kind = "recurring"]

\* The condition is recognised in the text followed by the input.
withCondition(d, condition) == [d EXCEPT !.condition = condition]

Clock(d, t) == IF d.fireAt \in {None, Unparsable} THEN t ELSE d.fireAt

editedDrafts(d, field, t, times) ==
  CASE field = "text" -> {withText(d, x) : x \in Topics}
    [] field \in {"date", "time"} -> {withFireAt(d, x) : x \in times}
    [] field = "repeat" -> {withoutRepeat(d, t), withRepeat(d, Daily(Clock(d, t))),
                            withRepeat(d, Weekly(Clock(d, t)))}
    [] field = "condition" -> {withCondition(d, c) : c \in Conditions}
=============================================================================
