------------------------------ MODULE Requests ------------------------------
(***************************************************************************)
(* How a reminder written in words is understood: by patterns first, and   *)
(* by a language model when they are not sure.  Both must mean the same by *)
(* the same words, in the units the providers measure in.                  *)
(*                                                                         *)
(* A text is a record of the phrases the patterns find in it, None or      *)
(* empty where there is none; several may be in one text.  Amounts are in  *)
(* hundredths (a price in kopecks), times in units of which an hour has    *)
(* HourLength and a day DayLength, from the start of today.  A duration    *)
(* that is spelled is a number and a unit.                                 *)
(***************************************************************************)
EXTENDS Nothing, Integers, Sequences, FiniteSets

CONSTANTS
  Texts,
  Fiat, Crypto,             \* what fiatCode and cryptoID know
  RateScale, PercentScale, MaxInt64,
  HourLength, DayLength, Morning,   \* 8:00
  threshold                 \* of the chain, in percent

Units == {"minute", "hour", "day", "week"}

\* What the patterns find: digits, a unit, a word they know; a text that is no
\* condition has None for it.
ASSUME TextsAssumption ==
  /\ {RateScale, PercentScale, MaxInt64, HourLength, DayLength} \subseteq Nat \ {0}
  /\ DayLength % HourLength = 0
  /\ None \notin Int \cup BOOLEAN \cup [n : Nat, unit : Units]
  /\ None \notin [operator : {"gt", "lt", "gte", "lte", "changed_pct"}, target : {None} \cup Int,
                  percent : {None} \cup Nat, edge : {None} \cup BOOLEAN,
                  cooldown : {None} \cup Nat \cup [n : Nat, unit : Units]]
  /\ \A t \in Texts :
       /\ \A interval \in {t.every, t.onceIn} \ {None} :
            interval.n \in Nat /\ interval.unit \in {"minute", "hour"}
       /\ t.rate # None => t.rate.move \in {"above", "below", "rises", "falls"} /\ t.rate.amount \in Nat
       /\ t.limit # None => t.limit.move \in {"above", "below"} /\ t.limit.degrees \in Int
       /\ t.show # None => t.show.lead \in [n : Nat, unit : Units]
       /\ t.price # None => t.price.rule \in {"below", "while below", "changes"} /\ t.price.amount \in Nat
       /\ t.urls \in Seq({t.urls[i] : i \in DOMAIN t.urls}) /\ t.count \in Nat

VARIABLES text, hour, turn, best, parsed

requestVars == <<text, hour, turn, best, parsed>>

Parsers == <<"fast path", "language model">>
rssDigestMaxURLs == 10
minTopN == 1
maxTopN == 20

\* nlu.ParseResult; params are pairs, a condition's target is in stored units.
Empty ==
  [kind |-> "none", trigger |-> "none", type |-> "none", params |-> {}, condition |-> None,
   cron |-> None, fireAt |-> None, lead |-> 0, topN |-> 0, confidence |-> 0]

AssetType(asset) == IF asset \in Fiat THEN "fiat" ELSE "crypto"
Operator(move) ==
  CASE move = "above" -> "gt" [] move = "below" -> "lt"
    [] move = "rises" -> "gte" [] move = "falls" -> "lte"
Signed(move, amount) == IF move = "falls" THEN -amount ELSE amount
Day(n) == IF n = 0 THEN "the date of today" ELSE "the date of tomorrow"
At(c) == [every |-> "day", at |-> c]

\* A number the user wrote, in the units that are stored; None when it overflows.
scaledDecimal(amount, scale) ==
  IF amount * scale > MaxInt64 * 100 THEN None ELSE (amount * scale + 50) \div 100
scaledInt(value, scale) ==
  IF value > MaxInt64 \div scale \/ value < -(MaxInt64 \div scale) THEN None ELSE value * scale

\* Mutant: every interval is one of hours.
intervalToCronInHours(n, unit) == IF n <= 0 THEN None ELSE [every |-> "hour", step |-> n]
\* "*/n" in the minutes or hours field: it starts anew in every hour or day.
intervalToCron(n, unit) == IF n <= 0 THEN None ELSE [every |-> unit, step |-> n]
parsePollCron(t) ==
  LET said == IF "every hour" \in t.words /\ t.every = None THEN [n |-> 1, unit |-> "hour"]
              ELSE IF t.every # None THEN t.every ELSE t.onceIn
  IN IF said = None THEN None ELSE intervalToCron(said.n, said.unit)

\* What a duration that is spelled lasts.
UnitLength(unit) ==
  CASE unit = "hour" -> HourLength [] unit = "day" -> DayLength [] unit = "week" -> 7 * DayLength
Lasts(d) == IF d.unit = "minute" THEN (d.n * HourLength) \div 60 ELSE d.n * UnitLength(d.unit)

rateAlert(asset, metric, move, target, t) ==
  [Empty EXCEPT !.kind = "conditional", !.trigger = "threshold", !.type = "exchange_rate",
     !.params = {<<"asset_type", AssetType(asset)>>, <<"base", asset>>, <<"metric", metric>>},
     !.condition = [operator |-> Operator(move), target |-> Signed(move, target), percent |-> None,
                    edge |-> TRUE, cooldown |-> 0],
     !.cron = parsePollCron(t), !.confidence = 98]

\* The first pattern that matches decides, even if it makes nothing of the match.
parseExchangeRate(t) ==
  LET metric == IF t.rate.move \in {"rises", "falls"} THEN "change_24h" ELSE "rate"
      known == IF metric = "rate" THEN Fiat \cup Crypto ELSE Crypto
      target == scaledDecimal(t.rate.amount, IF metric = "rate" THEN RateScale ELSE PercentScale)
  IN IF t.rate = None \/ t.rate.asset \notin known \/ target \in {None, 0} THEN Empty
     ELSE rateAlert(t.rate.asset, metric, t.rate.move, target, t)

weather(t, trigger, day) ==
  [Empty EXCEPT !.kind = "conditional", !.trigger = trigger, !.type = "weather",
     !.params = {<<"day", day>>} \cup (IF t.city = None THEN {} ELSE {<<"location", t.city>>}),
     !.confidence = 96]
DayMeant(t) == IF "tomorrow" \in t.words THEN 1 ELSE 0
TimeOr(t, default) == IF t.time = None THEN default ELSE t.time

parseWeather(t) ==
  LET night == "night" \in t.words
      alert == weather(t, "threshold", IF night THEN "next_night" ELSE "today")
  IN IF t.words \cap {"weather", "forecast", "rain", "temperature", "night"} = {} THEN Empty
     ELSE IF t.limit # None /\ (night \/ "temperature" \in t.words)
     THEN IF t.limit.degrees \notin -100..100 THEN Empty
          ELSE [alert EXCEPT !.params = @ \cup (IF night THEN {<<"period", "night">>} ELSE {}),
                  \* tenths of a degree
                  !.condition = [operator |-> Operator(t.limit.move), target |-> t.limit.degrees * 10,
                                 percent |-> None, edge |-> FALSE, cooldown |-> DayLength]]
     ELSE IF {"rain", "if"} \subseteq t.words
     THEN [weather(t, "anchor", Day(DayMeant(t))) EXCEPT
             !.params = @ \cup {<<"condition", "rain">>}, !.confidence = 97,
             !.fireAt = DayMeant(t) * DayLength + TimeOr(t, Morning)]
     ELSE IF "forecast" \in t.words
     THEN [weather(t, "anchor", IF "tomorrow" \in t.words THEN "tomorrow" ELSE "today") EXCEPT
             !.cron = IF "every morning" \in t.words THEN At(TimeOr(t, Morning)) ELSE None]
     ELSE Empty

parseTVAnchor(t) ==
  IF t.show = None THEN Empty
  ELSE [Empty EXCEPT !.kind = "conditional", !.trigger = "anchor", !.type = "tv_program",
          !.params = {<<"title", t.show.title>>, <<"channel", t.show.channel>>},
          !.lead = Lasts(t.show.lead), !.confidence = 98]

\* An amount in the text is passed over.
parsePriceDrop(t) ==
  IF t.urls = <<>> \/ "cheaper" \notin t.words THEN Empty
  ELSE [Empty EXCEPT !.kind = "conditional", !.trigger = "threshold", !.type = "price",
          !.params = {<<"url", <<t.urls[1]>>>>},
          !.condition = [operator |-> "lt", target |-> None, percent |-> None, edge |-> TRUE, cooldown |-> 0],
          !.cron = parsePollCron(t), !.confidence = 98]

firstURLs(urls) == SubSeq(urls, 1, IF Len(urls) > rssDigestMaxURLs THEN rssDigestMaxURLs ELSE Len(urls))
parseRSSDigest(t) ==
  IF t.urls = <<>> \/ "digest" \notin t.words THEN Empty
  ELSE [Empty EXCEPT !.kind = "conditional", !.trigger = "digest", !.type = "rss",
          !.params = {<<"url", firstURLs(t.urls)>>},
          !.cron = At(TimeOr(t, Morning + 1)), !.topN = t.count, !.confidence = 97]

parseRecurring(t) ==
  IF t.repeat = None THEN Empty
  ELSE [Empty EXCEPT !.kind = "recurring", !.type = "recurring",
          !.cron = [every |-> t.repeat.period, at |-> t.repeat.at], !.confidence = 95]

\* A word goes before a date, and a time that is over today moves to tomorrow.
dayMeant(once) ==
  CASE once.word = "tomorrow" -> 1
    [] once.word = "day after" -> 2
    [] once.word \in {"none", "today"} ->
         IF once.date # None THEN once.date ELSE IF once.at < hour THEN 1 ELSE 0
parseAbsolute(t) ==
  IF t.once = None THEN Empty
  ELSE [Empty EXCEPT !.kind = "absolute", !.type = "absolute",
          !.fireAt = dayMeant(t.once) * DayLength + t.once.at, !.confidence = 95]

\* FastPath.Parse: the first pattern that makes something of the text.
FastPath(t) ==
  LET tried == <<parseExchangeRate(t), parseWeather(t), parseTVAnchor(t), parsePriceDrop(t),
                 parseRSSDigest(t), parseRecurring(t), parseAbsolute(t), Empty>>
      some == {i \in DOMAIN tried : tried[i] # Empty} \cup {Len(tried)}
  IN tried[CHOOSE i \in some : \A j \in some : i <= j]

-----------------------------------------------------------------------------
(* An answer of a language model has the fields of a result, in the user's  *)
(* units and with its durations spelled, any of them omitted (None), and    *)
(* the links left in its message.                                           *)

said(trigger, type, params) ==
  [kind |-> "conditional", trigger |-> trigger, type |-> type, params |-> params,
   condition |-> None, cron |-> None, fireAt |-> None, lead |-> None, topN |-> 0,
   message |-> <<>>, confidence |-> 90]
level(operator, target) ==
  [operator |-> operator, target |-> target, percent |-> None, edge |-> TRUE, cooldown |-> None]
\* The prompt asks for hours, 24 of them for a day.
InHours(d) ==
  IF d.unit = "minute" THEN d ELSE [n |-> d.n * (UnitLength(d.unit) \div HourLength), unit |-> "hour"]
OnceADay == InHours([n |-> 1, unit |-> "day"])

WeatherParams(t, day, more) ==
  {<<"day", day>>} \cup more \cup (IF t.city = None THEN {} ELSE {<<"location", t.city>>})

\* What the prompt's examples make of a text, Unsaid if they say nothing of it.
Unsaid == [said("none", "none", {}) EXCEPT !.kind = "none"]
Prescribed(t) ==
  LET change == t.rate.move \in {"rises", "falls"}
      rate ==
        [said("threshold", "exchange_rate",
              {<<"asset_type", AssetType(t.rate.asset)>>, <<"base", t.rate.asset>>,
               <<"metric", IF change THEN "change_24h" ELSE "rate">>}) EXCEPT
           !.condition = level(Operator(t.rate.move), Signed(t.rate.move, t.rate.amount \div 100)),
           !.cron = parsePollCron(t)]
      degrees ==
        [said("threshold", "weather",
              IF "night" \in t.words THEN WeatherParams(t, "next_night", {<<"period", "night">>})
              ELSE WeatherParams(t, "today", {})) EXCEPT
           !.condition = [level(Operator(t.limit.move), t.limit.degrees) EXCEPT !.edge = FALSE, !.cooldown = OnceADay]]
      rain ==
        [said("anchor", "weather", WeatherParams(t, Day(DayMeant(t)), {<<"condition", "rain">>})) EXCEPT
           !.fireAt = DayMeant(t) * DayLength + TimeOr(t, Morning)]
      forecast ==
        [said("anchor", "weather",
              WeatherParams(t, IF "tomorrow" \in t.words THEN "tomorrow" ELSE "today", {})) EXCEPT
           !.cron = IF "every morning" \in t.words THEN At(TimeOr(t, Morning)) ELSE None]
      show ==
        [said("anchor", "tv_program", {<<"title", t.show.title>>, <<"channel", t.show.channel>>}) EXCEPT
           !.lead = InHours(t.show.lead)]
      \* in kopecks, or in percent
      priced ==
        CASE t.price = None -> level("lt", None)
          [] t.price # None /\ t.price.rule = "below" -> level("lt", t.price.amount)
          [] t.price # None /\ t.price.rule = "while below" ->
               [level("lt", t.price.amount) EXCEPT !.edge = FALSE, !.cooldown = OnceADay]
          [] t.price # None /\ t.price.rule = "changes" ->
               [level("changed_pct", None) EXCEPT !.percent = t.price.amount]
      price ==
        [said("threshold", "price", {<<"url", <<t.urls[1]>>>>}) EXCEPT
           !.condition = priced, !.cron = parsePollCron(t)]
      digest ==
        [said("digest", "rss", {<<"url", t.urls>>}) EXCEPT !.cron = At(t.time), !.topN = t.count]
  IN IF t.rate # None THEN rate
     ELSE IF t.limit # None /\ t.words \cap {"night", "temperature"} # {} THEN degrees
     ELSE IF {"rain", "if"} \subseteq t.words THEN rain
     ELSE IF "forecast" \in t.words THEN forecast
     ELSE IF t.show # None THEN show
     ELSE IF t.urls # <<>> /\ ("cheaper" \in t.words \/ t.price # None) THEN price
     ELSE IF t.urls # <<>> /\ "digest" \in t.words THEN digest
     ELSE IF t.repeat # None
          THEN [said("none", "recurring", {}) EXCEPT !.kind = "recurring",
                  !.cron = [every |-> t.repeat.period, at |-> t.repeat.at]]
          ELSE IF t.once = None THEN Unsaid ELSE [said("none", "absolute", {}) EXCEPT !.kind = "absolute",
                  !.fireAt = dayMeant(t.once) * DayLength + t.once.at]

Param(params, name) == {p \in params : p[1] = name}
\* Models forget what follows from the rest, leave the links in the message,
\* and are not always sure.
Sloppy(a) ==
  {a, [a EXCEPT !.trigger = "none"], [a EXCEPT !.confidence = 40]}
  \cup (IF a.type \in {"price", "tv_program"} THEN {[a EXCEPT !.type = "none"]} ELSE {})
  \cup (IF a.type \in {"price", "rss"}
        THEN {[a EXCEPT !.params = @ \ Param(@, "url"),
                        !.message = (CHOOSE p \in Param(a.params, "url") : TRUE)[2]]} ELSE {})
  \cup (IF a.condition # None /\ a.condition.edge THEN {[a EXCEPT !.condition.edge = None]} ELSE {})
\* They may leave a lead time in the unit it was said in.
Answers(t) ==
  LET a == Prescribed(t) IN
  Sloppy(a) \cup (IF a.lead = None THEN {} ELSE {[a EXCEPT !.lead = t.show.lead]})
\* They also make up a unit for a lead time, and spell a cooldown in days.
Garbled(a) ==
  (IF a.lead = None THEN {} ELSE {[a EXCEPT !.lead.unit = "fortnight"]})
  \cup (IF a.condition = None THEN {} ELSE {[a EXCEPT !.condition.cooldown = [n |-> 1, unit |-> "day"]]})

clampTopN(n) == IF n <= 0 THEN 0 ELSE IF n > maxTopN THEN maxTopN ELSE IF n < minTopN THEN minTopN ELSE n

\* Mutant: a target is stored unscaled.
storedAsSaid(a) == a.condition.target
\* A condition in stored units; None if it is out of range.
storedTarget(a) ==
  LET target == a.condition.target IN
  CASE target = None -> None
    [] target # None /\ a.type = "weather" -> target * 10
    [] target # None /\ a.type = "exchange_rate" ->
         scaledInt(target, IF <<"metric", "change_24h">> \in a.params THEN PercentScale ELSE RateScale)
    [] OTHER -> target
outOfRange(a) ==
  /\ a.condition # None /\ a.condition.target # None
  /\ \/ a.type = "weather" /\ a.condition.target \notin -100..100
     \/ storedTarget(a) = None

inferredTrigger(a) ==
  CASE a.trigger # "none" -> a.trigger
    [] a.trigger = "none" /\ a.type \in {"price", "exchange_rate"} -> "threshold"
    [] a.trigger = "none" /\ a.type = "tv_program" -> "anchor"
    [] a.trigger = "none" /\ a.type = "rss" -> "digest"
    [] a.trigger = "none" /\ a.type = "weather" -> IF a.condition # None THEN "threshold" ELSE "anchor"
    [] OTHER -> "none"
inferredType(a) ==
  CASE a.type # "none" -> a.type
    [] a.type = "none" /\ a.trigger = "threshold" -> "price"
    [] a.type = "none" /\ a.trigger = "anchor" -> "tv_program"
    [] OTHER -> "none"
rescuedURL(a) ==
  LET type == inferredType(a) IN
  IF type \notin {"price", "rss"} \/ Param(a.params, "url") # {} \/ a.message = <<>> THEN {}
  ELSE {<<"url", IF type = "rss" THEN a.message ELSE <<a.message[1]>>>>}

\* Nothing that is spelled is nothing, and so is a lead time that cannot be read.
parseLeadTime(d) == IF d = None \/ d.unit \notin Units THEN 0 ELSE Lasts(d)
\* Go knows no unit above the hour: None for anything else.
ParseDuration(d) ==
  IF d = None THEN 0 ELSE IF d.unit \in {"minute", "hour"} THEN Lasts(d) ELSE None
\* Condition.Validate
Valid(condition) ==
  /\ condition.operator = "changed_pct" => condition.percent # None /\ condition.percent > 0
  /\ condition.edge \/ condition.cooldown > 0

\* LLMParser.Parse of an answer; a condition that is refused is an error, None here.
mapToResult(a) ==
  LET condition ==
        IF a.condition = None THEN None
        ELSE [a.condition EXCEPT !.target = storedTarget(a), !.edge = IF @ = None THEN TRUE ELSE @,
                                 !.cooldown = ParseDuration(@)]
      refused == a.condition # None /\ (outOfRange(a) \/ condition.cooldown = None \/ ~Valid(condition))
      fixedDay == IF a.type = "weather" /\ a.fireAt # None /\ <<"day", "tomorrow">> \in a.params
                  THEN (a.params \ Param(a.params, "day")) \cup {<<"day", Day(1)>>} ELSE a.params
  IN IF refused THEN None
     ELSE [kind |-> a.kind, trigger |-> inferredTrigger(a), type |-> inferredType(a),
           params |-> fixedDay \cup rescuedURL(a),
           condition |-> condition,
           cron |-> a.cron, fireAt |-> a.fireAt, lead |-> parseLeadTime(a.lead), topN |-> clampTopN(a.topN),
           confidence |-> a.confidence]

-----------------------------------------------------------------------------
\* Chain.Parse asks the parsers in turn and stops at one that is sure.
RequestInit ==
  /\ text \in Texts /\ hour \in 0..DayLength - 1
  /\ turn = 1 /\ best = Empty /\ parsed = None

Consider(result) ==
  LET better == IF result.confidence > best.confidence THEN result ELSE best IN
  /\ turn' = turn + 1 /\ best' = better
  /\ parsed' = CASE result.confidence >= threshold -> result
                 [] result.confidence < threshold /\ turn = Len(Parsers) ->
                      better     \* Empty: not recognised
                 [] OTHER -> None
  /\ UNCHANGED <<text, hour>>

TurnOf(parser) == parsed = None /\ turn <= Len(Parsers) /\ Parsers[turn] = parser

ParseByPattern == TurnOf("fast path") /\ Consider(FastPath(text))
ParseByModel ==
  /\ TurnOf("language model") /\ Prescribed(text) # Unsaid
  /\ \E a \in Answers(text) \cup Garbled(Prescribed(text)) :
       Consider(IF mapToResult(a) = None THEN Empty ELSE mapToResult(a))
ModelIsSilent == TurnOf("language model") /\ Consider(Empty)

RequestNext == ParseByPattern \/ ParseByModel \/ ModelIsSilent
RequestSpec == RequestInit /\ [][RequestNext]_requestVars

RequestTypeOK ==
  /\ turn \in 1..Len(Parsers) + 1
  /\ best.kind \in {"none", "absolute", "recurring", "conditional"}
  /\ parsed \notin {None, Empty} => parsed.confidence \in 1..100

\* What a pattern makes of a text is what the model's answer would become, in the
\* same units and with the same defaults.  But a model names no fraction, and is
\* told of no hour for a digest that names none; only the patterns drop the links
\* that are too many, keep a count that is too large, pass over a rate or a
\* degree they do not know to what else is in the text, and do not see the amount
\* a price is to reach: a text with one they take for any drop, or for a digest.
Expressible ==
  /\ text.rate = None \/ (text.rate.amount % 100 = 0 /\ parseExchangeRate(text) # Empty)
  /\ text.limit # None /\ text.words \cap {"night", "temperature"} # {} => text.limit.degrees \in -100..100
  /\ text.urls # <<>> => text.price = None
  /\ Len(text.urls) <= rssDigestMaxURLs
  /\ FastPath(text).type = "rss" => text.time # None /\ text.count <= maxTopN
\* And the amount that only a model sees is what the user asked for, in kopecks or
\* percent, told once or once a day.
AmountIsKept ==
  Prescribed(text).type = "price" /\ text.price # None /\ text.price.amount > 0 =>
    \A a \in Answers(text) : LET condition == mapToResult(a).condition IN
      /\ IF text.price.rule = "changes"
         THEN condition.operator = "changed_pct" /\ condition.percent = text.price.amount
         ELSE condition.operator = "lt" /\ condition.target = text.price.amount
      /\ IF text.price.rule = "while below"
         THEN ~condition.edge /\ condition.cooldown = DayLength ELSE condition.edge
UnderstoodAlike ==
  /\ FastPath(text) # Empty /\ Expressible =>
       Prescribed(text) # Unsaid /\ \A a \in Answers(text) :
         [mapToResult(a) EXCEPT !.confidence = 0] = [FastPath(text) EXCEPT !.confidence = 0]
  /\ AmountIsKept

\* A metric is asked for no later than the user said: "*/n" starts anew with every
\* hour or day, also when n does not divide it or exceeds it.
Cycle == [minute |-> 60, hour |-> 24]
Interval == IF text.every # None THEN text.every ELSE text.onceIn
PolledInTime ==
  parsed \notin {None, Empty} /\ parsed.type \in {"price", "exchange_rate"}
  /\ parsed.cron # None /\ Interval # None /\ "every hour" \notin text.words =>
    LET length == Cycle[Interval.unit]
        fires == {k \in 0..length - 1 : k % parsed.cron.step = 0}
    IN /\ parsed.cron.every = Interval.unit
       /\ \A k \in fires : \E wait \in 1..Interval.n : (k + wait) % length \in fires
=============================================================================
