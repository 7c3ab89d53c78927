------------------------ MODULE UnderstandingProofs -------------------------
(***************************************************************************)
(* How a text is understood: a completion falls back from model to model,  *)
(* in bounded time, for any number of models, retries and pauses and any   *)
(* timeout; and the patterns and the model mean the same by the same       *)
(* words, for any texts, scales and threshold.                             *)
(***************************************************************************)
EXTENDS LanguageModel, Requests, FiniteSetTheorems, TLAPS

-----------------------------------------------------------------------------
(***************************************************************************)
(* LanguageModel: the clock is known by the models that had their turn,    *)
(* each of which took a timeout at most.                                   *)
(***************************************************************************)
\* A model that still has its turn failed only in ways that may pass, and as
\* often as it is asked again at most (MayPass).
MayBeRetried ==
  outcome = "none" => Len(tries) <= maxServerRetries /\ \A i \in DOMAIN tries : Passing(tries[i])

\* A turn begins when those before it have ended, and lasts a timeout.
TurnsAreBounded == since <= (asked - 1) * timeout /\ instant <= since + timeout

CallTyped ==
  /\ asked \in Models /\ since \in Nat /\ instant \in Nat /\ since <= instant
  /\ tries \in Seq(Endings) /\ Len(tries) <= maxServerRetries + 1
  /\ outcome \in {"none", "answer", "error", "cancelled"}

CallInv == CallTyped /\ MayBeRetried /\ TurnsAreBounded /\ NoneIsLeftOut

-----------------------------------------------------------------------------
LEMMA CallLimits ==
  /\ NumModels \in Nat /\ 1 <= NumModels
  /\ maxServerRetries \in Nat /\ timeout \in Nat
BY CallAssumption

LEMMA NoTryFacts == <<>> \in Seq(Endings) /\ Len(<<>>) = 0 /\ \A i \in DOMAIN <<>> : FALSE
OBVIOUS

\* One more try.
LEMMA TryFacts ==
  ASSUME NEW up \in Seq(Endings), NEW ending \in Endings
  PROVE  LET more == Append(up, ending) IN
         /\ more \in Seq(Endings) /\ Len(more) = Len(up) + 1
         /\ Last(more) = ending
         /\ (\A i \in DOMAIN up : Passing(up[i])) /\ Passing(ending)
              => /\ \A i \in DOMAIN more : Passing(more[i])
                 /\ Range(more) \subseteq {"503", "silence"}
<1> DEFINE more == Append(up, ending)
<1>1. /\ more \in Seq(Endings) /\ Len(more) = Len(up) + 1
      /\ \A i \in 1..Len(more) : more[i] = IF i = Len(up) + 1 THEN ending ELSE up[i]
  OBVIOUS
<1>2. DOMAIN more = 1..Len(more) /\ DOMAIN up = 1..Len(up) /\ Len(up) \in Nat
  BY <1>1
<1>3. Last(more) = ending
  BY <1>1, <1>2 DEF Last
<1>4. ASSUME \A i \in DOMAIN up : Passing(up[i]), Passing(ending)
      PROVE  /\ \A i \in DOMAIN more : Passing(more[i])
             /\ Range(more) \subseteq {"503", "silence"}
  <2>1. ASSUME NEW i \in DOMAIN more
        PROVE  Passing(more[i])
    <3>1. i = Len(up) + 1 \/ i \in DOMAIN up
      BY <1>1, <1>2
    <3> QED
      BY <1>1, <1>2, <1>4, <3>1
  <2> QED
    BY <2>1 DEF Range, Passing
<1> QED
  BY <1>1, <1>3, <1>4

\* The turns of one more model take one more timeout.
LEMMA TurnFacts ==
  ASSUME NEW n \in Nat
  PROVE  /\ n * timeout \in Int /\ (n - 1) * timeout \in Int
         /\ (n - 1) * timeout + timeout = n * timeout
         /\ ((n + 1) - 1) * timeout = n * timeout
BY CallLimits

\* The next model, or the end of the request.
LEMMA FallbackKeeps ==
  ASSUME CallInv, outcome = "none", instant' = instant,
         NEW up \in Seq(Endings), Len(up) <= maxServerRetries + 1,
         \/ Goto(asked + 1) /\ asked < NumModels
         \/ Give(up) /\ (asked >= NumModels \/ Shared(up))
  PROVE  CallInv'
<1> USE CallLimits
<1>1. /\ asked \in Nat /\ 1 <= asked /\ asked <= NumModels
      /\ since \in Nat /\ instant \in Nat /\ since <= instant
  BY DEF CallInv, CallTyped, Models
<1>2. CASE Goto(asked + 1) /\ asked < NumModels
  <2>1. asked' = asked + 1 /\ since' = instant /\ tries' = <<>> /\ outcome' = "none"
    BY <1>2 DEF Goto
  <2>2. CallTyped'
    BY <1>1, <1>2, <2>1, NoTryFacts DEF CallTyped, Models
  <2>3. MayBeRetried'
    BY <2>1, NoTryFacts DEF MayBeRetried
  <2>4. instant <= asked * timeout
    <3>1. /\ (asked - 1) * timeout + timeout = asked * timeout
          /\ (asked - 1) * timeout \in Int /\ asked * timeout \in Int
      BY <1>1, TurnFacts
    <3>2. since <= (asked - 1) * timeout /\ instant <= since + timeout
      BY DEF CallInv, TurnsAreBounded
    <3> QED
      BY <1>1, <3>1, <3>2
  <2>5. TurnsAreBounded'
    <3>1. (asked' - 1) * timeout = asked * timeout
      BY <1>1, <2>1, TurnFacts
    <3>2. instant' <= since' + timeout
      BY <1>1, <2>1
    <3> QED
      BY <2>1, <2>4, <3>1, <3>2 DEF TurnsAreBounded
  <2> QED
    BY <2>1, <2>2, <2>3, <2>5 DEF CallInv, NoneIsLeftOut
<1>3. CASE Give(up) /\ (asked >= NumModels \/ Shared(up))
  <2>1. outcome' = "error" /\ tries' = up /\ asked' = asked /\ since' = since
    BY <1>3 DEF Give
  <2>2. NoneIsLeftOut'
    BY <1>1, <1>3, <2>1 DEF NoneIsLeftOut
  <2> QED
    BY <1>1, <2>1, <2>2 DEF CallInv, CallTyped, MayBeRetried, TurnsAreBounded
<1> QED
  BY <1>2, <1>3

LEMMA CallStart == CallInit => CallInv
<1> SUFFICES ASSUME CallInit
             PROVE  CallInv
  OBVIOUS
<1> USE CallLimits
<1>1. (asked - 1) * timeout = 0
  BY DEF CallInit
<1> QED
  BY <1>1 DEF CallInit, CallInv, CallTyped, MayBeRetried, TurnsAreBounded, NoneIsLeftOut, Models

LEMMA CallStep == CallInv /\ [CallNext]_callVars => CallInv'
<1> SUFFICES ASSUME CallInv, [CallNext]_callVars
             PROVE  CallInv'
  OBVIOUS
<1> USE CallLimits
<1>1. tries \in Seq(Endings) /\ Len(tries) \in Nat
  BY DEF CallInv, CallTyped
<1>2. CASE Answered
  <2>1. "good" \in Endings
    BY DEF Endings, Contents
  <2>2. tries' \in Seq(Endings) /\ Len(tries') = Len(tries) + 1
    BY <1>1, <1>2, <2>1, TryFacts DEF Answered
  <2>3. outcome = "none" /\ outcome' = "answer" /\ UNCHANGED <<instant, asked, since>>
    BY <1>2 DEF Answered, Awaiting
  <2> QED
    BY <1>1, <2>2, <2>3 DEF CallInv, CallTyped, MayBeRetried, TurnsAreBounded, NoneIsLeftOut
<1>3. CASE ModelFails
  <2>1. PICK ending \in (Statuses \cup Contents) \ {"good"} :
               ~Passing(ending) /\ fallback(Append(tries, ending), ofModel(ending))
    BY <1>3 DEF ModelFails
  <2>2. ending \in Endings
    BY DEF Endings
  <2>3. PICK up : up = Append(tries, ending)
    OBVIOUS
  <2>4. up \in Seq(Endings) /\ Len(up) = Len(tries) + 1 /\ Last(up) = ending
    BY <1>1, <2>2, <2>3, TryFacts
  <2>5. ofModel(ending) \/ Shared(up)
    BY <2>1, <2>4 DEF ofModel, Passing, Statuses, Contents, Shared
  <2>6. outcome = "none" /\ Len(up) <= maxServerRetries + 1
    BY <1>1, <1>3, <2>4 DEF ModelFails, Awaiting, CallInv, MayBeRetried
  <2>7. /\ instant' = instant
        /\ \/ Goto(asked + 1) /\ asked < NumModels
           \/ Give(up) /\ (asked >= NumModels \/ ~ofModel(ending))
    <3>1. asked \in Nat /\ NumModels \in Nat
      BY CallLimits DEF CallInv, CallTyped, Models
    <3> QED
      BY <2>1, <2>3, <3>1 DEF fallback
  <2> QED
    BY <2>4, <2>5, <2>6, <2>7, FallbackKeeps
<1>4. CASE MayPass
  <2>1. PICK ending \in {"503", "silence"} :
               IF Len(tries) < maxServerRetries
               THEN tries' = Append(tries, ending) /\ UNCHANGED <<instant, asked, since, outcome>>
               ELSE fallback(Append(tries, ending), FALSE)
    BY <1>4 DEF MayPass
  <2>2. ending \in Endings /\ Passing(ending)
    BY DEF Endings, Statuses, Passing
  <2>3. PICK up : up = Append(tries, ending)
    OBVIOUS
  <2>4. outcome = "none" /\ Len(tries) <= maxServerRetries /\ \A i \in DOMAIN tries : Passing(tries[i])
    BY <1>4 DEF MayPass, Awaiting, CallInv, MayBeRetried
  <2>5. /\ up \in Seq(Endings) /\ Len(up) = Len(tries) + 1
        /\ \A i \in DOMAIN up : Passing(up[i])
        /\ Range(up) \subseteq {"503", "silence"}
    BY <1>1, <2>2, <2>3, <2>4, TryFacts
  <2>6. CASE Len(tries) < maxServerRetries
    <3>1. tries' = up /\ UNCHANGED <<instant, asked, since, outcome>>
      BY <2>1, <2>3, <2>6
    <3> QED
      BY <1>1, <2>4, <2>5, <2>6, <3>1 DEF CallInv, CallTyped, MayBeRetried, TurnsAreBounded, NoneIsLeftOut
  <2>7. CASE ~(Len(tries) < maxServerRetries)
    <3>1. Len(up) = maxServerRetries + 1
      BY <1>1, <2>4, <2>5, <2>7
    <3>2. Shared(up)
      BY <2>5, <3>1 DEF Shared
    <3>3. fallback(up, FALSE)
      BY <2>1, <2>3, <2>7
    <3>4. instant' = instant /\ ((Goto(asked + 1) /\ asked < NumModels) \/ Give(up))
      BY <3>3 DEF fallback
    <3> QED
      BY <2>4, <2>5, <3>1, <3>2, <3>4, FallbackKeeps
  <2> QED
    BY <2>6, <2>7
<1>5. CASE Deadline
  <2>1. outcome = "none" /\ Len(tries) <= maxServerRetries + 1
    BY <1>5 DEF Deadline, CallInv, CallTyped
  <2>2. asked \in Nat /\ NumModels \in Nat
    BY CallLimits DEF CallInv, CallTyped, Models
  <2>3. instant' = instant /\ ((Goto(asked + 1) /\ asked < NumModels) \/ (Give(tries) /\ asked >= NumModels))
    BY <1>5, <2>2 DEF Deadline, fallback
  <2> QED
    BY <1>1, <2>1, <2>3, FallbackKeeps
<1>6. CASE PassTime
  <2>1. outcome = "none" /\ instant < since + timeout /\ instant' = instant + 1
        /\ UNCHANGED <<asked, since, tries, outcome>>
    BY <1>6 DEF PassTime, patient
  <2>2. instant \in Nat /\ since \in Nat /\ timeout \in Nat /\ since <= instant
    BY DEF CallInv, CallTyped
  <2> QED
    BY <2>1, <2>2 DEF CallInv, CallTyped, MayBeRetried, TurnsAreBounded, NoneIsLeftOut
<1>7. CASE Retry \/ Cancel \/ UNCHANGED callVars
  <2>1. /\ UNCHANGED <<instant, asked, since, tries>>
        /\ outcome' = outcome \/ outcome' = "cancelled"
    BY <1>7 DEF Retry, Cancel, callVars
  <2> QED
    BY <2>1 DEF CallInv, CallTyped, MayBeRetried, TurnsAreBounded, NoneIsLeftOut
<1> QED
  BY <1>2, <1>3, <1>4, <1>5, <1>6, <1>7 DEF CallNext

\* The inductive invariant of a completion (openRouterCompleter).
THEOREM CompletionIsSafe == CallSpec => []CallInv
BY CallStart, CallStep, PTL DEF CallSpec

\* Whatever the servers answer and whatever pauses they name, no model of the
\* list is left out while it might answer, and the caller waits one timeout for
\* each model at most (openRouterCompleter and waitForRetry).
THEOREM CompletionsFallBack == CallSpec => []FallsBack
<1>1. CallInv => FallsBack
  <2> SUFFICES ASSUME CallInv
               PROVE  FallsBack
    OBVIOUS
  <2> USE CallLimits
  <2>1. asked \in Nat /\ since \in Nat /\ instant \in Nat /\ timeout \in Nat
    BY DEF CallInv, CallTyped, Models
  <2>2. (asked - 1) * timeout + timeout = asked * timeout
    BY <2>1, TurnFacts
  <2>3. (asked - 1) * timeout \in Int /\ asked * timeout \in Int
    BY <2>1, TurnFacts
  <2>4. AnswersInTime
    BY <2>1, <2>2, <2>3 DEF CallInv, TurnsAreBounded, AnswersInTime
  <2> QED
    BY <2>4 DEF CallInv, FallsBack
<1> QED
  BY <1>1, CompletionIsSafe, PTL

\* A power of two is a number: as many as a set has subsets.
LEMMA PowersAreNumbers ==
  ASSUME NEW n \in Nat
  PROVE  2^n \in Nat
<1>1. IsFiniteSet(1..n) /\ Cardinality(1..n) = n
  BY FS_Interval
<1>2. IsFiniteSet(SUBSET (1..n)) /\ Cardinality(SUBSET (1..n)) = 2^Cardinality(1..n)
  BY <1>1, FS_SUBSET
<1>3. Cardinality(SUBSET (1..n)) \in Nat
  BY <1>2, FS_CardinalityType
<1> QED
  BY <1>1, <1>2, <1>3

PauseTyped == wake \in {NoPause} \cup Nat

LEMMA PauseKeeps == CallInv /\ PauseTyped /\ [CallNext]_callVars => PauseTyped'
<1>0. SUFFICES ASSUME CallInv, PauseTyped, [CallNext]_callVars PROVE PauseTyped'
  OBVIOUS
<1>1. CASE MayPass
  <2>1. instant \in Nat /\ Len(tries) \in Nat
    BY <1>0 DEF CallInv, CallTyped
  <2>2. PICK ending \in {"503", "silence"} :
          IF Len(tries) < maxServerRetries
          THEN \E delay \in retryDelays(ending) : wake' = instant + delay
          ELSE wake' = NoPause
    BY <1>1 DEF MayPass, fallback
  <2>3. 2^Len(tries) \in Nat /\ Pauses \subseteq Nat
    BY <2>1, PowersAreNumbers, CallAssumption
  <2>4. retryDelays(ending) \subseteq Nat
    BY <2>3 DEF retryDelays
  <2> QED
    BY <2>1, <2>2, <2>4 DEF PauseTyped
<1>2. CASE Answered \/ ModelFails \/ Retry \/ Deadline \/ Cancel \/ PassTime \/ UNCHANGED callVars
  <2>1. wake' = wake \/ wake' = NoPause
    BY <1>2 DEF Answered, ModelFails, Retry, Deadline, Cancel, PassTime, callVars, fallback
  <2> QED
    BY <1>0, <2>1 DEF PauseTyped
<1> QED
  BY <1>0, <1>1, <1>2 DEF CallNext

\* The model that is asked is one of the list, its deadline has begun, and what it
\* was tried is within the retries (openRouterCompleter).
THEOREM CompletionsAreTyped == CallSpec => []CallTypeOK
<1>1. CallInit => PauseTyped
  BY DEF CallInit, PauseTyped
<1>2. CallInv /\ PauseTyped => CallTypeOK
  BY DEF CallInv, CallTyped, PauseTyped, CallTypeOK
<1> QED
  BY <1>1, <1>2, PauseKeeps, CallStart, CallStep, PTL DEF CallSpec

-----------------------------------------------------------------------------
(***************************************************************************)
(* Requests: the patterns, the answers of a model, and the chain of both.  *)
(***************************************************************************)
\* A metric is polled as the words say.
PolledAsSaid(result) ==
  result # None /\ result.type \in {"price", "exchange_rate"} => result.cron = parsePollCron(text)

PollingInv == text \in Texts /\ PolledAsSaid(best) /\ PolledAsSaid(parsed)

LEMMA EmptyIsNotPolled == Empty.type = "none"
BY DEF Empty

LEMMA ExchangeRateIsPolled ==
  ASSUME NEW t
  PROVE  parseExchangeRate(t) = Empty \/ parseExchangeRate(t).cron = parsePollCron(t)
BY DEF parseExchangeRate, rateAlert, Empty

LEMMA PriceIsPolled ==
  ASSUME NEW t
  PROVE  parsePriceDrop(t) = Empty \/ parsePriceDrop(t).cron = parsePollCron(t)
BY DEF parsePriceDrop, Empty

LEMMA WeatherIsNotPolled ==
  ASSUME NEW t
  PROVE  parseWeather(t).type \in {"none", "weather"}
BY DEF parseWeather, weather, Empty

LEMMA OthersAreNotPolled ==
  ASSUME NEW t
  PROVE  /\ parseTVAnchor(t).type \in {"none", "tv_program"}
         /\ parseRSSDigest(t).type \in {"none", "rss"}
         /\ parseRecurring(t).type \in {"none", "recurring"}
         /\ parseAbsolute(t).type \in {"none", "absolute"}
BY DEF parseTVAnchor, parseRSSDigest, parseRecurring, parseAbsolute, Empty

\* The first pattern that makes something of a text.
LEMMA FirstPattern ==
  ASSUME NEW t
  PROVE  FastPath(t) =
           IF parseExchangeRate(t) # Empty THEN parseExchangeRate(t)
           ELSE IF parseWeather(t) # Empty THEN parseWeather(t)
           ELSE IF parseTVAnchor(t) # Empty THEN parseTVAnchor(t)
           ELSE IF parsePriceDrop(t) # Empty THEN parsePriceDrop(t)
           ELSE IF parseRSSDigest(t) # Empty THEN parseRSSDigest(t)
           ELSE IF parseRecurring(t) # Empty THEN parseRecurring(t)
           ELSE IF parseAbsolute(t) # Empty THEN parseAbsolute(t) ELSE Empty
<1>0. PICK none, r1, r2, r3, r4, r5, r6, r7 :
        /\ none = Empty /\ r1 = parseExchangeRate(t) /\ r2 = parseWeather(t) /\ r3 = parseTVAnchor(t)
        /\ r4 = parsePriceDrop(t) /\ r5 = parseRSSDigest(t) /\ r6 = parseRecurring(t) /\ r7 = parseAbsolute(t)
  OBVIOUS
<1>1. PICK tried : tried = <<r1, r2, r3, r4, r5, r6, r7, none>>
  OBVIOUS
<1>2. PICK some : some = {i \in DOMAIN tried : tried[i] # none} \cup {Len(tried)}
  OBVIOUS
<1>3. DOMAIN tried = 1..8 /\ Len(tried) = 8
  BY <1>1
<1>4. PICK n : n = IF r1 # none THEN 1 ELSE IF r2 # none THEN 2 ELSE IF r3 # none THEN 3 ELSE IF r4 # none THEN 4
                   ELSE IF r5 # none THEN 5 ELSE IF r6 # none THEN 6 ELSE IF r7 # none THEN 7 ELSE 8
  OBVIOUS
<1>5. PICK first : first = CHOOSE i \in some : \A j \in some : i <= j
  OBVIOUS
<1>6. /\ tried[1] = r1 /\ tried[2] = r2 /\ tried[3] = r3 /\ tried[4] = r4 /\ tried[5] = r5 /\ tried[6] = r6
      /\ tried[7] = r7 /\ tried[8] = none
  BY <1>1
<1>7. first \in some /\ \A j \in some : first <= j
  <2>1. some = {i \in 1..8 : tried[i] # none} \cup {8}
    BY <1>2, <1>3
  <2>2. n \in some
    BY <1>4, <1>6, <2>1
  <2>3. \A j \in some : j \in {1, 2, 3, 4, 5, 6, 7, 8} /\ (j = 8 \/ tried[j] # none)
    BY <2>1
  <2>4. \A j \in some : n <= j
    BY <1>4, <1>6, <2>3
  <2> QED
    BY <1>5, <2>2, <2>4
<1>8. first \in 1..8 /\ (first < 8 => tried[first] # none) /\ \A i \in 1..8 : i < first => tried[i] = none
  BY <1>2, <1>3, <1>7
<1>9. first \in {1, 2, 3, 4, 5, 6, 7, 8}
  BY <1>8
<1>10. tried[first] = IF r1 # none THEN r1 ELSE IF r2 # none THEN r2 ELSE IF r3 # none THEN r3 ELSE IF r4 # none THEN r4
                      ELSE IF r5 # none THEN r5 ELSE IF r6 # none THEN r6 ELSE IF r7 # none THEN r7 ELSE none
  BY <1>6, <1>8, <1>9
<1>11. FastPath(t) = tried[first]
  BY <1>0, <1>1, <1>2, <1>5 DEF FastPath
<1> QED
  BY <1>0, <1>10, <1>11, Zenon

LEMMA PatternsPollAsSaid ==
  ASSUME NEW t
  PROVE  FastPath(t).type \in {"price", "exchange_rate"} => FastPath(t).cron = parsePollCron(t)
<1>1. \A r \in {parseExchangeRate(t), parseWeather(t), parseTVAnchor(t), parsePriceDrop(t),
                 parseRSSDigest(t), parseRecurring(t), parseAbsolute(t), Empty} :
        r.type \in {"price", "exchange_rate"} => r.cron = parsePollCron(t)
  BY EmptyIsNotPolled, ExchangeRateIsPolled, PriceIsPolled, WeatherIsNotPolled, OthersAreNotPolled
<1>2. FastPath(t) \in {parseExchangeRate(t), parseWeather(t), parseTVAnchor(t), parsePriceDrop(t),
                       parseRSSDigest(t), parseRecurring(t), parseAbsolute(t), Empty}
  BY FirstPattern, Zenon
<1> QED
  BY <1>1, <1>2

LEMMA PrescribedPolls ==
  ASSUME NEW t, Prescribed(t) # Unsaid
  PROVE  /\ Prescribed(t).type \in {"price", "exchange_rate"} => Prescribed(t).cron = parsePollCron(t)
         /\ Prescribed(t).type # "none"
         /\ Prescribed(t).type = "tv_program" => Prescribed(t).trigger = "anchor"
         /\ {"trigger", "type", "params", "message", "condition", "cron", "lead", "confidence"} \subseteq DOMAIN Prescribed(t)
<1>1. Prescribed(t).type \in {"price", "exchange_rate"} => Prescribed(t).cron = parsePollCron(t)
  BY DEF Prescribed, said
<1>2. Prescribed(t).type # "none"
  BY DEF Prescribed, said
<1>3. Prescribed(t).type = "tv_program" => Prescribed(t).trigger = "anchor"
  BY DEF Prescribed, said
<1>4. {"trigger", "type", "params", "message", "condition", "cron", "lead", "confidence"} \subseteq DOMAIN Prescribed(t)
  BY DEF Prescribed, said
<1> QED
  BY <1>1, <1>2, <1>3, <1>4

\* An answer that forgets nothing is the prescribed one but for its lead time or its
\* condition.
LEMMA AnswersAreNear ==
  ASSUME NEW t, NEW a \in Answers(t) \cup Garbled(Prescribed(t))
  PROVE  \/ a \in Sloppy(Prescribed(t))
         \/ \E x : a = [Prescribed(t) EXCEPT !.lead = x] \/ a = [Prescribed(t) EXCEPT !.condition = x]
<1>1. PICK p : p = Prescribed(t)
  OBVIOUS
<1>2. a \in Answers(t) => a \in Sloppy(p) \/ a = [p EXCEPT !.lead = t.show.lead]
  BY <1>1 DEF Answers
<1>3. a \in Garbled(p) => \E x : a = [p EXCEPT !.lead = x] \/ a = [p EXCEPT !.condition = x]
  <2>1. PICK lead, condition :
          /\ lead = [p.lead EXCEPT !.unit = "fortnight"]
          /\ condition = [p.condition EXCEPT !.cooldown = [n |-> 1, unit |-> "day"]]
    OBVIOUS
  <2>2. a \in Garbled(p) => a = [p EXCEPT !.lead = lead] \/ a = [p EXCEPT !.condition = condition]
    BY <2>1 DEF Garbled
  <2> QED
    BY <2>2
<1> QED
  BY <1>1, <1>2, <1>3

\* What a model forgets of a price or a programme is filled in as it was.
LEMMA AnswersPoll ==
  ASSUME NEW t, Prescribed(t) # Unsaid, NEW a \in Answers(t) \cup Garbled(Prescribed(t)), mapToResult(a) # None
  PROVE  LET r == mapToResult(a) IN r.type \in {"price", "exchange_rate"} => r.cron = parsePollCron(t)
<1> DEFINE p == Prescribed(t)
<1>1. p.type \in {"price", "exchange_rate"} => p.cron = parsePollCron(t)
  BY PrescribedPolls
<1>0. p.type # "none" /\ (p.type = "tv_program" => p.trigger = "anchor")
  BY PrescribedPolls
<1>2. mapToResult(a).type = inferredType(a) /\ mapToResult(a).cron = a.cron
  BY DEF mapToResult
<1>3. {"trigger", "type", "params", "message", "condition", "cron", "lead", "confidence"} \subseteq DOMAIN p
  BY PrescribedPolls
<1>4. a \in Sloppy(p) \/ \E x : a = [p EXCEPT !.lead = x] \/ a = [p EXCEPT !.condition = x]
  BY AnswersAreNear
<1> HIDE DEF p
<1>5. a.cron = p.cron /\ (a.type = p.type \/ (a.type = "none" /\ p.type \in {"price", "tv_program"} /\ a.trigger = p.trigger))
  <2>1. CASE a \in Sloppy(p)
    BY <1>3, <2>1 DEF Sloppy
  <2>2. CASE \E x : a = [p EXCEPT !.lead = x] \/ a = [p EXCEPT !.condition = x]
    BY <1>3, <2>2
  <2> QED
    BY <1>4, <2>1, <2>2
<1>6. inferredType(a) \in {"price", "exchange_rate"} => p.type \in {"price", "exchange_rate"}
  BY <1>0, <1>5 DEF inferredType
<1> QED
  BY <1>1, <1>2, <1>5, <1>6

LEMMA PollingStart == RequestInit => PollingInv
BY EmptyIsNotPolled DEF RequestInit, PollingInv, PolledAsSaid

LEMMA Considered ==
  ASSUME PollingInv, NEW STATE result, PolledAsSaid(result), Consider(result)
  PROVE  PollingInv'
<1>1. best' \in {result, best} /\ parsed' \in {result, best, None} /\ text' = text
  BY DEF Consider
<1> QED
  BY <1>1 DEF PollingInv, PolledAsSaid

LEMMA PollingStep == PollingInv /\ [RequestNext]_requestVars => PollingInv'
<1> SUFFICES ASSUME PollingInv, [RequestNext]_requestVars
             PROVE  PollingInv'
  OBVIOUS
<1>0. PolledAsSaid(Empty)
  BY EmptyIsNotPolled DEF PolledAsSaid
<1>1. CASE ParseByPattern
  <2>1. PolledAsSaid(FastPath(text))
    BY PatternsPollAsSaid DEF PolledAsSaid
  <2> QED
    BY <1>1, <2>1, Considered DEF ParseByPattern
<1>2. CASE ParseByModel
  <2>1. PICK a \in Answers(text) \cup Garbled(Prescribed(text)) :
          Consider(IF mapToResult(a) = None THEN Empty ELSE mapToResult(a))
    BY <1>2 DEF ParseByModel
  <2>2. mapToResult(a) # None => PolledAsSaid(mapToResult(a))
    BY <1>2, AnswersPoll DEF PolledAsSaid, ParseByModel
  <2> QED
    BY <1>0, <2>1, <2>2, Considered
<1>3. CASE ModelIsSilent
  BY <1>0, <1>3, Considered DEF ModelIsSilent
<1>4. CASE UNCHANGED requestVars
  BY <1>4 DEF requestVars, PollingInv, PolledAsSaid, parsePollCron
<1> QED
  BY <1>1, <1>2, <1>3, <1>4 DEF RequestNext

-----------------------------------------------------------------------------
\* A number is a multiple of another and a rest, in one way.
LEMMA Rest ==
  ASSUME NEW n \in Nat, n > 0, NEW q \in Int, NEW r \in 0..n - 1
  PROVE  (n * q + r) % n = r /\ (n * q + r) \div n = q
<1> DEFINE a == n * q + r
           d == q - (a \div n)
<1>0. a \in Int
  OBVIOUS
<1> HIDE DEF a
<1>1. a = n * (a \div n) + (a % n) /\ a % n \in 0..n - 1 /\ a \div n \in Int
  BY <1>0
<1>2. n * d = n * q - n * (a \div n)
  BY <1>1
<1>3. n * d = (a % n) - r /\ d \in Int
  BY <1>1, <1>2 DEF a
<1> HIDE DEF d
<1>4. d = 0
  <2>1. CASE d >= 1
    <3>1. n * d >= n
      BY <1>3, <2>1
    <3> QED
      BY <1>1, <1>3, <3>1
  <2>2. CASE d <= -1
    <3>1. n * d <= -n
      BY <1>3, <2>2
    <3> QED
      BY <1>1, <1>3, <3>1
  <2> QED
    BY <1>3, <2>1, <2>2
<1> QED
  BY <1>1, <1>3, <1>4 DEF a, d

\* n fires of a cycle of length L.
LEMMA NextFire ==
  ASSUME NEW n \in Nat \ {0}, NEW length \in Nat \ {0}, NEW k \in 0..length - 1, k % n = 0
  PROVE  \E wait \in 1..n : (k + wait) % length \in {j \in 0..length - 1 : j % n = 0}
<1>1. CASE k + n < length
  <2>1. (k + n) % length = k + n
    BY <1>1
  <2>2. (k + n) % n = 0
    <3>1. k = n * (k \div n) /\ k \div n \in Int
      OBVIOUS
    <3>2. PICK q \in Int : k + n = n * q + 0
      <4>1. k + n = n * ((k \div n) + 1) + 0
        BY <3>1
      <4> QED
        BY <3>1, <4>1
    <3>3. 0 \in 0..n - 1 /\ n \in Nat /\ n > 0
      OBVIOUS
    <3>4. (n * q + 0) % n = 0
      BY <3>3, Rest, Zenon
    <3> QED
      BY <3>2, <3>4
  <2> QED
    BY <1>1, <2>1, <2>2
<1>2. CASE k + n >= length
  <2> DEFINE wait == length - k
  <2>1. wait \in 1..n
    BY <1>2
  <2>2. (k + wait) % length = 0
    OBVIOUS
  <2>3. 0 \in {j \in 0..length - 1 : j % n = 0}
    OBVIOUS
  <2> QED
    BY <2>1, <2>2, <2>3
<1> QED
  BY <1>1, <1>2

LEMMA PolledInTimeLemma == PollingInv => PolledInTime
<1>0. SUFFICES ASSUME PollingInv,
                    parsed \notin {None, Empty}, parsed.type \in {"price", "exchange_rate"},
                    parsed.cron # None, Interval # None, "every hour" \notin text.words
             PROVE  LET length == Cycle[Interval.unit]
                        fires == {k \in 0..length - 1 : k % parsed.cron.step = 0}
                    IN /\ parsed.cron.every = Interval.unit
                       /\ \A k \in fires : \E wait \in 1..Interval.n : (k + wait) % length \in fires
  BY DEF PolledInTime
<1>1. parsed.cron = parsePollCron(text)
  BY <1>0 DEF PollingInv, PolledAsSaid
<1>2. parsePollCron(text) = intervalToCron(Interval.n, Interval.unit)
  BY <1>0 DEF parsePollCron, Interval
<1>3. Interval.n \in Nat /\ Interval.unit \in {"minute", "hour"}
  BY <1>0, TextsAssumption DEF PollingInv, Interval
<1>4. PICK n \in Nat, unit \in {"minute", "hour"} : n = Interval.n /\ unit = Interval.unit
  BY <1>3
<1>5. n > 0 /\ parsed.cron = [every |-> unit, step |-> n]
  <2>1. parsed.cron = intervalToCron(n, unit)
    BY <1>1, <1>2, <1>4, Zenon
  <2>2. ~(n <= 0)
    BY <1>0, <2>1, Zenon DEF intervalToCron
  <2> QED
    BY <2>1, <2>2 DEF intervalToCron
<1>6. Cycle[unit] \in Nat \ {0}
  <2>1. Cycle["minute"] = 60 /\ Cycle["hour"] = 24
    BY DEF Cycle
  <2> QED
    BY <2>1
<1>7. parsed.cron.every = unit /\ parsed.cron.step = n
  BY <1>5
<1>9. n \in Nat \ {0}
  BY <1>5
<1>8. \A k \in 0..Cycle[unit] - 1 : k % n = 0 =>
        \E wait \in 1..n : (k + wait) % Cycle[unit] \in {j \in 0..Cycle[unit] - 1 : j % n = 0}
  BY <1>5, <1>6, <1>9, NextFire, Zenon
<1> QED
  BY <1>4, <1>7, <1>8

\* A price or a rate is polled as often as the user asked, in the unit that was
\* said, and the wait between two fires never exceeds the interval, also at the
\* end of an hour or a day (parsePollCron, intervalToCron).
THEOREM MetricsArePolledInTime == RequestSpec => []PolledInTime
<1>1. RequestInit => PollingInv
  BY PollingStart
<1>2. PollingInv /\ [RequestNext]_requestVars => PollingInv'
  BY PollingStep
<1>3. PollingInv => PolledInTime
  BY PolledInTimeLemma
<1> QED
  BY <1>1, <1>2, <1>3, PTL DEF RequestSpec

(***************************************************************************)
(* What a pattern or an answer makes of a text has a kind, and is sure to  *)
(* some degree or Empty.                                                   *)
(***************************************************************************)
ResultKinds == {"none", "absolute", "recurring", "conditional"}
Made(result) == result.kind \in ResultKinds /\ (result = Empty \/ result.confidence \in 1..100)

RequestInv == turn \in 1..Len(Parsers) + 1 /\ Made(best) /\ (parsed # None => Made(parsed))

LEMMA EmptyIsMade == Made(Empty)
BY DEF Made, Empty, ResultKinds

LEMMA PatternsMake ==
  ASSUME NEW t
  PROVE  /\ Made(parseExchangeRate(t)) /\ Made(parseWeather(t)) /\ Made(parseTVAnchor(t)) /\ Made(parsePriceDrop(t))
         /\ Made(parseRSSDigest(t)) /\ Made(parseRecurring(t)) /\ Made(parseAbsolute(t))
<1>1. Made(parseExchangeRate(t))
  BY DEF Made, ResultKinds, Empty, parseExchangeRate, rateAlert
<1>2. Made(parseWeather(t))
  BY DEF Made, ResultKinds, Empty, parseWeather, weather
<1>3. Made(parseTVAnchor(t)) /\ Made(parsePriceDrop(t)) /\ Made(parseRSSDigest(t))
  BY DEF Made, ResultKinds, Empty, parseTVAnchor, parsePriceDrop, parseRSSDigest
<1>4. Made(parseRecurring(t)) /\ Made(parseAbsolute(t))
  BY DEF Made, ResultKinds, Empty, parseRecurring, parseAbsolute
<1> QED
  BY <1>1, <1>2, <1>3, <1>4

LEMMA AnswersMake ==
  ASSUME NEW t, NEW a \in Answers(t) \cup Garbled(Prescribed(t)), mapToResult(a) # None
  PROVE  Made(mapToResult(a))
<1>1. PICK p : p = Prescribed(t)
  OBVIOUS
<1>2. p.kind \in ResultKinds /\ p.confidence = 90 /\ {"kind", "trigger", "type", "params", "message", "condition", "lead", "confidence"} \subseteq DOMAIN p
  BY <1>1 DEF Prescribed, said, Unsaid, ResultKinds
<1>3. a.kind = p.kind /\ a.confidence \in {40, 90}
  <2>1. a \in Sloppy(p) \/ \E x : a = [p EXCEPT !.lead = x] \/ a = [p EXCEPT !.condition = x]
    BY <1>1, AnswersAreNear
  <2>2. PICK params, message, condition, lead :
          \/ a = p \/ a = [p EXCEPT !.trigger = "none"] \/ a = [p EXCEPT !.confidence = 40] \/ a = [p EXCEPT !.type = "none"]
          \/ a = [p EXCEPT !.params = params, !.message = message] \/ a = [p EXCEPT !.condition = condition]
          \/ a = [p EXCEPT !.lead = lead]
    BY <2>1 DEF Sloppy
  <2>3. "kind" \in DOMAIN p /\ "confidence" \in DOMAIN p
    BY <1>2
  <2>4. p.confidence = 90
    BY <1>2
  <2>5. CASE a = p
    BY <2>4, <2>5
  <2>6. CASE a = [p EXCEPT !.trigger = "none"]
    BY <2>3, <2>4, <2>6
  <2>7. CASE a = [p EXCEPT !.confidence = 40]
    BY <2>3, <2>4, <2>7
  <2>8. CASE a = [p EXCEPT !.type = "none"]
    BY <2>3, <2>4, <2>8
  <2>9. CASE a = [p EXCEPT !.params = params, !.message = message]
    BY <2>3, <2>4, <2>9
  <2>10. CASE a = [p EXCEPT !.condition = condition]
    BY <2>3, <2>4, <2>10
  <2>11. CASE a = [p EXCEPT !.lead = lead]
    BY <2>3, <2>4, <2>11
  <2> QED
    BY <2>2, <2>5, <2>6, <2>7, <2>8, <2>9, <2>10, <2>11
<1>4. mapToResult(a).kind = a.kind /\ mapToResult(a).confidence = a.confidence
  BY DEF mapToResult
<1> QED
  BY <1>2, <1>3, <1>4 DEF Made

LEMMA RequestStart ==
  ASSUME turn = 1, best = Empty, parsed = None
  PROVE  RequestInv
BY EmptyIsMade DEF RequestInv, Parsers

LEMMA ConsideredIsMade ==
  ASSUME RequestInv, NEW STATE result, Made(result), turn <= Len(Parsers), Consider(result)
  PROVE  RequestInv'
<1>1. best' \in {result, best} /\ parsed' \in {result, best, None} /\ turn' = turn + 1
  BY DEF Consider
<1>2. Len(Parsers) = 2
  BY DEF Parsers
<1>3. Made(best)'
  <2>1. CASE best' = best
    BY <2>1 DEF RequestInv, Made, Empty
  <2>2. CASE best' = result
    BY <2>2 DEF Made, Empty
  <2> QED
    BY <1>1, <2>1, <2>2
<1>4. (parsed # None => Made(parsed))'
  BY <1>1 DEF RequestInv, Made, Empty
<1>5. (turn \in 1..Len(Parsers) + 1)'
  BY <1>1, <1>2 DEF RequestInv
<1> QED
  BY <1>3, <1>4, <1>5 DEF RequestInv

LEMMA RequestKeeps == RequestInv /\ [RequestNext]_requestVars => RequestInv'
<1>0. SUFFICES ASSUME RequestInv, [RequestNext]_requestVars PROVE RequestInv'
  OBVIOUS
<1>1. CASE ParseByPattern
  <2>1. Made(FastPath(text))
    <3>1. FastPath(text) \in {parseExchangeRate(text), parseWeather(text), parseTVAnchor(text), parsePriceDrop(text),
                              parseRSSDigest(text), parseRecurring(text), parseAbsolute(text), Empty}
      BY FirstPattern, Zenon
    <3> QED
      BY <3>1, PatternsMake, EmptyIsMade
  <2> QED
    BY <1>0, <1>1, <2>1, ConsideredIsMade DEF ParseByPattern, TurnOf
<1>2. CASE ParseByModel
  <2>1. PICK a \in Answers(text) \cup Garbled(Prescribed(text)) :
          Consider(IF mapToResult(a) = None THEN Empty ELSE mapToResult(a))
    BY <1>2 DEF ParseByModel
  <2>2. mapToResult(a) # None => Made(mapToResult(a))
    BY AnswersMake
  <2>3. turn <= Len(Parsers)
    BY <1>2 DEF ParseByModel, TurnOf
  <2>4. CASE mapToResult(a) = None
    BY <1>0, <2>1, <2>3, <2>4, EmptyIsMade, ConsideredIsMade
  <2>5. CASE mapToResult(a) # None
    BY <1>0, <2>1, <2>2, <2>3, <2>5, ConsideredIsMade
  <2> QED
    BY <2>4, <2>5
<1>3. CASE ModelIsSilent
  BY <1>0, <1>3, EmptyIsMade, ConsideredIsMade DEF ModelIsSilent, TurnOf
<1>4. CASE UNCHANGED requestVars
  BY <1>0, <1>4 DEF requestVars, RequestInv, Made, Empty
<1> QED
  BY <1>0, <1>1, <1>2, <1>3, <1>4 DEF RequestNext

LEMMA RequestTyped == RequestInv => RequestTypeOK
BY DEF RequestInv, RequestTypeOK, Made, ResultKinds

\* Each parser has its turn, and what the chain settles on has a kind and a
\* confidence, or it recognised nothing (Chain.Parse).
THEOREM RequestsAreTyped == RequestSpec => []RequestTypeOK
<1>1. RequestInit => RequestInv
  BY RequestStart DEF RequestInit
<1> QED
  BY <1>1, RequestKeeps, RequestTyped, PTL DEF RequestSpec

\* What is assumed of the sizes, and what None is not.
LEMMA TextSizes ==
  /\ RateScale \in Nat \ {0} /\ PercentScale \in Nat \ {0} /\ MaxInt64 \in Nat \ {0}
  /\ HourLength \in Nat \ {0} /\ DayLength \in Nat \ {0} /\ DayLength % HourLength = 0
  /\ None \notin Int /\ None \notin Nat /\ None \notin BOOLEAN /\ None \notin [n : Nat, unit : Units]
<1>1. {RateScale, PercentScale, MaxInt64, HourLength, DayLength} \subseteq Nat \ {0}
  BY TextsAssumption, Zenon
<1>2. DayLength % HourLength = 0
  BY TextsAssumption, Zenon
<1>3. None \notin Int \cup BOOLEAN \cup [n : Nat, unit : Units]
  BY TextsAssumption, Zenon
<1> QED
  BY <1>1, <1>2, <1>3

(***************************************************************************)
(* What an answer means, whatever of it the model forgets.                 *)
(***************************************************************************)
Answer(p) ==
  p = [kind |-> p.kind, trigger |-> p.trigger, type |-> p.type, params |-> p.params, condition |-> p.condition,
       cron |-> p.cron, fireAt |-> p.fireAt, lead |-> p.lead, topN |-> p.topN, message |-> p.message,
       confidence |-> p.confidence]
Operators == {"gt", "lt", "gte", "lte", "changed_pct"}
SpelledDurations == [n : Nat, unit : Units]
Conditions ==
  [operator : Operators, target : {None} \cup Int, percent : {None} \cup Nat, edge : BOOLEAN,
   cooldown : {None} \cup SpelledDurations]
TriggerOf(type, condition) ==
  CASE type \in {"price", "exchange_rate"} -> "threshold"
    [] type = "tv_program" -> "anchor"
    [] type = "rss" -> "digest"
    [] type = "weather" -> IF condition # None THEN "threshold" ELSE "anchor"
    [] OTHER -> "none"
\* An answer that says what it must, in the way the prompt asks for.
Clear(p) ==
  /\ p.type \in {"price", "exchange_rate", "tv_program", "rss", "weather", "recurring", "absolute"}
  /\ p.trigger = TriggerOf(p.type, p.condition)
  /\ p.type \in {"price", "rss"} =>
       \E links : /\ p.params = {<<"url", links>>} /\ links # <<>>
                  /\ p.type = "price" => links = <<links[1]>>
  /\ p.type = "weather" => p.fireAt = None \/ <<"day", "tomorrow">> \notin p.params
  /\ p.condition # None =>
       /\ p.condition \in Conditions /\ ~outOfRange(p)
       /\ ParseDuration(p.condition.cooldown) \in Nat
       /\ Valid([p.condition EXCEPT !.target = storedTarget(p), !.cooldown = ParseDuration(@)])

Meaning(p) ==
  [kind |-> p.kind, trigger |-> p.trigger, type |-> p.type, params |-> p.params,
   condition |-> IF p.condition = None THEN None
                 ELSE [p.condition EXCEPT !.target = storedTarget(p), !.cooldown = ParseDuration(@)],
   cron |-> p.cron, fireAt |-> p.fireAt, lead |-> parseLeadTime(p.lead), topN |-> clampTopN(p.topN), confidence |-> 0]

\* A condition that does not say it is told once is.
LEMMA ConditionFacts ==
  ASSUME NEW c \in Conditions
  PROVE  /\ c # None
         /\ c.operator \in Operators /\ c.target \in {None} \cup Int /\ c.edge \in BOOLEAN
         /\ c.percent \in {None} \cup Nat /\ c.cooldown \in {None} \cup SpelledDurations
         /\ c = [operator |-> c.operator, target |-> c.target, percent |-> c.percent, edge |-> c.edge,
                 cooldown |-> c.cooldown]
         /\ [c EXCEPT !.edge = None] # None
         /\ [c EXCEPT !.edge = None].target = c.target
         /\ [c EXCEPT !.edge = None].cooldown = c.cooldown
         /\ [c EXCEPT !.edge = None].edge = None
<1>1. /\ c.operator \in Operators /\ c.target \in {None} \cup Int /\ c.edge \in BOOLEAN
      /\ c.percent \in {None} \cup Nat /\ c.cooldown \in {None} \cup SpelledDurations
      /\ c = [operator |-> c.operator, target |-> c.target, percent |-> c.percent, edge |-> c.edge,
              cooldown |-> c.cooldown]
  BY DEF Conditions
<1>2. PICK d : d = [c EXCEPT !.edge = None]
  OBVIOUS
<1>3. d = [operator |-> c.operator, target |-> c.target, percent |-> c.percent, edge |-> None,
           cooldown |-> c.cooldown]
  BY <1>1, <1>2
<1>4. PICK C : C = {None} \cup Nat \cup [n : Nat, unit : Units]
  OBVIOUS
<1>5. c.cooldown \in C
  BY <1>1, <1>4 DEF SpelledDurations
<1>6. /\ c \in [operator : Operators, target : {None} \cup Int, percent : {None} \cup Nat,
               edge : {None} \cup BOOLEAN, cooldown : C]
      /\ d \in [operator : Operators, target : {None} \cup Int, percent : {None} \cup Nat,
               edge : {None} \cup BOOLEAN, cooldown : C]
  BY <1>1, <1>3, <1>5
<1>7. None \notin [operator : Operators, target : {None} \cup Int, percent : {None} \cup Nat,
                   edge : {None} \cup BOOLEAN, cooldown : C]
  BY <1>4, TextsAssumption DEF Operators
<1>8. c # None /\ d # None
  BY <1>6, <1>7
<1> QED
  BY <1>1, <1>2, <1>3, <1>8

\* The links of an answer that has them, or left them in its message.
LEMMA LinksAreRescued ==
  ASSUME NEW links, links # <<>>, NEW type \in {"price", "rss"}, type = "price" => links = <<links[1]>>,
         NEW a, inferredType(a) = type,
         \/ a.params = {<<"url", links>>}
         \/ /\ a.params = {<<"url", links>>} \ Param({<<"url", links>>}, "url")
            /\ a.message = (CHOOSE q \in Param({<<"url", links>>}, "url") : TRUE)[2]
  PROVE  a.params \cup rescuedURL(a) = {<<"url", links>>}
<1>1. Param({<<"url", links>>}, "url") = {<<"url", links>>} /\ Param({}, "url") = {}
  BY DEF Param
<1>2. CASE a.params = {<<"url", links>>}
  <2>1. rescuedURL(a) = {}
    BY <1>1, <1>2 DEF rescuedURL
  <2> QED
    BY <1>2, <2>1
<1>3. CASE ~(a.params = {<<"url", links>>})
  <2>1. a.params = {}
    BY <1>1, <1>3
  <2>2. a.message = links
    <3>1. (CHOOSE q \in {<<"url", links>>} : TRUE) = <<"url", links>>
      OBVIOUS
    <3>2. <<"url", links>>[2] = links
      OBVIOUS
    <3> QED
      BY <1>1, <1>3, <3>1, <3>2
  <2>3. rescuedURL(a) = {<<"url", IF type = "rss" THEN links ELSE <<links[1]>>>>}
    BY <1>1, <2>1, <2>2 DEF rescuedURL
  <2>4. (IF type = "rss" THEN links ELSE <<links[1]>>) = links
    OBVIOUS
  <2> QED
    BY <2>1, <2>3, <2>4
<1> QED
  BY <1>2, <1>3

LEMMA OthersHaveNoLinks ==
  ASSUME NEW a, inferredType(a) \notin {"price", "rss"}
  PROVE  rescuedURL(a) = {}
BY DEF rescuedURL

\* What is stored, when the answer's parts are those of a clear one.
LEMMA AnswerMeans ==
  ASSUME NEW p, Clear(p), NEW a,
         a.kind = p.kind, a.cron = p.cron, a.fireAt = p.fireAt, a.topN = p.topN,
         parseLeadTime(a.lead) = parseLeadTime(p.lead),
         inferredTrigger(a) = p.trigger, inferredType(a) = p.type,
         a.type = p.type \/ (a.type = "none" /\ p.type \notin {"weather", "exchange_rate"}),
         \/ a.params = p.params
         \/ /\ p.type \in {"price", "rss"} /\ a.params = p.params \ Param(p.params, "url")
            /\ a.message = (CHOOSE q \in Param(p.params, "url") : TRUE)[2],
         \/ a.condition = p.condition
         \/ p.condition # None /\ p.condition.edge /\ a.condition = [p.condition EXCEPT !.edge = None]
  PROVE  [mapToResult(a) EXCEPT !.confidence = 0] = Meaning(p)
<1>1. p.type \in {"price", "exchange_rate", "tv_program", "rss", "weather", "recurring", "absolute"}
  BY DEF Clear
<1>2. a.params # p.params => p.type \in {"price", "rss"}
  OBVIOUS
<1>3. (IF a.type = "weather" /\ a.fireAt # None /\ <<"day", "tomorrow">> \in a.params
       THEN (a.params \ Param(a.params, "day")) \cup {<<"day", Day(1)>>} ELSE a.params) = a.params
  <2>1. a.type = "weather" => p.type = "weather" /\ a.params = p.params
    BY <1>2
  <2> QED
    BY <2>1 DEF Clear
<1>4. a.params \cup rescuedURL(a) = p.params
  <2>1. CASE p.type \in {"price", "rss"}
    <3>1. PICK links : p.params = {<<"url", links>>} /\ links # <<>> /\ (p.type = "price" => links = <<links[1]>>)
      BY <2>1 DEF Clear
    <3>2. PICK type : type = p.type
      OBVIOUS
    <3>3. \/ a.params = {<<"url", links>>}
          \/ /\ a.params = {<<"url", links>>} \ Param({<<"url", links>>}, "url")
             /\ a.message = (CHOOSE q \in Param({<<"url", links>>}, "url") : TRUE)[2]
      BY <3>1
    <3>4. type \in {"price", "rss"} /\ inferredType(a) = type /\ (type = "price" => links = <<links[1]>>) /\ links # <<>>
      BY <2>1, <3>1, <3>2
    <3>5. a.params \cup rescuedURL(a) = {<<"url", links>>}
      BY <3>3, <3>4, LinksAreRescued
    <3> QED
      BY <3>1, <3>5
  <2>2. CASE p.type \notin {"price", "rss"}
    BY <1>2, <2>2, OthersHaveNoLinks
  <2> QED
    BY <2>1, <2>2
<1>5. CASE p.condition = None
  <2>1. a.condition = None
    BY <1>5
  <2>2. mapToResult(a) =
          [kind |-> a.kind, trigger |-> inferredTrigger(a), type |-> inferredType(a), params |-> p.params,
           condition |-> None, cron |-> a.cron, fireAt |-> a.fireAt, lead |-> parseLeadTime(a.lead), topN |-> clampTopN(a.topN),
           confidence |-> a.confidence]
    BY <1>3, <1>4, <2>1 DEF mapToResult
  <2> QED
    BY <1>5, <2>2 DEF Meaning
<1>6. CASE p.condition # None
  <2>1. PICK c \in Conditions : c = p.condition
    BY <1>6 DEF Clear
  <2>2. a.condition = c \/ (c.edge /\ a.condition = [c EXCEPT !.edge = None])
    BY <1>6, <2>1
  <2>3. a.condition # None /\ a.condition.target = c.target /\ a.condition.cooldown = c.cooldown
    BY <2>1, <2>2, ConditionFacts
  <2>4. (IF a.condition.edge = None THEN TRUE ELSE a.condition.edge) = c.edge
    <3>1. c.edge # None /\ c.edge \in BOOLEAN
      BY ConditionFacts, TextsAssumption
    <3>2. CASE a.condition = c
      BY <3>1, <3>2
    <3>3. CASE c.edge /\ a.condition = [c EXCEPT !.edge = None]
      <4>1. a.condition.edge = None
        BY <3>3, ConditionFacts
      <4>2. c.edge = TRUE
        BY <3>1, <3>3
      <4> QED
        BY <4>1, <4>2
    <3> QED
      BY <2>2, <3>2, <3>3
  <2>5. storedTarget(a) = storedTarget(p) /\ (outOfRange(a) <=> outOfRange(p))
    <3>1. a.type \in {"weather", "exchange_rate"} \/ p.type \in {"weather", "exchange_rate"} =>
            a.type = p.type /\ a.params = p.params
      BY <1>2
    <3>2. storedTarget(a) = storedTarget(p)
      <4>1. a.condition.target = p.condition.target
        BY <2>1, <2>3
      <4>2. CASE p.type \in {"weather", "exchange_rate"}
        BY <3>1, <4>1, <4>2, Zenon DEF storedTarget
      <4>3. CASE p.type \notin {"weather", "exchange_rate"}
        <5>1. a.type \notin {"weather", "exchange_rate"}
          BY <3>1, <4>3
        <5>2. p.type # "weather" /\ p.type # "exchange_rate" /\ a.type # "weather" /\ a.type # "exchange_rate"
          BY <4>3, <5>1
        <5>3. storedTarget(a) = a.condition.target
          BY <5>2 DEF storedTarget
        <5>4. storedTarget(p) = p.condition.target
          BY <5>2 DEF storedTarget
        <5> QED
          BY <4>1, <5>3, <5>4
      <4> QED
        BY <4>2, <4>3
    <3>3. a.condition # None /\ p.condition # None /\ a.condition.target = p.condition.target
      BY <1>6, <2>1, <2>3
    <3>4. a.type = "weather" <=> p.type = "weather"
      BY <3>1
    <3>5. outOfRange(a) <=> outOfRange(p)
      BY <3>2, <3>3, <3>4, Zenon DEF outOfRange
    <3> QED
      BY <3>2, <3>5
  <2>6. PICK target, wait : target = storedTarget(p) /\ wait = ParseDuration(c.cooldown)
    OBVIOUS
  <2>7. PICK condition : condition = [a.condition EXCEPT !.target = storedTarget(a),
                                        !.edge = IF a.condition.edge = None THEN TRUE ELSE a.condition.edge,
                                        !.cooldown = ParseDuration(a.condition.cooldown)]
    OBVIOUS
  <2>8. condition = [c EXCEPT !.target = target, !.cooldown = wait] /\ condition.cooldown = wait
    <3>1. condition = [a.condition EXCEPT !.target = target, !.edge = c.edge, !.cooldown = wait]
      BY <2>3, <2>4, <2>5, <2>6, <2>7
    <3>2. a.condition = c \/ a.condition = [c EXCEPT !.edge = None]
      BY <2>2
    <3>3. PICK operator, old, percent, new, spelled :
            /\ operator = c.operator /\ old = c.target /\ percent = c.percent /\ new = c.edge
            /\ spelled = c.cooldown
      OBVIOUS
    <3>4. c = [operator |-> operator, target |-> old, percent |-> percent, edge |-> new, cooldown |-> spelled]
      BY <3>3, ConditionFacts
    <3>5. PICK edge, d : edge = a.condition.edge /\ d = a.condition
      OBVIOUS
    <3>6. d = [operator |-> operator, target |-> old, percent |-> percent, edge |-> edge, cooldown |-> spelled]
      BY <3>2, <3>4, <3>5
    <3>7. condition = [d EXCEPT !.target = target, !.edge = new, !.cooldown = wait]
      BY <3>1, <3>3, <3>5
    <3>8. condition = [operator |-> operator, target |-> target, percent |-> percent, edge |-> new, cooldown |-> wait]
      BY <3>6, <3>7
    <3>9. PICK clear : clear = c
      OBVIOUS
    <3>10. clear = [operator |-> operator, target |-> old, percent |-> percent, edge |-> new, cooldown |-> spelled]
      BY <3>4, <3>9
    <3>11. PICK meant : meant = [clear EXCEPT !.target = target, !.cooldown = wait]
      OBVIOUS
    <3>12. meant = [operator |-> operator, target |-> target, percent |-> percent, edge |-> new, cooldown |-> wait]
      BY <3>10, <3>11
    <3> QED
      BY <3>8, <3>9, <3>11, <3>12
  <2>9. ~outOfRange(p) /\ wait \in Nat /\ Valid(condition)
    <3>1. [p.condition EXCEPT !.target = storedTarget(p), !.cooldown = ParseDuration(@)] = condition
      BY <2>1, <2>6, <2>8
    <3> QED
      BY <1>6, <2>1, <2>6, <3>1 DEF Clear
  <2>10. condition.cooldown # None
    <3>1. None \notin Nat
      BY TextSizes
    <3> QED
      BY <2>8, <2>9, <3>1
  <2>11. mapToResult(a) =
          [kind |-> a.kind, trigger |-> inferredTrigger(a), type |-> inferredType(a), params |-> p.params,
           condition |-> condition, cron |-> a.cron, fireAt |-> a.fireAt, lead |-> parseLeadTime(a.lead),
           topN |-> clampTopN(a.topN), confidence |-> a.confidence]
    <3>1. ~(a.condition # None /\ (outOfRange(a) \/ condition.cooldown = None \/ ~Valid(condition)))
      BY <2>5, <2>9, <2>10
    <3>2. (IF a.condition = None THEN None
           ELSE [a.condition EXCEPT !.target = storedTarget(a), !.edge = IF @ = None THEN TRUE ELSE @,
                                    !.cooldown = ParseDuration(@)]) = condition
      BY <2>3, <2>7
    <3> QED
      BY <1>3, <1>4, <3>1, <3>2 DEF mapToResult
  <2>12. (IF p.condition = None THEN None
          ELSE [p.condition EXCEPT !.target = storedTarget(p), !.cooldown = ParseDuration(@)]) = condition
    BY <1>6, <2>1, <2>6, <2>8
  <2> QED
    BY <2>11, <2>12 DEF Meaning
<1> QED
  BY <1>5, <1>6

\* What a model may do to an answer.
LEMMA SloppyParts ==
  ASSUME NEW p, Answer(p), NEW a \in Sloppy(p)
  PROVE  /\ a.kind = p.kind /\ a.cron = p.cron /\ a.fireAt = p.fireAt /\ a.lead = p.lead /\ a.topN = p.topN
         /\ \/ a.trigger = p.trigger /\ a.type = p.type
            \/ a.trigger = "none" /\ a.type = p.type /\ a.condition = p.condition
            \/ a.trigger = p.trigger /\ a.type = "none" /\ p.type \in {"price", "tv_program"}
         /\ \/ a.params = p.params
            \/ /\ p.type \in {"price", "rss"} /\ a.params = p.params \ Param(p.params, "url")
               /\ a.message = (CHOOSE q \in Param(p.params, "url") : TRUE)[2]
         /\ \/ a.condition = p.condition
            \/ p.condition # None /\ p.condition.edge /\ a.condition = [p.condition EXCEPT !.edge = None]
<1>1. {"kind", "trigger", "type", "params", "condition", "cron", "fireAt", "lead", "topN", "message", "confidence"} \subseteq DOMAIN p
  BY DEF Answer
<1>2. PICK params, message, condition :
        /\ params = p.params \ Param(p.params, "url")
        /\ message = (CHOOSE q \in Param(p.params, "url") : TRUE)[2]
        /\ condition = [p.condition EXCEPT !.edge = None]
  OBVIOUS
<1>3. \/ a = p \/ a = [p EXCEPT !.trigger = "none"] \/ a = [p EXCEPT !.confidence = 40]
      \/ p.type \in {"price", "tv_program"} /\ a = [p EXCEPT !.type = "none"]
      \/ p.type \in {"price", "rss"} /\ a = [p EXCEPT !.params = params, !.message = message]
      \/ p.condition # None /\ p.condition.edge /\ a = [p EXCEPT !.condition = condition]
  BY <1>2 DEF Sloppy
<1>4. CASE a = p
  BY <1>4
<1>5. CASE a = [p EXCEPT !.trigger = "none"]
  BY <1>1, <1>5
<1>6. CASE a = [p EXCEPT !.confidence = 40]
  BY <1>1, <1>6
<1>7. CASE p.type \in {"price", "tv_program"} /\ a = [p EXCEPT !.type = "none"]
  BY <1>1, <1>7
<1>8. CASE p.type \in {"price", "rss"} /\ a = [p EXCEPT !.params = params, !.message = message]
  <2>1. /\ a.kind = p.kind /\ a.cron = p.cron /\ a.fireAt = p.fireAt /\ a.lead = p.lead /\ a.topN = p.topN
        /\ a.trigger = p.trigger /\ a.type = p.type /\ a.condition = p.condition
        /\ a.params = params /\ a.message = message
    BY <1>1, <1>8
  <2> QED
    BY <1>2, <1>8, <2>1
<1>9. CASE p.condition # None /\ p.condition.edge /\ a = [p EXCEPT !.condition = condition]
  <2>1. /\ a.kind = p.kind /\ a.cron = p.cron /\ a.fireAt = p.fireAt /\ a.lead = p.lead /\ a.topN = p.topN
        /\ a.trigger = p.trigger /\ a.type = p.type /\ a.params = p.params /\ a.condition = condition
    BY <1>1, <1>9
  <2> QED
    BY <1>2, <1>9, <2>1
<1> QED
  BY <1>3, <1>4, <1>5, <1>6, <1>7, <1>8, <1>9

\* Whatever of a clear answer is forgotten, it means the same.
LEMMA SloppyMeans ==
  ASSUME NEW p, Answer(p), Clear(p), NEW a \in Sloppy(p)
  PROVE  [mapToResult(a) EXCEPT !.confidence = 0] = Meaning(p)
<1>1. PICK type, trigger, condition : type = p.type /\ trigger = p.trigger /\ condition = p.condition
  OBVIOUS
<1>2. type \in {"price", "exchange_rate", "tv_program", "rss", "weather", "recurring", "absolute"}
  BY <1>1 DEF Clear
<1>3. trigger = TriggerOf(type, condition)
  BY <1>1 DEF Clear
<1>4. \/ a.trigger = trigger /\ a.type = type
      \/ a.trigger = "none" /\ a.type = type /\ a.condition = condition
      \/ a.trigger = trigger /\ a.type = "none" /\ type \in {"price", "tv_program"}
  BY <1>1, SloppyParts
<1>5. inferredType(a) = type
  BY <1>2, <1>3, <1>4 DEF inferredType, TriggerOf
<1>6. inferredTrigger(a) = trigger
  <2>1. CASE a.trigger = trigger /\ trigger # "none"
    BY <2>1 DEF inferredTrigger
  <2>2. CASE a.trigger = trigger /\ trigger = "none"
    <3>1. type \in {"recurring", "absolute"} /\ a.type = type
      BY <1>2, <1>3, <1>4, <2>2 DEF TriggerOf
    <3> QED
      BY <2>2, <3>1 DEF inferredTrigger
  <2>3. CASE a.trigger = "none" /\ a.type = type /\ a.condition = condition
    BY <1>2, <1>3, <2>3 DEF inferredTrigger, TriggerOf
  <2> QED
    BY <1>4, <2>1, <2>2, <2>3
<1>7. a.type = p.type \/ (a.type = "none" /\ p.type \notin {"weather", "exchange_rate"})
  BY <1>1, <1>4
<1>8. inferredTrigger(a) = p.trigger /\ inferredType(a) = p.type
  BY <1>1, <1>5, <1>6
<1>9. a.kind = p.kind /\ a.cron = p.cron /\ a.fireAt = p.fireAt /\ a.lead = p.lead /\ a.topN = p.topN
  BY SloppyParts
<1>10. \/ a.params = p.params
       \/ /\ p.type \in {"price", "rss"} /\ a.params = p.params \ Param(p.params, "url")
          /\ a.message = (CHOOSE q \in Param(p.params, "url") : TRUE)[2]
  BY SloppyParts
<1>11. \/ a.condition = p.condition
       \/ p.condition # None /\ p.condition.edge /\ a.condition = [p.condition EXCEPT !.edge = None]
  BY SloppyParts
<1> QED
  BY <1>7, <1>8, <1>9, <1>10, <1>11, AnswerMeans

\* Nor does it matter in which unit it leaves a lead time.
LEMMA AnswersMean ==
  ASSUME NEW t, NEW p, p = Prescribed(t), Answer(p), Clear(p),
         p.lead # None => parseLeadTime(t.show.lead) = parseLeadTime(p.lead),
         NEW a \in Answers(t)
  PROVE  [mapToResult(a) EXCEPT !.confidence = 0] = Meaning(p)
<1>1. a \in Sloppy(p) \/ (p.lead # None /\ a = [p EXCEPT !.lead = t.show.lead])
  BY DEF Answers
<1>2. CASE a \in Sloppy(p)
  BY <1>2, SloppyMeans
<1>3. CASE p.lead # None /\ a = [p EXCEPT !.lead = t.show.lead]
  <2>1. PICK lead : lead = t.show.lead /\ a = [p EXCEPT !.lead = lead]
    BY <1>3
  <2>2. {"kind", "trigger", "type", "params", "condition", "cron", "fireAt", "lead", "topN", "message", "confidence"} \subseteq DOMAIN p
    BY DEF Answer
  <2>3. /\ a.kind = p.kind /\ a.cron = p.cron /\ a.fireAt = p.fireAt /\ a.topN = p.topN /\ a.lead = lead
        /\ a.trigger = p.trigger /\ a.type = p.type /\ a.params = p.params /\ a.condition = p.condition
    BY <2>1, <2>2
  <2>4. parseLeadTime(a.lead) = parseLeadTime(p.lead)
    BY <1>3, <2>1, <2>3
  <2>5. p.type \in {"price", "exchange_rate", "tv_program", "rss", "weather", "recurring", "absolute"}
        /\ p.trigger = TriggerOf(p.type, p.condition)
    BY DEF Clear
  <2>6. inferredType(a) = p.type
    BY <2>3, <2>5 DEF inferredType
  <2>7. inferredTrigger(a) = p.trigger
    BY <2>3, <2>5 DEF inferredTrigger, TriggerOf
  <2> QED
    BY <2>3, <2>4, <2>6, <2>7, AnswerMeans
<1> QED
  BY <1>1, <1>2, <1>3

(***************************************************************************)
(* What the prompt asks for and what a pattern makes, kind by kind.        *)
(***************************************************************************)
Level(operator, target, edge, cooldown) ==
  [operator |-> operator, target |-> target, percent |-> None, edge |-> edge, cooldown |-> cooldown]
Targeted(c, target) == [c EXCEPT !.target = target, !.cooldown = ParseDuration(@)]
Result(kind, trigger, type, params, condition, cron, fireAt, lead, topN, confidence) ==
  [kind |-> kind, trigger |-> trigger, type |-> type, params |-> params, condition |-> condition,
   cron |-> cron, fireAt |-> fireAt, lead |-> lead, topN |-> topN, confidence |-> confidence]
Doubted(r) == [r EXCEPT !.confidence = 0]


ToldAs(kind, trigger, type, params, condition, cron, fireAt, lead, topN) ==
  [kind |-> kind, trigger |-> trigger, type |-> type, params |-> params, condition |-> condition,
   cron |-> cron, fireAt |-> fireAt, lead |-> lead, topN |-> topN, message |-> <<>>, confidence |-> 90]
Stored(kind, trigger, type, params, condition, cron, fireAt, lead, topN) ==
  [kind |-> kind, trigger |-> trigger, type |-> type, params |-> params, condition |-> condition,
   cron |-> cron, fireAt |-> fireAt, lead |-> lead, topN |-> topN, confidence |-> 0]
\* The two parsers agree on a text.
Alike(t, pattern) ==
  Prescribed(t) # Unsaid /\ \A a \in Answers(t) :
    Doubted(mapToResult(a)) = Doubted(pattern)

LEMMA LevelIsTargeted ==
  ASSUME NEW operator, NEW target, NEW edge, NEW spelled, NEW stored
  PROVE  Targeted(Level(operator, target, edge, spelled), stored) =
           Level(operator, stored, edge, ParseDuration(spelled))
<1>1. PICK c, wait : c = Level(operator, target, edge, spelled) /\ wait = ParseDuration(spelled)
  OBVIOUS
<1>2. c.cooldown = spelled
  BY <1>1 DEF Level
<1>3. PICK d : d = [c EXCEPT !.target = stored, !.cooldown = wait]
  OBVIOUS
<1>4. c = [operator |-> operator, target |-> target, percent |-> None, edge |-> edge, cooldown |-> spelled]
  BY <1>1 DEF Level
<1>5. d = [operator |-> operator, target |-> stored, percent |-> None, edge |-> edge, cooldown |-> wait]
  BY <1>3, <1>4
<1>6. Targeted(c, stored) = d
  BY <1>1, <1>2, <1>3 DEF Targeted
<1> QED
  BY <1>1, <1>5, <1>6 DEF Level

LEMMA ResultIsStored ==
  ASSUME NEW kind, NEW trigger, NEW type, NEW params, NEW condition, NEW cron, NEW fireAt, NEW lead, NEW topN,
         NEW confidence
  PROVE  Doubted(Result(kind, trigger, type, params, condition, cron, fireAt, lead, topN, confidence)) =
           Stored(kind, trigger, type, params, condition, cron, fireAt, lead, topN)
BY DEF Result, Doubted, Stored

\* What is not spelled is no lead time and no cooldown, and an hour is a unit.
LEMMA NothingSpelled == parseLeadTime(None) = 0 /\ ParseDuration(None) = 0
BY DEF parseLeadTime, ParseDuration

\* An answer without a condition.
LEMMA Unconditional ==
  ASSUME NEW t, NEW pattern, NEW kind, NEW trigger, NEW type, NEW params, NEW cron, NEW fireAt, NEW spelled, NEW lead,
         NEW topN,
         Prescribed(t) = ToldAs(kind, trigger, type, params, None, cron, fireAt, spelled, topN),
         type \in {"tv_program", "rss", "weather", "recurring", "absolute"},
         trigger = TriggerOf(type, None),
         type = "rss" => \E links : params = {<<"url", links>>} /\ links # <<>>,
         type = "weather" => fireAt = None \/ <<"day", "tomorrow">> \notin params,
         clampTopN(topN) = topN,
         parseLeadTime(spelled) = lead, spelled # None => parseLeadTime(t.show.lead) = lead,
         Doubted(pattern) = Stored(kind, trigger, type, params, None, cron, fireAt, lead, topN)
  PROVE  Alike(t, pattern)
<1>1. PICK p : p = Prescribed(t)
  OBVIOUS
<1>2. p = ToldAs(kind, trigger, type, params, None, cron, fireAt, spelled, topN)
  BY <1>1
<1>3. /\ p.kind = kind /\ p.trigger = trigger /\ p.type = type /\ p.params = params /\ p.condition = None
      /\ p.cron = cron /\ p.fireAt = fireAt /\ p.lead = spelled /\ p.topN = topN
  BY <1>2 DEF ToldAs
<1>4. Answer(p)
  BY <1>2 DEF Answer, ToldAs
<1>5. Clear(p)
  BY <1>3 DEF Clear
<1>6. Meaning(p) = Stored(kind, trigger, type, params, None, cron, fireAt, lead, topN)
  BY <1>3 DEF Meaning, Stored
<1>7. \A a \in Answers(t) : Doubted(mapToResult(a)) = Meaning(p)
  BY <1>1, <1>3, <1>4, <1>5, AnswersMean DEF Doubted
<1>8. p # Unsaid
  <2>1. Unsaid.type = "none"
    BY DEF Unsaid, said
  <2> QED
    BY <1>3, <2>1
<1> QED
  BY <1>1, <1>6, <1>7, <1>8, Zenon DEF Alike

\* An answer with one.
LEMMA Conditional ==
  ASSUME NEW t, NEW pattern, NEW type, NEW params, NEW condition, NEW stored, NEW cron,
         Prescribed(t) = ToldAs("conditional", "threshold", type, params, condition, cron, None, None, 0),
         type \in {"price", "exchange_rate", "weather"},
         type = "price" => \E link : params = {<<"url", <<link>>>>},
         condition \in Conditions, ParseDuration(condition.cooldown) \in Nat,
         Valid(Targeted(condition, stored)),
         ~outOfRange(Prescribed(t)), storedTarget(Prescribed(t)) = stored,
         Doubted(pattern) =
           Stored("conditional", "threshold", type, params, Targeted(condition, stored), cron, None, 0, 0)
  PROVE  Alike(t, pattern)
<1>1. PICK p : p = Prescribed(t)
  OBVIOUS
<1>2. p = ToldAs("conditional", "threshold", type, params, condition, cron, None, None, 0)
  BY <1>1
<1>3. /\ p.kind = "conditional" /\ p.trigger = "threshold" /\ p.type = type /\ p.params = params
      /\ p.condition = condition /\ p.cron = cron /\ p.fireAt = None /\ p.lead = None /\ p.topN = 0
  BY <1>2 DEF ToldAs
<1>4. Answer(p)
  BY <1>2 DEF Answer, ToldAs
<1>5. condition # None /\ ~outOfRange(p) /\ storedTarget(p) = stored
  BY <1>1, ConditionFacts
<1>6. Clear(p)
  <2>1. p.trigger = TriggerOf(p.type, p.condition)
    BY <1>3, <1>5 DEF TriggerOf
  <2>2. p.type \in {"price", "rss"} =>
          \E links : p.params = {<<"url", links>>} /\ links # <<>> /\ (p.type = "price" => links = <<links[1]>>)
    <3>1. SUFFICES ASSUME type = "price"
                   PROVE  \E links : params = {<<"url", links>>} /\ links # <<>> /\ links = <<links[1]>>
      BY <1>3
    <3>2. PICK link : params = {<<"url", <<link>>>>}
      BY <3>1
    <3>3. <<link>> # <<>> /\ <<link>> = << <<link>>[1] >>
      OBVIOUS
    <3> QED
      BY <3>2, <3>3
  <2>3. [p.condition EXCEPT !.target = storedTarget(p), !.cooldown = ParseDuration(@)] = Targeted(condition, stored)
    BY <1>3, <1>5 DEF Targeted
  <2> QED
    BY <1>3, <1>5, <2>1, <2>2, <2>3 DEF Clear
<1>7. Meaning(p) =
        Stored("conditional", "threshold", type, params, Targeted(condition, stored), cron, None, 0, 0)
  <2>1. clampTopN(0) = 0
    BY DEF clampTopN
  <2>2. PICK conditionStored : conditionStored = Targeted(condition, stored)
    OBVIOUS
  <2>3. (IF p.condition = None THEN None
         ELSE [p.condition EXCEPT !.target = storedTarget(p), !.cooldown = ParseDuration(@)]) = conditionStored
    BY <1>3, <1>5, <2>2 DEF Targeted
  <2> QED
    BY <1>3, <2>1, <2>2, <2>3, NothingSpelled DEF Meaning, Stored
<1>8. \A a \in Answers(t) : Doubted(mapToResult(a)) = Meaning(p)
  BY <1>1, <1>3, <1>4, <1>6, AnswersMean DEF Doubted
<1>9. p # Unsaid
  <2>1. Unsaid.type = "none"
    BY DEF Unsaid, said
  <2> QED
    BY <1>3, <2>1
<1> QED
  BY <1>1, <1>7, <1>8, <1>9, Zenon DEF Alike

\* The two lemmas, of a pattern that is given field by field.
LEMMA PlainAlike ==
  ASSUME NEW t, NEW pattern, NEW kind, NEW trigger, NEW type, NEW params, NEW cron, NEW fireAt, NEW spelled, NEW lead,
         NEW topN, NEW confidence,
         Prescribed(t) = ToldAs(kind, trigger, type, params, None, cron, fireAt, spelled, topN),
         pattern = Result(kind, trigger, type, params, None, cron, fireAt, lead, topN, confidence),
         type \in {"tv_program", "rss", "weather", "recurring", "absolute"},
         trigger = TriggerOf(type, None),
         type = "rss" => \E links : params = {<<"url", links>>} /\ links # <<>>,
         type = "weather" => fireAt = None \/ <<"day", "tomorrow">> \notin params,
         clampTopN(topN) = topN,
         parseLeadTime(spelled) = lead, spelled # None => parseLeadTime(t.show.lead) = lead
  PROVE  Alike(t, pattern)
<1>1. Doubted(pattern) = Stored(kind, trigger, type, params, None, cron, fireAt, lead, topN)
  BY ResultIsStored
<1> QED
  BY <1>1, Unconditional, Zenon

LEMMA LevelAlike ==
  ASSUME NEW t, NEW pattern, NEW type, NEW params, NEW operator, NEW target, NEW edge, NEW spelled, NEW cooldown \in Nat,
         NEW stored, NEW cron, NEW confidence,
         Prescribed(t) = ToldAs("conditional", "threshold", type, params, Level(operator, target, edge, spelled),
                              cron, None, None, 0),
         pattern = Result("conditional", "threshold", type, params, Level(operator, stored, edge, cooldown),
                          cron, None, 0, 0, confidence),
         type \in {"price", "exchange_rate", "weather"},
         type = "price" => \E link : params = {<<"url", <<link>>>>},
         Level(operator, target, edge, spelled) \in Conditions, ParseDuration(spelled) = cooldown,
         operator # "changed_pct", edge \/ cooldown > 0,
         ~outOfRange(Prescribed(t)), storedTarget(Prescribed(t)) = stored
  PROVE  Alike(t, pattern)
<1>1. PICK c : c = Level(operator, target, edge, spelled)
  OBVIOUS
<1>2. c.cooldown = spelled
  BY <1>1 DEF Level
<1>3. Targeted(c, stored) = Level(operator, stored, edge, cooldown)
  BY <1>1, LevelIsTargeted
<1>4. Doubted(pattern) =
        Stored("conditional", "threshold", type, params, Level(operator, stored, edge, cooldown), cron, None, 0, 0)
  BY ResultIsStored
<1>5. Doubted(pattern) = Stored("conditional", "threshold", type, params, Targeted(c, stored), cron, None, 0, 0)
  BY <1>3, <1>4, Zenon
<1>6. Prescribed(t) = ToldAs("conditional", "threshold", type, params, c, cron, None, None, 0)
  BY <1>1, Zenon
<1>7. c \in Conditions /\ ParseDuration(c.cooldown) \in Nat
  BY <1>1, <1>2
<1>8. Valid(Targeted(c, stored))
  <2>1. PICK v : v = Level(operator, stored, edge, cooldown)
    OBVIOUS
  <2>2. v.operator = operator /\ v.edge = edge /\ v.cooldown = cooldown
    BY <2>1 DEF Level
  <2>3. Valid(v)
    BY <2>2 DEF Valid
  <2> QED
    BY <1>3, <2>1, <2>3, Zenon
<1> QED
  BY <1>5, <1>6, <1>7, <1>8, Conditional, Zenon

\* A whole number is stored alike by both, also when it is below zero.
LEMMA WholeIsScaledAlike ==
  ASSUME NEW amount \in Nat, amount % 100 = 0, NEW scale \in Nat \ {0}, scaledDecimal(amount, scale) # None,
         NEW move \in {"above", "below", "rises", "falls"}
  PROVE  /\ Signed(move, amount \div 100) \in Int
         /\ scaledInt(Signed(move, amount \div 100), scale) = Signed(move, scaledDecimal(amount, scale))
         /\ scaledInt(Signed(move, amount \div 100), scale) \in Int
<1>1. PICK q \in Nat : amount = 100 * q /\ q = amount \div 100
  OBVIOUS
<1>2. MaxInt64 \in Nat
  BY TextsAssumption
<1>3. PICK z \in Nat : z = q * scale /\ amount * scale = 100 * z /\ (-q) * scale = -z
  <2>1. q * scale \in Nat
    BY <1>1
  <2>2. amount * scale = 100 * (q * scale)
    BY <1>1
  <2>3. (-q) * scale = -(q * scale)
    BY <1>1
  <2> QED
    BY <2>1, <2>2, <2>3
<1>4. z <= MaxInt64 /\ scaledDecimal(amount, scale) = z
  <2>1. ~(100 * z > MaxInt64 * 100)
    BY <1>3 DEF scaledDecimal
  <2>2. (100 * z + 50) \div 100 = z
    OBVIOUS
  <2> QED
    BY <1>2, <1>3, <2>1, <2>2 DEF scaledDecimal
<1>5. q <= MaxInt64 \div scale
  <2>1. PICK m \in Nat, r \in 0..scale - 1 : m = MaxInt64 \div scale /\ MaxInt64 = scale * m + r
    BY <1>2
  <2>2. CASE q > m
    <3>1. q >= m + 1
      BY <2>2
    <3>2. q * scale >= (m + 1) * scale
      BY <3>1
    <3>3. (m + 1) * scale = scale * m + scale
      OBVIOUS
    <3> QED
      BY <1>3, <1>4, <2>1, <3>2, <3>3
  <2> QED
    BY <2>1, <2>2
<1>6. PICK top \in Nat : top = MaxInt64 \div scale
  BY <1>2
<1>7. scaledInt(q, scale) = z
  BY <1>3, <1>5, <1>6 DEF scaledInt
<1>8. scaledInt(-q, scale) = -z
  BY <1>3, <1>5, <1>6 DEF scaledInt
<1> QED
  BY <1>1, <1>4, <1>7, <1>8 DEF Signed

LEMMA RateAlike ==
  ASSUME NEW t \in Texts, t.rate # None, parseExchangeRate(t) # Empty, t.rate.amount % 100 = 0
  PROVE  Alike(t, parseExchangeRate(t))
<1>1. PICK move, amount, asset, cron :
        move = t.rate.move /\ amount = t.rate.amount /\ asset = t.rate.asset /\ cron = parsePollCron(t)
  OBVIOUS
<1>2. move \in {"above", "below", "rises", "falls"} /\ amount \in Nat /\ amount % 100 = 0
  BY <1>1, TextsAssumption
<1>3. PICK metric, scale :
        /\ metric = IF move \in {"rises", "falls"} THEN "change_24h" ELSE "rate"
        /\ scale = IF metric = "rate" THEN RateScale ELSE PercentScale
  OBVIOUS
<1>4. scale \in Nat \ {0} /\ metric \in {"rate", "change_24h"}
  BY <1>3, TextsAssumption
<1>5. PICK target : target = scaledDecimal(amount, scale)
  OBVIOUS
<1>6. target # None /\ parseExchangeRate(t) = rateAlert(asset, metric, move, target, t)
  BY <1>1, <1>3, <1>5 DEF parseExchangeRate
<1>7. PICK value : value = Signed(move, amount \div 100)
  OBVIOUS
<1>8. value \in Int /\ scaledInt(value, scale) = Signed(move, target) /\ Signed(move, target) \in Int
  BY <1>2, <1>4, <1>5, <1>6, <1>7, WholeIsScaledAlike
<1>9. PICK operator, params, yes :
        /\ operator = Operator(move) /\ yes = TRUE
        /\ params = {<<"asset_type", AssetType(asset)>>, <<"base", asset>>, <<"metric", metric>>}
  OBVIOUS
<1>10. operator \in {"gt", "lt", "gte", "lte"}
  BY <1>2, <1>9 DEF Operator
<1>11. PICK condition : condition = [operator |-> operator, target |-> value, percent |-> None, edge |-> yes,
                                    cooldown |-> None]
  OBVIOUS
<1>12. condition \in Conditions /\ condition.edge /\ condition.target = value
  BY <1>8, <1>9, <1>10, <1>11 DEF Conditions, Operators
<1>13. Prescribed(t) = ToldAs("conditional", "threshold", "exchange_rate", params, condition, cron, None, None, 0)
  <2>1. level(operator, value) = condition
    BY <1>9, <1>11 DEF level
  <2>2. params = {<<"asset_type", AssetType(t.rate.asset)>>, <<"base", t.rate.asset>>,
                  <<"metric", IF t.rate.move \in {"rises", "falls"} THEN "change_24h" ELSE "rate">>}
    BY <1>1, <1>3, <1>9
  <2>3. Prescribed(t) =
          [said("threshold", "exchange_rate",
                {<<"asset_type", AssetType(t.rate.asset)>>, <<"base", t.rate.asset>>,
                 <<"metric", IF t.rate.move \in {"rises", "falls"} THEN "change_24h" ELSE "rate">>}) EXCEPT
             !.condition = level(Operator(t.rate.move), Signed(t.rate.move, t.rate.amount \div 100)),
             !.cron = parsePollCron(t)]
    BY DEF Prescribed
  <2>4. Prescribed(t) = [said("threshold", "exchange_rate", params) EXCEPT !.condition = condition, !.cron = cron]
    BY <1>1, <1>7, <1>9, <2>1, <2>2, <2>3
  <2> QED
    BY <2>4 DEF said, ToldAs
<1>14. PICK p : p = Prescribed(t)
  OBVIOUS
<1>15. p.type = "exchange_rate" /\ p.params = params /\ p.condition = condition
  BY <1>13, <1>14 DEF ToldAs
<1>16. storedTarget(p) = Signed(move, target)
  <2>1. <<"metric", "change_24h">> \in params <=> metric = "change_24h"
    BY <1>9
  <2>2. value # None
    BY <1>8, TextsAssumption
  <2>3. storedTarget(p) = scaledInt(value, IF <<"metric", "change_24h">> \in params THEN PercentScale ELSE RateScale)
    BY <1>12, <1>15, <2>2 DEF storedTarget
  <2>4. (IF <<"metric", "change_24h">> \in params THEN PercentScale ELSE RateScale) = scale
    BY <1>3, <1>4, <2>1
  <2> QED
    BY <1>8, <2>3, <2>4
<1>17. ~outOfRange(p)
  <2>1. storedTarget(p) # None
    BY <1>8, <1>16, TextsAssumption
  <2> QED
    BY <1>15, <2>1 DEF outOfRange
<1>18. parseExchangeRate(t) =
         Result("conditional", "threshold", "exchange_rate", params, Level(operator, Signed(move, target), yes, 0),
                cron, None, 0, 0, 98)
  <2>1. PICK kept : kept = Level(operator, Signed(move, target), yes, 0)
    OBVIOUS
  <2>2. PICK r : r = parseExchangeRate(t)
    OBVIOUS
  <2>3. r = [Empty EXCEPT !.kind = "conditional", !.trigger = "threshold", !.type = "exchange_rate",
               !.params = params, !.condition = kept, !.cron = cron, !.confidence = 98]
    BY <1>1, <1>6, <1>9, <2>1, <2>2 DEF rateAlert, Level
  <2>4. r = Result("conditional", "threshold", "exchange_rate", params, kept, cron, None, 0, 0, 98)
    BY <2>3 DEF Empty, Result
  <2> QED
    BY <2>1, <2>2, <2>4
<1>19. condition = Level(operator, value, yes, None)
  BY <1>11 DEF Level
<1>20. ~outOfRange(Prescribed(t)) /\ storedTarget(Prescribed(t)) = Signed(move, target)
  BY <1>14, <1>16, <1>17, Zenon
<1>21. "exchange_rate" \in {"price", "exchange_rate", "weather"} /\ "exchange_rate" # "price"
  OBVIOUS
<1>22. /\ Level(operator, value, yes, None) \in Conditions /\ (yes \/ 0 > 0)
       /\ operator # "changed_pct" /\ ParseDuration(None) = 0 /\ 0 \in Nat
  BY <1>9, <1>10, <1>12, <1>19, NothingSpelled
<1>23. Prescribed(t) = ToldAs("conditional", "threshold", "exchange_rate", params, Level(operator, value, yes, None), cron, None, None, 0)
  BY <1>13, <1>19, Zenon
<1> QED
  BY <1>18, <1>20, <1>21, <1>22, <1>23, LevelAlike, ZenonT(60)

\* The names of the days, and the place if one was said.
Place(t) == IF t.city = None THEN {} ELSE {<<"location", t.city>>}

\* An hour times what a day or a week has of them is a day or a week.
LEMMA HoursOf ==
  ASSUME NEW d \in SpelledDurations
  PROVE  /\ InHours(d) \in SpelledDurations /\ InHours(d).unit \in {"minute", "hour"}
         /\ Lasts(InHours(d)) = Lasts(d) /\ Lasts(d) \in Nat
<1>1. /\ HourLength \in Nat /\ HourLength > 0 /\ DayLength \in Nat /\ d.n \in Nat
      /\ d.unit \in {"minute", "hour", "day", "week"} /\ DayLength % HourLength = 0
  BY TextSizes DEF SpelledDurations, Units
<1>2. PICK hours : hours = DayLength \div HourLength
  OBVIOUS
<1>3. hours \in Nat /\ DayLength = HourLength * hours
  BY <1>1, <1>2
<1>4. CASE d.unit = "minute"
  <2>1. InHours(d) = d /\ Lasts(d) = (d.n * HourLength) \div 60
    BY <1>4 DEF InHours, Lasts
  <2>2. d.n * HourLength \in Nat
    BY <1>1
  <2>3. (d.n * HourLength) \div 60 \in Nat
    BY <2>2
  <2> QED
    BY <1>4, <2>1, <2>3
<1>5. ASSUME NEW k \in Nat, UnitLength(d.unit) = HourLength * k, d.unit # "minute"
      PROVE  /\ InHours(d) \in SpelledDurations /\ InHours(d).unit \in {"minute", "hour"}
             /\ Lasts(InHours(d)) = Lasts(d) /\ Lasts(d) \in Nat
  <2>1. 0 \in 0..HourLength - 1 /\ k \in Int
    BY <1>1
  <2>2. (HourLength * k + 0) \div HourLength = k
    BY <1>1, <2>1, Rest
  <2>3. (HourLength * k) \div HourLength = k
    <3>1. HourLength * k + 0 = HourLength * k
      BY <1>1, <1>5
    <3> QED
      BY <2>2, <3>1
  <2>4. PICK n : n = d.n * k
    OBVIOUS
  <2>5. n \in Nat
    BY <1>1, <2>4
  <2>6. InHours(d) = [n |-> n, unit |-> "hour"]
    BY <1>5, <2>3, <2>4 DEF InHours
  <2>7. Lasts(InHours(d)) = n * HourLength
    BY <2>6 DEF Lasts, UnitLength
  <2>8. Lasts(d) = d.n * (HourLength * k)
    BY <1>5 DEF Lasts
  <2>9. (d.n * k) * HourLength = d.n * (HourLength * k) /\ n * HourLength \in Nat
    BY <1>1, <2>5
  <2>10. InHours(d) \in SpelledDurations
    BY <2>5, <2>6 DEF SpelledDurations, Units
  <2> QED
    BY <2>4, <2>6, <2>7, <2>8, <2>9, <2>10
<1>6. CASE d.unit = "hour"
  <2>1. UnitLength(d.unit) = HourLength * 1
    BY <1>1, <1>6 DEF UnitLength
  <2> QED
    BY <1>5, <1>6, <2>1
<1>7. CASE d.unit = "day"
  <2>1. UnitLength(d.unit) = HourLength * hours
    BY <1>3, <1>7 DEF UnitLength
  <2> QED
    BY <1>3, <1>5, <1>7, <2>1
<1>8. CASE d.unit = "week"
  <2>1. UnitLength(d.unit) = 7 * DayLength
    BY <1>8 DEF UnitLength
  <2>2. UnitLength(d.unit) = HourLength * (7 * hours) /\ 7 * hours \in Nat
    BY <1>1, <1>3, <2>1
  <2> QED
    BY <1>5, <1>8, <2>2
<1> QED
  BY <1>1, <1>4, <1>6, <1>7, <1>8

\* Go reads a day that is spelled in hours.
LEMMA DayInHours ==
  OnceADay \in SpelledDurations /\ OnceADay # None /\ ParseDuration(OnceADay) = DayLength
<1>1. PICK day : day = [n |-> 1, unit |-> "day"]
  OBVIOUS
<1>2. day \in SpelledDurations
  BY <1>1 DEF SpelledDurations, Units
<1>3. Lasts(day) = DayLength
  BY <1>1, TextSizes DEF Lasts, UnitLength
<1>4. OnceADay = InHours(day)
  BY <1>1 DEF OnceADay
<1>5. OnceADay \in SpelledDurations /\ OnceADay.unit \in {"minute", "hour"} /\ Lasts(OnceADay) = DayLength
  BY <1>2, <1>3, <1>4, HoursOf
<1>6. OnceADay # None
  BY <1>5, TextsAssumption DEF SpelledDurations
<1> QED
  BY <1>5, <1>6 DEF ParseDuration

LEMMA DegreesAlike ==
  ASSUME NEW t \in Texts, t.rate = None, t.limit # None, t.words \cap {"night", "temperature"} # {},
         t.limit.degrees \in -100..100
  PROVE  Alike(t, parseWeather(t)) /\ parseWeather(t) # Empty
<1>1. PICK degrees, operator, day, more, place, no :
        /\ degrees = t.limit.degrees /\ operator = Operator(t.limit.move) /\ no = FALSE
        /\ day = (IF "night" \in t.words THEN "next_night" ELSE "today")
        /\ more = (IF "night" \in t.words THEN {<<"period", "night">>} ELSE {})
        /\ place = Place(t)
  OBVIOUS
<1>2. operator \in {"gt", "lt", "gte", "lte"} /\ degrees \in -100..100 /\ no \in BOOLEAN
  BY <1>1, TextsAssumption DEF Operator
<1>3. DayLength \in Nat /\ DayLength > 0 /\ degrees # None
  BY <1>2, TextSizes
<1>0. PICK spelled : spelled = OnceADay
  OBVIOUS
<1>a. spelled \in SpelledDurations /\ ParseDuration(spelled) = DayLength
  BY <1>0, DayInHours
<1>4. PICK params : params = {<<"day", day>>} \cup more \cup place
  OBVIOUS
<1>5. PICK p : p = Prescribed(t)
  OBVIOUS
<1>6. p = ToldAs("conditional", "threshold", "weather", params, Level(operator, degrees, no, spelled), None, None, None, 0)
  <2>1. p = [said("threshold", "weather",
              IF "night" \in t.words THEN WeatherParams(t, "next_night", {<<"period", "night">>})
              ELSE WeatherParams(t, "today", {})) EXCEPT
           !.condition = [level(Operator(t.limit.move), t.limit.degrees) EXCEPT !.edge = FALSE, !.cooldown = OnceADay]]
    BY <1>5 DEF Prescribed
  <2>2. (IF "night" \in t.words THEN WeatherParams(t, "next_night", {<<"period", "night">>})
         ELSE WeatherParams(t, "today", {})) = params
    BY <1>1, <1>4 DEF WeatherParams, Place
  <2>3. PICK c : c = [level(operator, degrees) EXCEPT !.edge = no, !.cooldown = spelled]
    OBVIOUS
  <2>4. c = Level(operator, degrees, no, spelled)
    BY <2>3 DEF level, Level
  <2>5. p = [said("threshold", "weather", params) EXCEPT !.condition = c]
    BY <1>0, <1>1, <2>1, <2>2, <2>3
  <2>6. p = ToldAs("conditional", "threshold", "weather", params, c, None, None, None, 0)
    BY <2>5 DEF said, ToldAs
  <2> QED
    BY <2>4, <2>6
<1>7. PICK r : r = parseWeather(t)
  OBVIOUS
<1>8. r = Result("conditional", "threshold", "weather", params, Level(operator, degrees * 10, no, DayLength), None, None, 0, 0, 96)
  <2>1. PICK c : c = [operator |-> operator, target |-> degrees * 10, percent |-> None, edge |-> no, cooldown |-> DayLength]
    OBVIOUS
  <2>2. PICK trigger : trigger = "threshold"
    OBVIOUS
  <2>3. PICK alert : alert = weather(t, "threshold", day)
    OBVIOUS
  <2>4. alert = Result("conditional", "threshold", "weather", {<<"day", day>>} \cup place, None, None, None, 0, 0, 96)
    BY <1>1, <2>3 DEF weather, Empty, Result, Place
  <2>5. r = [alert EXCEPT !.params = @ \cup more, !.condition = c]
    BY <1>1, <1>2, <1>7, <2>1, <2>3 DEF parseWeather
  <2>6. r = Result("conditional", "threshold", "weather", ({<<"day", day>>} \cup place) \cup more, c, None, None, 0, 0, 96)
    BY <2>4, <2>5 DEF Result
  <2>7. ({<<"day", day>>} \cup place) \cup more = params
    BY <1>4
  <2> QED
    BY <2>1, <2>6, <2>7 DEF Level
<1>9. p.type = "weather" /\ p.condition = Level(operator, degrees, no, spelled)
  BY <1>6 DEF ToldAs
<1>10. p.condition.target = degrees
  BY <1>9 DEF Level
<1>11. storedTarget(p) = degrees * 10
  BY <1>3, <1>9, <1>10 DEF storedTarget
<1>12. ~outOfRange(p)
  <2>1. degrees * 10 # None
    <3>1. degrees * 10 \in Int
      BY <1>2
    <3>2. None \notin Int
      BY TextsAssumption
    <3> QED
      BY <3>1, <3>2
  <2> QED
    BY <1>2, <1>9, <1>10, <1>11, <2>1 DEF outOfRange
<1>13. Level(operator, degrees, no, spelled) \in Conditions /\ operator # "changed_pct"
  BY <1>2, <1>a DEF Level, Conditions, Operators
<1>14. no \/ DayLength > 0
  BY <1>3
<1>15. "weather" \in {"price", "exchange_rate", "weather"} /\ "weather" # "price"
  OBVIOUS
<1>16. ~outOfRange(Prescribed(t)) /\ storedTarget(Prescribed(t)) = degrees * 10
  BY <1>5, <1>11, <1>12, Zenon
<1>17. Alike(t, r)
  BY <1>3, <1>5, <1>6, <1>8, <1>a, <1>13, <1>14, <1>15, <1>16, LevelAlike, ZenonT(60)
<1>18. r # Empty
  BY <1>8 DEF Result, Empty
<1> QED
  BY <1>7, <1>17, <1>18

LEMMA ForecastPlain ==
  ASSUME NEW t, NEW pattern, NEW params, NEW cron, NEW fireAt, NEW confidence,
         Prescribed(t) = ToldAs("conditional", "anchor", "weather", params, None, cron, fireAt, None, 0),
         pattern = Result("conditional", "anchor", "weather", params, None, cron, fireAt, 0, 0, confidence),
         fireAt = None \/ <<"day", "tomorrow">> \notin params
  PROVE  Alike(t, pattern)
<1>1. PICK type : type = "weather"
  OBVIOUS
<1>2. /\ "anchor" = TriggerOf(type, None) /\ clampTopN(0) = 0
      /\ parseLeadTime(None) = 0 /\ (None # None => parseLeadTime(t.show.lead) = 0)
  BY <1>1, NothingSpelled DEF TriggerOf, clampTopN
<1>3. type \in {"tv_program", "rss", "weather", "recurring", "absolute"} /\ type # "rss"
  BY <1>1
<1>4. /\ Prescribed(t) = ToldAs("conditional", "anchor", type, params, None, cron, fireAt, None, 0)
      /\ pattern = Result("conditional", "anchor", type, params, None, cron, fireAt, 0, 0, confidence)
  BY <1>1
<1>5. /\ type = "rss" => \E links : params = {<<"url", links>>} /\ links # <<>>
      /\ type = "weather" => fireAt = None \/ <<"day", "tomorrow">> \notin params
  BY <1>3
<1> QED
  BY <1>2, <1>3, <1>4, <1>5, PlainAlike, ZenonT(60)

LEMMA RainAlike ==
  ASSUME NEW t \in Texts, t.rate = None, {"rain", "if"} \subseteq t.words,
         ~(t.limit # None /\ t.words \cap {"night", "temperature"} # {})
  PROVE  Alike(t, parseWeather(t)) /\ parseWeather(t) # Empty
<1>1. PICK day, fireAt, place, rain :
        /\ day = Day(DayMeant(t)) /\ fireAt = DayMeant(t) * DayLength + TimeOr(t, Morning) /\ place = Place(t)
        /\ rain = {<<"condition", "rain">>}
  OBVIOUS
<1>2. PICK params : params = {<<"day", day>>} \cup rain \cup place
  OBVIOUS
<1>3. PICK p, r : p = Prescribed(t) /\ r = parseWeather(t)
  OBVIOUS
<1>4. p = ToldAs("conditional", "anchor", "weather", params, None, None, fireAt, None, 0)
  <2>1. p = [said("anchor", "weather", WeatherParams(t, Day(DayMeant(t)), {<<"condition", "rain">>})) EXCEPT
               !.fireAt = DayMeant(t) * DayLength + TimeOr(t, Morning)]
    BY <1>3 DEF Prescribed
  <2>2. WeatherParams(t, Day(DayMeant(t)), {<<"condition", "rain">>}) = params
    BY <1>1, <1>2 DEF WeatherParams, Place
  <2>3. p = [said("anchor", "weather", params) EXCEPT !.fireAt = fireAt]
    BY <1>1, <2>1, <2>2
  <2> QED
    BY <2>3 DEF said, ToldAs
<1>5. r = Result("conditional", "anchor", "weather", params, None, None, fireAt, 0, 0, 97)
  <2>1. PICK plain : plain = weather(t, "anchor", day)
    OBVIOUS
  <2>2. plain = Result("conditional", "anchor", "weather", {<<"day", day>>} \cup place, None, None, None, 0, 0, 96)
    BY <1>1, <2>1 DEF weather, Empty, Result, Place
  <2>3. r = [plain EXCEPT !.params = @ \cup rain, !.confidence = 97, !.fireAt = fireAt]
    BY <1>1, <1>3, <2>1 DEF parseWeather
  <2>4. r = Result("conditional", "anchor", "weather", ({<<"day", day>>} \cup place) \cup rain, None, None, fireAt, 0, 0, 97)
    BY <2>2, <2>3 DEF Result
  <2>5. ({<<"day", day>>} \cup place) \cup rain = params
    BY <1>2
  <2> QED
    BY <2>4, <2>5
<1>6. <<"day", "tomorrow">> \notin params
  <2>1. day # "tomorrow"
    BY <1>1 DEF Day
  <2> QED
    BY <1>1, <1>2, <2>1 DEF Place
<1>7. Alike(t, r)
  BY <1>3, <1>4, <1>5, <1>6, ForecastPlain, Zenon
<1>8. r # Empty
  BY <1>5 DEF Result, Empty
<1> QED
  BY <1>3, <1>7, <1>8

LEMMA ForecastAlike ==
  ASSUME NEW t \in Texts, t.rate = None, "forecast" \in t.words, ~({"rain", "if"} \subseteq t.words),
         ~(t.limit # None /\ t.words \cap {"night", "temperature"} # {})
  PROVE  Alike(t, parseWeather(t)) /\ parseWeather(t) # Empty
<1>1. PICK day, cron, place :
        /\ day = (IF "tomorrow" \in t.words THEN "tomorrow" ELSE "today") /\ place = Place(t)
        /\ cron = (IF "every morning" \in t.words THEN At(TimeOr(t, Morning)) ELSE None)
  OBVIOUS
<1>2. PICK params : params = {<<"day", day>>} \cup place
  OBVIOUS
<1>3. PICK p, r : p = Prescribed(t) /\ r = parseWeather(t)
  OBVIOUS
<1>4. p = ToldAs("conditional", "anchor", "weather", params, None, cron, None, None, 0)
  <2>1. p = [said("anchor", "weather",
                  WeatherParams(t, IF "tomorrow" \in t.words THEN "tomorrow" ELSE "today", {})) EXCEPT
               !.cron = IF "every morning" \in t.words THEN At(TimeOr(t, Morning)) ELSE None]
    BY <1>3 DEF Prescribed
  <2>2. WeatherParams(t, IF "tomorrow" \in t.words THEN "tomorrow" ELSE "today", {}) = params
    BY <1>1, <1>2 DEF WeatherParams, Place
  <2>3. p = [said("anchor", "weather", params) EXCEPT !.cron = cron]
    BY <1>1, <2>1, <2>2
  <2> QED
    BY <2>3 DEF said, ToldAs
<1>5. r = Result("conditional", "anchor", "weather", params, None, cron, None, 0, 0, 96)
  <2>1. PICK plain : plain = weather(t, "anchor", day)
    OBVIOUS
  <2>2. plain = Result("conditional", "anchor", "weather", params, None, None, None, 0, 0, 96)
    BY <1>1, <1>2, <2>1 DEF weather, Empty, Result, Place
  <2>3. r = [plain EXCEPT !.cron = cron]
    BY <1>1, <1>3, <2>1 DEF parseWeather
  <2> QED
    BY <2>2, <2>3 DEF Result
<1>6. Alike(t, r)
  <2>1. PICK fireAt : fireAt = None
    OBVIOUS
  <2>2. /\ Prescribed(t) = ToldAs("conditional", "anchor", "weather", params, None, cron, fireAt, None, 0)
        /\ r = Result("conditional", "anchor", "weather", params, None, cron, fireAt, 0, 0, 96)
    BY <1>3, <1>4, <1>5, <2>1, Zenon
  <2>3. fireAt = None \/ <<"day", "tomorrow">> \notin params
    BY <2>1
  <2> QED
    BY <2>2, <2>3, ForecastPlain, Zenon
<1>7. r # Empty
  BY <1>5 DEF Result, Empty
<1> QED
  BY <1>3, <1>6, <1>7

\* Nothing is said of the weather.
Dry(t) ==
  /\ ~(t.limit # None /\ t.words \cap {"night", "temperature"} # {})
  /\ ~({"rain", "if"} \subseteq t.words) /\ "forecast" \notin t.words

LEMMA DryHasNoWeather ==
  ASSUME NEW t, Dry(t)
  PROVE  parseWeather(t) = Empty
<1>1. ~(t.limit # None /\ ("night" \in t.words \/ "temperature" \in t.words))
  BY DEF Dry
<1> QED
  BY <1>1 DEF Dry, parseWeather

LEMMA ShowAlike ==
  ASSUME NEW t \in Texts, t.rate = None, Dry(t), t.show # None
  PROVE  Alike(t, parseTVAnchor(t)) /\ parseTVAnchor(t) # Empty
<1>1. PICK params, d, spelled, lead :
        /\ params = {<<"title", t.show.title>>, <<"channel", t.show.channel>>}
        /\ d = t.show.lead /\ spelled = InHours(d) /\ lead = Lasts(d)
  OBVIOUS
<1>0. /\ d \in SpelledDurations /\ d # None /\ spelled \in SpelledDurations /\ spelled # None
      /\ Lasts(spelled) = lead /\ d.unit \in Units /\ spelled.unit \in Units
  <2>1. d \in SpelledDurations
    BY <1>1, TextsAssumption DEF SpelledDurations
  <2>2. spelled \in SpelledDurations /\ Lasts(spelled) = lead
    BY <1>1, <2>1, HoursOf
  <2> QED
    BY <2>1, <2>2, TextsAssumption DEF SpelledDurations
<1>9. parseLeadTime(spelled) = lead /\ (spelled # None => parseLeadTime(t.show.lead) = lead)
  BY <1>0, <1>1 DEF parseLeadTime
<1>2. PICK p, r : p = Prescribed(t) /\ r = parseTVAnchor(t)
  OBVIOUS
<1>3. p = ToldAs("conditional", "anchor", "tv_program", params, None, None, None, spelled, 0)
  <2>1. p = [said("anchor", "tv_program", {<<"title", t.show.title>>, <<"channel", t.show.channel>>}) EXCEPT
               !.lead = InHours(t.show.lead)]
    BY <1>2 DEF Prescribed, Dry
  <2>2. p = [said("anchor", "tv_program", params) EXCEPT !.lead = spelled]
    BY <1>1, <2>1
  <2> QED
    BY <2>2 DEF said, ToldAs
<1>4. r = Result("conditional", "anchor", "tv_program", params, None, None, None, lead, 0, 98)
  <2>1. r = [Empty EXCEPT !.kind = "conditional", !.trigger = "anchor", !.type = "tv_program",
               !.params = params, !.lead = lead, !.confidence = 98]
    BY <1>1, <1>2 DEF parseTVAnchor
  <2> QED
    BY <2>1 DEF Empty, Result
<1>5. "anchor" = TriggerOf("tv_program", None) /\ clampTopN(0) = 0
  BY DEF TriggerOf, clampTopN
<1>6. "tv_program" \in {"tv_program", "rss", "weather", "recurring", "absolute"} /\ "tv_program" # "rss" /\ "tv_program" # "weather"
  OBVIOUS
<1>7. Alike(t, r)
  BY <1>2, <1>3, <1>4, <1>5, <1>6, <1>9, PlainAlike, ZenonT(60)
<1>8. r # Empty
  BY <1>4 DEF Result, Empty
<1> QED
  BY <1>2, <1>7, <1>8

LEMMA PriceAlike ==
  ASSUME NEW t \in Texts, t.rate = None, Dry(t), t.show = None, t.urls # <<>>, t.price = None,
         "cheaper" \in t.words
  PROVE  Alike(t, parsePriceDrop(t)) /\ parsePriceDrop(t) # Empty
<1>1. PICK link, cron, yes : link = t.urls[1] /\ cron = parsePollCron(t) /\ yes = TRUE
  OBVIOUS
<1>2. PICK params : params = {<<"url", <<link>>>>}
  OBVIOUS
<1>3. PICK p, r, c : p = Prescribed(t) /\ r = parsePriceDrop(t) /\ c = Level("lt", None, yes, None)
  OBVIOUS
<1>4. p = ToldAs("conditional", "threshold", "price", params, c, cron, None, None, 0)
  <2>1. p = [said("threshold", "price", {<<"url", <<t.urls[1]>>>>}) EXCEPT
               !.condition = level("lt", None), !.cron = parsePollCron(t)]
    BY <1>3 DEF Prescribed, Dry
  <2>2. level("lt", None) = c
    BY <1>1, <1>3 DEF level, Level
  <2>3. p = [said("threshold", "price", params) EXCEPT !.condition = c, !.cron = cron]
    BY <1>1, <1>2, <2>1, <2>2
  <2> QED
    BY <2>3 DEF said, ToldAs
<1>0. PICK kept : kept = Level("lt", None, yes, 0)
  OBVIOUS
<1>5. r = Result("conditional", "threshold", "price", params, kept, cron, None, 0, 0, 98)
  <2>1. kept = [operator |-> "lt", target |-> None, percent |-> None, edge |-> TRUE, cooldown |-> 0]
    BY <1>0, <1>1 DEF Level
  <2>2. r = [Empty EXCEPT !.kind = "conditional", !.trigger = "threshold", !.type = "price",
               !.params = params, !.condition = kept, !.cron = cron, !.confidence = 98]
    BY <1>1, <1>2, <1>3, <2>1 DEF parsePriceDrop
  <2> QED
    BY <2>2 DEF Empty, Result
<1>6. p.type = "price" /\ p.condition = c /\ p.condition.target = None
  <2>1. p.type = "price" /\ p.condition = c
    BY <1>4 DEF ToldAs
  <2>2. c.target = None
    BY <1>3 DEF Level
  <2> QED
    BY <2>1, <2>2
<1>7. storedTarget(p) = None /\ ~outOfRange(p)
  BY <1>6 DEF storedTarget, outOfRange
<1>8. PICK type, operator, zero, target, spelled :
        type = "price" /\ operator = "lt" /\ zero = 0 /\ target = None /\ spelled = None
  OBVIOUS
<1>9. /\ Level(operator, target, yes, spelled) \in Conditions /\ (yes \/ zero > 0) /\ operator # "changed_pct"
      /\ ParseDuration(spelled) = zero /\ zero \in Nat
  BY <1>1, <1>8, NothingSpelled DEF Level, Conditions, Operators
<1>10. ~outOfRange(Prescribed(t)) /\ storedTarget(Prescribed(t)) = target
  BY <1>3, <1>7, <1>8, Zenon
<1>11. Prescribed(t) = ToldAs("conditional", "threshold", type, params, Level(operator, target, yes, spelled), cron, None, None, 0)
  BY <1>3, <1>4, <1>8
<1>12. r = Result("conditional", "threshold", type, params, Level(operator, target, yes, zero), cron, None, 0, 0, 98)
  BY <1>0, <1>5, <1>8
<1>15. type \in {"price", "exchange_rate", "weather"}
  BY <1>8
<1>16. type = "price" => \E link_1 : params = {<<"url", <<link_1>>>>}
  BY <1>2
<1>13. Alike(t, r)
  BY <1>9, <1>10, <1>11, <1>12, <1>15, <1>16, LevelAlike, ZenonT(60)
<1>14. r # Empty
  BY <1>5 DEF Result, Empty
<1> QED
  BY <1>3, <1>13, <1>14


LEMMA DigestAlike ==
  ASSUME NEW t \in Texts, t.rate = None, Dry(t), t.show = None, t.urls # <<>>, t.price = None, "cheaper" \notin t.words,
         "digest" \in t.words, Len(t.urls) <= rssDigestMaxURLs,
         parseRSSDigest(t).type = "rss" => t.time # None /\ t.count <= maxTopN
  PROVE  Alike(t, parseRSSDigest(t)) /\ parseRSSDigest(t) # Empty
<1>1. PICK params, cron, topN : params = {<<"url", t.urls>>} /\ cron = At(t.time) /\ topN = t.count
  OBVIOUS
<1>2. PICK p, r : p = Prescribed(t) /\ r = parseRSSDigest(t)
  OBVIOUS
<1>3. p = ToldAs("conditional", "digest", "rss", params, None, cron, None, None, topN)
  <2>1. p = [said("digest", "rss", {<<"url", t.urls>>}) EXCEPT !.cron = At(t.time), !.topN = t.count]
    BY <1>2 DEF Prescribed, Dry
  <2>2. p = [said("digest", "rss", params) EXCEPT !.cron = cron, !.topN = topN]
    BY <1>1, <2>1
  <2> QED
    BY <2>2 DEF said, ToldAs
<1>4. firstURLs(t.urls) = t.urls
  <2>1. PICK urls, S : urls = t.urls /\ urls \in Seq(S)
    BY TextsAssumption
  <2>2. Len(urls) <= 10
    BY <2>1 DEF rssDigestMaxURLs
  <2>3. SubSeq(urls, 1, Len(urls)) = urls
    BY <2>1
  <2>4. firstURLs(urls) = urls
    BY <2>2, <2>3 DEF firstURLs, rssDigestMaxURLs
  <2> QED
    BY <2>1, <2>4
<1>5. PICK at : at = At(TimeOr(t, Morning + 1))
  OBVIOUS
<1>6. r = Result("conditional", "digest", "rss", params, None, at, None, 0, topN, 97)
  <2>1. r = [Empty EXCEPT !.kind = "conditional", !.trigger = "digest", !.type = "rss",
               !.params = params, !.cron = at, !.topN = topN, !.confidence = 97]
    BY <1>1, <1>2, <1>4, <1>5 DEF parseRSSDigest
  <2> QED
    BY <2>1 DEF Empty, Result
<1>7. t.time # None /\ t.count <= 20
  <2>1. r.type = "rss"
    BY <1>6 DEF Result
  <2> QED
    BY <1>2, <2>1 DEF maxTopN
<1>8. at = cron
  BY <1>1, <1>5, <1>7 DEF TimeOr
<1>9. clampTopN(topN) = topN
  <2>1. t.count \in Nat
    BY TextsAssumption
  <2> QED
    BY <1>1, <1>7, <2>1 DEF clampTopN, maxTopN, minTopN
<1>10. /\ "digest" = TriggerOf("rss", None)
       /\ parseLeadTime(None) = 0 /\ (None # None => parseLeadTime(t.show.lead) = 0)
  BY NothingSpelled DEF TriggerOf
<1>11. "rss" \in {"tv_program", "rss", "weather", "recurring", "absolute"} /\ "rss" # "weather"
  OBVIOUS
<1>12. "rss" = "rss" => \E links : params = {<<"url", links>>} /\ links # <<>>
  BY <1>1
<1>13. Alike(t, r)
  BY <1>2, <1>3, <1>6, <1>8, <1>9, <1>10, <1>11, <1>12, PlainAlike, ZenonT(60)
<1>14. r # Empty
  BY <1>6 DEF Result, Empty
<1> QED
  BY <1>2, <1>13, <1>14

\* Nothing is said of a page or a feed.
Unlinked(t) == t.urls = <<>> \/ (t.price = None /\ "cheaper" \notin t.words /\ "digest" \notin t.words)

LEMMA RecurringAlike ==
  ASSUME NEW t \in Texts, t.rate = None, Dry(t), t.show = None, Unlinked(t), t.repeat # None
  PROVE  Alike(t, parseRecurring(t)) /\ parseRecurring(t) # Empty
<1>1. PICK cron : cron = [every |-> t.repeat.period, at |-> t.repeat.at]
  OBVIOUS
<1>0. PICK nothing : nothing = {}
  OBVIOUS
<1>2. PICK p, r : p = Prescribed(t) /\ r = parseRecurring(t)
  OBVIOUS
<1>3. p = ToldAs("recurring", "none", "recurring", nothing, None, cron, None, None, 0)
  <2>1. p = [said("none", "recurring", {}) EXCEPT !.kind = "recurring",
               !.cron = [every |-> t.repeat.period, at |-> t.repeat.at]]
    BY <1>2 DEF Prescribed, Dry, Unlinked
  <2>2. p = [said("none", "recurring", nothing) EXCEPT !.kind = "recurring", !.cron = cron]
    BY <1>0, <1>1, <2>1
  <2> QED
    BY <2>2 DEF said, ToldAs
<1>4. r = Result("recurring", "none", "recurring", nothing, None, cron, None, 0, 0, 95)
  <2>1. r = [Empty EXCEPT !.kind = "recurring", !.type = "recurring", !.cron = cron, !.confidence = 95]
    BY <1>1, <1>2 DEF parseRecurring
  <2>2. r = Result("recurring", "none", "recurring", {}, None, cron, None, 0, 0, 95)
    BY <2>1 DEF Empty, Result
  <2> QED
    BY <1>0, <2>2, Zenon
<1>5. /\ "none" = TriggerOf("recurring", None) /\ clampTopN(0) = 0
      /\ parseLeadTime(None) = 0 /\ (None # None => parseLeadTime(t.show.lead) = 0)
  BY NothingSpelled DEF TriggerOf, clampTopN
<1>6. "recurring" \in {"tv_program", "rss", "weather", "recurring", "absolute"} /\ "recurring" # "rss" /\ "recurring" # "weather"
  OBVIOUS
<1>7. Alike(t, r)
  BY <1>2, <1>3, <1>4, <1>5, <1>6, PlainAlike, ZenonT(60)
<1>8. r # Empty
  BY <1>4 DEF Result, Empty
<1> QED
  BY <1>2, <1>7, <1>8

LEMMA AbsoluteAlike ==
  ASSUME NEW t \in Texts, t.rate = None, Dry(t), t.show = None, Unlinked(t), t.repeat = None, t.once # None
  PROVE  Alike(t, parseAbsolute(t))
<1>1. PICK fireAt : fireAt = dayMeant(t.once) * DayLength + t.once.at
  OBVIOUS
<1>0. PICK nothing : nothing = {}
  OBVIOUS
<1>2. PICK p, r : p = Prescribed(t) /\ r = parseAbsolute(t)
  OBVIOUS
<1>3. p = ToldAs("absolute", "none", "absolute", nothing, None, None, fireAt, None, 0)
  <2>1. p = [said("none", "absolute", {}) EXCEPT !.kind = "absolute",
               !.fireAt = dayMeant(t.once) * DayLength + t.once.at]
    BY <1>2 DEF Prescribed, Dry, Unlinked
  <2>2. p = [said("none", "absolute", nothing) EXCEPT !.kind = "absolute", !.fireAt = fireAt]
    BY <1>0, <1>1, <2>1
  <2> QED
    BY <2>2 DEF said, ToldAs
<1>4. r = Result("absolute", "none", "absolute", nothing, None, None, fireAt, 0, 0, 95)
  <2>1. r = [Empty EXCEPT !.kind = "absolute", !.type = "absolute", !.fireAt = fireAt, !.confidence = 95]
    BY <1>1, <1>2 DEF parseAbsolute
  <2>2. r = Result("absolute", "none", "absolute", {}, None, None, fireAt, 0, 0, 95)
    BY <2>1 DEF Empty, Result
  <2> QED
    BY <1>0, <2>2, Zenon
<1>5. /\ "none" = TriggerOf("absolute", None) /\ clampTopN(0) = 0
      /\ parseLeadTime(None) = 0 /\ (None # None => parseLeadTime(t.show.lead) = 0)
  BY NothingSpelled DEF TriggerOf, clampTopN
<1>6. "absolute" \in {"tv_program", "rss", "weather", "recurring", "absolute"} /\ "absolute" # "rss" /\ "absolute" # "weather"
  OBVIOUS
<1>7. Alike(t, r)
  BY <1>2, <1>3, <1>4, <1>5, <1>6, PlainAlike, ZenonT(60)
<1> QED
  BY <1>2, <1>7

LEMMA AllAlike ==
  ASSUME NEW t \in Texts, FastPath(t) # Empty,
         t.rate = None \/ (t.rate.amount % 100 = 0 /\ parseExchangeRate(t) # Empty),
         t.limit # None /\ t.words \cap {"night", "temperature"} # {} => t.limit.degrees \in -100..100,
         t.urls # <<>> => t.price = None, Len(t.urls) <= rssDigestMaxURLs,
         FastPath(t).type = "rss" => t.time # None /\ t.count <= maxTopN
  PROVE  Alike(t, FastPath(t))
<1>1. CASE t.rate # None
  <2>1. FastPath(t) = parseExchangeRate(t)
    BY <1>1, FirstPattern, Zenon
  <2>2. Alike(t, parseExchangeRate(t))
    BY <1>1, RateAlike
  <2> QED
    BY <2>1, <2>2, Zenon
<1>2. CASE t.rate = None
  <2>1. parseExchangeRate(t) = Empty
    BY <1>2 DEF parseExchangeRate
  <2>2. CASE ~Dry(t)
    <3>1. Alike(t, parseWeather(t)) /\ parseWeather(t) # Empty
      <4>1. CASE t.limit # None /\ t.words \cap {"night", "temperature"} # {}
        BY <1>2, <4>1, DegreesAlike
      <4>2. CASE ~(t.limit # None /\ t.words \cap {"night", "temperature"} # {}) /\ {"rain", "if"} \subseteq t.words
        BY <1>2, <4>2, RainAlike
      <4>3. CASE /\ ~(t.limit # None /\ t.words \cap {"night", "temperature"} # {})
                 /\ ~({"rain", "if"} \subseteq t.words) /\ "forecast" \in t.words
        BY <1>2, <4>3, ForecastAlike
      <4> QED
        BY <2>2, <4>1, <4>2, <4>3 DEF Dry
    <3> QED
      BY <2>1, <3>1, FirstPattern, Zenon
  <2>3. CASE Dry(t)
    <3>1. parseWeather(t) = Empty
      BY <2>3, DryHasNoWeather
    <3>2. CASE t.show # None
      <4>1. Alike(t, parseTVAnchor(t)) /\ parseTVAnchor(t) # Empty
        BY <1>2, <2>3, <3>2, ShowAlike
      <4> QED
        BY <2>1, <3>1, <4>1, FirstPattern, Zenon
    <3>3. CASE t.show = None
      <4>1. parseTVAnchor(t) = Empty
        BY <3>3 DEF parseTVAnchor
      <4>2. CASE t.urls # <<>> /\ "cheaper" \in t.words
        <5>1. Alike(t, parsePriceDrop(t)) /\ parsePriceDrop(t) # Empty
          BY <1>2, <2>3, <3>3, <4>2, PriceAlike
        <5> QED
          BY <2>1, <3>1, <4>1, <5>1, FirstPattern, Zenon
      <4>3. CASE ~(t.urls # <<>> /\ "cheaper" \in t.words)
        <5>1. parsePriceDrop(t) = Empty
          BY <4>3 DEF parsePriceDrop
        <5>2. CASE t.urls # <<>> /\ "digest" \in t.words
          <6>1. parseRSSDigest(t) # Empty => FastPath(t) = parseRSSDigest(t)
            BY <2>1, <3>1, <4>1, <5>1, FirstPattern, Zenon
          <6>2. parseRSSDigest(t) # Empty /\ parseRSSDigest(t).type = "rss"
            BY <5>2 DEF parseRSSDigest, Empty
          <6>3. Alike(t, parseRSSDigest(t))
            BY <1>2, <2>3, <3>3, <4>3, <5>2, <6>1, <6>2, DigestAlike
          <6> QED
            BY <6>1, <6>2, <6>3, Zenon
        <5>3. CASE ~(t.urls # <<>> /\ "digest" \in t.words)
          <6>1. parseRSSDigest(t) = Empty /\ Unlinked(t)
            BY <4>3, <5>3 DEF parseRSSDigest, Unlinked
          <6>2. CASE t.repeat # None
            <7>1. Alike(t, parseRecurring(t)) /\ parseRecurring(t) # Empty
              BY <1>2, <2>3, <3>3, <6>1, <6>2, RecurringAlike
            <7> QED
              BY <2>1, <3>1, <4>1, <5>1, <6>1, <7>1, FirstPattern, Zenon
          <6>3. CASE t.repeat = None
            <7>1. parseRecurring(t) = Empty
              BY <6>3 DEF parseRecurring
            <7>2. FastPath(t) = parseAbsolute(t)
              BY <2>1, <3>1, <4>1, <5>1, <6>1, <7>1, FirstPattern, Zenon
            <7>3. t.once # None
              BY <7>2 DEF parseAbsolute
            <7>4. Alike(t, parseAbsolute(t))
              BY <1>2, <2>3, <3>3, <6>1, <6>3, <7>3, AbsoluteAlike
            <7> QED
              BY <7>2, <7>4, Zenon
          <6> QED
            BY <6>2, <6>3
        <5> QED
          BY <5>2, <5>3
      <4> QED
        BY <4>2, <4>3
    <3> QED
      BY <3>2, <3>3
  <2> QED
    BY <2>2, <2>3
<1> QED
  BY <1>1, <1>2

\* A result keeps its condition, however sure it is.
LEMMA ConditionIsKept ==
  ASSUME NEW r, NEW kept, kept = Doubted(r), "condition" \in DOMAIN kept
  PROVE  r.condition = kept.condition
BY DEF Doubted

\* A condition of a price is stored as it was told.
LEMMA PriceIsStored ==
  ASSUME NEW t, NEW params, NEW link, params = {<<"url", <<link>>>>}, NEW condition \in Conditions, NEW cron,
         Prescribed(t) = ToldAs("conditional", "threshold", "price", params, condition, cron, None, None, 0),
         ParseDuration(condition.cooldown) \in Nat, Valid(Targeted(condition, condition.target)),
         NEW a \in Answers(t)
  PROVE  mapToResult(a).condition = Targeted(condition, condition.target)
<1>1. PICK p, type, stored : p = Prescribed(t) /\ type = "price" /\ stored = condition.target
  OBVIOUS
<1>2. p.type = "price" /\ p.condition = condition
  BY <1>1 DEF ToldAs
<1>3. storedTarget(p) = stored
  BY <1>1, <1>2 DEF storedTarget
<1>4. ~outOfRange(p)
  BY <1>1, <1>2, <1>3 DEF outOfRange
<1>5. PICK pattern :
        pattern = Stored("conditional", "threshold", type, params, Targeted(condition, stored), cron, None, 0, 0)
  OBVIOUS
<1>6. Doubted(pattern) = pattern /\ "condition" \in DOMAIN pattern /\ pattern.condition = Targeted(condition, stored)
  BY <1>5 DEF Stored, Doubted
<1>7. /\ Prescribed(t) = ToldAs("conditional", "threshold", type, params, condition, cron, None, None, 0)
      /\ type \in {"price", "exchange_rate", "weather"}
      /\ type = "price" => \E l : params = {<<"url", <<l>>>>}
  BY <1>1
<1>8. ~outOfRange(Prescribed(t)) /\ storedTarget(Prescribed(t)) = stored
  BY <1>1, <1>3, <1>4, Zenon
<1>9. Doubted(pattern) = Stored("conditional", "threshold", type, params, Targeted(condition, stored), cron, None, 0, 0)
  BY <1>5, <1>6
<1>10. Valid(Targeted(condition, stored))
  BY <1>1
<1>11. Alike(t, pattern)
  BY <1>7, <1>8, <1>9, <1>10, Conditional, ZenonT(60)
<1>12. Doubted(mapToResult(a)) = pattern
  BY <1>6, <1>11 DEF Alike
<1> QED
  BY <1>1, <1>6, <1>12, ConditionIsKept

\* The condition the prompt asks for when a text names an amount.
Priced(rule, amount) ==
  [operator |-> IF rule = "changes" THEN "changed_pct" ELSE "lt",
   target |-> IF rule = "changes" THEN None ELSE amount,
   percent |-> IF rule = "changes" THEN amount ELSE None,
   edge |-> rule # "while below",
   cooldown |-> IF rule = "while below" THEN OnceADay ELSE None]

LEMMA PriceIsAsked ==
  ASSUME NEW t, Prescribed(t).type = "price", t.price # None, t.price.rule \in {"below", "while below", "changes"}
  PROVE  \E link, cron :
           Prescribed(t) = ToldAs("conditional", "threshold", "price", {<<"url", <<link>>>>},
                                  Priced(t.price.rule, t.price.amount), cron, None, None, 0)
<1>1. PICK rule, amount, link, cron :
        rule = t.price.rule /\ amount = t.price.amount /\ link = t.urls[1] /\ cron = parsePollCron(t)
  OBVIOUS
<1>2. PICK priced :
        priced = CASE t.price = None -> level("lt", None)
                   [] t.price # None /\ t.price.rule = "below" -> level("lt", t.price.amount)
                   [] t.price # None /\ t.price.rule = "while below" ->
                        [level("lt", t.price.amount) EXCEPT !.edge = FALSE, !.cooldown = OnceADay]
                   [] t.price # None /\ t.price.rule = "changes" ->
                        [level("changed_pct", None) EXCEPT !.percent = t.price.amount]
  OBVIOUS
<1>3. priced = Priced(rule, amount)
  <2>1. PICK once : once = OnceADay
    OBVIOUS
  <2>2. CASE rule = "below"
    BY <1>1, <1>2, <2>2 DEF level, Priced
  <2>3. CASE rule = "while below"
    <3>1. priced = [level("lt", amount) EXCEPT !.edge = FALSE, !.cooldown = once]
      BY <1>1, <1>2, <2>1, <2>3
    <3> QED
      BY <2>1, <2>3, <3>1 DEF level, Priced
  <2>4. CASE rule = "changes"
    <3>1. priced = [level("changed_pct", None) EXCEPT !.percent = amount]
      BY <1>1, <1>2, <2>4
    <3> QED
      BY <2>4, <3>1 DEF level, Priced
  <2> QED
    BY <1>1, <2>2, <2>3, <2>4
<1>4. Prescribed(t) =
        [said("threshold", "price", {<<"url", <<t.urls[1]>>>>}) EXCEPT !.condition = priced, !.cron = parsePollCron(t)]
  <2>1. /\ t.rate = None
        /\ ~(t.limit # None /\ t.words \cap {"night", "temperature"} # {})
        /\ ~({"rain", "if"} \subseteq t.words)
        /\ "forecast" \notin t.words /\ t.show = None
        /\ t.urls # <<>>
    <3>1. t.rate = None
      BY DEF Prescribed, said
    <3>2. ~(t.limit # None /\ t.words \cap {"night", "temperature"} # {})
      BY <3>1 DEF Prescribed, said
    <3>3. ~({"rain", "if"} \subseteq t.words)
      BY <3>1, <3>2 DEF Prescribed, said
    <3>4. "forecast" \notin t.words
      BY <3>1, <3>2, <3>3 DEF Prescribed, said
    <3>5. t.show = None
      BY <3>1, <3>2, <3>3, <3>4 DEF Prescribed, said
    <3>6. t.urls # <<>>
      BY <3>1, <3>2, <3>3, <3>4, <3>5 DEF Prescribed, said, Unsaid
    <3> QED
      BY <3>1, <3>2, <3>3, <3>4, <3>5, <3>6
  <2> QED
    BY <1>2, <2>1 DEF Prescribed
<1>5. PICK params, p : params = {<<"url", <<link>>>>} /\ p = Prescribed(t)
  OBVIOUS
<1>6. p = [said("threshold", "price", params) EXCEPT !.condition = priced, !.cron = cron]
  BY <1>1, <1>4, <1>5
<1>7. p = ToldAs("conditional", "threshold", "price", params, priced, cron, None, None, 0)
  BY <1>6 DEF said, ToldAs
<1> QED
  BY <1>1, <1>3, <1>5, <1>7

LEMMA CanBeATarget == \A n : n \in Nat => n \in {None} \cup Int
<1>1. \A n : n \in Nat => n \in Int
  OBVIOUS
<1> QED
  BY <1>1, Zenon

LEMMA DayIsLong == DayLength \in Nat /\ DayLength > 0
BY TextSizes

\* It can be stored, and is what the user said.
IsAsSaid(rule, amount, c, stored) ==
  /\ c \in Conditions /\ ParseDuration(c.cooldown) \in Nat /\ Valid(stored)
  /\ IF rule = "changes" THEN stored.operator = "changed_pct" /\ stored.percent = amount
     ELSE stored.operator = "lt" /\ stored.target = amount
  /\ IF rule = "while below" THEN ~stored.edge /\ stored.cooldown = DayLength ELSE stored.edge

LEMMA PricedIsStored ==
  ASSUME NEW rule, rule \in {"below", "while below", "changes"}, NEW amount, amount \in Nat, amount > 0,
         NEW price, price = Priced(rule, amount)
  PROVE  IsAsSaid(rule, amount, price, Targeted(price, price.target))
<1>1. PICK once, yes, no : once = OnceADay /\ yes = TRUE /\ no = FALSE
  OBVIOUS
<1>2. once \in SpelledDurations /\ ParseDuration(once) = DayLength /\ DayLength \in Nat /\ DayLength > 0
  <2>1. once \in SpelledDurations /\ ParseDuration(once) = DayLength
    BY <1>1, DayInHours, Zenon
  <2>2. DayLength \in Nat /\ DayLength > 0
    BY DayIsLong, Zenon
  <2> QED
    BY <2>1, <2>2, Zenon
<1>0. PICK c : c = price /\ c = Priced(rule, amount)
  OBVIOUS
<1>6. PICK stored : stored = Targeted(c, c.target)
  OBVIOUS
<1>3. ASSUME rule = "below" PROVE IsAsSaid(rule, amount, c, stored)
  <2>1. c = [operator |-> "lt", target |-> amount, percent |-> None, edge |-> yes, cooldown |-> None]
    BY <1>0, <1>1, <1>3 DEF Priced
  <2>2. c.cooldown = None /\ c.target = amount /\ ParseDuration(None) = 0
    BY <2>1, NothingSpelled
  <2>3. PICK wait : wait = 0
    OBVIOUS
  <2>4. stored = [c EXCEPT !.target = amount, !.cooldown = wait]
    BY <1>6, <2>2, <2>3 DEF Targeted
  <2>5. stored = [operator |-> "lt", target |-> amount, percent |-> None, edge |-> yes, cooldown |-> wait]
    BY <2>1, <2>4
  <2>6. c \in Conditions
    <3>1. PICK operator, percent, spelled : operator = "lt" /\ percent = None /\ spelled = None
      OBVIOUS
    <3>2. operator \in Operators /\ percent \in {None} \cup Nat /\ spelled \in {None} \cup SpelledDurations
      BY <3>1, Zenon DEF Operators
    <3>4. yes \in BOOLEAN
      BY <1>1
    <3>5. amount \in {None} \cup Int
      BY CanBeATarget, Zenon
    <3>3. c = [operator |-> operator, target |-> amount, percent |-> percent, edge |-> yes, cooldown |-> spelled]
      BY <2>1, <3>1
    <3> QED
      BY <3>2, <3>3, <3>4, <3>5 DEF Conditions
  <2>7. stored.operator = "lt" /\ stored.target = amount /\ stored.edge /\ stored.operator # "changed_pct"
    BY <1>1, <2>5
  <2>8. Valid(stored)
    BY <2>7 DEF Valid
  <2> QED
    BY <1>3, <2>2, <2>6, <2>7, <2>8 DEF IsAsSaid
<1>4. ASSUME rule = "while below" PROVE IsAsSaid(rule, amount, c, stored)
  <2>1. c = [operator |-> "lt", target |-> amount, percent |-> None, edge |-> no, cooldown |-> once]
    BY <1>0, <1>1, <1>4 DEF Priced
  <2>2. c.cooldown = once /\ c.target = amount
    BY <2>1
  <2>3. PICK wait : wait = ParseDuration(once)
    OBVIOUS
  <2>4. stored = [c EXCEPT !.target = amount, !.cooldown = wait]
    BY <1>6, <2>2, <2>3 DEF Targeted
  <2>5. stored = [operator |-> "lt", target |-> amount, percent |-> None, edge |-> no, cooldown |-> wait]
    BY <2>1, <2>4
  <2>6. c \in Conditions
    <3>1. PICK operator, percent : operator = "lt" /\ percent = None
      OBVIOUS
    <3>2. operator \in Operators /\ percent \in {None} \cup Nat /\ once \in {None} \cup SpelledDurations
      BY <1>2, <3>1, Zenon DEF Operators
    <3>4. no \in BOOLEAN
      BY <1>1
    <3>5. amount \in {None} \cup Int
      BY CanBeATarget, Zenon
    <3>3. c = [operator |-> operator, target |-> amount, percent |-> percent, edge |-> no, cooldown |-> once]
      BY <2>1, <3>1
    <3> QED
      BY <3>2, <3>3, <3>4, <3>5 DEF Conditions
  <2>7. /\ stored.operator = "lt" /\ stored.target = amount /\ ~stored.edge /\ stored.operator # "changed_pct"
        /\ stored.cooldown = wait
    BY <1>1, <2>5
  <2>8. wait = DayLength
    BY <1>2, <2>3
  <2>9. Valid(stored)
    BY <1>2, <2>7, <2>8 DEF Valid
  <2> QED
    BY <1>2, <1>4, <2>2, <2>6, <2>7, <2>8, <2>9 DEF IsAsSaid
<1>5. ASSUME rule = "changes" PROVE IsAsSaid(rule, amount, c, stored)
  <2>1. c = [operator |-> "changed_pct", target |-> None, percent |-> amount, edge |-> yes, cooldown |-> None]
    BY <1>0, <1>1, <1>5 DEF Priced
  <2>2. c.cooldown = None /\ c.target = None /\ ParseDuration(None) = 0
    BY <2>1, NothingSpelled
  <2>3. PICK wait : wait = 0
    OBVIOUS
  <2>4. stored = [c EXCEPT !.target = None, !.cooldown = wait]
    BY <1>6, <2>2, <2>3 DEF Targeted
  <2>5. stored = [operator |-> "changed_pct", target |-> None, percent |-> amount, edge |-> yes, cooldown |-> wait]
    BY <2>1, <2>4
  <2>6. c \in Conditions
    BY <1>1, <2>1 DEF Conditions, Operators
  <2>7. stored.operator = "changed_pct" /\ stored.percent = amount /\ stored.edge
    BY <1>1, <2>5
  <2>8. Valid(stored)
    BY <2>7, TextSizes DEF Valid
  <2> QED
    BY <1>5, <2>2, <2>6, <2>7, <2>8 DEF IsAsSaid
<1> QED
  BY <1>0, <1>3, <1>4, <1>5, <1>6, Zenon

LEMMA AmountsAreKept == text \in Texts => AmountIsKept
<1>1. SUFFICES ASSUME text \in Texts, Prescribed(text).type = "price", text.price # None, text.price.amount > 0,
                      NEW a \in Answers(text)
               PROVE  /\ IF text.price.rule = "changes"
                         THEN /\ mapToResult(a).condition.operator = "changed_pct"
                              /\ mapToResult(a).condition.percent = text.price.amount
                         ELSE /\ mapToResult(a).condition.operator = "lt"
                              /\ mapToResult(a).condition.target = text.price.amount
                      /\ IF text.price.rule = "while below"
                         THEN ~mapToResult(a).condition.edge /\ mapToResult(a).condition.cooldown = DayLength
                         ELSE mapToResult(a).condition.edge
  BY DEF AmountIsKept
<1>2. PICK t, rule, amount : t = text /\ rule = text.price.rule /\ amount = text.price.amount
  OBVIOUS
<1>3. rule \in {"below", "while below", "changes"} /\ amount \in Nat /\ amount > 0
  BY <1>1, <1>2, TextsAssumption
<1>4. PICK c, stored : c = Priced(rule, amount) /\ stored = Targeted(c, c.target)
  OBVIOUS
<1>5. PICK link, cron :
        Prescribed(t) = ToldAs("conditional", "threshold", "price", {<<"url", <<link>>>>}, c, cron, None, None, 0)
  BY <1>1, <1>2, <1>3, <1>4, PriceIsAsked
<1>6. PICK params : params = {<<"url", <<link>>>>}
  OBVIOUS
<1>10. IsAsSaid(rule, amount, c, stored)
  BY <1>3, <1>4, PricedIsStored, Zenon
<1>7. /\ c \in Conditions /\ ParseDuration(c.cooldown) \in Nat /\ Valid(stored)
      /\ IF rule = "changes" THEN stored.operator = "changed_pct" /\ stored.percent = amount
         ELSE stored.operator = "lt" /\ stored.target = amount
      /\ IF rule = "while below" THEN ~stored.edge /\ stored.cooldown = DayLength ELSE stored.edge
  BY <1>10 DEF IsAsSaid
<1>8. /\ Prescribed(t) = ToldAs("conditional", "threshold", "price", params, c, cron, None, None, 0)
      /\ Valid(Targeted(c, c.target)) /\ a \in Answers(t)
  BY <1>1, <1>2, <1>4, <1>5, <1>6, <1>7
<1>9. mapToResult(a).condition = stored
  BY <1>4, <1>6, <1>7, <1>8, PriceIsStored
<1> QED
  BY <1>2, <1>7, <1>9

LEMMA TextIsUnderstoodAlike == text \in Texts => UnderstoodAlike
<1>1. ASSUME text \in Texts, FastPath(text) # Empty, Expressible
      PROVE  Alike(text, FastPath(text))
  BY <1>1, AllAlike DEF Expressible
<1> QED
  BY <1>1, AmountsAreKept DEF UnderstoodAlike, Alike, Doubted

\* The patterns and a language model that answers as its prompt asks mean the same
\* by a text, in stored units, whatever the model left to be filled in: the
\* trigger, the type, the links, or whether a condition is told once, and in
\* whichever unit it spells a lead time; except by a text whose amount only the
\* model sees, and that amount is what is stored (FastPath.Parse, mapToResult).
THEOREM TextsAreUnderstoodAlike == RequestSpec => []UnderstoodAlike
<1>1. RequestInit => text \in Texts
  BY DEF RequestInit
<1>2. text \in Texts /\ [RequestNext]_requestVars => (text \in Texts)'
  BY DEF RequestNext, ParseByPattern, ParseByModel, ModelIsSilent, Consider, requestVars
<1>3. text \in Texts => UnderstoodAlike
  BY TextIsUnderstoodAlike
<1> QED
  BY <1>1, <1>2, <1>3, PTL DEF RequestSpec
=============================================================================
